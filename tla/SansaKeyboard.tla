--------------------------- MODULE SansaKeyboard ---------------------------
(***************************************************************************)
(* The buttons and the wheel of the Sansa (mach-sansa/keyboard.c).         *)
(*                                                                         *)
(* keyboard_int turns changes of the GPIO pins into events and puts them   *)
(* in a ring of QLEN slots; processes read the ring through /dev/wheel.    *)
(* The kernel is not preemptive: one process at a time runs inside it and  *)
(* gives way only in schedule(), but the interrupt comes between any two   *)
(* of its accesses and itself runs to the end.  Wheel movement is counted  *)
(* in ikb_current_scroll and becomes an event when a reader is there.      *)
(***************************************************************************)
EXTENDS Integers, Sequences, FiniteSets, FiniteSetsExt

CONSTANTS
    QLEN,          \* slots of ikb_events
    SCROLL_MOD,    \* the distance in an event is kept modulo this (128)
    Buttons,       \* the five buttons, without the hold switch
    HOLD,          \* the hold switch
    Readers,       \* processes that use the device
    None,
    BootPins,      \* buttons that may be down when the driver starts
    MaxChanges,    \* bound: changes of the pins
    MaxWant        \* bound: events that one read asks for

ASSUME KeyboardAssumption ==
    /\ QLEN \in Nat \ {0, 1}
    /\ SCROLL_MOD \in Nat \ {0}
    /\ HOLD \notin Buttons /\ BootPins \subseteq Buttons
    /\ None \notin Readers
    /\ MaxChanges \in Nat /\ MaxWant \in Nat

VARIABLES
    \* the pins, and the two interrupt status registers
    pins, holdPin, wheel, fStat, hStat,
    \* what the interrupt handler remembers of them
    int_btn, hold_button, old_wheel_value, ikb_buttons_pressed,
    \* the ring and the flags it shares with the readers
    ikb_events, ikb_ev_head, ikb_ev_tail, ikb_current_scroll, ikb_reading,
    \* processes: who has the device open, who runs in the kernel and
    \* where, who is inside schedule(), whose state is TASK_INTERRUPTIBLE
    opened, cur, kpc, asleep, waiting,
    \* locals of ikb_read and ikb_push_event; the last event handed out
    want, nonblock, signalled, ev, slot, todo, user,
    \* ghosts: buttons the events handed out say are down, clicks counted
    \* and clicks handed out, ways in which events were lost, pin changes
    told, clicks, toldClicks, loss, changes

hw      == <<pins, holdPin, wheel, fStat, hStat, changes>>
irqVars == <<int_btn, hold_button, old_wheel_value, ikb_buttons_pressed, clicks>>
ring    == <<ikb_events, ikb_ev_head>>
procs   == <<opened, asleep>>
push    == <<ev, slot, todo>>
locals  == <<want, nonblock, signalled>>
given   == <<ikb_ev_tail, user, told, toldClicks>>
vars == <<hw, irqVars, ring, ikb_current_scroll, ikb_reading, procs, cur, kpc,
          waiting, push, locals, given, loss>>

Slots == 0 .. QLEN - 1
Kpcs  == {"none", "scroll", "sign", "negative", "positive", "load", "store",
          "zero", "reading", "set", "test", "sched", "drain", "exit"}
Event == [kind : {"press", "release"}, btns : SUBSET (Buttons \cup {HOLD})]
            \cup [kind : {"scroll"}, dist : Int]
NoEvent == [kind |-> "press", btns |-> {}]
Loss  == {"raced", "overflow", "closed", "wrapped"}

TypeOK ==
    /\ pins \subseteq Buttons /\ holdPin \in BOOLEAN /\ wheel \in 0..3
    /\ fStat \in BOOLEAN /\ hStat \in BOOLEAN
    /\ int_btn \subseteq Buttons /\ hold_button \in BOOLEAN
    /\ old_wheel_value \in 0..3
    /\ ikb_buttons_pressed \subseteq Buttons \cup {HOLD}
    /\ ikb_events \in [Slots -> Event]
    /\ ikb_ev_head \in 0 .. QLEN /\ ikb_ev_tail \in Slots
    /\ ikb_ev_head = QLEN => kpc = "store"
    /\ ikb_current_scroll \in Int /\ ikb_reading \in {0, 1}
    /\ opened \subseteq Readers /\ asleep \subseteq opened
    /\ cur \in opened \cup {None} /\ kpc \in Kpcs
    /\ kpc = "none" <=> cur = None
    /\ waiting \subseteq Readers
    /\ want \in [Readers -> Nat] /\ nonblock \in BOOLEAN
    /\ signalled \subseteq Readers /\ ev \in Event
    /\ slot \in Slots /\ todo \subseteq {"head", "event"}
    /\ user \in Event /\ told \subseteq Buttons \cup {HOLD}
    /\ clicks \in Int /\ toldClicks \in Int
    /\ loss \subseteq Loss /\ changes \in Nat

\* sansakb_init_hw: button_int reads the pins into int_btn and hold_button,
\* but nothing carries its ikb_buttons_pressed_new over: the next interrupt
\* starts from ikb_buttons_pressed again.
Init ==
    /\ pins \in SUBSET BootPins /\ holdPin = FALSE /\ wheel = 0
    /\ fStat = FALSE /\ hStat = FALSE
    /\ int_btn = pins /\ hold_button = holdPin /\ old_wheel_value = wheel
    /\ ikb_buttons_pressed = {}
    /\ ikb_events = [i \in Slots |-> NoEvent]
    /\ ikb_ev_head = 0 /\ ikb_ev_tail = 0
    /\ ikb_current_scroll = 0 /\ ikb_reading = 0
    /\ opened = {} /\ cur = None /\ kpc = "none"
    /\ asleep = {} /\ waiting = {}
    /\ want = [r \in Readers |-> 0] /\ nonblock = FALSE /\ signalled = {}
    /\ ev = NoEvent /\ slot = 0 /\ todo = {}
    /\ user = NoEvent /\ told = {}
    /\ clicks = 0 /\ toldClicks = 0 /\ loss = {} /\ changes = 0

-----------------------------------------------------------------------------
(* The pins.  A change raises the interrupt, whose level is always set to  *)
(* the opposite of the state last seen.                                    *)

Software == UNCHANGED <<irqVars, ring, ikb_current_scroll, ikb_reading, procs,
                        cur, kpc, waiting, push, locals, given, loss>>

Change == changes < MaxChanges /\ changes' = changes + 1

PressOrRelease(b) ==
    /\ Change
    /\ pins' = IF b \in pins THEN pins \ {b} ELSE pins \cup {b}
    /\ fStat' = TRUE
    /\ UNCHANGED <<holdPin, wheel, hStat>> /\ Software

SlideHold ==
    /\ Change
    /\ holdPin' = ~holdPin /\ fStat' = TRUE
    /\ UNCHANGED <<pins, wheel, hStat>> /\ Software

\* The positions of the wheel are numbered in the order in which clockwise
\* rotation visits them: 0x40, 0x00, 0x80, 0xc0.
Turn(dir) ==
    /\ Change
    /\ wheel' = (wheel + dir) % 4 /\ hStat' = TRUE
    /\ UNCHANGED <<pins, holdPin, fStat>> /\ Software

-----------------------------------------------------------------------------
(* keyboard_int *)

\* ikb_buttons_pressed_new after button_int
PressedNew ==
    LET held == IF holdPin THEN ikb_buttons_pressed \cup {HOLD}
                           ELSE ikb_buttons_pressed \ {HOLD}
        changed == (int_btn \ pins) \cup (pins \ int_btn)
    IN  IF ~fStat THEN ikb_buttons_pressed
        ELSE LET base == IF holdPin # hold_button THEN held ELSE ikb_buttons_pressed
             IN  IF holdPin THEN base
                 ELSE (base \ changed) \cup (changed \cap pins)

HoldNew == IF fStat THEN holdPin ELSE hold_button

\* mutant of IntBtnNew: the pins are remembered although hold is on
IntBtnNewHeld == IF fStat THEN pins ELSE int_btn

IntBtnNew == IF fStat /\ ~holdPin THEN pins ELSE int_btn

\* wheel_tbl: one step on is a click forward, one step back a click back;
\* anything else is out of step and ignored
WheelDir(old, new) ==
    IF new = (old + 1) % 4 THEN 1 ELSE IF old = (new + 1) % 4 THEN -1 ELSE 0

\* SCROLL(dist): a sign, and seven bits of the distance
Distance(negative, dist) ==
    IF negative THEN -((-dist) % SCROLL_MOD) ELSE dist % SCROLL_MOD

ScrollEvent(negative, dist) ==
    [kind |-> "scroll", dist |-> Distance(negative, dist)]

Scroll(dist) == ScrollEvent(dist < 0, dist)

\* mutant of ButtonEvents: a release is reported only when nothing is pressed
ButtonEventsOne(old, new) ==
    IF new \ old # {} THEN <<[kind |-> "press", btns |-> new \ old]>>
    ELSE IF old \ new # {} THEN <<[kind |-> "release", btns |-> old \ new]>>
    ELSE <<>>

\* the events of a change from the buttons old to the buttons new
ButtonEvents(old, new) ==
    LET Some(k, s) == IF s = {} THEN <<>> ELSE <<[kind |-> k, btns |-> s]>>
    IN  Some("press", new \ old) \o Some("release", old \ new)

\* events in the ring
Used(head, tail) == (head - tail) % QLEN

\* where the k-th of several stores goes: ikb_ev_head is masked after each,
\* not before the first, which goes past the end when head is QLEN
SlotOf(k) == IF k = 1 THEN ikb_ev_head ELSE (ikb_ev_head + k - 1) % QLEN

\* mutant of PushAll: the readers are not woken
PushAllNoWake(es) ==
    /\ ikb_events' = [i \in Slots |->
          LET ks == {k \in DOMAIN es : SlotOf(k) = i}
          IN  IF ks = {} THEN ikb_events[i] ELSE es[Max(ks)]]
    /\ ikb_ev_head' = IF es = <<>> THEN ikb_ev_head ELSE (ikb_ev_head + Len(es)) % QLEN
    /\ UNCHANGED waiting

\* ikb_push_event for each event in turn: store, advance head, wake up the
\* readers.  A full ring is not respected: head runs over tail.
PushAll(es) ==
    /\ ikb_events' = [i \in Slots |->
          LET ks == {k \in DOMAIN es : SlotOf(k) = i}
          IN  IF ks = {} THEN ikb_events[i] ELSE es[Max(ks)]]
    /\ IF es = <<>>
       THEN UNCHANGED <<ikb_ev_head, waiting>>
       ELSE ikb_ev_head' = (ikb_ev_head + Len(es)) % QLEN /\ waiting' = {}

KeyboardInt ==
    LET new   == PressedNew
        dir   == IF hStat /\ ~HoldNew THEN WheelDir(old_wheel_value, wheel) ELSE 0
        sum   == ikb_current_scroll + dir
        flush == dir # 0 /\ ikb_reading = 1 /\ sum # 0
        all   == (IF flush THEN <<Scroll(sum)>> ELSE <<>>)
                    \o ButtonEvents(ikb_buttons_pressed, new)
        es    == IF opened = {} THEN <<>> ELSE all
    IN  /\ fStat \/ hStat
        /\ fStat' = FALSE /\ hStat' = FALSE
        /\ hold_button' = HoldNew
        /\ int_btn' = IntBtnNew
        /\ old_wheel_value' = IF hStat THEN wheel ELSE old_wheel_value
        /\ ikb_buttons_pressed' = new
        /\ PushAll(es)
        /\ ikb_current_scroll' = IF flush THEN 0 ELSE sum
        /\ clicks' = clicks + dir
        /\ loss' = loss
             \cup (IF opened = {} /\ all # <<>> THEN {"closed"} ELSE {})
             \cup (IF Used(ikb_ev_head, ikb_ev_tail) + Len(es) >= QLEN THEN {"overflow"} ELSE {})
             \cup (IF flush /\ Scroll(sum).dist # sum THEN {"wrapped"} ELSE {})
             \cup (IF kpc \in {"load", "store", "zero"} /\ (es # <<>> \/ dir # 0)
                   THEN {"raced"} ELSE {})
        /\ UNCHANGED <<pins, holdPin, wheel, changes, ikb_reading, procs, cur,
                       kpc, push, locals, given>>

-----------------------------------------------------------------------------
(* Processes: open, release and read.  Interrupts is what a step of a      *)
(* process never writes.                                                   *)

Interrupts == UNCHANGED <<hw, irqVars>>

Open(r) ==
    /\ cur = None /\ r \notin opened
    /\ opened' = opened \cup {r}
    /\ UNCHANGED <<ring, ikb_current_scroll, ikb_reading, asleep, cur, kpc,
                   waiting, push, locals, given, loss>> /\ Interrupts

Release(r) ==
    /\ cur = None /\ r \in opened \ asleep
    /\ opened' = opened \ {r}
    /\ UNCHANGED <<ring, ikb_current_scroll, ikb_reading, asleep, cur, kpc,
                   waiting, push, locals, given, loss>> /\ Interrupts

\* read for n events (2n or 2n + 1 bytes, not none)
ReadBegin(r, n, nb) ==
    /\ cur = None /\ r \in opened \ asleep
    /\ cur' = r /\ kpc' = "scroll"
    /\ want' = [want EXCEPT ![r] = n]
    /\ nonblock' = nb
    /\ UNCHANGED <<ring, ikb_current_scroll, ikb_reading, procs, waiting,
                   signalled, push, given, loss>> /\ Interrupts

\* a step of the running process from one place in the kernel to another
At(from, to) == kpc = from /\ kpc' = to /\ UNCHANGED <<cur, procs>> /\ Interrupts

\* ikb_make_scroll_event, first test
ScrollTest ==
    /\ At("scroll", IF ikb_current_scroll # 0 THEN "sign" ELSE "reading")
    /\ UNCHANGED <<ring, ikb_current_scroll, ikb_reading, waiting, push, locals,
                   given, loss>>

\* SCROLL loads the counter twice: for the sign, then for the distance.
ScrollSign ==
    /\ At("sign", IF ikb_current_scroll < 0 THEN "negative" ELSE "positive")
    /\ UNCHANGED <<ring, ikb_current_scroll, ikb_reading, waiting, push, locals,
                   given, loss>>

\* The event is computed; from here to ScrollZero an interrupt can spoil it.
ScrollArg ==
    /\ kpc \in {"negative", "positive"} /\ At(kpc, "load")
    /\ ev' = ScrollEvent(kpc = "negative", ikb_current_scroll)
    /\ loss' = IF ev'.dist # ikb_current_scroll THEN loss \cup {"wrapped"} ELSE loss
    /\ UNCHANGED <<ring, ikb_current_scroll, ikb_reading, waiting, slot, todo,
                   locals, given>>

\* ikb_events[ikb_ev_head++] = ev: head is read, then written and the event
\* stored in the order the compiler chose
PushLoad ==
    /\ At("load", "store")
    /\ slot' = ikb_ev_head
    /\ todo' = {"head", "event"}
    /\ loss' = IF Used(ikb_ev_head, ikb_ev_tail) = QLEN - 1
               THEN loss \cup {"overflow"} ELSE loss
    /\ UNCHANGED <<ring, ikb_current_scroll, ikb_reading, waiting, ev, locals,
                   given>>

PushHead ==
    /\ At("store", "store")
    /\ "head" \in todo /\ todo' = todo \ {"head"}
    /\ ikb_ev_head' = slot + 1
    /\ UNCHANGED <<ikb_events, ikb_current_scroll, ikb_reading, waiting, ev,
                   slot, locals, given, loss>>

PushEvent ==
    /\ At("store", "store")
    /\ "event" \in todo /\ todo' = todo \ {"event"}
    /\ ikb_events' = [ikb_events EXCEPT ![slot] = ev]
    /\ UNCHANGED <<ikb_ev_head, ikb_current_scroll, ikb_reading, waiting, ev,
                   slot, locals, given, loss>>

\* ikb_ev_head &= 31, wake_up_interruptible
PushWrap ==
    /\ At("store", "zero")
    /\ todo = {}
    /\ ikb_ev_head' = ikb_ev_head % QLEN
    /\ waiting' = {}
    /\ UNCHANGED <<ikb_events, ikb_current_scroll, ikb_reading, push, locals,
                   given, loss>>

ScrollZero ==
    /\ At("zero", "reading")
    /\ ikb_current_scroll' = 0
    /\ UNCHANGED <<ring, ikb_reading, waiting, push, locals, given, loss>>

SetReading ==
    /\ At("reading", "set")
    /\ ikb_reading' = 1
    /\ UNCHANGED <<ring, ikb_current_scroll, waiting, push, locals, given, loss>>

\* set_current_state (TASK_INTERRUPTIBLE)
SetState ==
    /\ At("set", "test")
    /\ waiting' = waiting \cup {cur}
    /\ UNCHANGED <<ring, ikb_current_scroll, ikb_reading, push, locals, given,
                   loss>>

\* ikb_poll reports the device readable under the same condition.
Readable == ikb_ev_head # ikb_ev_tail

EmptyTest ==
    /\ At("test", IF Readable THEN "drain"
                  ELSE IF nonblock \/ cur \in signalled THEN "exit" ELSE "sched")
    /\ UNCHANGED <<ring, ikb_current_scroll, ikb_reading, waiting, push, locals,
                   given, loss>>

\* mutant of Schedule: the state is set after the test, not before it
ScheduleSetsState ==
    /\ kpc = "sched"
    /\ asleep' = asleep \cup {cur} /\ waiting' = waiting \cup {cur}
    /\ cur' = None /\ kpc' = "none"
    /\ UNCHANGED <<ring, ikb_current_scroll, ikb_reading, opened, push,
                   locals, given, loss>> /\ Interrupts

\* schedule(): other processes run until this one is woken
Schedule ==
    /\ kpc = "sched"
    /\ asleep' = asleep \cup {cur}
    /\ cur' = None /\ kpc' = "none"
    /\ UNCHANGED <<ring, ikb_current_scroll, ikb_reading, opened, waiting, push,
                   locals, given, loss>> /\ Interrupts

Resume(r) ==
    /\ cur = None /\ r \in asleep \ waiting
    /\ asleep' = asleep \ {r}
    /\ cur' = r /\ kpc' = "set"
    /\ nonblock' = FALSE
    /\ UNCHANGED <<ring, ikb_current_scroll, ikb_reading, opened, waiting, push,
                   want, signalled, given, loss>> /\ Interrupts

Signal(r) ==
    /\ r \in asleep
    /\ signalled' = signalled \cup {r}
    /\ waiting' = waiting \ {r}
    /\ UNCHANGED <<ring, ikb_current_scroll, ikb_reading, procs, cur, kpc, push,
                   want, nonblock, given, loss>> /\ Interrupts

\* mutants of NextTail: the index is not masked; it is advanced twice
NextTailUnmasked == ikb_ev_tail + 1
NextTailTwice == (ikb_ev_tail + 2) % QLEN

\* ikb_ev_tail++, ikb_ev_tail &= 31
NextTail == (ikb_ev_tail + 1) % QLEN

\* the for loop: one event to the application
Drain ==
    /\ At("drain", "drain")
    /\ Readable /\ want[cur] > 0
    /\ user' = ikb_events[ikb_ev_tail]
    /\ ikb_ev_tail' = NextTail
    /\ want' = [want EXCEPT ![cur] = @ - 1]
    /\ told' = CASE user'.kind = "press" -> told \cup user'.btns
                 [] user'.kind = "release" -> told \ user'.btns
                 [] OTHER -> told
    /\ toldClicks' = IF user'.kind = "scroll" THEN toldClicks + user'.dist
                     ELSE toldClicks
    /\ UNCHANGED <<ring, ikb_current_scroll, ikb_reading, waiting, nonblock,
                   signalled, push, loss>>

DrainEnd ==
    /\ At("drain", "exit")
    /\ ~Readable \/ want[cur] = 0
    /\ UNCHANGED <<ring, ikb_current_scroll, ikb_reading, waiting, push, locals,
                   given, loss>>

\* ikb_reading = 0, TASK_RUNNING, off the wait queue
ReadExit ==
    /\ kpc = "exit"
    /\ cur' = None /\ kpc' = "none"
    /\ ikb_reading' = 0
    /\ waiting' = waiting \ {cur}
    /\ signalled' = signalled \ {cur}
    /\ UNCHANGED <<ring, ikb_current_scroll, procs, want, nonblock, push, given,
                   loss>> /\ Interrupts

-----------------------------------------------------------------------------
Pins ==
    \/ \E b \in Buttons : PressOrRelease(b)
    \/ SlideHold
    \/ \E dir \in {-1, 1} : Turn(dir)

Request ==
    \E r \in Readers :
        \/ Open(r) \/ Release(r) \/ Signal(r)
        \/ \E n \in 0 .. MaxWant, nb \in BOOLEAN : ReadBegin(r, n, nb)

KernelStep ==
    \/ ScrollTest \/ ScrollSign \/ ScrollArg
    \/ PushLoad \/ PushHead \/ PushEvent \/ PushWrap
    \/ ScrollZero \/ SetReading \/ SetState \/ EmptyTest \/ Schedule
    \/ Drain \/ DrainEnd \/ ReadExit

Next == Pins \/ KeyboardInt \/ Request \/ KernelStep \/ (\E r \in Readers : Resume(r))

Spec == Init /\ [][Next]_vars

\* The interrupt is taken, and the process in the kernel and the ones that
\* have been woken get to run.
Fairness ==
    /\ WF_vars(KeyboardInt)
    /\ WF_vars(KernelStep)
    /\ \A r \in Readers : SF_vars(Resume(r))

LiveSpec == Spec /\ Fairness
-----------------------------------------------------------------------------
(* What readers are promised *)

\* An event that a process is putting in counts once head is masked.
Head1 == IF kpc = "store" THEN slot ELSE ikb_ev_head

\* the events that wait, oldest first
Queue == [i \in 1 .. Used(Head1, ikb_ev_tail) |->
             ikb_events[(ikb_ev_tail + i - 1) % QLEN]]

\* No wake-up is lost: a process stays in schedule() only as long as there
\* is nothing to read, or the event's own wake-up is still to come
\* (keyboard.c:131-141, 271-287).
NoLostWakeup ==
    kpc # "store" /\ Readable => asleep \cap waiting = {}

\* what the application will think of button b once it has read the queue
Believed(b) ==
    LET about == {i \in DOMAIN Queue : Queue[i].kind # "scroll" /\ b \in Queue[i].btns}
    IN  IF about = {} THEN b \in told ELSE Queue[Max(about)].kind = "press"

\* The presses and releases handed out and the ones that wait add up to
\* the buttons the driver holds for pressed.
ButtonsAddUp ==
    loss \cap {"raced", "overflow", "closed"} = {} =>
        \A b \in Buttons \cup {HOLD} : Believed(b) <=> b \in ikb_buttons_pressed

\* the clicks that the events of a queue stand for
ClicksOf(e) == IF e.kind = "scroll" THEN e.dist ELSE 0
ClicksIn(q) ==
    LET upTo[n \in 0 .. Len(q)] == IF n = 0 THEN 0 ELSE upTo[n - 1] + ClicksOf(q[n])
    IN  upTo[Len(q)]

\* No click of the wheel is lost or counted twice between the pins and the
\* application, unless an interrupt came inside a read's own conversion of
\* the counter, the ring overflowed or the counter left the event's range or
\* changed its sign while the event was computed.
ClicksAddUp ==
    loss \cap {"raced", "overflow", "wrapped"} = {} =>
        clicks = toldClicks + ClicksIn(Queue)
                    + (IF kpc = "zero" THEN 0 ELSE ikb_current_scroll)

\* Between the pins and the application nothing is lost, repeated or
\* reordered, apart from the named losses.
EventsAddUp == ButtonsAddUp /\ ClicksAddUp

\* Whatever happened while the hold switch was on, once the interrupt has
\* been served with hold off the driver holds for pressed what is pressed.
ButtonsTracked ==
    ~fStat /\ ~holdPin => ikb_buttons_pressed = pins

\* The inductive invariants behind NoLostWakeup and ButtonsTracked.
\* A process about to call schedule() is not TASK_INTERRUPTIBLE any more
\* when events have come since its test.
WakeInv ==
    /\ cur \notin asleep
    /\ NoLostWakeup
    /\ kpc = "sched" /\ Readable => cur \notin waiting

\* What the interrupt handler remembers is what it has told the readers of,
\* and the pins, the buttons' only while hold is off.
PinsInv ==
    /\ int_btn = ikb_buttons_pressed \ {HOLD}
    /\ HOLD \in ikb_buttons_pressed <=> hold_button
    /\ ~fStat => hold_button = holdPin /\ (holdPin \/ int_btn = pins)

\* A process waiting for events gets to run when there are some.
EventsWakeReader ==
    \A r \in Readers : r \in asleep /\ Readable ~> (r \notin asleep \/ ~Readable)

\* As long as the ring does not overflow and no interrupt spoils a read's
\* own event, every step is a step of a bounded queue or leaves it alone:
\* readers get each event once, in the order in which they were pushed.
Events == INSTANCE EventQueue WITH Capacity <- QLEN - 1, queue <- Queue, given <- user
EventQueueSpec ==
    /\ Events!Init
    /\ [][loss' \cap {"raced", "overflow"} = {} => [Events!Next]_<<Queue, user>>]_vars
=============================================================================
