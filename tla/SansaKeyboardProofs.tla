------------------------ MODULE SansaKeyboardProofs ------------------------
(* Theorems about SansaKeyboard, for a ring of any size, any buttons and   *)
(* any set of readers, without a bound on the changes of the pins.         *)
EXTENDS SansaKeyboard, WellFoundedInduction, TLAPS

USE DEF KeyboardAssumption

LEMMA ModLemma ==
    ASSUME NEW x \in Int
    PROVE  x % QLEN \in Slots
  BY KeyboardAssumption DEF Slots

LEMMA SlotsLemma == Slots \subseteq 0 .. QLEN /\ 0 \in Slots /\ 0 .. QLEN \subseteq Int
  BY KeyboardAssumption DEF Slots

LEMMA HeadLemma == \A h \in 0 .. QLEN : h # QLEN <=> h \in Slots
  BY KeyboardAssumption DEF Slots

LEMMA WheelLemma ==
    ASSUME NEW a \in 0..3, NEW b \in 0..3, NEW dir \in {-1, 1}
    PROVE  (a + dir) % 4 \in 0..3 /\ WheelDir(a, b) \in {-1, 0, 1}
  BY DEF WheelDir

LEMMA ScrollLemma ==
    ASSUME NEW dist \in Int
    PROVE  /\ \A negative \in BOOLEAN :
                  /\ ScrollEvent(negative, dist) \in Event
                  /\ ScrollEvent(negative, dist).kind = "scroll"
           /\ Scroll(dist) \in Event /\ Scroll(dist).kind = "scroll"
  <1>1. ASSUME NEW negative \in BOOLEAN
        PROVE  /\ ScrollEvent(negative, dist) \in Event
               /\ ScrollEvent(negative, dist).kind = "scroll"
    <2>1. (-dist) % SCROLL_MOD \in Int /\ dist % SCROLL_MOD \in Int
      BY KeyboardAssumption
    <2>2. Distance(negative, dist) \in Int
      BY <2>1 DEF Distance
    <2> QED
      BY <2>2 DEF ScrollEvent, Event
  <1>2. (dist < 0) \in BOOLEAN
    OBVIOUS
  <1> QED
    BY <1>1, <1>2 DEF Scroll

LEMMA ButtonEventLemma ==
    ASSUME NEW k \in {"press", "release"}, NEW s \in SUBSET (Buttons \cup {HOLD})
    PROVE  [kind |-> k, btns |-> s] \in Event
  BY DEF Event

LEMMA EventLemma ==
    ASSUME NEW e \in Event
    PROVE  /\ e.kind \in {"press", "release"} =>
                 e.btns \in SUBSET (Buttons \cup {HOLD})
           /\ e.kind = "scroll" => e.dist \in Int
           /\ e.kind \in {"press", "release", "scroll"}
  BY DEF Event

\* An interrupt pushes three events at most: the wheel's, a press, a release.
LEMMA ButtonEventsLemma ==
    ASSUME NEW old \in SUBSET (Buttons \cup {HOLD}),
           NEW new \in SUBSET (Buttons \cup {HOLD})
    PROVE  /\ ButtonEvents(old, new) \in Seq(Event)
           /\ Len(ButtonEvents(old, new)) <= 2
  <1> DEFINE p == [kind |-> "press", btns |-> new \ old]
             r == [kind |-> "release", btns |-> old \ new]
  <1>1. p \in Event /\ r \in Event
    BY ButtonEventLemma
  <1> HIDE DEF p, r
  <1>2. ButtonEvents(old, new) =
          (IF new \ old = {} THEN <<>> ELSE <<p>>)
             \o (IF old \ new = {} THEN <<>> ELSE <<r>>)
    BY DEF ButtonEvents, p, r
  <1> QED
    BY <1>1, <1>2

LEMMA MaxLemma ==
    ASSUME NEW ks \in SUBSET (1 .. 3), ks # {}
    PROVE  Max(ks) \in ks
  <1>1. \E x \in ks : \A y \in ks : x >= y
    <2>1. CASE 3 \in ks
      BY <2>1
    <2>2. CASE 3 \notin ks /\ 2 \in ks
      BY <2>2
    <2>3. CASE 3 \notin ks /\ 2 \notin ks
      <3>1. \A y \in ks : y = 1
        BY <2>3
      <3>2. PICK e \in ks : TRUE
        OBVIOUS
      <3> QED
        BY <3>1, <3>2
    <2> QED
      BY <2>1, <2>2, <2>3
  <1> QED
    BY <1>1 DEF Max

\* ikb_push_event keeps the ring well formed, full or not.
LEMMA PushAllLemma ==
    ASSUME TypeOK, NEW es \in Seq(Event), Len(es) <= 3, PushAll(es)
    PROVE  /\ ikb_events' \in [Slots -> Event]
           /\ ikb_ev_head' = ikb_ev_head \/ ikb_ev_head' \in Slots
           /\ waiting' \subseteq waiting
  <1>1. DOMAIN es \subseteq 1 .. 3 /\ Len(es) \in Nat
    OBVIOUS
  <1>2. ASSUME NEW i \in Slots PROVE ikb_events'[i] \in Event
    <2> DEFINE ks == {k \in DOMAIN es : SlotOf(k) = i}
    <2>1. ikb_events'[i] = IF ks = {} THEN ikb_events[i] ELSE es[Max(ks)]
      BY DEF PushAll
    <2>2. ks \subseteq DOMAIN es
      OBVIOUS
    <2> HIDE DEF ks
    <2>3. CASE ks = {}
      BY <2>1, <2>3 DEF TypeOK
    <2>4. CASE ks # {}
      <3>1. Max(ks) \in DOMAIN es
        BY <1>1, <2>2, <2>4, MaxLemma
      <3> QED
        BY <2>1, <2>4, <3>1
    <2> QED
      BY <2>3, <2>4
  <1>3. ikb_events' \in [Slots -> Event]
    <2>1. ikb_events' = [i \in Slots |-> ikb_events'[i]]
      BY DEF PushAll
    <2> QED
      BY <1>2, <2>1
  <1>4. (ikb_ev_head + Len(es)) % QLEN \in Slots
    <2>1. ikb_ev_head + Len(es) \in Int
      BY <1>1, KeyboardAssumption DEF TypeOK
    <2> QED
      BY <2>1, ModLemma
  <1> QED
    BY <1>3, <1>4 DEF PushAll, TypeOK

LEMMA PressedLemma ==
    ASSUME TypeOK
    PROVE  PressedNew \in SUBSET (Buttons \cup {HOLD})
  BY DEF TypeOK, PressedNew

\* The variables keep their types; the readers' locals say who is where.
THEOREM TypeCorrect == Spec => []TypeOK
  <1> USE DEF hw, irqVars, ring, procs, push, locals, given
  <1>1. Init => TypeOK
    <2>1. NoEvent \in Event /\ 0 \in Slots
      BY ButtonEventLemma, KeyboardAssumption DEF NoEvent, Slots
    <2> SUFFICES ASSUME Init PROVE TypeOK
      OBVIOUS
    <2>2. /\ pins \subseteq Buttons /\ int_btn \subseteq Buttons
          /\ cur = None /\ kpc = "none" /\ 0 \in 0 .. QLEN
      BY KeyboardAssumption DEF Init
    <2>3. ikb_events \in [Slots -> Event] /\ want \in [Readers -> Nat]
      BY <2>1 DEF Init
    <2>4. /\ holdPin \in BOOLEAN /\ hold_button \in BOOLEAN /\ fStat \in BOOLEAN
          /\ hStat \in BOOLEAN /\ nonblock \in BOOLEAN
      BY Zenon DEF Init
    <2>7. /\ wheel \in 0..3 /\ old_wheel_value \in 0..3
          /\ ikb_buttons_pressed \subseteq Buttons \cup {HOLD}
      BY DEF Init
    <2>5. /\ ikb_ev_head \in Slots /\ ikb_ev_tail \in Slots
          /\ ikb_ev_head \in 0 .. QLEN
          /\ ikb_ev_head = QLEN => kpc = "store"
          /\ ikb_current_scroll \in Int /\ ikb_reading \in {0, 1}
          /\ opened \subseteq Readers /\ asleep \subseteq opened
          /\ cur \in opened \cup {None} /\ kpc \in Kpcs
          /\ kpc = "none" <=> cur = None
          /\ waiting \subseteq Readers
      <3>1. 0 # QLEN
        BY KeyboardAssumption
      <3> QED
        BY <2>1, <2>2, <3>1 DEF Init, Kpcs
    <2>6. /\ signalled \subseteq Readers /\ ev \in Event
          /\ slot \in Slots /\ todo \subseteq {"head", "event"}
          /\ user \in Event /\ told \subseteq Buttons \cup {HOLD}
          /\ clicks \in Int /\ toldClicks \in Int
          /\ loss \subseteq Loss /\ changes \in Nat
      BY <2>1 DEF Init
    <2> QED
      BY <2>2, <2>3, <2>4, <2>5, <2>6, <2>7 DEF TypeOK
  <1>2. TypeOK /\ [Next]_vars => TypeOK'
    <2> SUFFICES ASSUME TypeOK, [Next]_vars PROVE TypeOK'
      OBVIOUS
    <2>1. CASE Pins
      <3>1. /\ pins' \in SUBSET Buttons /\ holdPin' \in BOOLEAN /\ wheel' \in 0..3
            /\ fStat' \in BOOLEAN /\ hStat' \in BOOLEAN /\ changes' \in Nat
        BY <2>1, WheelLemma DEF Pins, PressOrRelease, SlideHold, Turn, Change, TypeOK
      <3>2. Software
        BY <2>1 DEF Pins, PressOrRelease, SlideHold, Turn
      <3> QED
        BY <3>1, <3>2 DEF Software, TypeOK
    <2>2. CASE KeyboardInt
      <3> DEFINE new == PressedNew
                 dir == IF hStat /\ ~HoldNew THEN WheelDir(old_wheel_value, wheel) ELSE 0
                 sum == ikb_current_scroll + dir
                 flush == dir # 0 /\ ikb_reading = 1 /\ sum # 0
                 all == (IF flush THEN <<Scroll(sum)>> ELSE <<>>)
                           \o ButtonEvents(ikb_buttons_pressed, new)
                 es == IF opened = {} THEN <<>> ELSE all
      <3>1. dir \in Int /\ sum \in Int /\ new \in SUBSET (Buttons \cup {HOLD})
        BY WheelLemma, PressedLemma DEF TypeOK
      <3>2. /\ fStat' = FALSE /\ hStat' = FALSE
            /\ hold_button' = HoldNew /\ int_btn' = IntBtnNew
            /\ old_wheel_value' = IF hStat THEN wheel ELSE old_wheel_value
            /\ ikb_buttons_pressed' = new
            /\ PushAll(es)
            /\ ikb_current_scroll' = IF flush THEN 0 ELSE sum
            /\ clicks' = clicks + dir
            /\ UNCHANGED <<pins, holdPin, wheel, changes, ikb_reading, procs, cur,
                           kpc, push, locals, given>>
        BY <2>2 DEF KeyboardInt
      <3>3. loss' \subseteq Loss
        BY <2>2 DEF KeyboardInt, TypeOK, Loss
      <3> HIDE DEF new, dir, sum, flush
      <3>4. Scroll(sum) \in Event
        BY <3>1, ScrollLemma
      <3>5. /\ ButtonEvents(ikb_buttons_pressed, new) \in Seq(Event)
            /\ Len(ButtonEvents(ikb_buttons_pressed, new)) <= 2
        BY <3>1, ButtonEventsLemma DEF TypeOK
      <3>6. es \in Seq(Event) /\ Len(es) <= 3
        BY <3>4, <3>5
      <3> HIDE DEF es
      <3>7. /\ ikb_events' \in [Slots -> Event] /\ ikb_ev_head' \in 0 .. QLEN
            /\ ikb_ev_head' = QLEN => kpc' = "store"
            /\ waiting' \subseteq waiting
        <4>1. ikb_ev_head' = ikb_ev_head \/ ikb_ev_head' \in Slots
          BY <3>2, <3>6, PushAllLemma
        <4>2. QLEN \notin Slots /\ kpc' = kpc
          BY <3>2, KeyboardAssumption DEF Slots
        <4> QED
          BY <3>2, <3>6, <4>1, <4>2, PushAllLemma, SlotsLemma DEF TypeOK
      <3>8. /\ hold_button' \in BOOLEAN /\ int_btn' \in SUBSET Buttons
            /\ old_wheel_value' \in 0..3
        BY <3>2 DEF HoldNew, IntBtnNew, TypeOK
      <3>9. ikb_current_scroll' \in Int /\ clicks' \in Int
        BY <3>1, <3>2 DEF TypeOK
      <3> QED
        BY <3>1, <3>2, <3>3, <3>7, <3>8, <3>9 DEF TypeOK
    <2> USE DEF TypeOK, Interrupts, At, Kpcs
    <2>3. ASSUME NEW r \in Readers, Open(r) \/ Release(r) \/ Signal(r) \/ Resume(r)
          PROVE  TypeOK'
      <3>1. CASE Open(r)
        BY <3>1, KeyboardAssumption DEF Open
      <3>2. CASE Release(r)
        BY <3>2, KeyboardAssumption DEF Release
      <3>3. CASE Signal(r)
        BY <3>3 DEF Signal
      <3>4. CASE Resume(r)
        BY <3>4, KeyboardAssumption DEF Resume
      <3> QED
        BY <2>3, <3>1, <3>2, <3>3, <3>4
    <2>4. ASSUME NEW r \in Readers, NEW n \in 0 .. MaxWant, NEW nb \in BOOLEAN,
                 ReadBegin(r, n, nb)
          PROVE  TypeOK'
      BY <2>4, KeyboardAssumption DEF ReadBegin
    <2>5. CASE KernelStep
      <3>1. CASE ScrollTest \/ ScrollSign \/ SetReading \/ SetState \/ EmptyTest
        <4>1. CASE ScrollTest
          BY <4>1, KeyboardAssumption DEF ScrollTest
        <4>2. CASE ScrollSign
          BY <4>2, KeyboardAssumption DEF ScrollSign
        <4>3. CASE SetReading \/ SetState \/ EmptyTest
          BY <4>3, KeyboardAssumption DEF SetReading, SetState, EmptyTest
        <4> QED
          BY <3>1, <4>1, <4>2, <4>3
      <3>2. CASE ScrollArg
        <4>1. ev' \in Event
          <5>1. (kpc = "negative") \in BOOLEAN
            OBVIOUS
          <5> QED
            BY <3>2, <5>1, ScrollLemma DEF ScrollArg
        <4>2. loss' \subseteq Loss
          BY <3>2 DEF ScrollArg, Loss
        <4> QED
          BY <3>2, <4>1, <4>2 DEF ScrollArg
      <3>3. CASE PushLoad
        <4>1. kpc = "load"
          BY <3>3 DEF PushLoad
        <4>2. ikb_ev_head \in 0 .. QLEN /\ ikb_ev_head # QLEN
          BY <4>1, Zenon
        <4>3. ikb_ev_head \in Slots
          BY <4>2, HeadLemma
        <4> QED
          <5>1. slot' \in Slots /\ todo' \subseteq {"head", "event"}
            BY <3>3, <4>3 DEF PushLoad
          <5>2. loss' \subseteq Loss
            BY <3>3 DEF PushLoad, Loss
          <5>3. kpc' = "store" /\ kpc = "load"
            BY <3>3 DEF PushLoad
          <5> QED
            BY <3>3, <5>1, <5>2, <5>3 DEF PushLoad
      <3>4. CASE PushHead
        <4>1. slot + 1 \in 0 .. QLEN
          BY KeyboardAssumption DEF Slots
        <4>2. ikb_ev_head' \in 0 .. QLEN /\ todo' \subseteq {"head", "event"}
          BY <3>4, <4>1 DEF PushHead
        <4>3. kpc' = kpc
          BY <3>4, Zenon DEF PushHead
        <4> QED
          BY <3>4, <4>2, <4>3, Zenon DEF PushHead
      <3>5. CASE PushEvent
        BY <3>5 DEF PushEvent
      <3>6. CASE PushWrap
        <4>1. ikb_ev_head % QLEN \in Slots
          BY SlotsLemma, ModLemma
        <4>2. ikb_ev_head' \in 0 .. QLEN /\ ikb_ev_head' # QLEN
          BY <3>6, <4>1, SlotsLemma, HeadLemma DEF PushWrap
        <4> QED
          BY <3>6, <4>2 DEF PushWrap
      <3>7. CASE ScrollZero
        BY <3>7 DEF ScrollZero
      <3>10. CASE DrainEnd
        BY <3>10 DEF DrainEnd
      <3>8. CASE Schedule \/ ReadExit
        BY <3>8, KeyboardAssumption DEF Schedule, ReadExit
      <3>9. CASE Drain
        <4>1. user' \in Event /\ cur \in Readers
          BY <3>9, KeyboardAssumption DEF Drain
        <4>2. told' \subseteq Buttons \cup {HOLD} /\ toldClicks' \in Int
          BY <3>9, <4>1, EventLemma DEF Drain
        <4>3. ikb_ev_tail' \in Slots
          BY <3>9, ModLemma DEF Drain, NextTail, Slots
        <4>4. want' \in [Readers -> Nat]
          BY <3>9, <4>1 DEF Drain
        <4> QED
          BY <3>9, <4>1, <4>2, <4>3, <4>4 DEF Drain
      <3> QED
        BY <2>5, <3>1, <3>2, <3>3, <3>4, <3>5, <3>6, <3>7, <3>8, <3>9,
           <3>10
        DEF KernelStep
    <2>6. CASE UNCHANGED vars
      BY <2>6 DEF vars
    <2> QED
      BY <2>1, <2>2, <2>3, <2>4, <2>5, <2>6 DEF Next, Request
  <1> QED
    BY <1>1, <1>2, PTL DEF Spec

-----------------------------------------------------------------------------
\* No wake-up is lost, whatever the interleaving (keyboard.c:131-141,
\* 271-287): the state is set before the ring is tested, so an interrupt
\* after the test takes the process out of that state.
THEOREM WakeInvariance == Spec => []WakeInv
  <1> USE DEF hw, irqVars, ring, procs, push, locals, given, Interrupts, Software
  <1>1. Init => WakeInv
    BY KeyboardAssumption DEF Init, WakeInv, NoLostWakeup, Readable
  <1>2. TypeOK /\ WakeInv /\ [Next]_vars => WakeInv'
    <2> SUFFICES ASSUME TypeOK, WakeInv, [Next]_vars PROVE WakeInv'
      OBVIOUS
    <2>a. (kpc = "none" <=> cur = None) /\ asleep \subseteq Readers
      BY DEF TypeOK
    <2> USE DEF WakeInv, NoLostWakeup, Readable, At
    <2>1. CASE Pins
      BY <2>1 DEF Pins, PressOrRelease, SlideHold, Turn, Change
    <2>2. CASE KeyboardInt
      <3>1. /\ waiting' = {} \/ UNCHANGED <<ikb_ev_head, waiting>>
            /\ UNCHANGED <<procs, cur, kpc, ikb_ev_tail>>
        BY <2>2 DEF KeyboardInt, PushAll
      <3> QED
        BY <3>1
    <2>3. ASSUME NEW r \in Readers,
                 \/ Open(r) \/ Release(r) \/ Signal(r)
                 \/ \E n \in 0 .. MaxWant, nb \in BOOLEAN : ReadBegin(r, n, nb)
          PROVE  WakeInv'
      BY <2>a, <2>3, KeyboardAssumption DEF Open, Release, Signal, ReadBegin
    <2>4. CASE KernelStep
      <3>1. CASE ScrollTest \/ ScrollSign \/ ScrollArg \/ PushLoad \/ PushHead \/ PushEvent
        BY <3>1 DEF ScrollTest, ScrollSign, ScrollArg, PushLoad, PushHead, PushEvent
      <3>2. CASE PushWrap \/ ScrollZero \/ SetReading
        BY <3>2 DEF PushWrap, ScrollZero, SetReading
      <3>3. CASE SetState
        BY <3>3 DEF SetState
      <3>4. CASE EmptyTest
        BY <3>4 DEF EmptyTest
      <3>5. CASE Schedule
        BY <2>a, <3>5, KeyboardAssumption DEF Schedule
      <3>6. CASE Drain
        BY <3>6 DEF Drain
      <3>7. CASE DrainEnd \/ ReadExit
        BY <2>a, <3>7, KeyboardAssumption DEF DrainEnd, ReadExit
      <3> QED
        BY <2>4, <3>1, <3>2, <3>3, <3>4, <3>5, <3>6, <3>7 DEF KernelStep
    <2>5. ASSUME NEW r \in Readers, Resume(r) PROVE WakeInv'
      BY <2>a, <2>5 DEF Resume
    <2>6. CASE UNCHANGED vars
      BY <2>6 DEF vars
    <2> QED
      BY <2>1, <2>2, <2>3, <2>4, <2>5, <2>6 DEF Next, Request
  <1> QED
    BY <1>1, <1>2, TypeCorrect, PTL DEF Spec

\* A process never stays in schedule() while there is something to read
\* (keyboard.c:131-141), unless the wake-up itself is still to come.
THEOREM NoWakeupLost == Spec => []NoLostWakeup
  <1>1. WakeInv => NoLostWakeup
    BY DEF WakeInv
  <1> QED
    BY <1>1, WakeInvariance, PTL

-----------------------------------------------------------------------------
\* keyboard_int and button_int (keyboard.c:335-466) keep int_btn, hold_button
\* and ikb_buttons_pressed together, when no button is down at the start.
THEOREM PinsInvariance == BootPins = {} => (Spec => []PinsInv)
  <1> SUFFICES ASSUME BootPins = {} PROVE Spec => []PinsInv
    OBVIOUS
  <1> USE DEF hw, irqVars
  <1>1. Init => PinsInv
    <2> SUFFICES ASSUME Init PROVE PinsInv
      OBVIOUS
    <2>1. pins = {} /\ int_btn = {} /\ ikb_buttons_pressed = {}
      BY DEF Init
    <2>2. hold_button = FALSE /\ holdPin = FALSE
      BY Zenon DEF Init
    <2> QED
      BY <2>1, <2>2 DEF PinsInv
  <1>2. TypeOK /\ PinsInv /\ [Next]_vars => PinsInv'
    <2> SUFFICES ASSUME TypeOK, PinsInv, [Next]_vars PROVE PinsInv'
      OBVIOUS
    <2>1. CASE Pins
      <3>1. CASE fStat' = TRUE /\ UNCHANGED irqVars
        BY <3>1 DEF PinsInv
      <3>2. CASE UNCHANGED <<fStat, pins, holdPin, irqVars>>
        BY <3>2, Zenon DEF PinsInv
      <3> QED
        BY <2>1, <3>1, <3>2, Zenon DEF Pins, PressOrRelease, SlideHold, Turn, Software
    <2>2. CASE KeyboardInt
      <3>1. /\ fStat' = FALSE /\ hold_button' = HoldNew /\ int_btn' = IntBtnNew
            /\ ikb_buttons_pressed' = PressedNew
            /\ UNCHANGED <<pins, holdPin>>
        BY <2>2, Zenon DEF KeyboardInt
      <3>2. /\ HOLD \notin pins /\ HOLD \notin int_btn
            /\ holdPin \in BOOLEAN /\ hold_button \in BOOLEAN /\ fStat \in BOOLEAN
        BY KeyboardAssumption DEF TypeOK
      <3>3. CASE ~fStat
        BY <3>1, <3>2, <3>3 DEF PinsInv, HoldNew, IntBtnNew, PressedNew
      <3>4. CASE fStat /\ holdPin
        BY <3>1, <3>2, <3>4 DEF PinsInv, HoldNew, IntBtnNew, PressedNew
      <3>5. CASE fStat /\ ~holdPin
        BY <3>1, <3>2, <3>5 DEF PinsInv, HoldNew, IntBtnNew, PressedNew
      <3> QED
        BY <3>3, <3>4, <3>5, <3>2
    <2>3. CASE UNCHANGED <<hw, irqVars>>
      BY <2>3, Zenon DEF PinsInv
    <2>4. CASE Request \/ KernelStep \/ \E r \in Readers : Resume(r)
      BY <2>3, <2>4, Zenon
      DEF Request, KernelStep, Interrupts, At, Open, Release, Signal, Resume, ReadBegin,
          ScrollTest, ScrollSign, ScrollArg, PushLoad, PushHead, PushEvent, PushWrap,
          ScrollZero, SetReading, SetState, EmptyTest, Schedule, Drain,
          DrainEnd, ReadExit
    <2>5. CASE UNCHANGED vars
      BY <2>3, <2>5, Zenon DEF vars
    <2> QED
      BY <2>1, <2>2, <2>4, <2>5 DEF Next
  <1> QED
    BY <1>1, <1>2, TypeCorrect, PTL DEF Spec

\* Whatever is done with hold on, once the interrupt has been served with
\* hold off the driver holds for pressed what is pressed.
THEOREM ButtonsAreTracked == BootPins = {} => (Spec => []ButtonsTracked)
  <1> SUFFICES ASSUME BootPins = {} PROVE Spec => []ButtonsTracked
    OBVIOUS
  <1>1. TypeOK /\ PinsInv => ButtonsTracked
    <2> SUFFICES ASSUME TypeOK, PinsInv, ~fStat, ~holdPin
                 PROVE  ikb_buttons_pressed = pins
      BY Zenon DEF ButtonsTracked
    <2>1. int_btn = pins /\ HOLD \notin ikb_buttons_pressed
      BY DEF PinsInv
    <2> QED
      BY <2>1 DEF PinsInv
  <1>2. Spec => []PinsInv
    BY PinsInvariance
  <1> QED
    BY <1>1, <1>2, TypeCorrect, PTL

-----------------------------------------------------------------------------
(* The arithmetic of the ring *)

LEMMA ModIs ==
    ASSUME NEW x \in -QLEN .. 2 * QLEN - 1
    PROVE  x % QLEN = IF x < 0 THEN x + QLEN ELSE IF x < QLEN THEN x ELSE x - QLEN
  <1>1. QLEN \in Nat /\ QLEN > 0
    BY KeyboardAssumption
  <1>4. CASE x < 0
    <2>1. x % QLEN = x + QLEN
      BY <1>1, <1>4
    <2> QED
      BY <1>4, <2>1
  <1>5. CASE x >= 0 /\ x < QLEN
    BY <1>1, <1>5
  <1>6. CASE x >= QLEN
    <2>1. x % QLEN = x - QLEN
      BY <1>1, <1>6
    <2> QED
      BY <1>1, <1>6, <2>1
  <1> QED
    BY <1>1, <1>4, <1>5, <1>6

LEMMA UsedLemma ==
    ASSUME NEW h \in Slots, NEW t \in Slots
    PROVE  /\ Used(h, t) \in 0 .. QLEN - 1
           /\ Used(h, t) = IF h < t THEN h - t + QLEN ELSE h - t
           /\ Used(h, t) = 0 <=> h = t
  <1>1. h - t \in -QLEN .. 2 * QLEN - 1 /\ h - t < QLEN
    BY KeyboardAssumption DEF Slots
  <1>2. Used(h, t) = IF h < t THEN h - t + QLEN ELSE h - t
    BY <1>1, ModIs DEF Used, Slots
  <1> QED
    BY <1>2, KeyboardAssumption DEF Slots

\* the slot of the event with i others before it, when t is the oldest's
LEMMA PlaceLemma ==
    ASSUME NEW t \in Slots, NEW i \in 0 .. QLEN
    PROVE  /\ (t + i) % QLEN \in Slots
           /\ (t + i) % QLEN = IF t + i < QLEN THEN t + i ELSE t + i - QLEN
  <1>1. t + i \in -QLEN .. 2 * QLEN - 1 /\ ~(t + i < 0)
    BY KeyboardAssumption DEF Slots
  <1>2. (t + i) % QLEN = IF t + i < QLEN THEN t + i ELSE t + i - QLEN
    BY <1>1, ModIs, KeyboardAssumption DEF Slots
  <1> QED
    BY <1>2, KeyboardAssumption DEF Slots

LEMMA ApartLemma ==
    ASSUME NEW t \in Slots, NEW i \in 0 .. QLEN - 1, NEW j \in 0 .. QLEN - 1,
           (t + i) % QLEN = (t + j) % QLEN
    PROVE  i = j
  <1>1. i \in 0 .. QLEN /\ j \in 0 .. QLEN
    BY KeyboardAssumption
  <1>2. /\ (t + i) % QLEN = IF t + i < QLEN THEN t + i ELSE t + i - QLEN
        /\ (t + j) % QLEN = IF t + j < QLEN THEN t + j ELSE t + j - QLEN
    BY <1>1, PlaceLemma
  <1> QED
    BY <1>2, KeyboardAssumption DEF Slots

LEMMA MoreLemma ==
    ASSUME NEW h \in Slots, NEW t \in Slots, NEW n \in Nat, Used(h, t) + n < QLEN
    PROVE  /\ (h + n) % QLEN \in Slots
           /\ Used((h + n) % QLEN, t) = Used(h, t) + n
           /\ (h + n) % QLEN = (t + (Used(h, t) + n)) % QLEN
  <1> DEFINE u == Used(h, t)
             g == (h + n) % QLEN
  <1>1. /\ u \in 0 .. QLEN - 1 /\ u = IF h < t THEN h - t + QLEN ELSE h - t
    BY UsedLemma
  <1> HIDE DEF u
  <1>2. n \in 0 .. QLEN /\ u + n \in 0 .. QLEN
    BY <1>1, KeyboardAssumption DEF u
  <1>3. g \in Slots /\ g = IF h + n < QLEN THEN h + n ELSE h + n - QLEN
    BY <1>2, PlaceLemma
  <1>4. (t + (u + n)) % QLEN = IF t + (u + n) < QLEN THEN t + (u + n) ELSE t + (u + n) - QLEN
    BY <1>2, PlaceLemma
  <1> HIDE DEF g
  <1>5. Used(g, t) = IF g < t THEN g - t + QLEN ELSE g - t
    BY <1>3, UsedLemma
  <1>6. u + n < QLEN
    BY DEF u
  <1>7. Used(g, t) = u + n
    BY <1>1, <1>2, <1>3, <1>5, <1>6, KeyboardAssumption DEF Slots
  <1>8. g = (t + (u + n)) % QLEN
    BY <1>1, <1>2, <1>3, <1>4, <1>6, KeyboardAssumption DEF Slots
  <1> QED
    BY <1>3, <1>7, <1>8 DEF g, u

LEMMA LessLemma ==
    ASSUME NEW h \in Slots, NEW t \in Slots, h # t
    PROVE  /\ (t + 1) % QLEN \in Slots
           /\ Used(h, (t + 1) % QLEN) = Used(h, t) - 1
           /\ \A i \in 1 .. QLEN - 1 : (((t + 1) % QLEN) + (i - 1)) % QLEN = (t + i) % QLEN
  <1> DEFINE u == (t + 1) % QLEN
  <1>1. u \in Slots /\ u = IF t + 1 < QLEN THEN t + 1 ELSE t + 1 - QLEN
    BY PlaceLemma, KeyboardAssumption
  <1> HIDE DEF u
  <1>2. /\ Used(h, t) = IF h < t THEN h - t + QLEN ELSE h - t
        /\ Used(h, u) = IF h < u THEN h - u + QLEN ELSE h - u
    BY <1>1, UsedLemma
  <1>3. Used(h, u) = Used(h, t) - 1
    BY <1>1, <1>2, KeyboardAssumption DEF Slots
  <1>4. ASSUME NEW i \in 1 .. QLEN - 1 PROVE (u + (i - 1)) % QLEN = (t + i) % QLEN
    <2>1. i - 1 \in 0 .. QLEN /\ i \in 0 .. QLEN
      BY KeyboardAssumption
    <2>2. /\ (u + (i - 1)) % QLEN = IF u + (i - 1) < QLEN THEN u + (i - 1) ELSE u + (i - 1) - QLEN
          /\ (t + i) % QLEN = IF t + i < QLEN THEN t + i ELSE t + i - QLEN
      BY <1>1, <2>1, PlaceLemma
    <2> QED
      BY <1>1, <2>2, KeyboardAssumption DEF Slots
  <1> QED
    BY <1>1, <1>3, <1>4 DEF u

-----------------------------------------------------------------------------
(* The events that wait, as a queue *)

QueueOf(r, h, t) == [i \in 1 .. Used(h, t) |-> r[(t + i - 1) % QLEN]]

LEMMA QueueType ==
    ASSUME NEW r \in [Slots -> Event], NEW h \in Slots, NEW t \in Slots
    PROVE  /\ QueueOf(r, h, t) \in Seq(Event)
           /\ Len(QueueOf(r, h, t)) = Used(h, t)
           /\ \A i \in 1 .. Used(h, t) : QueueOf(r, h, t)[i] = r[(t + (i - 1)) % QLEN]
  <1>1. Used(h, t) \in 0 .. QLEN - 1 /\ Used(h, t) \in Nat
    BY UsedLemma, KeyboardAssumption
  <1>2. \A i \in 1 .. Used(h, t) : t + i - 1 = t + (i - 1) /\ i - 1 \in 0 .. QLEN
    BY <1>1, KeyboardAssumption DEF Slots
  <1>3. \A i \in 1 .. Used(h, t) : r[(t + i - 1) % QLEN] \in Event
    BY <1>2, PlaceLemma
  <1> QED
    BY <1>1, <1>2, <1>3 DEF QueueOf

\* The slot i further on than t; the ring s has es in the slots from h on;
\* it has in those from t to h what r has there.
Place(t, i)      == (t + i) % QLEN
Stored(s, es, h) == \A k \in 1 .. Len(es) : s[Place(h, k - 1)] = es[k]
Kept(s, r, h, t) == \A i \in 1 .. Used(h, t) : s[Place(t, i - 1)] = r[Place(t, i - 1)]

\* Head goes on over events that have been stored: they join the queue.
LEMMA QueuePut ==
    ASSUME NEW r \in [Slots -> Event], NEW s \in [Slots -> Event],
           NEW h \in Slots, NEW t \in Slots, NEW es \in Seq(Event),
           Used(h, t) + Len(es) < QLEN,
           Kept(s, r, h, t), Stored(s, es, h)
    PROVE  QueueOf(s, Place(h, Len(es)), t) = QueueOf(r, h, t) \o es
  <1> DEFINE u == Used(h, t)
             n == Len(es)
             g == (h + n) % QLEN
             q == QueueOf(s, g, t)
             p == QueueOf(r, h, t)
  <1>1. u \in 0 .. QLEN - 1 /\ u \in Nat /\ n \in Nat /\ u + n < QLEN /\ n = Len(es)
    BY UsedLemma, KeyboardAssumption
  <1>2. /\ g \in Slots /\ Used(g, t) = u + n
        /\ \A k \in Nat : u + k < QLEN => (h + k) % QLEN = (t + (u + k)) % QLEN
    BY <1>1, MoreLemma
  <1>0. /\ \A i \in 1 .. u : s[(t + (i - 1)) % QLEN] = r[(t + (i - 1)) % QLEN]
        /\ \A k \in 1 .. n : s[(h + (k - 1)) % QLEN] = es[k]
    BY DEF Place, Kept, Stored
  <1> HIDE DEF g
  <1>9. /\ q \in Seq(Event) /\ Len(q) = Used(g, t)
        /\ \A i \in 1 .. Used(g, t) : q[i] = s[(t + (i - 1)) % QLEN]
    BY <1>2, QueueType
  <1>3. /\ q \in Seq(Event) /\ Len(q) = u + n
        /\ \A i \in 1 .. u + n : q[i] = s[(t + (i - 1)) % QLEN]
    BY <1>2, <1>9
  <1>4. /\ p \in Seq(Event) /\ Len(p) = u
        /\ \A i \in 1 .. u : p[i] = r[(t + (i - 1)) % QLEN]
    BY QueueType
  <1> HIDE DEF q, p, u, n
  <1>5. \A i \in 1 .. u : q[i] = p[i]
    <2> TAKE i \in 1 .. u
    <2>1. i \in 1 .. u + n
      BY <1>1
    <2> QED
      BY <1>0, <1>3, <1>4, <2>1
  <1>6. ASSUME NEW k \in 1 .. n PROVE q[u + k] = es[k]
    <2>1. k - 1 \in Nat /\ u + (k - 1) < QLEN /\ u + k \in 1 .. u + n /\ (u + k) - 1 = u + (k - 1)
      BY <1>1, KeyboardAssumption
    <2>2. (h + (k - 1)) % QLEN = (t + (u + (k - 1))) % QLEN
      BY <1>2, <2>1
    <2> QED
      BY <1>0, <1>3, <2>1, <2>2
  <1>7. /\ p \o es \in Seq(Event) /\ Len(p \o es) = u + n
        /\ \A i \in 1 .. u : (p \o es)[i] = p[i]
        /\ \A k \in 1 .. n : (p \o es)[u + k] = es[k]
    <2>1. \A a, b \in Seq(Event) :
              /\ a \o b \in Seq(Event) /\ Len(a \o b) = Len(a) + Len(b)
              /\ \A i \in 1 .. Len(a) : (a \o b)[i] = a[i]
              /\ \A k \in 1 .. Len(b) : (a \o b)[Len(a) + k] = b[k]
      OBVIOUS
    <2> QED
      BY <1>1, <1>4, <2>1
  <1>8. \A i \in 1 .. u + n : q[i] = (p \o es)[i]
    <2> TAKE i \in 1 .. u + n
    <2>1. CASE i <= u
      BY <1>1, <1>5, <1>7, <2>1
    <2>2. CASE ~(i <= u)
      <3>1. i - u \in 1 .. n /\ u + (i - u) = i
        BY <1>1, <2>2
      <3> QED
        BY <1>6, <1>7, <3>1
    <2> QED
      BY <2>1, <2>2
  <1>10. q = p \o es
    BY <1>1, <1>3, <1>7, <1>8
  <1> QED
    BY <1>10 DEF q, p, g, n, Place

\* Tail goes on: the oldest event leaves the queue.
LEMMA QueueTake ==
    ASSUME NEW r \in [Slots -> Event], NEW h \in Slots, NEW t \in Slots, h # t
    PROVE  LET q == QueueOf(r, h, t)
           IN  /\ q # << >> /\ Head(q) = r[t]
               /\ QueueOf(r, h, (t + 1) % QLEN) = Tail(q)
  <1> DEFINE u == Used(h, t)
             q == QueueOf(r, h, t)
             g == (t + 1) % QLEN
             p == QueueOf(r, h, g)
  <1>1. u \in 1 .. QLEN - 1 /\ u \in Nat
    BY UsedLemma, KeyboardAssumption
  <1>2. /\ q \in Seq(Event) /\ Len(q) = u
        /\ \A i \in 1 .. u : q[i] = r[(t + (i - 1)) % QLEN]
    BY QueueType
  <1>3. /\ g \in Slots /\ Used(h, g) = u - 1
        /\ \A i \in 1 .. QLEN - 1 : (g + (i - 1)) % QLEN = (t + i) % QLEN
    BY LessLemma
  <1> HIDE DEF g
  <1>9. /\ p \in Seq(Event) /\ Len(p) = Used(h, g)
        /\ \A i \in 1 .. Used(h, g) : p[i] = r[(g + (i - 1)) % QLEN]
    BY <1>3, QueueType
  <1>4. /\ p \in Seq(Event) /\ Len(p) = u - 1
        /\ \A i \in 1 .. u - 1 : p[i] = r[(g + (i - 1)) % QLEN]
    BY <1>3, <1>9
  <1> HIDE DEF q, p, u
  <1>5. q # << >> /\ Head(q) = q[1] /\ Tail(q) \in Seq(Event) /\ Len(Tail(q)) = u - 1
        /\ \A i \in 1 .. u - 1 : Tail(q)[i] = q[i + 1]
    BY <1>1, <1>2
  <1>6. q[1] = r[t]
    <2>1. t + (1 - 1) = t /\ t % QLEN = t
      BY KeyboardAssumption DEF Slots
    <2> QED
      BY <1>1, <1>2, <2>1
  <1>7. \A i \in 1 .. u - 1 : p[i] = q[i + 1]
    <2> TAKE i \in 1 .. u - 1
    <2>1. i \in 1 .. QLEN - 1 /\ i + 1 \in 1 .. u /\ (i + 1) - 1 = i
      BY <1>1, KeyboardAssumption
    <2> QED
      BY <1>2, <1>3, <1>4, <2>1
  <1>8. p = Tail(q)
    BY <1>1, <1>4, <1>5, <1>7
  <1> QED
    BY <1>5, <1>6, <1>8 DEF q, p, g

-----------------------------------------------------------------------------
(* The interrupt, and a read's own event *)

\* the click that the interrupt sees, whether it takes the counter with it,
\* what it has to tell and what it pushes
Dir    == IF hStat /\ ~HoldNew THEN WheelDir(old_wheel_value, wheel) ELSE 0
Sum    == ikb_current_scroll + Dir
Flush  == Dir # 0 /\ ikb_reading = 1 /\ Sum # 0
News   == (IF Flush THEN <<Scroll(Sum)>> ELSE <<>>)
             \o ButtonEvents(ikb_buttons_pressed, PressedNew)
Pushed == IF opened = {} THEN <<>> ELSE News

LEMMA IntIs ==
    ASSUME TypeOK, KeyboardInt
    PROVE  /\ PushAll(Pushed)
           /\ ikb_buttons_pressed' = PressedNew
           /\ ikb_current_scroll' = IF Flush THEN 0 ELSE Sum
           /\ clicks' = clicks + Dir
           /\ loss \subseteq loss'
           /\ opened = {} /\ News # <<>> => "closed" \in loss'
           /\ Used(ikb_ev_head, ikb_ev_tail) + Len(Pushed) >= QLEN => "overflow" \in loss'
           /\ Flush /\ Scroll(Sum).dist # Sum => "wrapped" \in loss'
           /\ kpc \in {"load", "store", "zero"} /\ (Pushed # <<>> \/ Dir # 0) => "raced" \in loss'
           /\ UNCHANGED <<ikb_reading, procs, cur, kpc, push, locals, given>>
  <1>1. /\ ikb_buttons_pressed' = PressedNew
        /\ PushAll(Pushed)
        /\ ikb_current_scroll' = IF Flush THEN 0 ELSE Sum
        /\ clicks' = clicks + Dir
        /\ loss' = loss
             \cup (IF opened = {} /\ News # <<>> THEN {"closed"} ELSE {})
             \cup (IF Used(ikb_ev_head, ikb_ev_tail) + Len(Pushed) >= QLEN THEN {"overflow"} ELSE {})
             \cup (IF Flush /\ Scroll(Sum).dist # Sum THEN {"wrapped"} ELSE {})
             \cup (IF kpc \in {"load", "store", "zero"} /\ (Pushed # <<>> \/ Dir # 0)
                   THEN {"raced"} ELSE {})
        /\ UNCHANGED <<ikb_reading, procs, cur, kpc, push, locals, given>>
    BY Zenon DEF KeyboardInt, Pushed, News, Flush, Sum, Dir
  <1> QED
    BY <1>1

LEMMA NewsType ==
    ASSUME TypeOK
    PROVE  /\ Dir \in {-1, 0, 1} /\ Sum \in Int
           /\ Scroll(Sum) \in Event /\ Scroll(Sum).kind = "scroll"
           /\ ButtonEvents(ikb_buttons_pressed, PressedNew) \in Seq(Event)
           /\ News \in Seq(Event) /\ Len(News) <= 3
           /\ Pushed \in Seq(Event) /\ Len(Pushed) <= 3
  <1>1. Dir \in {-1, 0, 1} /\ Sum \in Int
    BY WheelLemma DEF TypeOK, Dir, Sum
  <1>2. Scroll(Sum) \in Event /\ Scroll(Sum).kind = "scroll"
    BY <1>1, ScrollLemma
  <1>3. /\ ButtonEvents(ikb_buttons_pressed, PressedNew) \in Seq(Event)
        /\ Len(ButtonEvents(ikb_buttons_pressed, PressedNew)) <= 2
    BY PressedLemma, ButtonEventsLemma DEF TypeOK
  <1>4. News \in Seq(Event) /\ Len(News) <= 3
    BY <1>2, <1>3 DEF News
  <1> QED
    BY <1>1, <1>2, <1>3, <1>4 DEF Pushed

LEMMA PushNone ==
    ASSUME TypeOK, PushAll(<<>>)
    PROVE  UNCHANGED <<ikb_events, ikb_ev_head>>
  <1>1. \A i \in Slots : ikb_events'[i] = ikb_events[i]
    BY DEF PushAll
  <1>2. ikb_events' = [i \in Slots |-> ikb_events'[i]]
    BY DEF PushAll
  <1>3. ikb_events \in [Slots -> Event]
    BY DEF TypeOK
  <1> QED
    BY <1>1, <1>2, <1>3 DEF PushAll

\* Between the load of head and its mask a read's event is on its way into
\* the slot behind the queue, unless an interrupt came in between.
StoreInv ==
    /\ kpc \in {"load", "store"} => ev.kind = "scroll"
    /\ loss \cap {"raced", "overflow"} = {} /\ kpc = "store" =>
           /\ ikb_ev_head = IF "head" \in todo THEN slot ELSE slot + 1
           /\ "event" \notin todo => ikb_events[slot] = ev
           /\ Used(slot, ikb_ev_tail) < QLEN - 1
    /\ loss \cap {"raced", "wrapped"} = {} /\ kpc \in {"load", "store"} =>
           ev.dist = ikb_current_scroll

LEMMA StoreNext == TypeOK /\ StoreInv /\ [Next]_vars => StoreInv'
  <1> SUFFICES ASSUME TypeOK, StoreInv, [Next]_vars PROVE StoreInv'
    OBVIOUS
  <1>1. CASE KeyboardInt
    <2>1. /\ PushAll(Pushed) /\ loss \subseteq loss'
          /\ ikb_current_scroll' = IF Flush THEN 0 ELSE Sum
          /\ kpc \in {"load", "store", "zero"} /\ (Pushed # <<>> \/ Dir # 0) => "raced" \in loss'
          /\ UNCHANGED <<kpc, ev, slot, todo, ikb_ev_tail>>
      BY <1>1, IntIs DEF push, given
    <2>2. CASE kpc \in {"load", "store"} /\ "raced" \notin loss'
      <3>1. Pushed = <<>> /\ Dir = 0
        BY <2>1, <2>2
      <3>2. UNCHANGED <<ikb_events, ikb_ev_head>>
        BY <2>1, <3>1, PushNone
      <3>3. ikb_current_scroll' = ikb_current_scroll
        BY <2>1, <3>1 DEF Flush, Sum, TypeOK
      <3> QED
        BY <2>1, <3>2, <3>3 DEF StoreInv
    <2>3. CASE ~(kpc \in {"load", "store"} /\ "raced" \notin loss')
      BY <2>1, <2>3 DEF StoreInv
    <2> QED
      BY <2>2, <2>3
  <1>2. CASE UNCHANGED <<kpc, ev, slot, todo, loss, ring, ikb_ev_tail, ikb_current_scroll>>
    BY <1>2 DEF StoreInv, ring
  <1>3. CASE kpc' \notin {"load", "store"}
    BY <1>3 DEF StoreInv
  <1>4. CASE ScrollArg
    <2>1. /\ kpc' = "load" /\ ev' = ScrollEvent(kpc = "negative", ikb_current_scroll)
          /\ ev'.dist # ikb_current_scroll => "wrapped" \in loss'
          /\ ikb_current_scroll' = ikb_current_scroll
      BY <1>4 DEF ScrollArg, At
    <2>2. ev'.kind = "scroll"
      <3>1. (kpc = "negative") \in BOOLEAN /\ ikb_current_scroll \in Int
        BY DEF TypeOK
      <3> QED
        BY <2>1, <3>1, ScrollLemma
    <2> QED
      BY <2>1, <2>2 DEF StoreInv
  <1>5. CASE PushLoad
    <2>1. /\ kpc = "load" /\ kpc' = "store" /\ slot' = ikb_ev_head /\ todo' = {"head", "event"}
          /\ Used(ikb_ev_head, ikb_ev_tail) = QLEN - 1 => "overflow" \in loss'
          /\ loss \subseteq loss'
          /\ UNCHANGED <<ikb_events, ikb_ev_head, ikb_current_scroll, ev, ikb_ev_tail>>
      BY <1>5 DEF PushLoad, At, ring, given
    <2>2. ikb_ev_head \in Slots /\ ikb_ev_tail \in Slots
      BY <2>1, HeadLemma DEF TypeOK
    <2>3. "overflow" \notin loss' => Used(slot', ikb_ev_tail') < QLEN - 1
      BY <2>1, <2>2, UsedLemma, KeyboardAssumption
    <2> QED
      BY <2>1, <2>3 DEF StoreInv
  <1>6. CASE PushHead
    BY <1>6 DEF PushHead, At, StoreInv, given
  <1>7. CASE PushEvent
    <2>1. /\ kpc = "store" /\ todo' = todo \ {"event"}
          /\ ikb_events' = [ikb_events EXCEPT ![slot] = ev]
          /\ UNCHANGED <<kpc, ikb_ev_head, ikb_current_scroll, ev, slot, loss, ikb_ev_tail>>
      BY <1>7 DEF PushEvent, At, given
    <2>2. ikb_events'[slot] = ev
      BY <2>1 DEF TypeOK
    <2> QED
      BY <2>1, <2>2 DEF StoreInv
  <1>8. CASE Pins
    BY <1>2, <1>8 DEF Pins, PressOrRelease, SlideHold, Turn, Software, push, given
  <1>9. CASE Request
    BY <1>2, <1>3, <1>9 DEF Request, Open, Release, Signal, ReadBegin, push, given
  <1>10. CASE KernelStep
    BY <1>3, <1>4, <1>5, <1>6, <1>7, <1>10
    DEF KernelStep, At, ScrollTest, ScrollSign, PushWrap, ScrollZero, SetReading, SetState, EmptyTest,
        Schedule, Drain, DrainEnd, ReadExit
  <1>11. CASE \E r \in Readers : Resume(r)
    BY <1>3, <1>11 DEF Resume
  <1>12. CASE UNCHANGED vars
    BY <1>2, <1>12 DEF vars, push, given
  <1> QED
    BY <1>1, <1>8, <1>9, <1>10, <1>11, <1>12 DEF Next

LEMMA StoreInit == Init => StoreInv
  BY DEF Init, StoreInv

LEMMA QueueIs ==
    ASSUME TypeOK
    PROVE  /\ Head1 \in Slots /\ ikb_ev_tail \in Slots
           /\ ikb_events \in [Slots -> Event]
           /\ kpc # "store" => Head1 = ikb_ev_head
           /\ kpc = "store" => Head1 = slot
           /\ Queue = QueueOf(ikb_events, Head1, ikb_ev_tail)
           /\ Queue \in Seq(Event) /\ Len(Queue) = Used(Head1, ikb_ev_tail)
           /\ Len(Queue) \in 0 .. QLEN - 1
  <1>1. Head1 \in Slots /\ ikb_ev_tail \in Slots /\ ikb_events \in [Slots -> Event]
    BY HeadLemma DEF Head1, TypeOK
  <1>2. Queue = QueueOf(ikb_events, Head1, ikb_ev_tail)
    BY DEF Queue, QueueOf
  <1> QED
    BY <1>1, <1>2, QueueType, UsedLemma DEF Head1

\* ikb_push_event stores each event behind the ones that wait.
LEMMA PushAllStores ==
    ASSUME TypeOK, NEW es \in Seq(Event), Len(es) <= 3, es # <<>>, PushAll(es),
           ikb_ev_head \in Slots, Used(ikb_ev_head, ikb_ev_tail) + Len(es) < QLEN
    PROVE  /\ ikb_events' \in [Slots -> Event]
           /\ ikb_ev_head' = Place(ikb_ev_head, Len(es))
           /\ Stored(ikb_events', es, ikb_ev_head)
           /\ Kept(ikb_events', ikb_events, ikb_ev_head, ikb_ev_tail)
  <1> DEFINE h == ikb_ev_head
             t == ikb_ev_tail
             u == Used(h, t)
             n == Len(es)
             ks(i) == {k \in DOMAIN es : SlotOf(k) = i}
  <1>1. /\ ikb_events' \in [Slots -> Event]
        /\ h' = (h + n) % QLEN
    BY PushAllLemma DEF PushAll
  <1>2. /\ h \in Slots /\ t \in Slots /\ u \in 0 .. QLEN - 1 /\ n \in 1 .. 3 /\ n \in Nat
        /\ u + n < QLEN /\ DOMAIN es = 1 .. n
    <2>1. h \in Slots /\ t \in Slots
      BY DEF TypeOK
    <2>2. u \in 0 .. QLEN - 1
      BY <2>1, UsedLemma
    <2>3. n \in Nat /\ n # 0 /\ n <= 3 /\ DOMAIN es = 1 .. n
      OBVIOUS
    <2> QED
      BY <2>1, <2>2, <2>3
  <1>3. \A i \in Slots : ikb_events'[i] = IF ks(i) = {} THEN ikb_events[i] ELSE es[Max(ks(i))]
    BY DEF PushAll
  <1> HIDE DEF h, t, u, n
  <1>4. \A k \in 1 .. n : k - 1 \in Nat /\ u + (k - 1) \in 0 .. QLEN - 1 /\ u + (k - 1) < QLEN
    BY <1>2, KeyboardAssumption
  <1>5. ASSUME NEW k \in 1 .. n
        PROVE  SlotOf(k) = (h + (k - 1)) % QLEN /\ SlotOf(k) = (t + (u + (k - 1))) % QLEN
    <2>1. SlotOf(k) = (h + (k - 1)) % QLEN
      <3>1. CASE k = 1
        <4>1. h + (1 - 1) = h /\ h % QLEN = h
          BY <1>2, KeyboardAssumption DEF Slots
        <4> QED
          BY <3>1, <4>1 DEF SlotOf, h
      <3>2. CASE k # 1
        <4>1. h + k - 1 = h + (k - 1)
          BY <1>2, KeyboardAssumption DEF Slots
        <4> QED
          BY <3>2, <4>1 DEF SlotOf, h
      <3> QED
        BY <3>1, <3>2
    <2>2. (h + (k - 1)) % QLEN = (t + (u + (k - 1))) % QLEN
      BY <1>2, <1>4, MoreLemma DEF u
    <2> QED
      BY <2>1, <2>2
  <1>6. \A k \in 1 .. n : SlotOf(k) \in Slots
    BY <1>2, <1>4, <1>5, PlaceLemma, KeyboardAssumption
  <1>7. ASSUME NEW k \in 1 .. n PROVE ks(SlotOf(k)) = {k}
    <2>1. \A j \in 1 .. n : SlotOf(j) = SlotOf(k) => j = k
      <3> TAKE j \in 1 .. n
      <3> HAVE SlotOf(j) = SlotOf(k)
      <3>1. (t + (u + (j - 1))) % QLEN = (t + (u + (k - 1))) % QLEN
        BY <1>5
      <3>2. u + (j - 1) = u + (k - 1)
        BY <1>2, <1>4, <3>1, ApartLemma
      <3> QED
        BY <1>2, <3>2
    <2> QED
      BY <1>2, <2>1
  <1>8. ASSUME NEW k \in 1 .. n PROVE ikb_events'[(h + (k - 1)) % QLEN] = es[k]
    <2>1. {k} \in SUBSET (1 .. 3)
      BY <1>2
    <2>2. Max({k}) = k
      BY <2>1, MaxLemma
    <2>3. ikb_events'[SlotOf(k)] = es[k]
      BY <1>3, <1>6, <1>7, <2>2
    <2> QED
      BY <1>5, <2>3
  <1>9. ASSUME NEW i \in 1 .. u
        PROVE  ikb_events'[(t + (i - 1)) % QLEN] = ikb_events[(t + (i - 1)) % QLEN]
    <2>1. i - 1 \in 0 .. QLEN - 1 /\ i - 1 \in 0 .. QLEN /\ i - 1 < u
      BY <1>2, KeyboardAssumption
    <2>2. (t + (i - 1)) % QLEN \in Slots
      BY <1>2, <2>1, PlaceLemma
    <2>3. ks((t + (i - 1)) % QLEN) = {}
      <3> SUFFICES ASSUME NEW k \in 1 .. n, SlotOf(k) = (t + (i - 1)) % QLEN PROVE FALSE
        BY <1>2
      <3>1. u + (k - 1) = i - 1
        BY <1>2, <1>4, <1>5, <2>1, ApartLemma
      <3> QED
        BY <1>2, <2>1, <3>1
    <2> QED
      BY <1>3, <2>2, <2>3
  <1> QED
    BY <1>1, <1>8, <1>9 DEF h, t, u, n, Place, Stored, Kept

\* What the interrupt pushes joins the queue, all of it.
LEMMA IntQueue ==
    ASSUME TypeOK, TypeOK', StoreInv, KeyboardInt, loss' \cap {"raced", "overflow"} = {}
    PROVE  /\ Queue' = Queue \o Pushed
           /\ kpc \in {"load", "store", "zero"} => Pushed = <<>> /\ Dir = 0
           /\ kpc' = kpc /\ UNCHANGED given
  <1>1. /\ PushAll(Pushed)
        /\ Used(ikb_ev_head, ikb_ev_tail) + Len(Pushed) >= QLEN => "overflow" \in loss'
        /\ kpc \in {"load", "store", "zero"} /\ (Pushed # <<>> \/ Dir # 0) => "raced" \in loss'
        /\ UNCHANGED <<kpc, slot, ikb_ev_tail, user, told, toldClicks>>
    BY IntIs DEF push, given
  <1>2. Pushed \in Seq(Event) /\ Len(Pushed) <= 3
    BY NewsType
  <1>3. kpc \in {"load", "store", "zero"} => Pushed = <<>> /\ Dir = 0
    BY <1>1
  <1>4. CASE Pushed = <<>>
    <2>1. UNCHANGED <<ikb_events, ikb_ev_head>>
      BY <1>1, <1>4, PushNone
    <2>2. Queue' = Queue
      BY <1>1, <2>1 DEF Queue, Head1
    <2>3. Queue \o <<>> = Queue
      BY QueueIs
    <2> QED
      BY <1>1, <1>3, <1>4, <2>2, <2>3 DEF given
  <1>5. CASE Pushed # <<>>
    <2>1. /\ kpc # "store" /\ Head1 = ikb_ev_head /\ ikb_ev_head \in Slots
          /\ ikb_ev_tail \in Slots /\ ikb_events \in [Slots -> Event]
      BY <1>3, <1>5, QueueIs
    <2>2. Used(ikb_ev_head, ikb_ev_tail) + Len(Pushed) < QLEN
      <3>1. Used(ikb_ev_head, ikb_ev_tail) \in 0 .. QLEN - 1 /\ Len(Pushed) \in Nat
        BY <1>2, <2>1, UsedLemma
      <3> QED
        BY <1>1, <3>1, KeyboardAssumption
    <2>3. /\ ikb_events' \in [Slots -> Event]
          /\ ikb_ev_head' = Place(ikb_ev_head, Len(Pushed))
          /\ Stored(ikb_events', Pushed, ikb_ev_head)
          /\ Kept(ikb_events', ikb_events, ikb_ev_head, ikb_ev_tail)
      BY <1>1, <1>2, <1>5, <2>1, <2>2, PushAllStores
    <2>4. QueueOf(ikb_events', Place(ikb_ev_head, Len(Pushed)), ikb_ev_tail)
              = QueueOf(ikb_events, ikb_ev_head, ikb_ev_tail) \o Pushed
      BY <1>2, <2>1, <2>2, <2>3, QueuePut, SMTT(30)
    <2>5. Queue = QueueOf(ikb_events, ikb_ev_head, ikb_ev_tail)
      BY <2>1, QueueIs
    <2>6. Queue' = QueueOf(ikb_events', ikb_ev_head', ikb_ev_tail')
      BY <1>1, <2>1 DEF Queue, Head1, QueueOf
    <2> QED
      BY <1>1, <1>3, <2>3, <2>4, <2>5, <2>6 DEF given
  <1> QED
    BY <1>4, <1>5

LEMMA LossGrows == [Next]_vars => loss \subseteq loss'
  <1> SUFFICES ASSUME [Next]_vars PROVE loss \subseteq loss'
    OBVIOUS
  <1>1. CASE Pins \/ UNCHANGED vars
    BY <1>1 DEF Pins, PressOrRelease, SlideHold, Turn, Software, vars
  <1>2. CASE KeyboardInt
    BY <1>2 DEF KeyboardInt
  <1>3. CASE Request \/ \E r \in Readers : Resume(r)
    BY <1>3 DEF Request, Open, Release, Signal, ReadBegin, Resume
  <1>4. CASE KernelStep
    BY <1>4 DEF KernelStep, ScrollTest, ScrollSign, ScrollArg, PushLoad, PushHead, PushEvent, PushWrap,
        ScrollZero, SetReading, SetState, EmptyTest, Schedule, Drain, DrainEnd, ReadExit
  <1> QED
    BY <1>1, <1>2, <1>3, <1>4 DEF Next

\* An event stored behind the queue is not in it yet.
LEMMA StoreBehind ==
    ASSUME TypeOK, TypeOK', PushEvent
    PROVE  Queue' = Queue
  <1> DEFINE t == ikb_ev_tail
             u == Used(slot, t)
             r == ikb_events
             s == ikb_events'
  <1>1. /\ kpc = "store" /\ kpc' = "store" /\ UNCHANGED <<slot, ikb_ev_tail>>
        /\ s = [r EXCEPT ![slot] = ev]
    BY DEF PushEvent, At, given
  <1>2. slot \in Slots /\ t \in Slots /\ r \in [Slots -> Event]
    BY DEF TypeOK
  <1>3. u \in 0 .. QLEN - 1 /\ u \in Nat /\ u + 0 < QLEN /\ u + 0 = u
    BY <1>2, UsedLemma, KeyboardAssumption
  <1>4. slot = (t + u) % QLEN
    <2>1. (slot + 0) % QLEN = (t + (u + 0)) % QLEN
      BY <1>2, <1>3, MoreLemma
    <2>2. slot + 0 = slot /\ slot % QLEN = slot
      BY <1>2, KeyboardAssumption DEF Slots
    <2> QED
      BY <1>3, <2>1, <2>2
  <1>5. \A i \in 1 .. u : s[(t + i - 1) % QLEN] = r[(t + i - 1) % QLEN]
    <2> TAKE i \in 1 .. u
    <2>1. i - 1 \in 0 .. QLEN - 1 /\ i - 1 \in 0 .. QLEN /\ i - 1 # u /\ t + i - 1 = t + (i - 1)
      BY <1>2, <1>3, KeyboardAssumption DEF Slots
    <2>2. (t + (i - 1)) % QLEN # slot
      BY <1>2, <1>3, <1>4, <2>1, ApartLemma
    <2>3. (t + (i - 1)) % QLEN \in Slots
      BY <1>2, <2>1, PlaceLemma
    <2> QED
      BY <1>1, <1>2, <2>1, <2>2, <2>3
  <1>6. Queue = [i \in 1 .. u |-> r[(t + i - 1) % QLEN]]
    BY <1>1 DEF Queue, Head1
  <1>7. Queue' = [i \in 1 .. u |-> s[(t + i - 1) % QLEN]]
    BY <1>1 DEF Queue, Head1
  <1> HIDE DEF s, r, u, t
  <1> QED
    BY <1>5, <1>6, <1>7

\* When head is masked a read's own event joins the queue.
LEMMA WrapQueue ==
    ASSUME TypeOK, TypeOK', StoreInv, PushWrap, loss \cap {"raced", "overflow"} = {}
    PROVE  Queue' = Queue \o <<ev>>
  <1>1. /\ kpc = "store" /\ kpc' = "zero" /\ todo = {}
        /\ ikb_ev_head' = ikb_ev_head % QLEN
        /\ UNCHANGED <<ikb_events, ikb_ev_tail>>
    BY DEF PushWrap, At, given
  <1>2. /\ ikb_ev_head = slot + 1 /\ ikb_events[slot] = ev
        /\ Used(slot, ikb_ev_tail) < QLEN - 1
    BY <1>1 DEF StoreInv
  <1>3. /\ slot \in Slots /\ ikb_ev_tail \in Slots /\ ikb_events \in [Slots -> Event]
        /\ <<ev>> \in Seq(Event) /\ Len(<<ev>>) = 1 /\ <<ev>>[1] = ev
    BY DEF TypeOK
  <1>4. Used(slot, ikb_ev_tail) + Len(<<ev>>) < QLEN
    BY <1>2, <1>3, UsedLemma, KeyboardAssumption
  <1>5. Place(slot, 1 - 1) = slot /\ Place(slot, 1) = ikb_ev_head'
    <2>1. slot + (1 - 1) = slot /\ slot % QLEN = slot
      BY <1>3, KeyboardAssumption DEF Slots
    <2> QED
      BY <1>1, <1>2, <2>1 DEF Place
  <1>6. Stored(ikb_events, <<ev>>, slot) /\ Kept(ikb_events, ikb_events, slot, ikb_ev_tail)
    <2>1. \A k \in 1 .. 1 : k = 1
      OBVIOUS
    <2> QED
      BY <1>2, <1>3, <1>5, <2>1 DEF Stored, Kept
  <1>7. QueueOf(ikb_events, Place(slot, Len(<<ev>>)), ikb_ev_tail)
            = QueueOf(ikb_events, slot, ikb_ev_tail) \o <<ev>>
    <2> DEFINE es == <<ev>>
    <2>1. /\ es \in Seq(Event) /\ Used(slot, ikb_ev_tail) + Len(es) < QLEN
          /\ Stored(ikb_events, es, slot)
      BY <1>3, <1>4, <1>6
    <2> HIDE DEF es
    <2>2. QueueOf(ikb_events, Place(slot, Len(es)), ikb_ev_tail)
              = QueueOf(ikb_events, slot, ikb_ev_tail) \o es
      BY <1>3, <1>6, <2>1, QueuePut
    <2> QED
      BY <2>2 DEF es
  <1>8. Queue = QueueOf(ikb_events, slot, ikb_ev_tail)
    BY <1>1 DEF Queue, QueueOf, Head1
  <1>9. Queue' = QueueOf(ikb_events, ikb_ev_head', ikb_ev_tail)
    BY <1>1 DEF Queue, QueueOf, Head1
  <1> QED
    BY <1>3, <1>5, <1>7, <1>8, <1>9

\* A reader takes the oldest event.
LEMMA DrainQueue ==
    ASSUME TypeOK, Drain
    PROVE  /\ Queue # <<>> /\ user' = Head(Queue) /\ Queue' = Tail(Queue)
  <1>1. /\ kpc = "drain" /\ kpc' = "drain" /\ ikb_ev_head # ikb_ev_tail
        /\ user' = ikb_events[ikb_ev_tail] /\ ikb_ev_tail' = (ikb_ev_tail + 1) % QLEN
        /\ UNCHANGED <<ikb_events, ikb_ev_head>>
    BY DEF Drain, At, Readable, NextTail, ring
  <1>2. /\ Head1 = ikb_ev_head /\ ikb_ev_head \in Slots /\ ikb_ev_tail \in Slots
        /\ ikb_events \in [Slots -> Event]
        /\ Queue = QueueOf(ikb_events, ikb_ev_head, ikb_ev_tail)
    BY <1>1, QueueIs
  <1>3. Queue' = QueueOf(ikb_events, ikb_ev_head, ikb_ev_tail')
    BY <1>1 DEF Queue, QueueOf, Head1
  <1>4. /\ Queue # <<>> /\ Head(Queue) = ikb_events[ikb_ev_tail]
        /\ QueueOf(ikb_events, ikb_ev_head, (ikb_ev_tail + 1) % QLEN) = Tail(Queue)
    BY <1>1, <1>2, QueueTake
  <1> QED
    BY <1>1, <1>3, <1>4

\* What any other step does to the queue.
LEMMA StepQueue ==
    ASSUME TypeOK, TypeOK', StoreInv, [Next]_vars, ~KeyboardInt,
           loss' \cap {"raced", "overflow"} = {}
    PROVE  \/ Drain /\ Queue # <<>> /\ user' = Head(Queue) /\ Queue' = Tail(Queue)
           \/ PushWrap /\ Queue' = Queue \o <<ev>> /\ UNCHANGED <<user, told, toldClicks>>
           \/ ~Drain /\ ~PushWrap /\ Queue' = Queue /\ UNCHANGED <<user, told, toldClicks>>
  <1>1. loss \cap {"raced", "overflow"} = {}
    BY LossGrows
  <1>2. CASE Drain
    BY <1>2, DrainQueue
  <1>3. CASE PushWrap
    <2>1. UNCHANGED <<user, told, toldClicks>>
      BY <1>3 DEF PushWrap, given
    <2> QED
      BY <1>1, <1>3, <2>1, WrapQueue
  <1>4. CASE ~Drain /\ ~PushWrap
    <2>1. UNCHANGED <<ikb_ev_tail, user, told, toldClicks>>
      <3>1. CASE Pins \/ UNCHANGED vars
        BY <3>1 DEF Pins, PressOrRelease, SlideHold, Turn, Software, vars, given
      <3>2. CASE Request \/ \E r \in Readers : Resume(r)
        BY <3>2 DEF Request, Open, Release, Signal, ReadBegin, Resume, given
      <3>3. CASE KernelStep
        BY <1>4, <3>3 DEF KernelStep, ScrollTest, ScrollSign, ScrollArg, PushLoad, PushHead, PushEvent,
            ScrollZero, SetReading, SetState, EmptyTest, Schedule, DrainEnd, ReadExit, given
      <3> QED
        BY <3>1, <3>2, <3>3 DEF Next
    <2>2. CASE PushEvent
      BY <1>4, <2>1, <2>2, StoreBehind
    <2>3. CASE ~PushEvent
      <3>1. ikb_events' = ikb_events /\ Head1' = Head1
        <4>1. CASE Pins \/ UNCHANGED vars
          BY <4>1 DEF Pins, PressOrRelease, SlideHold, Turn, Software, vars, ring, push, Head1
        <4>2. CASE Request \/ \E r \in Readers : Resume(r)
          BY <4>2 DEF Request, Open, Release, Signal, ReadBegin, Resume, ring, push, Head1, TypeOK
        <4>3. CASE PushLoad
          BY <4>3 DEF PushLoad, At, ring, Head1
        <4>4. CASE PushHead
          BY <4>4 DEF PushHead, At, Head1
        <4>5. CASE KernelStep /\ ~PushLoad /\ ~PushHead
          <5>1. kpc # "store" /\ kpc' # "store" /\ UNCHANGED ring
            BY <1>4, <2>3, <4>5 DEF KernelStep, ScrollTest, ScrollSign, ScrollArg,
               ScrollZero, SetReading, SetState, EmptyTest, Schedule, DrainEnd, ReadExit, At
          <5> QED
            BY <5>1 DEF ring, Head1
        <4> QED
          BY <4>1, <4>2, <4>3, <4>4, <4>5 DEF Next
      <3> QED
        BY <1>4, <2>1, <3>1 DEF Queue
    <2> QED
      BY <2>2, <2>3
  <1> QED
    BY <1>2, <1>3, <1>4

\* Readers get each event once, in the order in which keyboard_int and
\* ikb_make_scroll_event pushed them (ikb_push_event, keyboard.c:131-141, and
\* the loop of ikb_read): every step is a step of a bounded queue or leaves
\* it alone, as long as the ring does not overflow and no interrupt comes
\* inside a read's own push.
THEOREM EventsAreQueued == Spec => EventQueueSpec
  <1>1. Init => Events!Init
    <2> SUFFICES ASSUME Init PROVE Events!Init
      OBVIOUS
    <2>1. Head1 = 0 /\ ikb_ev_tail = 0 /\ user = NoEvent
      BY DEF Init, Head1
    <2>2. Used(0, 0) = 0
      BY SlotsLemma, UsedLemma
    <2>3. Queue = <<>>
      BY <2>1, <2>2 DEF Queue
    <2> QED
      BY <2>1, <2>3 DEF Events!Init
  <1>2. TypeOK /\ TypeOK' /\ StoreInv /\ [Next]_vars /\ loss' \cap {"raced", "overflow"} = {}
        => [Events!Next]_<<Queue, user>>
    <2> SUFFICES ASSUME TypeOK, TypeOK', StoreInv, [Next]_vars,
                        loss' \cap {"raced", "overflow"} = {}
                 PROVE  [Events!Next]_<<Queue, user>>
      OBVIOUS
    <2>1. /\ Queue \in Seq(Event) /\ Len(Queue) \in Nat
          /\ Queue' \in Seq(Event) /\ Len(Queue') <= QLEN - 1
      <3>1. /\ Queue \in Seq(Event) /\ Len(Queue) \in 0 .. QLEN - 1
        BY QueueIs
      <3>2. (TypeOK => Queue \in Seq(Event) /\ Len(Queue) \in 0 .. QLEN - 1)'
        BY QueueIs, PTL
      <3> QED
        BY <3>1, <3>2, KeyboardAssumption
    <2>2. ASSUME NEW es \in Seq(Event), es # <<>>, Queue' = Queue \o es, user' = user
          PROVE  Events!Put
      <3>1. \A a, b \in Seq(Event) : b # <<>> =>
                Len(a) < Len(a \o b) /\ SubSeq(a \o b, 1, Len(a)) = a
        OBVIOUS
      <3>2. Len(Queue) < Len(Queue') /\ SubSeq(Queue', 1, Len(Queue)) = Queue
        BY <2>1, <2>2, <3>1
      <3> QED
        BY <2>1, <2>2, <3>2 DEF Events!Put
    <2>3. CASE KeyboardInt
      <3>1. Queue' = Queue \o Pushed /\ user' = user /\ Pushed \in Seq(Event)
        BY <2>3, IntQueue, NewsType DEF given
      <3>2. CASE Pushed = <<>>
        BY <2>1, <3>1, <3>2
      <3>3. CASE Pushed # <<>>
        BY <2>2, <3>1, <3>3 DEF Events!Next
      <3> QED
        BY <3>2, <3>3
    <2>4. CASE ~KeyboardInt
      <3>1. <<ev>> \in Seq(Event) /\ <<ev>> # <<>>
        BY DEF TypeOK
      <3>2. Drain => Events!Take
        BY <2>4, StepQueue DEF Events!Take, PushWrap, Drain, At
      <3>3. PushWrap => Events!Put
        BY <2>2, <2>4, <3>1, StepQueue DEF PushWrap, Drain, At
      <3> QED
        BY <2>4, <3>2, <3>3, StepQueue DEF Events!Next
    <2> QED
      BY <2>3, <2>4
  <1>3. TypeOK /\ TypeOK' /\ StoreInv /\ [Next]_vars
        => [loss' \cap {"raced", "overflow"} = {} => [Events!Next]_<<Queue, user>>]_vars
    BY <1>2
  <1>4. Spec => []TypeOK
    BY TypeCorrect
  <1> QED
    BY <1>1, <1>3, <1>4, StoreInit, StoreNext, PTL DEF Spec, EventQueueSpec

-----------------------------------------------------------------------------
(* Numbers and sums *)

LEMMA Least ==
    ASSUME NEW T \in SUBSET Nat, T # {}
    PROVE  \E m \in T : \A k \in T : m <= k
  <1>1. PICK m \in T : \A k \in T : <<k, m>> \notin OpToRel(<, Nat)
    BY WFMin, NatLessThanWellFounded, Zenon
  <1>2. \A k \in T : ~(k < m)
    BY <1>1 DEF OpToRel
  <1> QED
    BY <1>2

LEMMA NatSteps ==
    ASSUME NEW S, 0 \in S, \A n \in Nat : n \in S => n + 1 \in S
    PROVE  Nat \subseteq S
  <1> SUFFICES ASSUME Nat \ S # {} PROVE FALSE
    OBVIOUS
  <1>1. PICK m \in Nat \ S : \A k \in Nat \ S : m <= k
    BY Least
  <1>2. m - 1 \in Nat /\ (m - 1) + 1 = m /\ ~(m <= m - 1)
    BY <1>1
  <1>3. m - 1 \in S
    BY <1>1, <1>2
  <1> QED
    BY <1>1, <1>2, <1>3

LEMMA Greatest ==
    ASSUME NEW n \in Nat, NEW T \in SUBSET (1 .. n), T # {}
    PROVE  Max(T) \in T /\ \A k \in T : k <= Max(T)
  <1> DEFINE above == {m \in Nat : \A k \in T : k <= m}
  <1>1. PICK m \in above : \A k \in above : m <= k
    <2>1. n \in above
      OBVIOUS
    <2> QED
      BY <2>1, Least
  <1>2. m \in T
    <2> SUFFICES ASSUME m \notin T PROVE FALSE
      OBVIOUS
    <2>1. PICK k \in T : TRUE
      OBVIOUS
    <2>2. m - 1 \in above
      BY <1>1, <2>1
    <2> QED
      BY <1>1, <2>2
  <1> QED
    BY <1>1, <1>2 DEF Max

\* f adds up the clicks of the first events of q, one after the other.
AddsUp(f, q) == f = [n \in 0 .. Len(q) |-> IF n = 0 THEN 0 ELSE f[n - 1] + ClicksOf(q[n])]

LEMMA ClicksOfInt == \A e \in Event : ClicksOf(e) \in Int
  BY EventLemma DEF ClicksOf

LEMMA SumExists ==
    ASSUME NEW q \in Seq(Event)
    PROVE  \E f \in [0 .. Len(q) -> Int] : AddsUp(f, q)
  <1> DEFINE Good(f, m) == /\ f \in [0 .. m -> Int]
                           /\ \A n \in 0 .. m :
                                 f[n] = IF n = 0 THEN 0 ELSE f[n - 1] + ClicksOf(q[n])
             S == {m \in Nat : m <= Len(q) => \E f : Good(f, m)}
  <1>1. 0 \in S
    <2>1. Good([n \in 0 .. 0 |-> 0], 0)
      OBVIOUS
    <2> QED
      BY <2>1
  <1>2. \A m \in Nat : m \in S => m + 1 \in S
    <2> SUFFICES ASSUME NEW m \in Nat, m \in S, m + 1 <= Len(q)
                 PROVE  \E f : Good(f, m + 1)
      <3> HIDE DEF Good
      <3> QED
        OBVIOUS
    <2>1. PICK f : Good(f, m)
      <3> HIDE DEF Good
      <3> QED
        OBVIOUS
    <2> DEFINE g == [n \in 0 .. m + 1 |-> IF n = m + 1 THEN f[m] + ClicksOf(q[m + 1]) ELSE f[n]]
    <2>2. ClicksOf(q[m + 1]) \in Int /\ f[m] \in Int
      BY <2>1, ClicksOfInt
    <2>3. g \in [0 .. m + 1 -> Int]
      BY <2>1, <2>2
    <2>4. ASSUME NEW n \in 0 .. m + 1
          PROVE  g[n] = IF n = 0 THEN 0 ELSE g[n - 1] + ClicksOf(q[n])
      <3>1. CASE n = m + 1
        BY <3>1
      <3>2. CASE n # m + 1
        BY <2>1, <3>2
      <3> QED
        BY <3>1, <3>2
    <2> QED
      BY <2>3, <2>4
  <1> HIDE DEF S
  <1>3. Len(q) \in S
    <2>1. Nat \subseteq S /\ Len(q) \in Nat
      BY <1>1, <1>2, NatSteps
    <2> QED
      BY <2>1
  <1>4. PICK f : Good(f, Len(q))
    BY <1>3 DEF S
  <1>5. f = [n \in 0 .. Len(q) |-> f[n]]
    BY <1>4
  <1> QED
    BY <1>4, <1>5 DEF AddsUp

LEMMA SumType ==
    ASSUME NEW q \in Seq(Event), NEW f, AddsUp(f, q)
    PROVE  /\ f \in [0 .. Len(q) -> Int] /\ f[0] = 0
           /\ \A n \in 1 .. Len(q) : f[n] = f[n - 1] + ClicksOf(q[n])
  <1> DEFINE S == {m \in Nat : m <= Len(q) => f[m] \in Int}
  <1>1. Len(q) \in Nat /\ f = [n \in 0 .. Len(q) |-> f[n]]
    BY DEF AddsUp
  <1>2. f[0] = 0 /\ \A n \in 1 .. Len(q) : f[n] = f[n - 1] + ClicksOf(q[n])
    BY <1>1 DEF AddsUp
  <1>3. \A m \in Nat : m \in S => m + 1 \in S
    <2> SUFFICES ASSUME NEW m \in Nat, f[m] \in Int, m + 1 <= Len(q)
                 PROVE  f[m + 1] \in Int
      BY <1>1
    <2>1. f[m + 1] = f[m] + ClicksOf(q[m + 1]) /\ q[m + 1] \in Event
      BY <1>1, <1>2
    <2> QED
      BY <2>1, ClicksOfInt
  <1>4. 0 \in S
    BY <1>2
  <1> HIDE DEF S
  <1>5. Nat \subseteq S
    BY <1>3, <1>4, NatSteps
  <1>6. \A n \in 0 .. Len(q) : f[n] \in Int
    BY <1>1, <1>5 DEF S
  <1> QED
    BY <1>1, <1>2, <1>6

LEMMA SumIs ==
    ASSUME NEW q \in Seq(Event)
    PROVE  \E f : AddsUp(f, q) /\ ClicksIn(q) = f[Len(q)]
  <1> DEFINE f == CHOOSE f : AddsUp(f, q)
  <1>1. AddsUp(f, q)
    BY SumExists
  <1>2. ClicksIn(q) = f[Len(q)]
    BY DEF ClicksIn, AddsUp
  <1> QED
    BY <1>1, <1>2

\* A stretch p of a queue q, from the event after the d-th, adds what it adds
\* on its own.
Stretch(p, q, d) == d + Len(p) <= Len(q) /\ \A i \in 1 .. Len(p) : q[d + i] = p[i]

LEMMA SumOver ==
    ASSUME NEW q \in Seq(Event), NEW p \in Seq(Event), NEW d \in Nat,
           Stretch(p, q, d),
           NEW f, AddsUp(f, q), NEW g, AddsUp(g, p)
    PROVE  f[d + Len(p)] = f[d] + g[Len(p)]
  <1> DEFINE S == {m \in Nat : m <= Len(p) => f[d + m] = f[d] + g[m]}
  <1>1. /\ Len(q) \in Nat /\ Len(p) \in Nat
        /\ f \in [0 .. Len(q) -> Int]
        /\ \A n \in 1 .. Len(q) : f[n] = f[n - 1] + ClicksOf(q[n])
        /\ g \in [0 .. Len(p) -> Int] /\ g[0] = 0
        /\ \A n \in 1 .. Len(p) : g[n] = g[n - 1] + ClicksOf(p[n])
        /\ d + Len(p) <= Len(q) /\ \A i \in 1 .. Len(p) : q[d + i] = p[i]
    BY SumType DEF Stretch
  <1>2. 0 \in S
    <2>1. d + 0 = d /\ d \in 0 .. Len(q)
      BY <1>1
    <2>2. f[d] \in Int /\ f[d + 0] = f[d]
      BY <1>1, <2>1
    <2>3. f[d] + 0 = f[d]
      BY <2>2
    <2> QED
      BY <1>1, <2>2, <2>3
  <1>3. \A m \in Nat : m \in S => m + 1 \in S
    <2> SUFFICES ASSUME NEW m \in Nat, f[d + m] = f[d] + g[m], m + 1 <= Len(p)
                 PROVE  f[d + (m + 1)] = f[d] + g[m + 1]
      BY <1>1
    <2>1. /\ m + 1 \in 1 .. Len(p) /\ d + (m + 1) \in 1 .. Len(q) /\ d \in 0 .. Len(q)
          /\ (m + 1) - 1 = m /\ (d + (m + 1)) - 1 = d + m /\ m \in 0 .. Len(p)
      BY <1>1
    <2>2. /\ g[m + 1] = g[m] + ClicksOf(p[m + 1])
          /\ f[d + (m + 1)] = f[d + m] + ClicksOf(q[d + (m + 1)])
          /\ f[d] \in Int /\ g[m] \in Int
      BY <1>1, <2>1
    <2>3. q[d + (m + 1)] = p[m + 1] /\ ClicksOf(p[m + 1]) \in Int
      BY <1>1, <2>1, ClicksOfInt, SMTT(30)
    <2> QED
      BY <2>2, <2>3
  <1> HIDE DEF S
  <1>4. Len(p) \in S
    BY <1>1, <1>2, <1>3, NatSteps
  <1> QED
    BY <1>1, <1>4 DEF S

LEMMA ClicksType ==
    ASSUME NEW q \in Seq(Event)
    PROVE  ClicksIn(q) \in Int
  <1>1. PICK f : AddsUp(f, q) /\ ClicksIn(q) = f[Len(q)]
    BY SumIs
  <1>2. f \in [0 .. Len(q) -> Int] /\ Len(q) \in Nat
    BY <1>1, SumType
  <1> QED
    BY <1>1, <1>2

LEMMA ClicksEmpty == ClicksIn(<<>>) = 0
  <1>1. <<>> \in Seq(Event) /\ Len(<<>>) = 0
    OBVIOUS
  <1>2. PICK f : AddsUp(f, <<>>) /\ ClicksIn(<<>>) = f[0]
    BY <1>1, SumIs
  <1> QED
    BY <1>1, <1>2, SumType

LEMMA ClicksJoin ==
    ASSUME NEW a \in Seq(Event), NEW b \in Seq(Event)
    PROVE  ClicksIn(a \o b) = ClicksIn(a) + ClicksIn(b)
  <1> DEFINE q == a \o b
  <1>1. /\ q \in Seq(Event) /\ Len(q) = Len(a) + Len(b) /\ Len(a) \in Nat /\ Len(b) \in Nat
        /\ \A i \in 1 .. Len(a) : q[i] = a[i]
        /\ \A i \in 1 .. Len(b) : q[Len(a) + i] = b[i]
    OBVIOUS
  <1> HIDE DEF q
  <1>2. PICK f : AddsUp(f, q) /\ ClicksIn(q) = f[Len(q)]
    BY <1>1, SumIs
  <1>3. PICK g : AddsUp(g, a) /\ ClicksIn(a) = g[Len(a)]
    BY SumIs
  <1>4. PICK h : AddsUp(h, b) /\ ClicksIn(b) = h[Len(b)]
    BY SumIs
  <1>5. f[Len(a)] = f[0] + g[Len(a)]
    <2>1. Stretch(a, q, 0)
      BY <1>1 DEF Stretch
    <2>2. f[0 + Len(a)] = f[0] + g[Len(a)]
      BY <1>1, <1>2, <1>3, <2>1, SumOver
    <2> QED
      BY <1>1, <2>2
  <1>6. f[Len(a) + Len(b)] = f[Len(a)] + h[Len(b)]
    <2>1. Stretch(b, q, Len(a))
      BY <1>1 DEF Stretch
    <2> QED
      BY <1>1, <1>2, <1>4, <2>1, SumOver
  <1>7. f[0] = 0 /\ g[Len(a)] \in Int
    <2>1. g \in [0 .. Len(a) -> Int] /\ Len(a) \in 0 .. Len(a)
      BY <1>1, <1>3, SumType
    <2> QED
      BY <1>1, <1>2, <2>1, SumType
  <1>8. ClicksIn(q) = ClicksIn(a) + ClicksIn(b)
    BY <1>1, <1>2, <1>3, <1>4, <1>5, <1>6, <1>7
  <1> QED
    BY <1>8 DEF q

LEMMA ClicksOne ==
    ASSUME NEW e \in Event
    PROVE  ClicksIn(<<e>>) = ClicksOf(e)
  <1> DEFINE q == <<e>>
  <1>1. q \in Seq(Event) /\ Len(q) = 1 /\ q[1] = e
    OBVIOUS
  <1> HIDE DEF q
  <1>2. PICK f : AddsUp(f, q) /\ ClicksIn(q) = f[Len(q)]
    BY <1>1, SumIs
  <1>3. f[0] = 0 /\ f[1] = f[1 - 1] + ClicksOf(q[1])
    BY <1>1, <1>2, SumType
  <1>4. ClicksIn(q) = ClicksOf(e)
    BY <1>1, <1>2, <1>3, ClicksOfInt
  <1> QED
    BY <1>4 DEF q

-----------------------------------------------------------------------------
(* What an application will think of a button *)

\* Believed, for a queue q and an application that takes the buttons s for
\* pressed; the events of q that are about b, and the last of them
About(e, b)     == e.kind # "scroll" /\ b \in e.btns
Thinks(q, b, s) ==
    LET about == {i \in DOMAIN q : About(q[i], b)}
    IN  IF about = {} THEN b \in s ELSE q[Max(about)].kind = "press"
Silent(q, b)    == \A i \in 1 .. Len(q) : ~About(q[i], b)
Last(q, b, m)   == /\ m \in 1 .. Len(q) /\ About(q[m], b)
                   /\ \A k \in 1 .. Len(q) : About(q[k], b) => k <= m

LEMMA ThinksIs ==
    ASSUME NEW q \in Seq(Event), NEW b, NEW s
    PROVE  /\ Silent(q, b) \/ \E m \in 1 .. Len(q) : Last(q, b, m)
           /\ Silent(q, b) => (Thinks(q, b, s) <=> b \in s)
           /\ \A m \in 1 .. Len(q) : Last(q, b, m) => (Thinks(q, b, s) <=> q[m].kind = "press")
  <1> DEFINE about == {i \in DOMAIN q : About(q[i], b)}
  <1>1. /\ DOMAIN q = 1 .. Len(q) /\ Len(q) \in Nat
        /\ about = {i \in 1 .. Len(q) : About(q[i], b)}
    OBVIOUS
  <1>2. Thinks(q, b, s) <=> IF about = {} THEN b \in s ELSE q[Max(about)].kind = "press"
    BY DEF Thinks
  <1> HIDE DEF about
  <1>3. CASE about = {}
    <2>1. Silent(q, b)
      BY <1>1, <1>3 DEF Silent
    <2>2. \A m \in 1 .. Len(q) : ~Last(q, b, m)
      BY <2>1 DEF Silent, Last
    <2> QED
      BY <1>2, <1>3, <2>1, <2>2
  <1>4. CASE about # {}
    <2> DEFINE g == Max(about)
    <2>1. g \in about /\ \A k \in about : k <= g
      BY <1>1, <1>4, Greatest
    <2> HIDE DEF g
    <2>2. Last(q, b, g) /\ g \in 1 .. Len(q)
      BY <1>1, <2>1 DEF Last
    <2>3. ~Silent(q, b)
      BY <2>2 DEF Silent, Last
    <2>4. \A m \in 1 .. Len(q) : Last(q, b, m) => m = g
      BY <2>2 DEF Last
    <2>5. Thinks(q, b, s) <=> q[g].kind = "press"
      BY <1>2, <1>4 DEF g
    <2> QED
      BY <2>2, <2>3, <2>4, <2>5
  <1> QED
    BY <1>3, <1>4

LEMMA ThinksPut ==
    ASSUME NEW q \in Seq(Event), NEW e \in Event, NEW b, NEW s
    PROVE  Thinks(q \o <<e>>, b, s) <=> IF About(e, b) THEN e.kind = "press" ELSE Thinks(q, b, s)
  <1> DEFINE p == q \o <<e>>
             n == Len(q)
  <1>1. /\ p \in Seq(Event) /\ Len(p) = n + 1 /\ n \in Nat /\ n = Len(q)
        /\ p[n + 1] = e /\ \A i \in 1 .. n : p[i] = q[i]
    OBVIOUS
  <1> HIDE DEF p, n
  <1>2. CASE About(e, b)
    <2>1. Last(p, b, n + 1) /\ n + 1 \in 1 .. Len(p)
      BY <1>1, <1>2 DEF Last
    <2>2. Thinks(p, b, s) <=> p[n + 1].kind = "press"
      BY <1>1, <2>1, ThinksIs
    <2> QED
      BY <1>1, <1>2, <2>2 DEF p
  <1>3. CASE ~About(e, b) /\ Silent(q, b)
    <2>1. Silent(p, b)
      <3> SUFFICES ASSUME NEW i \in 1 .. n + 1 PROVE ~About(p[i], b)
        BY <1>1 DEF Silent
      <3>1. CASE i = n + 1
        BY <1>1, <1>3, <3>1
      <3>2. CASE i # n + 1
        <4>1. i \in 1 .. n
          BY <1>1, <3>2
        <4> QED
          BY <1>1, <1>3, <4>1 DEF Silent
      <3> QED
        BY <3>1, <3>2
    <2>2. (Thinks(p, b, s) <=> b \in s) /\ (Thinks(q, b, s) <=> b \in s)
      BY <1>1, <1>3, <2>1, ThinksIs
    <2> QED
      BY <1>3, <2>2 DEF p
  <1>4. ASSUME ~About(e, b), NEW m \in 1 .. Len(q), Last(q, b, m)
        PROVE  Thinks(p, b, s) <=> Thinks(q, b, s)
    <2>1. m \in 1 .. n + 1 /\ m \in 1 .. n
      BY <1>1
    <2>2. Last(p, b, m)
      <3>1. About(p[m], b)
        BY <1>1, <1>4, <2>1 DEF Last
      <3>2. ASSUME NEW k \in 1 .. n + 1, About(p[k], b) PROVE k <= m
        <4>1. k # n + 1
          BY <1>1, <1>4, <3>2
        <4>2. k \in 1 .. n
          BY <1>1, <4>1
        <4> QED
          BY <1>1, <1>4, <3>2, <4>2 DEF Last
      <3> QED
        BY <1>1, <2>1, <3>1, <3>2 DEF Last
    <2>3. Thinks(p, b, s) <=> p[m].kind = "press"
      BY <1>1, <2>1, <2>2, ThinksIs
    <2>4. Thinks(q, b, s) <=> q[m].kind = "press"
      BY <1>4, ThinksIs
    <2> QED
      BY <1>1, <2>1, <2>3, <2>4
  <1>5. CASE ~About(e, b) /\ ~Silent(q, b)
    BY <1>4, <1>5, ThinksIs DEF p
  <1> QED
    BY <1>2, <1>3, <1>5

LEMMA ThinksTake ==
    ASSUME NEW q \in Seq(Event), q # <<>>, NEW b, NEW s, NEW t,
           b \in t <=> IF About(Head(q), b) THEN Head(q).kind = "press" ELSE b \in s
    PROVE  Thinks(Tail(q), b, t) <=> Thinks(q, b, s)
  <1> DEFINE p == Tail(q)
             n == Len(p)
  <1>1. /\ p \in Seq(Event) /\ Len(q) = n + 1 /\ n \in Nat /\ n = Len(p)
        /\ Head(q) = q[1] /\ \A i \in 1 .. n : q[i + 1] = p[i]
    OBVIOUS
  <1> HIDE DEF p, n
  <1>2. \A k \in 1 .. n + 1 : k = 1 \/ (k - 1 \in 1 .. n /\ (k - 1) + 1 = k)
    BY <1>1
  <1>3. CASE Silent(p, b)
    <2>1. Thinks(p, b, t) <=> b \in t
      BY <1>1, <1>3, ThinksIs
    <2>2. CASE About(Head(q), b)
      <3>1. Last(q, b, 1) /\ 1 \in 1 .. Len(q)
        <4> SUFFICES ASSUME NEW k \in 1 .. n + 1, About(q[k], b) PROVE k <= 1
          BY <1>1, <2>2 DEF Last
        <4>1. ~(k - 1 \in 1 .. n /\ (k - 1) + 1 = k)
          <5> SUFFICES ASSUME k - 1 \in 1 .. n, (k - 1) + 1 = k PROVE FALSE
            OBVIOUS
          <5>1. q[k] = p[k - 1]
            BY <1>1
          <5> QED
            BY <1>1, <1>3, <5>1 DEF Silent
        <4> QED
          BY <1>2, <4>1
      <3>2. Thinks(q, b, s) <=> q[1].kind = "press"
        BY <3>1, ThinksIs
      <3> QED
        BY <1>1, <2>1, <2>2, <3>2 DEF p
    <2>3. CASE ~About(Head(q), b)
      <3>1. Silent(q, b)
        <4> SUFFICES ASSUME NEW k \in 1 .. n + 1 PROVE ~About(q[k], b)
          BY <1>1 DEF Silent
        <4>1. CASE k = 1
          BY <1>1, <2>3, <4>1
        <4>2. CASE k - 1 \in 1 .. n /\ (k - 1) + 1 = k
          <5>1. q[k] = p[k - 1]
            BY <1>1, <4>2
          <5> QED
            BY <1>1, <1>3, <4>2, <5>1 DEF Silent
        <4> QED
          BY <1>2, <4>1, <4>2
      <3>2. Thinks(q, b, s) <=> b \in s
        BY <3>1, ThinksIs
      <3> QED
        BY <2>1, <2>3, <3>2 DEF p
    <2> QED
      BY <2>2, <2>3
  <1>4. ASSUME NEW m \in 1 .. Len(p), Last(p, b, m)
        PROVE  Thinks(p, b, t) <=> Thinks(q, b, s)
    <2>1. m \in 1 .. n /\ m + 1 \in 1 .. Len(q) /\ q[m + 1] = p[m] /\ m \in Nat
      BY <1>1
    <2>2. Last(q, b, m + 1)
      <3>1. About(q[m + 1], b)
        BY <1>4, <2>1 DEF Last
      <3>2. ASSUME NEW k \in 1 .. n + 1, About(q[k], b) PROVE k <= m + 1
        <4>1. CASE k = 1
          BY <2>1, <4>1
        <4>2. CASE k - 1 \in 1 .. n /\ (k - 1) + 1 = k
          <5>1. q[k] = p[k - 1]
            BY <1>1, <4>2
          <5>2. k - 1 <= m
            BY <1>1, <1>4, <3>2, <4>2, <5>1 DEF Last
          <5> QED
            BY <2>1, <4>2, <5>2
        <4> QED
          BY <1>2, <4>1, <4>2
      <3> QED
        BY <1>1, <2>1, <3>1, <3>2 DEF Last
    <2>3. Thinks(q, b, s) <=> q[m + 1].kind = "press"
      BY <2>1, <2>2, ThinksIs
    <2>4. Thinks(p, b, t) <=> p[m].kind = "press"
      BY <1>1, <1>4, ThinksIs
    <2> QED
      BY <2>1, <2>3, <2>4
  <1>5. CASE ~Silent(p, b)
    BY <1>1, <1>4, <1>5, ThinksIs DEF p
  <1> QED
    BY <1>3, <1>5

-----------------------------------------------------------------------------
(* Nothing lost, repeated or reordered *)

LEMMA JoinAssoc ==
    ASSUME NEW a \in Seq(Event), NEW b \in Seq(Event), NEW c \in Seq(Event)
    PROVE  a \o (b \o c) = (a \o b) \o c
  OBVIOUS

\* An interrupt's presses and releases say what has changed, and no more.
LEMMA NewsSays ==
    ASSUME TypeOK, NEW q \in Seq(Event), NEW b \in Buttons \cup {HOLD}, NEW s
    PROVE  /\ b \in PressedNew \ ikb_buttons_pressed => Thinks(q \o News, b, s)
           /\ b \in ikb_buttons_pressed \ PressedNew => ~Thinks(q \o News, b, s)
           /\ (b \in PressedNew <=> b \in ikb_buttons_pressed)
                 => (Thinks(q \o News, b, s) <=> Thinks(q, b, s))
           /\ ClicksIn(News) = IF Flush THEN Scroll(Sum).dist ELSE 0
  <1> DEFINE old == ikb_buttons_pressed
             new == PressedNew
             w == Scroll(Sum)
             p == [kind |-> "press", btns |-> new \ old]
             r == [kind |-> "release", btns |-> old \ new]
             W == IF Flush THEN <<w>> ELSE <<>>
             P == IF new \ old = {} THEN <<>> ELSE <<p>>
             R == IF old \ new = {} THEN <<>> ELSE <<r>>
  <1>1. /\ w \in Event /\ p \in Event /\ r \in Event
        /\ w.kind = "scroll" /\ p.kind = "press" /\ r.kind = "release"
        /\ p.btns = new \ old /\ r.btns = old \ new
    BY NewsType, PressedLemma, ButtonEventLemma DEF TypeOK
  <1>2. News = W \o (P \o R)
    BY DEF News, ButtonEvents
  <1> HIDE DEF w, p, r, old, new
  <1>3. /\ W \in Seq(Event) /\ P \in Seq(Event) /\ R \in Seq(Event)
        /\ P \o R \in Seq(Event) /\ q \o W \in Seq(Event) /\ (q \o W) \o P \in Seq(Event)
    BY <1>1
  <1> HIDE DEF W, P, R
  <1>4. q \o News = ((q \o W) \o P) \o R
    <2>1. q \o (W \o (P \o R)) = (q \o W) \o (P \o R)
      BY <1>3, JoinAssoc
    <2>2. (q \o W) \o (P \o R) = ((q \o W) \o P) \o R
      BY <1>3, JoinAssoc
    <2> QED
      BY <1>2, <2>1, <2>2, Zenon
  <1>5. Thinks(q \o W, b, s) <=> Thinks(q, b, s)
    <2>1. CASE Flush
      BY <1>1, <2>1, ThinksPut DEF W, About
    <2>2. CASE ~Flush
      BY <2>2 DEF W
    <2> QED
      BY <2>1, <2>2
  <1>6. Thinks((q \o W) \o P, b, s) <=> b \in new \ old \/ Thinks(q, b, s)
    <2>1. CASE new \ old # {}
      <3>1. About(p, b) <=> b \in new \ old
        BY <1>1 DEF About
      <3>2. Thinks((q \o W) \o <<p>>, b, s)
                <=> IF About(p, b) THEN p.kind = "press" ELSE Thinks(q \o W, b, s)
        BY <1>1, <1>3, ThinksPut
      <3> QED
        BY <1>1, <1>5, <2>1, <3>1, <3>2 DEF P
    <2>2. CASE new \ old = {}
      BY <1>3, <1>5, <2>2 DEF P
    <2> QED
      BY <2>1, <2>2
  <1>7. Thinks(((q \o W) \o P) \o R, b, s)
            <=> b \notin old \ new /\ (b \in new \ old \/ Thinks(q, b, s))
    <2>1. CASE old \ new # {}
      <3>1. About(r, b) <=> b \in old \ new
        BY <1>1 DEF About
      <3> QED
        BY <1>1, <1>3, <1>6, <2>1, <3>1, ThinksPut DEF R
    <2>2. CASE old \ new = {}
      BY <1>3, <1>6, <2>2 DEF R
    <2> QED
      BY <2>1, <2>2
  <1>8. ClicksIn(News) = IF Flush THEN w.dist ELSE 0
    <2>1. ClicksIn(News) = ClicksIn(W) + (ClicksIn(P) + ClicksIn(R))
      <3>1. ClicksIn(W \o (P \o R)) = ClicksIn(W) + ClicksIn(P \o R)
        BY <1>3, ClicksJoin
      <3>2. ClicksIn(P \o R) = ClicksIn(P) + ClicksIn(R)
        BY <1>3, ClicksJoin
      <3> QED
        BY <1>2, <3>1, <3>2
    <2>2. ClicksIn(P) = 0 /\ ClicksIn(R) = 0
      BY <1>1, ClicksOne, ClicksEmpty DEF P, R, ClicksOf
    <2>3. ClicksIn(W) = IF Flush THEN w.dist ELSE 0
      BY <1>1, ClicksOne, ClicksEmpty DEF W, ClicksOf
    <2>4. w.dist \in Int
      BY <1>1, EventLemma
    <2> QED
      BY <2>1, <2>2, <2>3, <2>4
  <1> QED
    BY <1>4, <1>7, <1>8 DEF old, new, w

\* ikb_reading is set only while somebody has the device open.
FlagInv == ikb_reading = 1 => asleep # {} \/ cur # None

LEMMA FlagStep == TypeOK /\ FlagInv /\ [Next]_vars => FlagInv'
  <1> SUFFICES ASSUME TypeOK, FlagInv, [Next]_vars PROVE FlagInv'
    OBVIOUS
  <1>1. CASE UNCHANGED <<ikb_reading, asleep, cur>>
    BY <1>1 DEF FlagInv
  <1>2. CASE Pins \/ UNCHANGED vars
    BY <1>1, <1>2 DEF Pins, PressOrRelease, SlideHold, Turn, Software, vars, procs
  <1>3. CASE KeyboardInt
    BY <1>1, <1>3, IntIs DEF procs
  <1>4. CASE Request \/ \E r \in Readers : Resume(r)
    BY <1>1, <1>4, KeyboardAssumption
    DEF Request, Open, Release, Signal, ReadBegin, Resume, procs, FlagInv
  <1>5. CASE Schedule \/ ReadExit
    BY <1>5 DEF Schedule, ReadExit, FlagInv
  <1>6. CASE SetReading
    BY <1>6, KeyboardAssumption DEF SetReading, At, procs, FlagInv, TypeOK
  <1>7. CASE KernelStep /\ ~Schedule /\ ~ReadExit /\ ~SetReading
    BY <1>1, <1>7 DEF KernelStep, ScrollTest, ScrollSign, ScrollArg, PushLoad, PushHead, PushEvent, PushWrap,
        ScrollZero, SetState, EmptyTest, Drain, DrainEnd, At, procs
  <1> QED
    BY <1>2, <1>3, <1>4, <1>5, <1>6, <1>7 DEF Next

AddInv == StoreInv /\ FlagInv

\* What an interrupt adds to what waits is what it adds to what the driver
\* remembers.
LEMMA IntAdds ==
    ASSUME TypeOK, TypeOK', AddInv, KeyboardInt, EventsAddUp
    PROVE  EventsAddUp'
  <1>1. /\ ikb_buttons_pressed' = PressedNew
        /\ ikb_current_scroll' = IF Flush THEN 0 ELSE Sum
        /\ clicks' = clicks + Dir
        /\ loss \subseteq loss'
        /\ opened = {} /\ News # <<>> => "closed" \in loss'
        /\ Flush /\ Scroll(Sum).dist # Sum => "wrapped" \in loss'
        /\ kpc' = kpc /\ told' = told /\ toldClicks' = toldClicks
    BY IntIs DEF given
  <1>2. /\ News \in Seq(Event) /\ Pushed \in Seq(Event) /\ Dir \in Int /\ Sum \in Int
        /\ Queue \in Seq(Event)
    BY NewsType, QueueIs
  <1>3. ButtonsAddUp'
    <2> SUFFICES ASSUME loss' \cap {"raced", "overflow", "closed"} = {},
                        NEW b \in Buttons \cup {HOLD}
                 PROVE  Believed(b)' <=> b \in PressedNew
      BY <1>1 DEF ButtonsAddUp
    <2>1. Queue' = Queue \o News
      <3>1. Queue' = Queue \o Pushed
        BY IntQueue DEF AddInv
      <3>2. Pushed = News
        BY <1>1 DEF Pushed
      <3> QED
        BY <3>1, <3>2
    <2>2. Thinks(Queue, b, told) <=> b \in ikb_buttons_pressed
      <3>1. Believed(b) <=> b \in ikb_buttons_pressed
        BY <1>1 DEF EventsAddUp, ButtonsAddUp
      <3> QED
        BY <3>1 DEF Believed, Thinks, About
    <2>3. Believed(b)' <=> Thinks(Queue \o News, b, told)
      BY <1>1, <2>1 DEF Believed, Thinks, About
    <2> QED
      BY <1>2, <2>2, <2>3, NewsSays
  <1>4. ClicksAddUp'
    <2> SUFFICES ASSUME loss' \cap {"raced", "overflow", "wrapped"} = {}
                 PROVE  clicks' = toldClicks' + ClicksIn(Queue')
                                     + (IF kpc' = "zero" THEN 0 ELSE ikb_current_scroll')
      BY DEF ClicksAddUp
    <2>1. /\ Queue' = Queue \o Pushed
          /\ kpc \in {"load", "store", "zero"} => Pushed = <<>> /\ Dir = 0
      BY IntQueue DEF AddInv
    <2>2. clicks = toldClicks + ClicksIn(Queue)
                      + (IF kpc = "zero" THEN 0 ELSE ikb_current_scroll)
      BY <1>1 DEF EventsAddUp, ClicksAddUp
    <2>3. ClicksIn(Queue') = ClicksIn(Queue) + ClicksIn(Pushed)
      BY <1>2, <2>1, ClicksJoin
    <2>4. ClicksIn(Pushed) = IF Flush THEN Sum ELSE 0
      <3>1. ClicksIn(News) = IF Flush THEN Sum ELSE 0
        <4>1. ClicksIn(News) = IF Flush THEN Scroll(Sum).dist ELSE 0
          BY <1>2, NewsSays
        <4> QED
          BY <1>1, <4>1
      <3>2. CASE opened # {}
        BY <3>1, <3>2 DEF Pushed
      <3>3. CASE opened = {}
        <4>1. ~Flush
          BY <3>3, KeyboardAssumption DEF AddInv, FlagInv, Flush, TypeOK
        <4> QED
          BY <3>3, <4>1, ClicksEmpty DEF Pushed
      <3> QED
        BY <3>2, <3>3
    <2>5. /\ ClicksIn(Queue) \in Int /\ clicks \in Int /\ toldClicks \in Int
          /\ ikb_current_scroll \in Int /\ Sum = ikb_current_scroll + Dir
      BY <1>2, ClicksType DEF TypeOK, Sum
    <2>6. CASE kpc = "zero"
      <3>1. ~Flush /\ Dir = 0
        BY <2>1, <2>6 DEF Flush
      <3> QED
        BY <1>1, <2>2, <2>3, <2>4, <2>5, <2>6, <3>1
    <2>7. CASE kpc # "zero"
      BY <1>1, <1>2, <2>2, <2>3, <2>4, <2>5, <2>7, SMTT(30)
    <2> QED
      BY <2>6, <2>7
  <1> QED
    BY <1>3, <1>4 DEF EventsAddUp

\* An event that a reader takes moves from what waits to what it was told.
LEMMA DrainAdds ==
    ASSUME TypeOK, TypeOK', Drain, Queue # <<>>, user' = Head(Queue), Queue' = Tail(Queue),
           EventsAddUp
    PROVE  EventsAddUp'
  <1> DEFINE e == Head(Queue)
  <1>1. /\ kpc = "drain" /\ kpc' = "drain" /\ user' = e
        /\ UNCHANGED <<ikb_buttons_pressed, clicks, ikb_current_scroll, loss>>
        /\ told' = CASE e.kind = "press" -> told \cup e.btns
                     [] e.kind = "release" -> told \ e.btns
                     [] OTHER -> told
        /\ toldClicks' = IF e.kind = "scroll" THEN toldClicks + e.dist ELSE toldClicks
    BY DEF Drain, At, Interrupts, irqVars
  <1>2. Queue \in Seq(Event) /\ e \in Event
    BY QueueIs
  <1>3. /\ Queue = <<e>> \o Tail(Queue) /\ Tail(Queue) \in Seq(Event) /\ <<e>> \in Seq(Event)
    BY <1>2
  <1> HIDE DEF e
  <1>4. ButtonsAddUp'
    <2> SUFFICES ASSUME loss \cap {"raced", "overflow", "closed"} = {},
                        NEW b \in Buttons \cup {HOLD}
                 PROVE  Believed(b)' <=> b \in ikb_buttons_pressed
      BY <1>1 DEF ButtonsAddUp
    <2>1. Thinks(Queue, b, told) <=> b \in ikb_buttons_pressed
      <3>1. Believed(b) <=> b \in ikb_buttons_pressed
        BY DEF EventsAddUp, ButtonsAddUp
      <3> QED
        BY <3>1 DEF Believed, Thinks, About
    <2>2. b \in told' <=> IF About(e, b) THEN e.kind = "press" ELSE b \in told
      BY <1>1, <1>2, EventLemma DEF About
    <2>3. Thinks(Tail(Queue), b, told') <=> Thinks(Queue, b, told)
      BY <1>2, <2>2, ThinksTake DEF e
    <2>4. Believed(b)' <=> Thinks(Tail(Queue), b, told')
      BY DEF Believed, Thinks, About
    <2> QED
      BY <2>1, <2>3, <2>4
  <1>5. ClicksAddUp'
    <2> SUFFICES ASSUME loss \cap {"raced", "overflow", "wrapped"} = {}
                 PROVE  clicks = toldClicks' + ClicksIn(Tail(Queue)) + ikb_current_scroll
      BY <1>1 DEF ClicksAddUp
    <2>1. clicks = toldClicks + ClicksIn(Queue) + ikb_current_scroll
      BY <1>1 DEF EventsAddUp, ClicksAddUp
    <2>2. ClicksIn(Queue) = ClicksOf(e) + ClicksIn(Tail(Queue))
      <3>1. ClicksIn(<<e>> \o Tail(Queue)) = ClicksIn(<<e>>) + ClicksIn(Tail(Queue))
        BY <1>3, ClicksJoin
      <3> QED
        BY <1>2, <1>3, <3>1, ClicksOne
    <2>3. toldClicks' = toldClicks + ClicksOf(e)
      BY <1>1 DEF ClicksOf, TypeOK
    <2>4. /\ ClicksOf(e) \in Int /\ ClicksIn(Tail(Queue)) \in Int
          /\ toldClicks \in Int /\ ikb_current_scroll \in Int
      BY <1>2, <1>3, ClicksOfInt, ClicksType DEF TypeOK
    <2> QED
      BY <2>1, <2>2, <2>3, <2>4
  <1> QED
    BY <1>4, <1>5 DEF EventsAddUp

\* A read's own event takes what was in the counter.
LEMMA WrapAdds ==
    ASSUME TypeOK, TypeOK', AddInv, PushWrap, Queue' = Queue \o <<ev>>,
           UNCHANGED <<told, toldClicks>>, EventsAddUp
    PROVE  EventsAddUp'
  <1>1. /\ kpc = "store" /\ kpc' = "zero"
        /\ UNCHANGED <<ikb_buttons_pressed, clicks, ikb_current_scroll, loss>>
    BY DEF PushWrap, At, Interrupts, irqVars
  <1>2. Queue \in Seq(Event) /\ ev \in Event /\ <<ev>> \in Seq(Event) /\ ev.kind = "scroll"
    BY <1>1, QueueIs DEF TypeOK, AddInv, StoreInv
  <1>3. ButtonsAddUp'
    <2> SUFFICES ASSUME loss \cap {"raced", "overflow", "closed"} = {},
                        NEW b \in Buttons \cup {HOLD}
                 PROVE  Believed(b)' <=> b \in ikb_buttons_pressed
      BY <1>1 DEF ButtonsAddUp
    <2>1. Thinks(Queue, b, told) <=> b \in ikb_buttons_pressed
      <3>1. Believed(b) <=> b \in ikb_buttons_pressed
        BY DEF EventsAddUp, ButtonsAddUp
      <3> QED
        BY <3>1 DEF Believed, Thinks, About
    <2>2. Thinks(Queue \o <<ev>>, b, told) <=> Thinks(Queue, b, told)
      <3>1. ~About(ev, b)
        BY <1>2 DEF About
      <3> QED
        BY <1>2, <3>1, ThinksPut
    <2>3. Believed(b)' <=> Thinks(Queue \o <<ev>>, b, told)
      BY DEF Believed, Thinks, About
    <2> QED
      BY <2>1, <2>2, <2>3
  <1>4. ClicksAddUp'
    <2> SUFFICES ASSUME loss \cap {"raced", "overflow", "wrapped"} = {}
                 PROVE  clicks = toldClicks + ClicksIn(Queue \o <<ev>>) + 0
      BY <1>1 DEF ClicksAddUp
    <2>1. clicks = toldClicks + ClicksIn(Queue) + ikb_current_scroll
      BY <1>1 DEF EventsAddUp, ClicksAddUp
    <2>2. ClicksIn(Queue \o <<ev>>) = ClicksIn(Queue) + ClicksOf(ev)
      <3>1. ClicksIn(Queue \o <<ev>>) = ClicksIn(Queue) + ClicksIn(<<ev>>)
        BY <1>2, ClicksJoin
      <3> QED
        BY <1>2, <3>1, ClicksOne
    <2>3. ClicksOf(ev) = ikb_current_scroll
      BY <1>1, <1>2 DEF AddInv, StoreInv, ClicksOf
    <2>4. ClicksIn(Queue) \in Int /\ toldClicks \in Int /\ ikb_current_scroll \in Int
      BY <1>2, ClicksType DEF TypeOK
    <2> QED
      BY <2>1, <2>2, <2>3, <2>4
  <1> QED
    BY <1>3, <1>4 DEF EventsAddUp

\* No other step changes either side, but for the counter, which is cleared
\* once its event is in.
LEMMA RestAdds ==
    ASSUME TypeOK, [Next]_vars, ~KeyboardInt, ~Drain, ~PushWrap, Queue' = Queue,
           UNCHANGED <<told, toldClicks>>, EventsAddUp
    PROVE  EventsAddUp'
  <1>1. loss \subseteq loss'
    BY LossGrows
  <1>2. /\ UNCHANGED <<ikb_buttons_pressed, clicks>>
        /\ (IF kpc' = "zero" THEN 0 ELSE ikb_current_scroll')
               = (IF kpc = "zero" THEN 0 ELSE ikb_current_scroll)
    <2>1. CASE Pins \/ UNCHANGED vars
      BY <2>1 DEF Pins, PressOrRelease, SlideHold, Turn, Software, vars, irqVars
    <2>2. CASE Request \/ \E r \in Readers : Resume(r)
      BY <2>2, KeyboardAssumption
      DEF Request, Open, Release, Signal, ReadBegin, Resume, Interrupts, irqVars, TypeOK
    <2>3. CASE ScrollZero
      BY <2>3 DEF ScrollZero, At, Interrupts, irqVars
    <2>4. CASE KernelStep /\ ~ScrollZero
      BY <2>4 DEF KernelStep, ScrollTest, ScrollSign, ScrollArg, PushLoad, PushHead, PushEvent, SetReading,
          SetState, EmptyTest, Schedule, DrainEnd, ReadExit, At, Interrupts, irqVars
    <2> QED
      BY <2>1, <2>2, <2>3, <2>4 DEF Next
  <1>3. ButtonsAddUp'
    <2> SUFFICES ASSUME loss \cap {"raced", "overflow", "closed"} = {},
                        NEW b \in Buttons \cup {HOLD}
                 PROVE  Believed(b)' <=> b \in ikb_buttons_pressed
      BY <1>1, <1>2 DEF ButtonsAddUp
    <2>1. Believed(b) <=> b \in ikb_buttons_pressed
      BY DEF EventsAddUp, ButtonsAddUp
    <2>2. Believed(b)' <=> Believed(b)
      BY DEF Believed
    <2> QED
      BY <2>1, <2>2
  <1>4. ClicksAddUp'
    BY <1>1, <1>2 DEF EventsAddUp, ClicksAddUp
  <1> QED
    BY <1>3, <1>4 DEF EventsAddUp

\* No button event and no click is lost, repeated or reordered between the
\* pins and the application (keyboard_int, ikb_push_event, ikb_read,
\* keyboard.c:131-466), apart from the named losses: the presses and releases
\* handed out and the ones that wait add up to the buttons the driver holds
\* for pressed, and the clicks to those of the wheel.
THEOREM EventsAdd == Spec => []EventsAddUp
  <1>1. Init => EventsAddUp /\ FlagInv
    <2> SUFFICES ASSUME Init PROVE EventsAddUp /\ FlagInv
      OBVIOUS
    <2>1. Queue = <<>>
      <3>1. Head1 = 0 /\ ikb_ev_tail = 0
        BY DEF Init, Head1
      <3>2. Used(0, 0) = 0
        BY SlotsLemma, UsedLemma
      <3> QED
        BY <3>1, <3>2 DEF Queue
    <2>2. ASSUME NEW b \in Buttons \cup {HOLD} PROVE Believed(b) <=> b \in told
      <3>1. Thinks(<<>>, b, told) <=> b \in told
        <4>1. <<>> \in Seq(Event) /\ Silent(<<>>, b)
          BY DEF Silent
        <4> QED
          BY <4>1, ThinksIs
      <3> QED
        BY <2>1, <3>1 DEF Believed, Thinks, About
    <2>3. ButtonsAddUp
      BY <2>2 DEF ButtonsAddUp, Init
    <2>4. ClicksAddUp
      BY <2>1, ClicksEmpty DEF ClicksAddUp, Init
    <2> QED
      BY <2>3, <2>4 DEF EventsAddUp, Init, FlagInv
  <1>2. TypeOK /\ TypeOK' /\ AddInv /\ EventsAddUp /\ [Next]_vars => EventsAddUp'
    <2> SUFFICES ASSUME TypeOK, TypeOK', AddInv, EventsAddUp, [Next]_vars PROVE EventsAddUp'
      OBVIOUS
    <2>1. CASE KeyboardInt
      BY <2>1, IntAdds
    <2>2. CASE ~KeyboardInt /\ loss' \cap {"raced", "overflow"} = {}
      BY <2>2, StepQueue, DrainAdds, WrapAdds, RestAdds DEF AddInv
    <2>3. CASE loss' \cap {"raced", "overflow"} # {}
      BY <2>3 DEF EventsAddUp, ButtonsAddUp, ClicksAddUp
    <2> QED
      BY <2>1, <2>2, <2>3
  <1>3. Spec => []TypeOK
    BY TypeCorrect
  <1> QED
    BY <1>1, <1>2, <1>3, StoreInit, StoreNext, FlagStep, PTL DEF Spec, AddInv
=============================================================================
