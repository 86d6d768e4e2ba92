----------------------------- MODULE SansaCodec -----------------------------
(***************************************************************************)
(* The AS3514 codec behind its I2C bus: the mixer and the codec's part of  *)
(* the sound driver (mach-sansa/audio.c), the readers of the clock and of  *)
(* the battery (rtc.c, battery.c), and the bus they share under            *)
(* i2c_lock_mutex (hardware.c).                                            *)
(*                                                                         *)
(* An operation is a list of transfers.  The kernel is not preemptive, so  *)
(* a process runs on until down() or the yield() of                        *)
(* sansa_i2c_wait_not_busy lets others run.  As nothing runs between the   *)
(* up() after a transfer and the down() before the next one, which takes   *)
(* the semaphore past any sleeper, an operation that has the lock keeps it *)
(* to its end.  What it loaded before its first down() may be stale by     *)
(* the time it gets there.                                                 *)
(*                                                                         *)
(* A register is the set of its bits that are 1.                           *)
(***************************************************************************)
EXTENDS Integers, Sequences

CONSTANTS
    Procs, None,  \* processes, and no process
    PcmLevels,    \* bound: volumes asked for, <<left, right>> in percent
    LineLevels,   \* bound: line levels asked for, the same
    MicLevels,    \* bound: microphone levels asked for
    MaxOps        \* bound: operations from one boot to the next

ASSUME CodecAssumption ==
    /\ None \notin Procs
    /\ PcmLevels \subseteq (0..100) \X (0..100)
    /\ LineLevels \subseteq (0..100) \X (0..100)
    /\ MicLevels \subseteq Int /\ MaxOps \in Nat

VARIABLES
    \* the registers in the codec, their copies in the driver, the volume
    \* (as3514.vol_l, vol_r), the recording source
    chip, shadow, vol, sansa_active_rec,
    \* /dev/dsp: closed, being opened, open or being closed; for what
    dsp, mode,
    \* the bus: the transfer under way, the register the next read gets and
    \* the one that the controller's data register comes from, the lock
    bus, ptr, data0, i2c_lock,
    \* per process: its operation, the transfers left, registers read
    op, todo, got,
    \* ghosts: a process wrote bits back that another had changed, two
    \* operations that had loaded the volume or the source met, a level was
    \* too wide for its field, a transfer timed out; operations since boot
    lost, crossed, wide, timedOut, begun

codec  == <<shadow, vol, sansa_active_rec, dsp, mode>>
wires  == <<chip, bus, ptr, data0>>
procs  == <<i2c_lock, op, todo, got>>
ghosts == <<lost, crossed, wide, timedOut, begun>>
vars   == <<codec, wires, procs, ghosts>>

HPH_OUT_R == 2
HPH_OUT_L == 3
MIC1_R    == 6
DAC_R     == 14
DAC_L     == 15
ADC_R     == 16
ADC_L     == 17
AUDIOSET1 == 20
RTC_0     == 42
ADC_0     == 46
Regs      == {HPH_OUT_R, HPH_OUT_L, MIC1_R, DAC_R, DAC_L, ADC_R, ADC_L, AUDIOSET1}

\* A register's bits, and those of the int that stands for it in the driver,
\* whose bit 8 stands for all that are above the byte: no mask clears them.
Byte    == 0..7
Word    == 0..8
Bits(n) == {i \in Byte : (n \div 2^i) % 2 = 1} \cup (IF n \in 0..255 THEN {} ELSE {8})
Low5    == 0..4        \* 0x1f

-----------------------------------------------------------------------------
(* Transfers *)

\* as3514_write: the bits kept come from the shadow register, and base is
\* what they were when the value was computed
Write(reg, keep, set) ==
    [kind |-> "write", reg |-> reg, keep |-> keep, set |-> set, base |-> {}]
WriteOr(reg, bits)  == Write(reg, Word, bits)
WriteAnd(reg, bits) == Write(reg, bits, {})

Other(kind, reg) ==
    [kind |-> kind, reg |-> reg, keep |-> {}, set |-> {}, base |-> {}]
\* sansa_i2c_send_byte and sansa_i2c_read_byte
ReadByte(reg) == <<Other("ptr", reg), Other("read", reg)>>

\* mutant of Percent: too loud
PercentLoud(level) == IF level > 5 THEN (35 * level) \div 100 + 23 ELSE 0

\* SOUND_MIXER_PCM: percent to volume
Percent(level) == IF level > 5 THEN (26 * level) \div 100 + 23 ELSE 0

\* The volume is that of the mixer channel, and above 0x16 the rest is that
\* of the headphone.  (+= on a field that was cleared; the rest fits it.)
MixerPart(v)     == Bits(IF v <= 22 THEN v ELSE 22)
HeadphonePart(v) == IF v <= 22 THEN {} ELSE Bits(v - 22)

\* mutant of MasterVol: the bits beside the volume are not kept
MasterVolOnly(v) ==
    << Write(DAC_R, Word \ Low5, MixerPart(v.r)), Write(DAC_L, Word \ Low5, MixerPart(v.l)),
       Write(HPH_OUT_R, {}, HeadphonePart(v.r)), Write(HPH_OUT_L, {}, HeadphonePart(v.l)) >>

\* as3514_set_master_vol; the source is never SOURCE_LINE_IN1_ANALOG
MasterVol(v) ==
    << Write(DAC_R, Word \ Low5, MixerPart(v.r)), Write(DAC_L, Word \ Low5, MixerPart(v.l)),
       Write(HPH_OUT_R, Word \ Low5, HeadphonePart(v.r)),
       Write(HPH_OUT_L, Word \ Low5, HeadphonePart(v.l)) >>

\* as3514_init_pb, up to as3514_set_master_vol, which is called when the
\* transfers before it are done
InitPb ==
    << Write(AUDIOSET1, {}, {5, 6}), WriteOr(HPH_OUT_L, {6}),
       WriteAnd(HPH_OUT_L, Word \ {7}), WriteAnd(HPH_OUT_L, Word \ {7}),
       Other("master", 0) >>

\* mutant of EnableRecording: the microphone does not select its input
EnableRecordingAny(src) ==
    (IF src = "mic"
     THEN << Write(AUDIOSET1, Word \ {2}, {0}), WriteAnd(MIC1_R, Word \ {7}) >>
     ELSE << Write(ADC_R, Word \ {6, 7}, {6}), Write(AUDIOSET1, Word \ {0}, {2}) >>)
    \o << WriteOr(ADC_L, {6}), WriteOr(AUDIOSET1, {7}) >>

\* as3514_enable_recording after as3514_set_master_vol
EnableRecording(src) ==
    (IF src = "mic"
     THEN << WriteAnd(ADC_R, Word \ {6, 7}), Write(AUDIOSET1, Word \ {2}, {0}),
             WriteAnd(MIC1_R, Word \ {7}) >>
     ELSE << Write(ADC_R, Word \ {6, 7}, {6}), Write(AUDIOSET1, Word \ {0}, {2}) >>)
    \o << WriteOr(ADC_L, {6}), WriteOr(AUDIOSET1, {7}) >>

\* as3514_close
CloseCodec == << WriteOr(HPH_OUT_L, {7}), Write(AUDIOSET1, {}, {}) >>

\* as3514_set_recvol
SetRecVol(l, r) ==
    << Write(ADC_R, Word \ Low5, Bits(r)), Write(ADC_L, Word \ Low5, Bits(l)) >>
MicGain(v) == IF v >= 36 THEN {6} ELSE IF v >= 32 THEN {5} ELSE {}
MicVol(v)  == IF v >= 36 THEN v - 8 ELSE IF v >= 32 THEN v - 4 ELSE v
SetMicVol(v) ==
    << Write(MIC1_R, Word \ {5, 6}, MicGain(v)) >> \o SetRecVol(MicVol(v), MicVol(v))

Adc == << Other("select", ADC_0), Other("ptr", ADC_0), Other("read", 0), Other("read", 0) >>
Rtc == ReadByte(RTC_0) \o ReadByte(RTC_0 + 1) \o ReadByte(RTC_0 + 2) \o ReadByte(RTC_0 + 3)

\* the registers an operation means to read
Wanted(o) ==
    CASE o = "adc" -> << ADC_0, ADC_0 + 1 >>
      [] o = "rtc" -> << RTC_0, RTC_0 + 1, RTC_0 + 2, RTC_0 + 3 >>
      [] OTHER     -> << >>

-----------------------------------------------------------------------------
Ops == {"none", "pcm", "level", "mic", "line", "open", "record", "close", "adc", "rtc"}
Others == {0} \cup RTC_0 .. ADC_0 + 1   \* no register of the mixer
Entry ==
    [kind : {"write"}, reg : Regs, keep : SUBSET Word, set : SUBSET Word, base : SUBSET Word]
    \cup [kind : {"select", "ptr", "read", "fetch", "master", "enable"},
          reg : Others, keep : {{}}, set : {{}}, base : {{}}]
Idle  == [kind |-> "idle", reg |-> 0, val |-> {}]

\* The part of TypeOK that the transfers rest on: what they are, and that a
\* process has some left just while its operation lasts, the more so if it
\* has the lock.
BusOK ==
    /\ chip \in [Regs -> SUBSET Byte] /\ shadow \in [Regs -> SUBSET Word]
    /\ bus \in [kind : {"idle", "write", "ptr", "read"},
                reg : Regs \cup Others, val : SUBSET Byte]
    /\ i2c_lock \in Procs \cup {None}
    /\ op \in [Procs -> Ops] /\ todo \in [Procs -> Seq(Entry)]
    /\ \A p \in Procs : op[p] = "none" <=> todo[p] = << >>
    /\ i2c_lock # None => op[i2c_lock] # "none"

TypeOK ==
    /\ BusOK
    /\ vol \in [l : 0..53, r : 0..53]
    /\ sansa_active_rec \in {"mic", "line"}
    /\ dsp \in {"closed", "opening", "open", "closing"} /\ mode \subseteq {"r", "w"}
    /\ ptr \in Nat /\ data0 \in Nat
    /\ got \in [Procs -> 0..4]
    /\ lost \in BOOLEAN /\ crossed \in BOOLEAN /\ wide \in BOOLEAN /\ timedOut \in BOOLEAN
    /\ begun \in 0..MaxOps

\* after sansaaudio_hw_init, whose last act is as3514_set_master_vol(37, 37)
InitRegs ==
    [r \in Regs |->
        CASE r = AUDIOSET1 -> {5, 6}
          [] r = HPH_OUT_R -> {6, 7} \cup HeadphonePart(37)
          [] r = HPH_OUT_L -> HeadphonePart(37)
          [] r = DAC_R     -> MixerPart(37)
          [] r = DAC_L     -> {6} \cup MixerPart(37)
          [] OTHER         -> {} ]

Init ==
    /\ chip = InitRegs /\ shadow = InitRegs
    /\ vol = [l |-> 37, r |-> 37]
    /\ sansa_active_rec = "mic"
    /\ dsp = "closed" /\ mode = {}
    /\ bus = Idle /\ ptr = 0 /\ data0 = 0 /\ i2c_lock = None
    /\ op = [p \in Procs |-> "none"]
    /\ todo = [p \in Procs |-> << >>] /\ got = [p \in Procs |-> 0]
    /\ lost = FALSE /\ crossed = FALSE /\ wide = FALSE /\ timedOut = FALSE
    /\ begun = 0

-----------------------------------------------------------------------------
(* A process begins an operation, and takes the lock if it is free *)

\* The value of a write is computed before it waits for the lock.
Load(e, regs) == IF e.kind = "write" THEN [e EXCEPT !.base = regs[e.reg] \cap e.keep] ELSE e
LoadAll(es, regs) == [i \in DOMAIN es |-> Load(es[i], regs)]
LoadHead(es, regs) == << Load(Head(es), regs) >> \o Tail(es)

\* operations that load the volume or the source before they have the lock
Selecting == {"pcm", "mic", "line", "record"}

\* Bound: when bits or a setting were lost, or the bus hangs, operations end
\* but none begins until the next boot.
Spoiled == lost \/ crossed \/ timedOut

Begin(p, o, es) ==
    /\ op[p] = "none" /\ ~Spoiled /\ begun < MaxOps
    /\ begun' = begun + 1
    /\ op' = [op EXCEPT ![p] = o]
    /\ todo' = [todo EXCEPT ![p] = es]
    /\ i2c_lock' = IF i2c_lock = None THEN p ELSE i2c_lock
    /\ crossed' = (crossed \/ (o \in Selecting /\ \E q \in Procs : op[q] \in Selecting))
    /\ UNCHANGED <<shadow, sansa_active_rec, wires, got, lost, timedOut>>

SetPcm(p, l, r) ==
    /\ vol' = [l |-> Percent(l), r |-> Percent(r)]
    /\ Begin(p, "pcm", LoadAll(MasterVol(vol'), shadow))
    /\ UNCHANGED <<dsp, mode, wide>>

SetLine(p, l, r) ==
    /\ Begin(p, "level", LoadHead(SetRecVol(l, r), shadow))
    /\ wide' = (wide \/ ~(Bits(l) \cup Bits(r) \subseteq Low5))
    /\ UNCHANGED <<vol, dsp, mode>>

\* SOUND_MIXER_MIC passes on any int: a channel pair, left | right << 8, too
SetMic(p, v) ==
    /\ Begin(p, "level", LoadHead(SetMicVol(v), shadow))
    /\ wide' = (wide \/ ~(Bits(MicVol(v)) \subseteq Low5))
    /\ UNCHANGED <<vol, dsp, mode>>

\* SOUND_MIXER_RECSRC; the source in use is not selected again
SetRecSrc(p, src) ==
    /\ src # sansa_active_rec
    /\ Begin(p, src, LoadAll(MasterVol(vol), shadow) \o EnableRecording(src))
    /\ UNCHANGED <<vol, dsp, mode, wide>>

\* sansaaudio_open, for playing; also for recording, it goes on with that
OpenPlay(p, m) ==
    /\ dsp = "closed" /\ dsp' = "opening" /\ "w" \in m /\ mode' = m
    /\ Begin(p, "open", LoadHead(InitPb, shadow)
                            \o (IF "r" \in m THEN << Other("enable", 0) >> ELSE << >>))
    /\ UNCHANGED <<vol, wide>>

OpenRecord(p) ==
    /\ dsp = "closed" /\ dsp' = "opening" /\ mode' = {"r"}
    /\ Begin(p, "record", LoadAll(MasterVol(vol), shadow) \o EnableRecording(sansa_active_rec))
    /\ UNCHANGED <<vol, wide>>

\* sansaaudio_close
Close(p) ==
    /\ dsp = "open" /\ dsp' = "closing"
    /\ Begin(p, "close", LoadHead(CloseCodec, shadow))
    /\ UNCHANGED <<vol, mode, wide>>

\* adc_read and as_rtc_read
ReadAdc(p) == Begin(p, "adc", Adc) /\ UNCHANGED <<vol, dsp, mode, wide>>
ReadRtc(p) == Begin(p, "rtc", Rtc) /\ UNCHANGED <<vol, dsp, mode, wide>>

-----------------------------------------------------------------------------
(* Transfers under the lock *)

\* down() of a process that had to wait
Acquire(p) ==
    /\ op[p] # "none" /\ i2c_lock = None
    /\ i2c_lock' = p
    /\ UNCHANGED <<codec, wires, op, todo, got, ghosts>>

\* calls whose arguments are loaded when the transfers before them are done
Expand(es) ==
    CASE Head(es).kind = "master" -> MasterVol(vol) \o Tail(es)
      [] Head(es).kind = "enable" ->
            MasterVol(vol) \o EnableRecording(sansa_active_rec) \o Tail(es)
      [] OTHER -> es

\* the rest of p's operation, and what it does at its end
GoOn(p, rest) ==
    IF rest # << >>
    THEN /\ todo' = [todo EXCEPT ![p] = LoadHead(Expand(rest), shadow')]
         /\ UNCHANGED <<op, i2c_lock, sansa_active_rec, dsp, mode>>
    ELSE /\ todo' = [todo EXCEPT ![p] = << >>]
         /\ op' = [op EXCEPT ![p] = "none"]
         /\ i2c_lock' = None
         /\ sansa_active_rec' = IF op[p] \in {"mic", "line"} THEN op[p] ELSE sansa_active_rec
         /\ dsp' = CASE op[p] \in {"open", "record"} -> "open"
                     [] op[p] = "close" -> "closed"
                     [] OTHER -> dsp
         /\ mode' = IF op[p] = "close" THEN {} ELSE mode

\* what was read counts up to the operation's end
Keep(p) == got' = [got EXCEPT ![p] = IF Len(todo[p]) = 1 THEN 0 ELSE @ + 1]

\* p has the lock and what it does next is of kind k
Turn(p, k) == i2c_lock = p /\ Head(todo[p]).kind = k

Written(e) == e.base \cup e.set

\* mutant of SendWrite: the shadow register is forgotten
SendWriteOnly(p) ==
    LET e == Head(todo[p])
    IN  /\ Turn(p, "write") /\ bus = Idle
        /\ bus' = [kind |-> "write", reg |-> e.reg, val |-> Written(e) \cap Byte]
        /\ lost' = (lost \/ e.base # shadow[e.reg] \cap e.keep)
        /\ UNCHANGED shadow
        /\ GoOn(p, Tail(todo[p]))
        /\ UNCHANGED <<vol, chip, ptr, data0, got, crossed, wide, timedOut, begun>>

\* sansa_i2c_send_bytes of two bytes to a codec register, then the shadow,
\* which is an int and takes the value as it was before it became a byte
SendWrite(p) ==
    LET e == Head(todo[p])
    IN  /\ Turn(p, "write") /\ bus = Idle
        /\ bus' = [kind |-> "write", reg |-> e.reg, val |-> Written(e) \cap Byte]
        /\ lost' = (lost \/ e.base # shadow[e.reg] \cap e.keep)
        /\ shadow' = [shadow EXCEPT ![e.reg] = Written(e)]
        /\ GoOn(p, Tail(todo[p]))
        /\ UNCHANGED <<vol, chip, ptr, data0, got, crossed, wide, timedOut, begun>>

\* of the converter's channel; of a register's number
SendSelect(p) ==
    /\ Turn(p, "select") /\ bus = Idle
    /\ bus' = [kind |-> "write", reg |-> Head(todo[p]).reg, val |-> {}]
    /\ UNCHANGED shadow
    /\ GoOn(p, Tail(todo[p]))
    /\ UNCHANGED <<vol, chip, ptr, data0, got, ghosts>>

SendPtr(p) ==
    /\ Turn(p, "ptr") /\ bus = Idle
    /\ bus' = [kind |-> "ptr", reg |-> Head(todo[p]).reg, val |-> {}]
    /\ UNCHANGED shadow
    /\ GoOn(p, Tail(todo[p]))
    /\ UNCHANGED <<vol, chip, ptr, data0, got, ghosts>>

\* sansa_i2c_read_byte, which waits for its transfer to end
StartRead(p) ==
    /\ Turn(p, "read") /\ bus = Idle
    /\ bus' = [Idle EXCEPT !.kind = "read"]
    /\ todo' = [todo EXCEPT ![p][1].kind = "fetch"]
    /\ UNCHANGED <<codec, chip, ptr, data0, i2c_lock, op, got, ghosts>>

\* mutant of Fetch: it does not wait
FetchEarly(p) ==
    /\ Turn(p, "fetch")
    /\ Keep(p)
    /\ UNCHANGED shadow
    /\ GoOn(p, Tail(todo[p]))
    /\ UNCHANGED <<vol, wires, ghosts>>

Fetch(p) ==
    /\ Turn(p, "fetch") /\ bus = Idle
    /\ Keep(p)
    /\ UNCHANGED shadow
    /\ GoOn(p, Tail(todo[p]))
    /\ UNCHANGED <<vol, wires, ghosts>>

\* mutant of TimeOut: the end of a read is waited for without limit
TimeOutBut(p) ==
    LET e == Head(todo[p])
    IN  /\ i2c_lock = p /\ bus # Idle /\ e.kind # "fetch"
        /\ timedOut' = TRUE
        /\ shadow' = IF e.kind = "write" THEN [shadow EXCEPT ![e.reg] = Written(e)] ELSE shadow
        /\ got' = [got EXCEPT ![p] = 0]
        /\ GoOn(p, IF e.kind = "select" THEN << >> ELSE Tail(todo[p]))
        /\ UNCHANGED <<vol, wires, lost, crossed, wide, begun>>

\* sansa_i2c_wait_not_busy gives up after POLL_TIMEOUT.  A write sets the
\* shadow all the same, a read leaves data undefined, and only adc_read
\* looks at a result: that of selecting the channel.
TimeOut(p) ==
    LET e == Head(todo[p])
    IN  /\ i2c_lock = p /\ bus # Idle
        /\ timedOut' = TRUE
        /\ shadow' = IF e.kind = "write" THEN [shadow EXCEPT ![e.reg] = Written(e)] ELSE shadow
        /\ got' = [got EXCEPT ![p] = 0]
        /\ GoOn(p, IF e.kind = "select" THEN << >> ELSE Tail(todo[p]))
        /\ UNCHANGED <<vol, wires, lost, crossed, wide, begun>>

\* The controller and the codec end the transfer under way.  A register's
\* number stays for the reads that follow it, each of which goes one on.
\* Bound: a bus on which a transfer timed out hangs until the next boot.
Complete ==
    /\ bus # Idle /\ ~timedOut
    /\ bus' = Idle
    /\ chip' = IF bus.kind = "write" /\ bus.reg \in Regs
               THEN [chip EXCEPT ![bus.reg] = bus.val] ELSE chip
    /\ ptr' = CASE bus.kind = "ptr"  -> bus.reg
                [] bus.kind = "read" /\ ptr # 0 -> ptr + 1
                [] OTHER -> 0
    /\ data0' = IF bus.kind = "read" THEN ptr ELSE data0
    /\ UNCHANGED <<codec, procs, ghosts>>

-----------------------------------------------------------------------------
Request(p) ==
    \/ \E lr \in PcmLevels : SetPcm(p, lr[1], lr[2])
    \/ \E lr \in LineLevels : SetLine(p, lr[1], lr[2])
    \/ \E v \in MicLevels : SetMic(p, v)
    \/ \E src \in {"mic", "line"} : SetRecSrc(p, src)
    \/ \E m \in SUBSET {"r", "w"} : OpenPlay(p, m)
    \/ OpenRecord(p)
    \/ Close(p)
    \/ ReadAdc(p)
    \/ ReadRtc(p)

Step(p) ==
    \/ SendWrite(p) \/ SendSelect(p) \/ SendPtr(p) \/ StartRead(p) \/ Fetch(p)
    \/ TimeOut(p)

\* the next boot: sansaaudio_hw_init
Boot ==
    /\ Spoiled \/ begun = MaxOps
    /\ bus = Idle \/ timedOut
    /\ \A p \in Procs : op[p] = "none"
    /\ chip' = InitRegs /\ shadow' = InitRegs
    /\ vol' = [l |-> 37, r |-> 37]
    /\ sansa_active_rec' = "mic"
    /\ dsp' = "closed" /\ mode' = {}
    /\ bus' = Idle /\ ptr' = 0 /\ data0' = 0
    /\ lost' = FALSE /\ crossed' = FALSE /\ wide' = FALSE /\ timedOut' = FALSE
    /\ begun' = 0
    /\ UNCHANGED procs

Next == Complete \/ Boot \/ \E p \in Procs : Request(p) \/ Acquire(p) \/ Step(p)

Spec == Init /\ [][Next]_vars

\* The process that has the lock is run, and jiffies go on; the bus may hang.
Fairness == WF_vars(\E p \in Procs : Step(p))

LiveSpec == Spec /\ Fairness
-----------------------------------------------------------------------------
(* What the codec's drivers promise *)

Carried(r) == bus.kind = "write" /\ bus.reg = r

\* "Shadow registers": the low eight bits of what the driver thinks is in
\* the codec are there, or on their way, unless a transfer timed out.  Only
\* they: the shadow keeps what the transfer cuts off (audio.c:73, 84), and a
\* microphone level may be any int (audio.c:989).
ShadowAgrees ==
    ~timedOut =>
        \A r \in Regs : shadow[r] \cap Byte = IF Carried(r) THEN bus.val ELSE chip[r]

\* Who reads the clock or the battery gets the registers it asked for,
\* whatever the mixer does meanwhile.
ReadGetsRegister ==
    [][\A p \in Procs : Fetch(p) /\ ~timedOut =>
           data0 = Wanted(op[p])[got[p] + 1]]_vars

\* While /dev/dsp is open for playing the headphone is powered and not
\* muted, and while it is open for recording the converter is on, whatever
\* volumes and sources are chosen; unless an operation wrote back bits that
\* it had loaded before another one changed them.
PathsOn ==
    dsp = "open" /\ ~lost /\ ~timedOut =>
        /\ "w" \in mode => /\ 6 \in chip[HPH_OUT_L] /\ 7 \notin chip[HPH_OUT_L]
                           /\ {5, 6} \subseteq chip[AUDIOSET1]
        /\ "r" \in mode => /\ 6 \in chip[ADC_L]
                           /\ 7 \in chip[AUDIOSET1] \/ Carried(AUDIOSET1)

Quiet == bus = Idle /\ \A p \in Procs : op[p] = "none"

\* When all is quiet the source that RECSRC reports is the one the codec
\* records from, and the only one switched on while it does.
SourceSelected ==
    Quiet /\ ~Spoiled /\ ~wide =>
        /\ chip[ADC_R] \cap {6, 7} = IF sansa_active_rec = "line" THEN {6} ELSE {}
        /\ dsp = "open" /\ "r" \in mode =>
              chip[AUDIOSET1] \cap {0, 2} = IF sansa_active_rec = "line" THEN {2} ELSE {0}

\* "keep track of current setting": when all is quiet the volume is the one
\* remembered, in both of its parts.
VolumeSet ==
    Quiet /\ ~lost /\ ~crossed /\ ~timedOut =>
        /\ chip[DAC_R] \cap Low5 = MixerPart(vol.r)
        /\ chip[DAC_L] \cap Low5 = MixerPart(vol.l)
        /\ chip[HPH_OUT_R] \cap Low5 = HeadphonePart(vol.r)
        /\ chip[HPH_OUT_L] \cap Low5 = HeadphonePart(vol.l)

\* What the mixer was last told is what the codec does.
SettingsKept == SourceSelected /\ VolumeSet

\* Even if the bus hangs, no process keeps the lock from the others.
LockIsGivenBack == i2c_lock # None ~> i2c_lock = None
=============================================================================
