-------------------------- MODULE SansaCodecProofs --------------------------
(* Theorems about SansaCodec, for any processes and levels. *)
EXTENDS SansaCodec, TLAPS

-----------------------------------------------------------------------------
(* Transfers, and lists of them *)

LEMMA BitsOfWord == \A n : Bits(n) \subseteq Word
BY DEF Bits, Byte, Word

LEMMA WriteType ==
    ASSUME NEW reg \in Regs, NEW keep \in SUBSET Word, NEW set \in SUBSET Word
    PROVE  Write(reg, keep, set) \in Entry
BY DEF Write, Entry

LEMMA OtherType ==
    ASSUME NEW kind \in {"select", "ptr", "read", "fetch", "master", "enable"},
           NEW reg \in Others
    PROVE  Other(kind, reg) \in Entry
BY DEF Other, Entry

\* A list of transfers that is not empty.
Transfers == Seq(Entry) \ {<< >>}

LEMMA MasterVolType == \A v : MasterVol(v) \in Transfers
<1> TAKE v
<1>1. \A x : MixerPart(x) \in SUBSET Word /\ HeadphonePart(x) \in SUBSET Word
  BY BitsOfWord DEF MixerPart, HeadphonePart
<1>2. Word \ Low5 \in SUBSET Word
  OBVIOUS
<1>3. {DAC_R, DAC_L, HPH_OUT_R, HPH_OUT_L} \subseteq Regs
  BY DEF Regs
<1>4. /\ Write(DAC_R, Word \ Low5, MixerPart(v.r)) \in Entry
      /\ Write(DAC_L, Word \ Low5, MixerPart(v.l)) \in Entry
      /\ Write(HPH_OUT_R, Word \ Low5, HeadphonePart(v.r)) \in Entry
      /\ Write(HPH_OUT_L, Word \ Low5, HeadphonePart(v.l)) \in Entry
  BY <1>1, <1>2, <1>3, WriteType
<1> QED BY <1>4 DEF MasterVol, Transfers

LEMMA InitPbType == InitPb \in Transfers
<1>1. /\ Write(AUDIOSET1, {}, {5, 6}) \in Entry
      /\ Write(HPH_OUT_L, Word, {6}) \in Entry
      /\ Write(HPH_OUT_L, Word \ {7}, {}) \in Entry
  BY WriteType DEF Regs, Word
<1>2. Other("master", 0) \in Entry
  BY OtherType DEF Others
<1> QED BY <1>1, <1>2 DEF InitPb, WriteOr, WriteAnd, Transfers

LEMMA EnableType == \A src : EnableRecording(src) \in Transfers
<1> TAKE src
<1>1. /\ Write(ADC_R, Word \ {6, 7}, {}) \in Entry
      /\ Write(AUDIOSET1, Word \ {2}, {0}) \in Entry
      /\ Write(MIC1_R, Word \ {7}, {}) \in Entry
      /\ Write(ADC_R, Word \ {6, 7}, {6}) \in Entry
      /\ Write(AUDIOSET1, Word \ {0}, {2}) \in Entry
      /\ Write(ADC_L, Word, {6}) \in Entry
      /\ Write(AUDIOSET1, Word, {7}) \in Entry
  BY WriteType DEF Regs, Word
<1>2. \A a, b, c, d, e \in Entry :
          /\ << a, b, c >> \o << d, e >> \in Transfers
          /\ << a, b >> \o << d, e >> \in Transfers
  BY DEF Transfers
<1> QED BY <1>1, <1>2 DEF EnableRecording, WriteOr, WriteAnd

LEMMA CloseType == CloseCodec \in Transfers
<1>1. Write(HPH_OUT_L, Word, {7}) \in Entry /\ Write(AUDIOSET1, {}, {}) \in Entry
  BY WriteType DEF Regs, Word
<1> QED BY <1>1 DEF CloseCodec, WriteOr, Transfers

LEMMA RecVolType == \A l, r : SetRecVol(l, r) \in Transfers
<1> TAKE l, r
<1>1. /\ Write(ADC_R, Word \ Low5, Bits(r)) \in Entry
      /\ Write(ADC_L, Word \ Low5, Bits(l)) \in Entry
  BY WriteType, BitsOfWord DEF Regs
<1> QED BY <1>1 DEF SetRecVol, Transfers

LEMMA MicVolType == \A v : SetMicVol(v) \in Transfers
<1> TAKE v
<1>1. Write(MIC1_R, Word \ {5, 6}, MicGain(v)) \in Entry
  BY WriteType DEF Regs, Word, MicGain
<1>2. SetRecVol(MicVol(v), MicVol(v)) \in Transfers
  BY RecVolType
<1> QED BY <1>1, <1>2 DEF SetMicVol, Transfers

LEMMA ReadersType == Adc \in Transfers /\ Rtc \in Transfers
<1>1. \A i \in 0 .. 3 : RTC_0 + i \in Others
  BY DEF Others, RTC_0, ADC_0
<1>2. ADC_0 \in Others /\ 0 \in Others
  BY DEF Others, RTC_0, ADC_0
<1>3. Adc \in Transfers
  BY <1>2, OtherType DEF Adc, Transfers
<1>4. \A i \in 0 .. 3 : /\ Other("ptr", RTC_0 + i) \in Entry
                        /\ Other("read", RTC_0 + i) \in Entry
  BY <1>1, OtherType
<1>5. \A i \in 0 .. 3 : ReadByte(RTC_0 + i) \in Transfers
  BY <1>4 DEF ReadByte, Transfers
<1>6. RTC_0 + 0 = RTC_0
  BY DEF RTC_0
<1> QED BY <1>3, <1>5, <1>6 DEF Rtc, Transfers

\* Loading the bits to keep makes transfers of transfers.
LEMMA LoadType ==
    ASSUME NEW e \in Entry, NEW regs \in [Regs -> SUBSET Word]
    PROVE  Load(e, regs) \in Entry
<1>1. CASE e.kind = "write"
  <2>1. e.reg \in Regs /\ regs[e.reg] \in SUBSET Word
    BY <1>1 DEF Entry
  <2> QED BY <1>1, <2>1 DEF Load, Entry
<1>2. CASE e.kind # "write"
  BY <1>2 DEF Load
<1> QED BY <1>1, <1>2

LEMMA LoadListType ==
    ASSUME NEW es \in Transfers, NEW regs \in [Regs -> SUBSET Word]
    PROVE  LoadAll(es, regs) \in Transfers /\ LoadHead(es, regs) \in Transfers
<1>1. es \in Seq(Entry) /\ Len(es) > 0
  BY DEF Transfers
<1>2. \A i \in 1 .. Len(es) : es[i] \in Entry
  BY <1>1
<1>3. \A i \in 1 .. Len(es) : Load(es[i], regs) \in Entry
  BY <1>2, LoadType
<1>4. LoadAll(es, regs) \in Transfers
  BY <1>1, <1>3 DEF LoadAll, Transfers
<1>5. Load(Head(es), regs) \in Entry /\ Tail(es) \in Seq(Entry)
  BY <1>1, LoadType
<1>6. LoadHead(es, regs) \in Transfers
  BY <1>5 DEF LoadHead, Transfers
<1> QED BY <1>4, <1>6

LEMMA ExpandType ==
    ASSUME NEW es \in Transfers
    PROVE  Expand(es) \in Transfers
<1>1. Tail(es) \in Seq(Entry)
  BY DEF Transfers
<1>2. /\ MasterVol(vol) \in Transfers
      /\ EnableRecording(sansa_active_rec) \in Transfers
  BY MasterVolType, EnableType
<1>3. \A a, b \in Transfers : \A c \in Seq(Entry) :
          a \o c \in Transfers /\ a \o b \o c \in Transfers
  BY DEF Transfers
<1> QED BY <1>1, <1>2, <1>3 DEF Expand

-----------------------------------------------------------------------------
(* Types, and the shadow registers *)

LEMMA InitRegsType == InitRegs \in [Regs -> SUBSET Byte] /\ Byte \subseteq Word
<1>1. Bits(15) \in SUBSET Byte /\ Bits(22) \in SUBSET Byte
  BY DEF Bits
<1>2. HeadphonePart(37) \in SUBSET Byte /\ MixerPart(37) \in SUBSET Byte
  BY <1>1 DEF HeadphonePart, MixerPart
<1>3. InitRegs \in [Regs -> SUBSET Byte]
  BY <1>2 DEF InitRegs, Byte
<1> QED BY <1>3 DEF Byte, Word

\* A register holds the low eight bits of its copy.
Agrees == \A r \in Regs : chip[r] = shadow[r] \cap Byte

LEMMA InitOK == Init => BusOK /\ ShadowAgrees
<1> SUFFICES ASSUME Init PROVE BusOK /\ ShadowAgrees
  OBVIOUS
<1>1. chip \in [Regs -> SUBSET Byte] /\ shadow \in [Regs -> SUBSET Word]
  BY InitRegsType DEF Init
<1>2. bus \in [kind : {"idle", "write", "ptr", "read"},
               reg : Regs \cup Others, val : SUBSET Byte]
  BY DEF Init, Idle, Others
<1>3. /\ i2c_lock = None
      /\ op = [p \in Procs |-> "none"]
      /\ todo = [p \in Procs |-> << >>]
  BY DEF Init
<1>4. BusOK
  BY <1>1, <1>2, <1>3 DEF BusOK, Ops
<1>5. ShadowAgrees
  <2>1. /\ chip = InitRegs /\ shadow = InitRegs /\ bus.kind = "idle"
        /\ \A r \in Regs : InitRegs[r] \cap Byte = InitRegs[r]
    BY InitRegsType DEF Init, Idle
  <2> QED BY <2>1 DEF ShadowAgrees, Carried
<1> QED BY <1>4, <1>5

\* A beginning operation: any operation, any transfers.
LEMMA BeginOK ==
    ASSUME BusOK, ShadowAgrees, NEW p \in Procs, NEW o \in Ops \ {"none"},
           NEW es \in Transfers, Begin(p, o, es)
    PROVE  BusOK' /\ ShadowAgrees'
<1>1. /\ UNCHANGED <<shadow, chip, bus, timedOut>>
      /\ i2c_lock' \in {i2c_lock, p}
      /\ i2c_lock' = p \/ i2c_lock # None
      /\ op' = [op EXCEPT ![p] = o]
      /\ todo' = [todo EXCEPT ![p] = es]
  BY DEF Begin, wires
<1>2. ShadowAgrees'
  BY <1>1 DEF ShadowAgrees, Carried
<1>3. op' \in [Procs -> Ops] /\ todo' \in [Procs -> Seq(Entry)]
  BY <1>1 DEF BusOK, Transfers
<1>4. \A q \in Procs : op'[q] = "none" <=> todo'[q] = << >>
  BY <1>1 DEF BusOK, Transfers
<1>5. i2c_lock' # None => op'[i2c_lock'] # "none"
  BY <1>1 DEF BusOK
<1> QED BY <1>1, <1>2, <1>3, <1>4, <1>5 DEF BusOK

\* The end of a transfer, whatever it did to the registers and the bus.
LEMMA GoOnOK ==
    ASSUME BusOK, NEW p \in Procs, i2c_lock = p, NEW rest \in Seq(Entry), GoOn(p, rest),
           chip' \in [Regs -> SUBSET Byte], shadow' \in [Regs -> SUBSET Word],
           bus' \in [kind : {"idle", "write", "ptr", "read"},
                     reg : Regs \cup Others, val : SUBSET Byte]
    PROVE  BusOK'
<1>1. p # None /\ op[p] # "none"
  BY CodecAssumption DEF BusOK
<1>2. CASE rest # << >>
  <2> DEFINE es == LoadHead(Expand(rest), shadow')
  <2>1. rest \in Transfers
    BY <1>2 DEF Transfers
  <2>2. es \in Transfers
    BY <2>1, ExpandType, LoadListType
  <2>3. todo' = [todo EXCEPT ![p] = es] /\ op' = op /\ i2c_lock' = i2c_lock
    BY <1>2 DEF GoOn
  <2> HIDE DEF es
  <2>4. todo' \in [Procs -> Seq(Entry)]
    BY <2>2, <2>3 DEF BusOK, Transfers
  <2>5. \A q \in Procs : op'[q] = "none" <=> todo'[q] = << >>
    BY <1>1, <2>2, <2>3 DEF BusOK, Transfers
  <2> QED BY <2>3, <2>4, <2>5 DEF BusOK
<1>3. CASE rest = << >>
  <2>1. /\ todo' = [todo EXCEPT ![p] = << >>]
        /\ op' = [op EXCEPT ![p] = "none"]
        /\ i2c_lock' = None
    BY <1>3 DEF GoOn
  <2>2. << >> \in Seq(Entry) /\ "none" \in Ops
    BY DEF Ops
  <2>3. todo' \in [Procs -> Seq(Entry)] /\ op' \in [Procs -> Ops]
    BY <2>1, <2>2 DEF BusOK
  <2>4. \A q \in Procs : op'[q] = "none" <=> todo'[q] = << >>
    BY <2>1 DEF BusOK
  <2> QED BY <2>1, <2>3, <2>4 DEF BusOK
<1> QED BY <1>2, <1>3

\* The process that has the lock has a transfer to do.
LEMMA HolderHasTurn ==
    ASSUME BusOK, NEW p \in Procs, i2c_lock = p
    PROVE  /\ todo[p] \in Transfers
           /\ Head(todo[p]) \in Entry /\ Tail(todo[p]) \in Seq(Entry)
<1>1. p # None /\ op[p] # "none"
  BY CodecAssumption DEF BusOK
<1>2. todo[p] \in Seq(Entry) /\ todo[p] # << >>
  BY <1>1 DEF BusOK
<1> QED BY <1>2 DEF Transfers

LEMMA RequestOK ==
    ASSUME BusOK, ShadowAgrees, NEW p \in Procs, Request(p)
    PROVE  BusOK' /\ ShadowAgrees'
<1> shadow \in [Regs -> SUBSET Word]
  BY DEF BusOK
<1>1. ASSUME NEW l, NEW r, SetPcm(p, l, r)
      PROVE  BusOK' /\ ShadowAgrees'
  <2>1. LoadAll(MasterVol(vol'), shadow) \in Transfers
    BY MasterVolType, LoadListType
  <2> QED BY <1>1, <2>1, BeginOK DEF SetPcm, Ops
<1>2. ASSUME NEW l, NEW r, SetLine(p, l, r)
      PROVE  BusOK' /\ ShadowAgrees'
  <2>1. LoadHead(SetRecVol(l, r), shadow) \in Transfers
    BY RecVolType, LoadListType
  <2> QED BY <1>2, <2>1, BeginOK DEF SetLine, Ops
<1>3. ASSUME NEW v, SetMic(p, v)
      PROVE  BusOK' /\ ShadowAgrees'
  <2>1. LoadHead(SetMicVol(v), shadow) \in Transfers
    BY MicVolType, LoadListType
  <2> QED BY <1>3, <2>1, BeginOK DEF SetMic, Ops
<1>4. \A src : LoadAll(MasterVol(vol), shadow) \o EnableRecording(src) \in Transfers
  <2>1. \A src : EnableRecording(src) \in Transfers
    BY EnableType
  <2>2. LoadAll(MasterVol(vol), shadow) \in Transfers
    BY MasterVolType, LoadListType
  <2> QED BY <2>1, <2>2 DEF Transfers
<1>5. ASSUME NEW src \in {"mic", "line"}, SetRecSrc(p, src)
      PROVE  BusOK' /\ ShadowAgrees'
  BY <1>4, <1>5, BeginOK DEF SetRecSrc, Ops
<1>6. ASSUME NEW m, OpenPlay(p, m)
      PROVE  BusOK' /\ ShadowAgrees'
  <2> DEFINE head == LoadHead(InitPb, shadow)
             tail == IF "r" \in m THEN << Other("enable", 0) >> ELSE << >>
  <2>1. head \in Transfers
    BY InitPbType, LoadListType
  <2>2. Other("enable", 0) \in Entry
    BY OtherType DEF Others
  <2>3. tail \in Seq(Entry)
    BY <2>2
  <2>4. Begin(p, "open", head \o tail)
    BY <1>6 DEF OpenPlay
  <2> HIDE DEF head, tail
  <2>5. head \o tail \in Transfers
    BY <2>1, <2>3 DEF Transfers
  <2> QED BY <2>4, <2>5, BeginOK DEF Ops
<1>7. ASSUME OpenRecord(p)
      PROVE  BusOK' /\ ShadowAgrees'
  BY <1>4, <1>7, BeginOK DEF OpenRecord, Ops
<1>8. ASSUME Close(p)
      PROVE  BusOK' /\ ShadowAgrees'
  <2>1. LoadHead(CloseCodec, shadow) \in Transfers
    BY CloseType, LoadListType
  <2> QED BY <1>8, <2>1, BeginOK DEF Close, Ops
<1>9. ASSUME ReadAdc(p) \/ ReadRtc(p)
      PROVE  BusOK' /\ ShadowAgrees'
  BY <1>9, ReadersType, BeginOK DEF ReadAdc, ReadRtc, Ops
<1> QED BY <1>1, <1>2, <1>3, <1>5, <1>6, <1>7, <1>8, <1>9 DEF Request

\* The steps of the process that has the lock.
LEMMA StepOK ==
    ASSUME BusOK, ShadowAgrees, NEW p \in Procs, Step(p)
    PROVE  BusOK' /\ ShadowAgrees'
<1> DEFINE e == Head(todo[p])
           BusType == [kind : {"idle", "write", "ptr", "read"},
                       reg : Regs \cup Others, val : SUBSET Byte]
<1>1. /\ chip \in [Regs -> SUBSET Byte] /\ shadow \in [Regs -> SUBSET Word]
      /\ bus \in BusType
  BY DEF BusOK
<1>2. i2c_lock = p
  BY DEF Step, SendWrite, SendSelect, SendPtr, StartRead, Fetch, TimeOut, Turn
<1>3. e \in Entry /\ Tail(todo[p]) \in Seq(Entry) /\ todo[p] \in Transfers
  BY <1>2, HolderHasTurn
<1> HIDE DEF e
<1>4. e.kind = "write" => e.reg \in Regs /\ Written(e) \in SUBSET Word
  BY <1>3 DEF Entry, Written
<1>5. e.kind # "write" => e.reg \in Others \ Regs
  BY <1>3 DEF Entry, Others, Regs, RTC_0, ADC_0, HPH_OUT_R, HPH_OUT_L, MIC1_R, DAC_R, DAC_L,
              ADC_R, ADC_L, AUDIOSET1
<1>6. ASSUME SendWrite(p)
      PROVE  BusOK' /\ ShadowAgrees'
  <2>1. /\ e.kind = "write" /\ bus = Idle
        /\ bus' = [kind |-> "write", reg |-> e.reg, val |-> Written(e) \cap Byte]
        /\ shadow' = [shadow EXCEPT ![e.reg] = Written(e)]
        /\ GoOn(p, Tail(todo[p]))
        /\ UNCHANGED <<chip, timedOut>>
    BY <1>6 DEF SendWrite, Turn, e
  <2>2. shadow' \in [Regs -> SUBSET Word] /\ bus' \in BusType /\ chip' = chip
    BY <1>1, <1>4, <2>1
  <2>3. BusOK'
    BY <1>1, <1>2, <1>3, <2>1, <2>2, GoOnOK
  <2>4. ~timedOut => \A r \in Regs : shadow[r] \cap Byte = chip[r]
    BY <2>1 DEF ShadowAgrees, Carried, Idle
  <2>5. ShadowAgrees'
    BY <1>1, <1>4, <2>1, <2>4 DEF ShadowAgrees, Carried
  <2> QED BY <2>3, <2>5
<1>7. ASSUME SendSelect(p) \/ SendPtr(p)
      PROVE  BusOK' /\ ShadowAgrees'
  <2>1. /\ e.kind # "write" /\ bus = Idle
        /\ \E k \in {"write", "ptr"} : bus' = [kind |-> k, reg |-> e.reg, val |-> {}]
        /\ GoOn(p, Tail(todo[p]))
        /\ UNCHANGED <<chip, shadow, timedOut>>
    BY <1>7 DEF SendSelect, SendPtr, Turn, e, ghosts
  <2>2. bus' \in BusType
    BY <1>5, <2>1
  <2>3. BusOK'
    BY <1>1, <1>2, <1>3, <2>1, <2>2, GoOnOK
  <2>4. ShadowAgrees'
    BY <1>5, <2>1 DEF ShadowAgrees, Carried, Idle
  <2> QED BY <2>3, <2>4
<1>8. ASSUME StartRead(p)
      PROVE  BusOK' /\ ShadowAgrees'
  <2>1. /\ e.kind = "read" /\ bus = Idle
        /\ bus' = [Idle EXCEPT !.kind = "read"]
        /\ todo' = [todo EXCEPT ![p] = [todo[p] EXCEPT ![1] = [e EXCEPT !.kind = "fetch"]]]
        /\ UNCHANGED <<chip, shadow, i2c_lock, op, timedOut>>
    BY <1>3, <1>8 DEF StartRead, Turn, e, codec, ghosts, BusOK, Transfers
  <2>2. [e EXCEPT !.kind = "fetch"] \in Entry
    BY <1>3, <2>1 DEF Entry
  <2>3. [todo[p] EXCEPT ![1] = [e EXCEPT !.kind = "fetch"]] \in Transfers
    BY <1>3, <2>2 DEF Transfers
  <2>4. bus' \in BusType
    BY <2>1 DEF Idle, Others
  <2>5. /\ todo' \in [Procs -> Seq(Entry)]
        /\ \A q \in Procs : todo'[q] = << >> <=> todo[q] = << >>
    BY <1>3, <2>1, <2>3 DEF BusOK, Transfers
  <2>6. BusOK'
    BY <2>1, <2>4, <2>5 DEF BusOK
  <2>7. ShadowAgrees'
    BY <2>1 DEF ShadowAgrees, Carried, Idle
  <2> QED BY <2>6, <2>7
<1>9. ASSUME Fetch(p)
      PROVE  BusOK' /\ ShadowAgrees'
  <2>1. GoOn(p, Tail(todo[p])) /\ UNCHANGED <<chip, shadow, bus, timedOut>>
    BY <1>9 DEF Fetch, wires, ghosts
  <2>2. BusOK'
    BY <1>1, <1>2, <1>3, <2>1, GoOnOK
  <2>3. ShadowAgrees'
    BY <2>1 DEF ShadowAgrees, Carried
  <2> QED BY <2>2, <2>3
<1>10. ASSUME TimeOut(p)
       PROVE  BusOK' /\ ShadowAgrees'
  <2> DEFINE rest == IF e.kind = "select" THEN << >> ELSE Tail(todo[p])
  <2>1. /\ timedOut' = TRUE
        /\ shadow' = IF e.kind = "write" THEN [shadow EXCEPT ![e.reg] = Written(e)] ELSE shadow
        /\ GoOn(p, rest)
        /\ UNCHANGED <<chip, bus>>
    BY <1>10 DEF TimeOut, wires, e
  <2>2. shadow' \in [Regs -> SUBSET Word]
    BY <1>1, <1>4, <2>1
  <2>3. rest \in Seq(Entry)
    BY <1>3
  <2> HIDE DEF rest
  <2>4. BusOK'
    BY <1>1, <1>2, <2>1, <2>2, <2>3, GoOnOK
  <2> QED BY <2>1, <2>4 DEF ShadowAgrees
<1> QED BY <1>6, <1>7, <1>8, <1>9, <1>10 DEF Step

LEMMA CompleteOK ==
    ASSUME BusOK, ShadowAgrees, Complete
    PROVE  BusOK' /\ ShadowAgrees'
<1>1. /\ ~timedOut /\ bus' = Idle
      /\ chip' = IF bus.kind = "write" /\ bus.reg \in Regs
                 THEN [chip EXCEPT ![bus.reg] = bus.val] ELSE chip
      /\ UNCHANGED <<shadow, i2c_lock, op, todo, timedOut>>
  BY DEF Complete, codec, procs, ghosts
<1>2. bus.val \in SUBSET Byte /\ chip \in [Regs -> SUBSET Byte]
  BY DEF BusOK
<1>3. chip' \in [Regs -> SUBSET Byte]
  BY <1>1, <1>2
<1>4. bus' \in [kind : {"idle", "write", "ptr", "read"},
                reg : Regs \cup Others, val : SUBSET Byte]
  BY <1>1 DEF Idle, Others
<1>5. BusOK'
  BY <1>1, <1>3, <1>4 DEF BusOK
<1>6. \A r \in Regs : shadow[r] \cap Byte = chip'[r]
  BY <1>1, <1>2 DEF ShadowAgrees, Carried
<1>7. ShadowAgrees'
  BY <1>1, <1>6 DEF ShadowAgrees, Carried, Idle
<1> QED BY <1>5, <1>7

LEMMA StepsOK == BusOK /\ ShadowAgrees /\ [Next]_vars => BusOK' /\ ShadowAgrees'
<1> SUFFICES ASSUME BusOK, ShadowAgrees, [Next]_vars
             PROVE  BusOK' /\ ShadowAgrees'
  OBVIOUS
<1>1. ASSUME Boot PROVE BusOK' /\ ShadowAgrees'
  <2>1. /\ chip' = InitRegs /\ shadow' = InitRegs /\ bus' = Idle
        /\ UNCHANGED <<i2c_lock, op, todo>>
    BY <1>1 DEF Boot, procs
  <2>2. bus' \in [kind : {"idle", "write", "ptr", "read"},
                  reg : Regs \cup Others, val : SUBSET Byte]
    BY <2>1 DEF Idle, Others
  <2>3. /\ chip' \in [Regs -> SUBSET Byte] /\ shadow' \in [Regs -> SUBSET Word]
        /\ \A r \in Regs : shadow'[r] \cap Byte = chip'[r]
    BY <2>1, InitRegsType
  <2>4. BusOK'
    BY <2>1, <2>2, <2>3 DEF BusOK
  <2>5. bus'.kind = "idle"
    BY <2>1 DEF Idle
  <2>6. ShadowAgrees'
    BY <2>3, <2>5 DEF ShadowAgrees, Carried
  <2> QED BY <2>4, <2>6
<1>2. ASSUME NEW p \in Procs, Acquire(p) PROVE BusOK' /\ ShadowAgrees'
  <2>1. /\ op[p] # "none" /\ i2c_lock' = p
        /\ UNCHANGED <<chip, shadow, bus, op, todo, timedOut>>
    BY <1>2 DEF Acquire, codec, wires, ghosts
  <2> QED BY <2>1 DEF BusOK, ShadowAgrees, Carried
<1>3. ASSUME UNCHANGED vars PROVE BusOK' /\ ShadowAgrees'
  <2>1. UNCHANGED <<chip, shadow, bus, i2c_lock, op, todo, timedOut>>
    BY <1>3 DEF vars, codec, wires, procs, ghosts
  <2> QED BY <2>1 DEF BusOK, ShadowAgrees, Carried
<1> QED BY <1>1, <1>2, <1>3, RequestOK, StepOK, CompleteOK DEF Next

\* The codec's registers are the low eight bits of the driver's shadow
\* registers, however many processes use the bus and whatever they ask for,
\* until a transfer times out: a stale value that is written back reaches
\* both, and of a microphone level, which may be any int, the byte that the
\* transfer is cut to (as3514_write, audio.c:70-85; SOUND_MIXER_MIC, 989).
THEOREM ShadowsAgree == Spec => [](BusOK /\ ShadowAgrees)
<1>1. Init => BusOK /\ ShadowAgrees
  BY InitOK
<1>2. BusOK /\ ShadowAgrees /\ [Next]_vars => (BusOK /\ ShadowAgrees)'
  BY StepsOK
<1> QED BY <1>1, <1>2, PTL DEF Spec

-----------------------------------------------------------------------------
(* What the readers of the clock and of the battery have left to do.       *)
(* Waiting, all of it; with the lock, the rest from some transfer on, of   *)
(* which the first may be a read that has started.                         *)

Readers == {"adc", "rtc"}
ReadList(o) == IF o = "adc" THEN Adc ELSE Rtc

\* The transfer i of the n that are left, and what was read before them.
Left(o, n, i) == ReadList(o)[Len(ReadList(o)) - n + i]
Done(o, n) == IF o = "adc" THEN IF n = 1 THEN 1 ELSE 0 ELSE (8 - n) \div 2

Reading(p) == op[p] \in Readers
ToRead(p)  == Wanted(op[p])[got[p] + 1]

ReadShape(p) ==
    LET n == Len(todo[p])
    IN  /\ n <= Len(ReadList(op[p]))
        /\ i2c_lock # p => n = Len(ReadList(op[p]))
        /\ \/ todo[p][1] = Left(op[p], n, 1)
           \/ /\ Left(op[p], n, 1).kind = "read"
              /\ todo[p][1] = [Left(op[p], n, 1) EXCEPT !.kind = "fetch"]
        /\ \A i \in 2 .. n : todo[p][i] = Left(op[p], n, i)
        /\ got[p] <= Done(op[p], n)
        /\ ~timedOut => got[p] = Done(op[p], n)

\* The register of the codec's next read, when the bus is idle again.
NextPtr ==
    CASE bus = Idle -> ptr
      [] bus # Idle /\ bus.kind = "ptr" -> bus.reg
      [] bus # Idle /\ bus.kind = "read" /\ ptr # 0 -> ptr + 1
      [] OTHER -> 0

\* A read that is next will get the register it is for; one that has started
\* gets it, or has it.
ReadRight(p) ==
    i2c_lock = p /\ Reading(p) /\ ~timedOut =>
        /\ todo[p][1].kind = "read" => NextPtr = ToRead(p)
        /\ todo[p][1].kind = "fetch" =>
              /\ NextPtr = ToRead(p) + 1
              /\ IF bus = Idle THEN data0 = ToRead(p) ELSE bus.kind = "read" /\ ptr = ToRead(p)

MixerEntry == {e \in Entry : e.kind \in {"write", "master", "enable"}}

ReadPart(p) ==
    /\ IF Reading(p) THEN ReadShape(p) ELSE got[p] = 0 /\ todo[p] \in Seq(MixerEntry)
    /\ ReadRight(p)

ReadInv == \A p \in Procs : ReadPart(p)

LEMMA AdcIs ==
    /\ Len(Adc) = 4
    /\ Adc[1] = Other("select", ADC_0) /\ Adc[2] = Other("ptr", ADC_0)
    /\ Adc[3] = Other("read", 0) /\ Adc[4] = Other("read", 0)
BY DEF Adc

LEMMA RtcIs ==
    /\ Len(Rtc) = 8
    /\ Rtc[1] = Other("ptr", 42) /\ Rtc[2] = Other("read", 42)
    /\ Rtc[3] = Other("ptr", 43) /\ Rtc[4] = Other("read", 43)
    /\ Rtc[5] = Other("ptr", 44) /\ Rtc[6] = Other("read", 44)
    /\ Rtc[7] = Other("ptr", 45) /\ Rtc[8] = Other("read", 45)
BY DEF Rtc, ReadByte, RTC_0

\* How one transfer of a reader follows another.
LEMMA ReadStep ==
    ASSUME NEW o \in Readers, NEW n \in 1 .. Len(ReadList(o))
    PROVE  LET e == Left(o, n, 1)
               f == Left(o, n, 2)
           IN  /\ e \in Entry /\ e.kind \in {"select", "ptr", "read"}
               /\ n = Len(ReadList(o)) => e.kind # "read" /\ Done(o, n) = 0
               /\ e.kind # "read" => n > 1 /\ Done(o, n - 1) = Done(o, n)
               /\ e.kind = "select" => f.kind = "ptr"
               /\ e.kind = "ptr" => e.reg = Wanted(o)[Done(o, n) + 1]
               /\ e.kind = "read" /\ n > 1 =>
                     /\ Done(o, n - 1) = Done(o, n) + 1
                     /\ f.kind = "read" =>
                           Wanted(o)[Done(o, n) + 2] = Wanted(o)[Done(o, n) + 1] + 1
               /\ Done(o, n) \in 0 .. 3
               /\ Wanted(o)[Done(o, n) + 1] \in Nat \ {0}
<1> DEFINE e == Left(o, n, 1)
           f == Left(o, n, 2)
           w == Wanted(o)
<1>1. CASE o = "adc"
  <2>1. ReadList(o) = Adc /\ Len(ReadList(o)) = 4
    BY <1>1, AdcIs DEF ReadList
  <2>2. n = 1 \/ n = 2 \/ n = 3 \/ n = 4
    BY <2>1
  <2>3. w[1] = 46 /\ w[2] = 47
    BY <1>1 DEF Wanted, ADC_0
  <2>4. Other("select", 46) \in Entry /\ Other("ptr", 46) \in Entry /\ Other("read", 0) \in Entry
    BY OtherType DEF Others, ADC_0, RTC_0
  <2>5. /\ Done(o, 4) = 0 /\ Done(o, 3) = 0 /\ Done(o, 2) = 0 /\ Done(o, 1) = 1
    BY <1>1 DEF Done
  <2>6. \/ n = 4 /\ e = Other("select", 46) /\ f = Other("ptr", 46)
        \/ n = 3 /\ e = Other("ptr", 46) /\ f = Other("read", 0)
        \/ n = 2 /\ e = Other("read", 0) /\ f = Other("read", 0)
        \/ n = 1 /\ e = Other("read", 0)
    BY <2>1, <2>2, AdcIs DEF Left, ADC_0
  <2>7. \A k, r : Other(k, r).kind = k /\ Other(k, r).reg = r
    BY DEF Other
  <2> HIDE DEF e, f, w
  <2>8. /\ e \in Entry /\ e.kind \in {"select", "ptr", "read"}
        /\ n = Len(ReadList(o)) => e.kind # "read" /\ Done(o, n) = 0
        /\ e.kind # "read" => n > 1 /\ Done(o, n - 1) = Done(o, n)
        /\ e.kind = "select" => f.kind = "ptr"
        /\ e.kind = "ptr" => e.reg = w[Done(o, n) + 1]
    BY <2>1, <2>3, <2>4, <2>5, <2>6, <2>7
  <2>9. /\ e.kind = "read" /\ n > 1 =>
              /\ Done(o, n - 1) = Done(o, n) + 1
              /\ f.kind = "read" => w[Done(o, n) + 2] = w[Done(o, n) + 1] + 1
        /\ Done(o, n) \in 0 .. 3
        /\ w[Done(o, n) + 1] \in Nat \ {0}
    BY <2>1, <2>3, <2>5, <2>6, <2>7
  <2> QED BY <2>8, <2>9 DEF e, f, w
<1>2. CASE o = "rtc"
  <2>1. ReadList(o) = Rtc /\ Len(ReadList(o)) = 8
    BY <1>2, RtcIs DEF ReadList
  <2>2. n = 1 \/ n = 2 \/ n = 3 \/ n = 4 \/ n = 5 \/ n = 6 \/ n = 7 \/ n = 8
    BY <2>1
  <2>3. w[1] = 42 /\ w[2] = 43 /\ w[3] = 44 /\ w[4] = 45
    BY <1>2 DEF Wanted, RTC_0
  <2>4. \A i \in {42, 43, 44, 45} : Other("ptr", i) \in Entry /\ Other("read", i) \in Entry
    BY OtherType DEF Others, ADC_0, RTC_0
  <2>5. /\ Done(o, 8) = 0 /\ Done(o, 7) = 0 /\ Done(o, 6) = 1 /\ Done(o, 5) = 1
        /\ Done(o, 4) = 2 /\ Done(o, 3) = 2 /\ Done(o, 2) = 3 /\ Done(o, 1) = 3
    BY <1>2 DEF Done
  <2>6. \/ n = 8 /\ e = Other("ptr", 42) /\ f = Other("read", 42)
        \/ n = 7 /\ e = Other("read", 42) /\ f = Other("ptr", 43)
        \/ n = 6 /\ e = Other("ptr", 43) /\ f = Other("read", 43)
        \/ n = 5 /\ e = Other("read", 43) /\ f = Other("ptr", 44)
        \/ n = 4 /\ e = Other("ptr", 44) /\ f = Other("read", 44)
        \/ n = 3 /\ e = Other("read", 44) /\ f = Other("ptr", 45)
        \/ n = 2 /\ e = Other("ptr", 45) /\ f = Other("read", 45)
        \/ n = 1 /\ e = Other("read", 45)
    BY <2>1, <2>2, RtcIs DEF Left
  <2>7. \A k, r : Other(k, r).kind = k /\ Other(k, r).reg = r
    BY DEF Other
  <2> HIDE DEF e, f, w
  <2>8. /\ e \in Entry /\ e.kind \in {"select", "ptr", "read"}
        /\ n = Len(ReadList(o)) => e.kind # "read" /\ Done(o, n) = 0
        /\ e.kind # "read" => n > 1 /\ Done(o, n - 1) = Done(o, n)
        /\ e.kind = "select" => f.kind = "ptr"
        /\ e.kind = "ptr" => e.reg = w[Done(o, n) + 1]
    BY <2>1, <2>3, <2>4, <2>5, <2>6, <2>7
  <2>9. /\ e.kind = "read" /\ n > 1 =>
              /\ Done(o, n - 1) = Done(o, n) + 1
              /\ f.kind = "read" => w[Done(o, n) + 2] = w[Done(o, n) + 1] + 1
        /\ Done(o, n) \in 0 .. 3
        /\ w[Done(o, n) + 1] \in Nat \ {0}
    BY <2>1, <2>3, <2>5, <2>6, <2>7
  <2> QED BY <2>8, <2>9 DEF e, f, w
<1> QED BY <1>1, <1>2 DEF Readers

\* A list has its transfers in a set if each of them is.
LEMMA MasterVolIn ==
    ASSUME NEW S, NEW v,
           Write(DAC_R, Word \ Low5, MixerPart(v.r)) \in S,
           Write(DAC_L, Word \ Low5, MixerPart(v.l)) \in S,
           Write(HPH_OUT_R, Word \ Low5, HeadphonePart(v.r)) \in S,
           Write(HPH_OUT_L, Word \ Low5, HeadphonePart(v.l)) \in S
    PROVE  MasterVol(v) \in Seq(S)
BY DEF MasterVol

LEMMA EnableIn ==
    ASSUME NEW S, NEW src,
           IF src = "mic"
           THEN /\ Write(ADC_R, Word \ {6, 7}, {}) \in S
                /\ Write(AUDIOSET1, Word \ {2}, {0}) \in S
                /\ Write(MIC1_R, Word \ {7}, {}) \in S
           ELSE /\ Write(ADC_R, Word \ {6, 7}, {6}) \in S
                /\ Write(AUDIOSET1, Word \ {0}, {2}) \in S,
           Write(ADC_L, Word, {6}) \in S, Write(AUDIOSET1, Word, {7}) \in S
    PROVE  EnableRecording(src) \in Seq(S)
<1>1. \A a, b, c, d, e \in S :
          << a, b, c >> \o << d, e >> \in Seq(S) /\ << a, b >> \o << d, e >> \in Seq(S)
  OBVIOUS
<1> QED BY <1>1 DEF EnableRecording, WriteOr, WriteAnd

LEMMA RecVolIn ==
    ASSUME NEW S, NEW l, NEW r,
           Write(ADC_R, Word \ Low5, Bits(r)) \in S, Write(ADC_L, Word \ Low5, Bits(l)) \in S
    PROVE  SetRecVol(l, r) \in Seq(S)
BY DEF SetRecVol

LEMMA MicVolIn ==
    ASSUME NEW S, NEW v,
           Write(MIC1_R, Word \ {5, 6}, MicGain(v)) \in S,
           Write(ADC_R, Word \ Low5, Bits(MicVol(v))) \in S,
           Write(ADC_L, Word \ Low5, Bits(MicVol(v))) \in S
    PROVE  SetMicVol(v) \in Seq(S)
<1>1. SetRecVol(MicVol(v), MicVol(v)) \in Seq(S)
  BY RecVolIn
<1> QED BY <1>1 DEF SetMicVol

\* Loading changes what a write was based on, and nothing else.
LEMMA LoadIn ==
    ASSUME NEW S \in SUBSET Entry, NEW regs \in [Regs -> SUBSET Word],
           \A e \in S : e.kind = "write" => \A b \in SUBSET Word : [e EXCEPT !.base = b] \in S,
           NEW es \in Seq(S)
    PROVE  /\ LoadAll(es, regs) \in Seq(S)
           /\ es # << >> => LoadHead(es, regs) \in Seq(S)
<1>1. ASSUME NEW e \in S PROVE Load(e, regs) \in S
  <2>1. CASE e.kind = "write"
    <3>1. e.reg \in Regs /\ regs[e.reg] \cap e.keep \in SUBSET Word
      BY <2>1 DEF Entry
    <3> QED BY <2>1, <3>1 DEF Load
  <2>2. CASE e.kind # "write"
    BY <2>2 DEF Load
  <2> QED BY <2>1, <2>2
<1>2. \A i \in 1 .. Len(es) : Load(es[i], regs) \in S
  BY <1>1
<1>3. LoadAll(es, regs) \in Seq(S)
  BY <1>2 DEF LoadAll
<1>4. ASSUME es # << >> PROVE LoadHead(es, regs) \in Seq(S)
  <2>1. Load(Head(es), regs) \in S /\ Tail(es) \in Seq(S)
    BY <1>1, <1>4
  <2> QED BY <2>1 DEF LoadHead
<1> QED BY <1>3, <1>4

LEMMA WriteMixes ==
    ASSUME NEW reg \in Regs, NEW keep \in SUBSET Word, NEW set \in SUBSET Word
    PROVE  Write(reg, keep, set) \in MixerEntry
BY DEF Write, Entry, MixerEntry

LEMMA Mixers ==
    /\ \A v : MasterVol(v) \in Seq(MixerEntry) /\ SetMicVol(v) \in Seq(MixerEntry)
    /\ \A src : EnableRecording(src) \in Seq(MixerEntry)
    /\ \A l, r : SetRecVol(l, r) \in Seq(MixerEntry)
    /\ CloseCodec \in Seq(MixerEntry) /\ InitPb \in Seq(MixerEntry)
    /\ Other("enable", 0) \in MixerEntry
<1> DEFINE M == MixerEntry
<1>1. /\ \A x : MixerPart(x) \in SUBSET Word /\ HeadphonePart(x) \in SUBSET Word
      /\ \A x : Bits(x) \in SUBSET Word /\ MicGain(x) \in SUBSET Word
      /\ Word \ Low5 \in SUBSET Word
  BY BitsOfWord DEF MixerPart, HeadphonePart, MicGain, Word
<1>2. {HPH_OUT_R, HPH_OUT_L, MIC1_R, DAC_R, DAC_L, ADC_R, ADC_L, AUDIOSET1} = Regs
  BY DEF Regs
<1>3. Other("master", 0) \in M /\ Other("enable", 0) \in M
  BY DEF Other, Others, MixerEntry, Entry
<1>4. /\ Write(ADC_R, Word \ {6, 7}, {}) \in M /\ Write(AUDIOSET1, Word \ {2}, {0}) \in M
      /\ Write(MIC1_R, Word \ {7}, {}) \in M /\ Write(ADC_R, Word \ {6, 7}, {6}) \in M
      /\ Write(AUDIOSET1, Word \ {0}, {2}) \in M /\ Write(ADC_L, Word, {6}) \in M
      /\ Write(AUDIOSET1, Word, {7}) \in M /\ Write(AUDIOSET1, {}, {5, 6}) \in M
      /\ Write(HPH_OUT_L, Word, {6}) \in M /\ Write(HPH_OUT_L, Word \ {7}, {}) \in M
      /\ Write(HPH_OUT_L, Word, {7}) \in M /\ Write(AUDIOSET1, {}, {}) \in M
  BY <1>2, WriteMixes DEF Word
<1> HIDE DEF M
<1>5. ASSUME NEW v PROVE MasterVol(v) \in Seq(M)
  <2>1. /\ Write(DAC_R, Word \ Low5, MixerPart(v.r)) \in M
        /\ Write(DAC_L, Word \ Low5, MixerPart(v.l)) \in M
        /\ Write(HPH_OUT_R, Word \ Low5, HeadphonePart(v.r)) \in M
        /\ Write(HPH_OUT_L, Word \ Low5, HeadphonePart(v.l)) \in M
    BY <1>1, <1>2, WriteMixes DEF M
  <2> QED BY <2>1, MasterVolIn
<1>6. ASSUME NEW l, NEW r PROVE SetRecVol(l, r) \in Seq(M)
  <2>1. /\ Write(ADC_R, Word \ Low5, Bits(r)) \in M
        /\ Write(ADC_L, Word \ Low5, Bits(l)) \in M
    BY <1>1, <1>2, WriteMixes DEF M
  <2> QED BY <2>1, RecVolIn
<1>7. ASSUME NEW v PROVE SetMicVol(v) \in Seq(M)
  <2>1. Write(MIC1_R, Word \ {5, 6}, MicGain(v)) \in M
    BY <1>1, <1>2, WriteMixes DEF M, Word
  <2>2. /\ Write(ADC_R, Word \ Low5, Bits(MicVol(v))) \in M
        /\ Write(ADC_L, Word \ Low5, Bits(MicVol(v))) \in M
    BY <1>1, <1>2, WriteMixes DEF M
  <2> QED BY <2>1, <2>2, MicVolIn
<1>8. ASSUME NEW src PROVE EnableRecording(src) \in Seq(M)
  BY <1>4, EnableIn
<1>9. CloseCodec \in Seq(M) /\ InitPb \in Seq(M)
  BY <1>3, <1>4 DEF CloseCodec, InitPb, WriteOr, WriteAnd
<1> QED BY <1>3, <1>5, <1>6, <1>7, <1>8, <1>9 DEF M

\* Transfers of the mixer stay so, loaded or expanded.
LEMMA MixerGoesOn ==
    ASSUME BusOK, NEW es \in Seq(MixerEntry), es # << >>, NEW regs \in [Regs -> SUBSET Word]
    PROVE  LoadHead(Expand(es), regs) \in Seq(MixerEntry)
<1>1. Tail(es) \in Seq(MixerEntry)
  OBVIOUS
<1>2. /\ MasterVol(vol) \in Seq(MixerEntry)
      /\ EnableRecording(sansa_active_rec) \in Seq(MixerEntry)
  BY Mixers
<1>3. Expand(es) \in Seq(MixerEntry)
  BY <1>1, <1>2 DEF Expand
<1>4. Expand(es) # << >>
  <2>1. es \in Transfers
    BY DEF Transfers, MixerEntry
  <2> QED BY <2>1, ExpandType DEF Transfers
<1>5. \A e \in MixerEntry : e.kind = "write" =>
          \A b \in SUBSET Word : [e EXCEPT !.base = b] \in MixerEntry
  BY DEF MixerEntry, Entry
<1> HIDE DEF MixerEntry
<1>6. MixerEntry \in SUBSET Entry
  BY DEF MixerEntry
<1> QED BY <1>3, <1>4, <1>5, <1>6, LoadIn

GotType == got \in [Procs -> 0 .. 4]

LEMMA ReadInit == Init => ReadInv /\ GotType
<1> SUFFICES ASSUME Init PROVE ReadInv /\ GotType
  OBVIOUS
<1>1. /\ op = [p \in Procs |-> "none"] /\ todo = [p \in Procs |-> << >>]
      /\ got = [p \in Procs |-> 0]
  BY DEF Init
<1>2. \A p \in Procs : ~Reading(p) /\ got[p] = 0 /\ todo[p] \in Seq(MixerEntry)
  <2>1. << >> \in Seq(MixerEntry)
    OBVIOUS
  <2> QED BY <1>1, <2>1 DEF Reading, Readers
<1> QED BY <1>1, <1>2 DEF ReadInv, ReadPart, ReadRight, GotType

\* What a reader has left says nothing of what others do while it waits, or
\* before it has the lock.
LEMMA ReadOthers ==
    ASSUME BusOK, NEW q \in Procs, ReadPart(q), i2c_lock' # q,
           op'[q] = op[q], todo'[q] = todo[q], got'[q] = got[q],
           timedOut => timedOut',
           i2c_lock # q
    PROVE  ReadPart(q)'
<1>1. ReadRight(q)'
  BY DEF ReadRight
<1>2. Reading(q)' = Reading(q)
  BY DEF Reading
<1>3. Reading(q) /\ ReadShape(q) => ReadShape(q)'
  BY DEF ReadShape
<1> QED BY <1>1, <1>2, <1>3 DEF ReadPart

\* Who takes the lock, beginning or after a wait, has all of its list left,
\* and no list begins with a read.
LEMMA ReadFromTop ==
    ASSUME NEW q \in Procs, Reading(q), ReadShape(q), todo[q] \in Seq(Entry), todo[q] # << >>,
           Len(todo[q]) = Len(ReadList(op[q]))
    PROVE  todo[q][1].kind \notin {"read", "fetch"}
<1>1. Len(todo[q]) \in 1 .. Len(ReadList(op[q])) /\ op[q] \in Readers
  BY DEF Reading
<1>2. Left(op[q], Len(todo[q]), 1).kind \notin {"read", "fetch"}
  BY <1>1, ReadStep
<1> QED BY <1>2 DEF ReadShape

LEMMA ReadBegin ==
    ASSUME BusOK, ReadInv, GotType, NEW p \in Procs, NEW o \in Ops \ {"none"},
           NEW es \in Transfers, Begin(p, o, es),
           IF o \in Readers THEN es = ReadList(o) ELSE es \in Seq(MixerEntry)
    PROVE  ReadInv' /\ GotType'
<1>1. /\ UNCHANGED <<chip, bus, ptr, data0, got, timedOut>>
      /\ op[p] = "none"
      /\ op' = [op EXCEPT ![p] = o] /\ todo' = [todo EXCEPT ![p] = es]
      /\ i2c_lock' = IF i2c_lock = None THEN p ELSE i2c_lock
  BY DEF Begin, wires
<1>2. op \in [Procs -> Ops] /\ todo \in [Procs -> Seq(Entry)]
  BY DEF BusOK
<1>3. ASSUME NEW q \in Procs, q # p PROVE ReadPart(q)'
  <2>1. op'[q] = op[q] /\ todo'[q] = todo[q] /\ got'[q] = got[q] /\ q # None
    BY <1>1, <1>2, <1>3, CodecAssumption
  <2>2. ReadPart(q)
    BY DEF ReadInv
  <2>3. CASE i2c_lock = q
    <3>1. i2c_lock' = i2c_lock
      BY <1>1, <2>1, <2>3
    <3>2. Reading(q)' = Reading(q) /\ ReadShape(q)' = ReadShape(q) /\ ReadRight(q)' = ReadRight(q)
      BY <1>1, <2>1, <3>1 DEF Reading, ReadShape, ReadRight, ToRead, NextPtr
    <3> QED BY <2>1, <2>2, <3>2 DEF ReadPart
  <2>4. CASE i2c_lock # q
    <3>1. i2c_lock' # q
      BY <1>1, <1>3, <2>4
    <3> QED BY <1>1, <2>1, <2>2, <2>4, <3>1, ReadOthers
  <2> QED BY <2>3, <2>4
<1>4. op'[p] = o /\ todo'[p] = es /\ got'[p] = 0
  <2>1. ~Reading(p) /\ ReadPart(p)
    BY <1>1 DEF Reading, Readers, ReadInv
  <2> QED BY <1>1, <1>2, <2>1 DEF ReadPart
<1>5. CASE o \in Readers
  <2>1. es = ReadList(o) /\ Len(es) \in 1 .. Len(es)
    BY <1>5 DEF Transfers
  <2>2. Done(o, Len(es)) = 0 /\ \A i \in 1 .. Len(es) : Left(o, Len(es), i) = es[i]
    BY <1>5, <2>1, ReadStep DEF Left
  <2>3. Reading(p)' /\ ReadShape(p)'
    BY <1>4, <1>5, <2>1, <2>2 DEF Reading, ReadShape
  <2>4. todo'[p][1].kind \notin {"read", "fetch"}
    BY <1>4, <1>5, <2>1, <2>2, ReadStep
  <2> QED BY <1>1, <1>3, <2>3, <2>4 DEF ReadInv, ReadPart, ReadRight, GotType
<1>6. CASE o \notin Readers
  <2>1. ~Reading(p)' /\ todo'[p] \in Seq(MixerEntry)
    BY <1>4, <1>6 DEF Reading
  <2> QED BY <1>1, <1>3, <1>4, <2>1 DEF ReadInv, ReadPart, ReadRight, GotType
<1> QED BY <1>5, <1>6

LEMMA ReadRequest ==
    ASSUME BusOK, ReadInv, GotType, NEW p \in Procs, Request(p)
    PROVE  ReadInv' /\ GotType'
<1>1. shadow \in [Regs -> SUBSET Word]
  BY DEF BusOK
<1>2. \A e \in MixerEntry : e.kind = "write" =>
          \A b \in SUBSET Word : [e EXCEPT !.base = b] \in MixerEntry
  BY DEF MixerEntry, Entry
<1> HIDE DEF MixerEntry
<1>3. MixerEntry \in SUBSET Entry
  BY DEF MixerEntry
<1>4. \A es \in Transfers : es \in Seq(MixerEntry) =>
          /\ LoadAll(es, shadow) \in Transfers /\ LoadAll(es, shadow) \in Seq(MixerEntry)
          /\ LoadHead(es, shadow) \in Transfers /\ LoadHead(es, shadow) \in Seq(MixerEntry)
  <2> TAKE es \in Transfers
  <2>1. es # << >>
    BY DEF Transfers
  <2> QED BY <1>1, <1>2, <1>3, <2>1, LoadIn, LoadListType
<1>5. \A o \in Ops \ {"none"}, es \in Transfers :
          Begin(p, o, es) /\ (IF o \in Readers THEN es = ReadList(o) ELSE es \in Seq(MixerEntry))
              => ReadInv' /\ GotType'
  BY ReadBegin
<1>6. \A a, b : a \in Transfers /\ b \in Transfers /\ a \in Seq(MixerEntry) /\ b \in Seq(MixerEntry)
          => a \o b \in Transfers /\ a \o b \in Seq(MixerEntry)
  BY DEF Transfers
<1>7. ASSUME NEW l, NEW r, SetPcm(p, l, r) PROVE ReadInv' /\ GotType'
  BY <1>4, <1>5, <1>7, Mixers, MasterVolType DEF SetPcm, Ops, Readers
<1>8. ASSUME NEW l, NEW r, SetLine(p, l, r) PROVE ReadInv' /\ GotType'
  BY <1>4, <1>5, <1>8, Mixers, RecVolType DEF SetLine, Ops, Readers
<1>9. ASSUME NEW v, SetMic(p, v) PROVE ReadInv' /\ GotType'
  BY <1>4, <1>5, <1>9, Mixers, MicVolType DEF SetMic, Ops, Readers
<1>10. \A src : LET es == LoadAll(MasterVol(vol), shadow) \o EnableRecording(src)
                IN  es \in Transfers /\ es \in Seq(MixerEntry)
  BY <1>4, <1>6, Mixers, MasterVolType, EnableType
<1>11. ASSUME NEW src \in {"mic", "line"}, SetRecSrc(p, src) PROVE ReadInv' /\ GotType'
  BY <1>5, <1>10, <1>11 DEF SetRecSrc, Ops, Readers
<1>12. ASSUME NEW m, OpenPlay(p, m) PROVE ReadInv' /\ GotType'
  <2> DEFINE head == LoadHead(InitPb, shadow)
             tail == IF "r" \in m THEN << Other("enable", 0) >> ELSE << >>
  <2>1. head \in Transfers /\ head \in Seq(MixerEntry)
    BY <1>4, Mixers, InitPbType
  <2>2. tail \in Seq(MixerEntry) /\ tail \in Seq(Entry)
    BY <1>3, Mixers
  <2>3. Begin(p, "open", head \o tail)
    BY <1>12 DEF OpenPlay
  <2> HIDE DEF head, tail
  <2>4. head \o tail \in Transfers /\ head \o tail \in Seq(MixerEntry)
    BY <2>1, <2>2 DEF Transfers
  <2> QED BY <1>5, <2>3, <2>4 DEF Ops, Readers
<1>13. ASSUME OpenRecord(p) PROVE ReadInv' /\ GotType'
  BY <1>5, <1>10, <1>13 DEF OpenRecord, Ops, Readers
<1>14. ASSUME Close(p) PROVE ReadInv' /\ GotType'
  BY <1>4, <1>5, <1>14, Mixers, CloseType DEF Close, Ops, Readers
<1>15. ASSUME ReadAdc(p) \/ ReadRtc(p) PROVE ReadInv' /\ GotType'
  <2>1. ReadList("adc") = Adc /\ ReadList("rtc") = Rtc
    BY DEF ReadList
  <2> QED BY <1>5, <1>15, <2>1, ReadersType DEF ReadAdc, ReadRtc, Ops, Readers
<1> QED BY <1>7, <1>8, <1>9, <1>11, <1>12, <1>13, <1>14, <1>15 DEF Request

LEMMA EmptyIff == ASSUME NEW S, NEW s \in Seq(S) PROVE s = << >> <=> Len(s) = 0
OBVIOUS

LEMMA HeadThenTail ==
    ASSUME NEW S, NEW s \in Seq(S), s # << >>
    PROVE  << Head(s) >> \o Tail(s) = s
<1> DEFINE t == << Head(s) >> \o Tail(s)
<1>1. Len(s) \in Nat /\ Len(s) > 0 /\ Tail(s) \in Seq(S) /\ Len(Tail(s)) = Len(s) - 1
      /\ \A i \in 1 .. Len(s) - 1 : Tail(s)[i] = s[i + 1]
  OBVIOUS
<1>2. t \in Seq(S) /\ Len(t) = Len(s)
  BY <1>1
<1>3. \A i \in 1 .. Len(s) : t[i] = s[i]
  <2> TAKE i \in 1 .. Len(s)
  <2>1. CASE i = 1
    BY <1>1, <2>1
  <2>2. CASE i # 1
    <3>1. i - 1 \in 1 .. Len(s) - 1 /\ t[i] = Tail(s)[i - 1] /\ (i - 1) + 1 = i
      BY <1>1, <2>2
    <3> QED BY <1>1, <3>1
  <2> QED BY <2>1, <2>2
<1> HIDE DEF t
<1>4. t = s
  BY <1>2, <1>3
<1> QED BY <1>4 DEF t

LEMMA GoOnOthers ==
    ASSUME BusOK, NEW p \in Procs, i2c_lock = p, NEW rest, GoOn(p, rest)
    PROVE  /\ \A q \in Procs \ {p} : op'[q] = op[q] /\ todo'[q] = todo[q] /\ i2c_lock' # q
           /\ rest = << >> => op'[p] = "none" /\ todo'[p] = << >> /\ i2c_lock' = None
           /\ rest # << >> => /\ op' = op /\ i2c_lock' = p
                              /\ todo'[p] = LoadHead(Expand(rest), shadow')
<1>1. /\ op \in [Procs -> Ops] /\ todo \in [Procs -> Seq(Entry)]
      /\ \A q \in Procs : q # None
  BY CodecAssumption DEF BusOK
<1> QED BY <1>1 DEF GoOn

\* A reader that is not at its end goes on with the next of its list.
LEMMA ReaderNext ==
    ASSUME BusOK, ReadInv, NEW p \in Procs, i2c_lock = p, Reading(p),
           Len(todo[p]) > 1, GoOn(p, Tail(todo[p]))
    PROVE  LET n == Len(todo[p])
           IN  /\ op' = op /\ i2c_lock' = p
               /\ Len(todo'[p]) = n - 1 /\ Len(ReadList(op[p])) >= n /\ n \in Nat
               /\ todo'[p][1] = Left(op[p], n, 2) /\ todo'[p][1] = Left(op[p], n - 1, 1)
               /\ \A i \in 2 .. n - 1 : todo'[p][i] = Left(op[p], n - 1, i)
<1> DEFINE n == Len(todo[p])
           t == Tail(todo[p])
<1>1. todo[p] \in Seq(Entry) /\ n \in Nat /\ n <= Len(ReadList(op[p])) /\ op[p] \in Readers
  <2>1. ReadShape(p) /\ op[p] \in Readers
    BY DEF ReadInv, ReadPart, Reading
  <2>2. todo[p] \in Seq(Entry)
    BY DEF BusOK
  <2> QED BY <2>1, <2>2 DEF ReadShape
<1>2. t \in Seq(Entry) /\ Len(t) = n - 1 /\ \A i \in 1 .. n - 1 : t[i] = todo[p][i + 1]
  BY <1>1
<1>3. \A i \in 2 .. n : todo[p][i] = Left(op[p], n, i)
  BY DEF ReadInv, ReadPart, ReadShape
<1>4. \A i \in 1 .. n - 1 : Left(op[p], n - 1, i) = Left(op[p], n, i + 1)
  <2>1. Len(ReadList(op[p])) \in Nat
    BY <1>1, AdcIs, RtcIs DEF ReadList
  <2>2. \A l \in Nat : \A i \in 1 .. n - 1 : l - (n - 1) + i = l - n + (i + 1)
    BY <1>1
  <2> QED BY <2>1, <2>2 DEF Left
<1>5. \A i \in 1 .. n - 1 : t[i] = Left(op[p], n - 1, i)
  BY <1>1, <1>2, <1>3, <1>4, SMTT(30)
<1>6. n - 1 \in 1 .. Len(ReadList(op[p])) /\ t # << >>
  <2>1. Len(ReadList(op[p])) \in Nat
    BY <1>1, AdcIs, RtcIs DEF ReadList
  <2>2. n > 1
    OBVIOUS
  <2>3. Len(t) > 0
    BY <1>1, <1>2, <2>2
  <2>4. t # << >>
    BY <1>2, <2>3, EmptyIff
  <2>5. n - 1 \in 1 .. Len(ReadList(op[p]))
    BY <1>1, <2>1, <2>2
  <2> QED BY <2>4, <2>5
<1>7. t[1] = Left(op[p], n - 1, 1) /\ t[1].kind \in {"select", "ptr", "read"}
  BY <1>1, <1>5, <1>6, ReadStep
<1>8. Expand(t) = t /\ LoadHead(t, shadow') = t
  <2>1. Head(t) = t[1]
    BY <1>2, <1>6
  <2>2. Expand(t) = t
    BY <1>7, <2>1 DEF Expand
  <2>3. LoadHead(t, shadow') = << Head(t) >> \o Tail(t)
    BY <1>7, <2>1 DEF LoadHead, Load
  <2> QED BY <1>2, <1>6, <2>2, <2>3, HeadThenTail
<1>9. op' = op /\ i2c_lock' = p /\ todo'[p] = t
  BY <1>6, <1>8, GoOnOthers
<1>10. todo'[p][1] = Left(op[p], n, 2)
  BY <1>1, <1>2, <1>3, <1>9
<1> QED BY <1>1, <1>2, <1>5, <1>7, <1>9, <1>10

\* Writes are of the mixer.
LEMMA ReadWrites ==
    ASSUME BusOK, ReadInv, GotType, NEW p \in Procs, i2c_lock = p, ~Reading(p),
           NEW rest \in Seq(MixerEntry), GoOn(p, rest), got'[p] = 0,
           shadow' \in [Regs -> SUBSET Word]
    PROVE  ReadPart(p)'
<1>1. CASE rest = << >>
  <2>1. op'[p] = "none" /\ todo'[p] = << >>
    BY <1>1, GoOnOthers
  <2>2. << >> \in Seq(MixerEntry)
    OBVIOUS
  <2> QED BY <2>1, <2>2 DEF ReadPart, ReadRight, Reading, Readers
<1>2. CASE rest # << >>
  <2>1. op' = op /\ todo'[p] = LoadHead(Expand(rest), shadow')
    BY <1>2, GoOnOthers
  <2>2. todo'[p] \in Seq(MixerEntry)
    BY <1>2, <2>1, MixerGoesOn
  <2> QED BY <2>1, <2>2 DEF ReadPart, ReadRight, Reading
<1> QED BY <1>1, <1>2

LEMMA ReadSteps ==
    ASSUME BusOK, ReadInv, GotType, NEW p \in Procs, Step(p)
    PROVE  ReadInv' /\ GotType'
<1> DEFINE e == Head(todo[p])
           n == Len(todo[p])
<1>1. i2c_lock = p /\ p # None
  BY CodecAssumption DEF Step, SendWrite, SendSelect, SendPtr, StartRead, Fetch, TimeOut, Turn
<1>2. /\ todo[p] \in Transfers /\ e \in Entry /\ Tail(todo[p]) \in Seq(Entry)
      /\ n \in Nat \ {0} /\ e = todo[p][1] /\ todo[p] \in Seq(Entry)
  BY <1>1, HolderHasTurn DEF Transfers
<1>3. ReadPart(p) /\ got \in [Procs -> 0 .. 4] /\ got[p] \in 0 .. 4
  BY DEF ReadInv, GotType
<1>4. shadow \in [Regs -> SUBSET Word]
  BY DEF BusOK
<1>5. ASSUME Reading(p)
      PROVE  /\ op[p] \in Readers /\ n \in 1 .. Len(ReadList(op[p]))
             /\ e.kind \in {"select", "ptr", "read", "fetch"}
             /\ e.kind = "fetch" => Left(op[p], n, 1).kind = "read"
             /\ e.kind # "fetch" => e = Left(op[p], n, 1)
             /\ got[p] <= Done(op[p], n) /\ (~timedOut => got[p] = Done(op[p], n))
  <2>1. op[p] \in Readers /\ ReadShape(p)
    BY <1>3, <1>5 DEF Reading, ReadPart
  <2>2. Len(ReadList(op[p])) \in Nat
    BY <2>1, AdcIs, RtcIs DEF ReadList
  <2>3. n \in 1 .. Len(ReadList(op[p]))
    BY <1>2, <2>1, <2>2 DEF ReadShape
  <2>4. Left(op[p], n, 1).kind \in {"select", "ptr", "read"} /\ Left(op[p], n, 1) \in Entry
    BY <2>1, <2>3, ReadStep
  <2> QED BY <1>2, <2>1, <2>3, <2>4 DEF ReadShape, Entry
<1>6. ASSUME ~Reading(p)
      PROVE  /\ got[p] = 0 /\ todo[p] \in Seq(MixerEntry) /\ Tail(todo[p]) \in Seq(MixerEntry)
             /\ e.kind \in {"write", "master", "enable"}
  <2>1. got[p] = 0 /\ todo[p] \in Seq(MixerEntry) /\ todo[p] # << >>
    BY <1>2, <1>3, <1>6 DEF ReadPart, Transfers
  <2>2. e \in MixerEntry /\ Tail(todo[p]) \in Seq(MixerEntry)
    BY <2>1
  <2> QED BY <2>1, <2>2 DEF MixerEntry
<1>7. ASSUME \A q \in Procs \ {p} : op'[q] = op[q] /\ todo'[q] = todo[q] /\ i2c_lock' # q,
             \A q \in Procs \ {p} : got'[q] = got[q],
             timedOut => timedOut'
      PROVE  \A q \in Procs \ {p} : ReadPart(q)'
  <2> TAKE q \in Procs \ {p}
  <2>1. ReadPart(q) /\ i2c_lock # q
    BY <1>1 DEF ReadInv
  <2> QED BY <1>7, <2>1, ReadOthers
<1> HIDE DEF e, n
<1>8. ASSUME SendWrite(p) PROVE ReadInv' /\ GotType'
  <2>1. /\ e.kind = "write" /\ GoOn(p, Tail(todo[p])) /\ UNCHANGED <<got, timedOut>>
        /\ shadow' = [shadow EXCEPT ![e.reg] = Written(e)]
    BY <1>8 DEF SendWrite, Turn, e
  <2>2. shadow' \in [Regs -> SUBSET Word]
    BY <1>2, <1>4, <2>1 DEF Entry, Written
  <2>3. ~Reading(p)
    BY <1>5, <2>1
  <2>4. ReadPart(p)'
    BY <1>1, <1>6, <2>1, <2>2, <2>3, ReadWrites
  <2>5. \A q \in Procs \ {p} : ReadPart(q)'
    BY <1>1, <1>7, <2>1, GoOnOthers
  <2> QED BY <2>1, <2>4, <2>5 DEF ReadInv, GotType
<1>9. ASSUME SendSelect(p) \/ SendPtr(p) PROVE ReadInv' /\ GotType'
  <2>1. /\ e.kind \in {"select", "ptr"} /\ GoOn(p, Tail(todo[p]))
        /\ UNCHANGED <<got, timedOut, ptr, shadow>>
        /\ bus' = [kind |-> IF e.kind = "select" THEN "write" ELSE "ptr",
                   reg |-> e.reg, val |-> {}]
    BY <1>9 DEF SendSelect, SendPtr, Turn, e, ghosts
  <2>2. Reading(p)
    BY <1>6, <2>1
  <2>3. /\ op[p] \in Readers /\ n \in 1 .. Len(ReadList(op[p])) /\ e = Left(op[p], n, 1)
        /\ got[p] <= Done(op[p], n) /\ (~timedOut => got[p] = Done(op[p], n))
    BY <1>5, <2>1, <2>2
  <2>4. /\ n > 1 /\ Done(op[p], n - 1) = Done(op[p], n)
        /\ e.kind = "select" => Left(op[p], n, 2).kind = "ptr"
        /\ e.kind = "ptr" => e.reg = Wanted(op[p])[Done(op[p], n) + 1]
    BY <2>1, <2>3, ReadStep
  <2>5. /\ op' = op /\ i2c_lock' = p
        /\ Len(todo'[p]) = n - 1
        /\ todo'[p][1] = Left(op[p], n, 2) /\ todo'[p][1] = Left(op[p], n - 1, 1)
        /\ \A i \in 2 .. n - 1 : todo'[p][i] = Left(op[p], n - 1, i)
    BY <1>1, <2>1, <2>2, <2>4, ReaderNext DEF n
  <2>6. ReadShape(p)'
    BY <1>1, <2>1, <2>3, <2>4, <2>5 DEF ReadShape
  <2>7. n - 1 \in 1 .. Len(ReadList(op[p]))
    BY <2>3, <2>4
  <2>8. todo'[p][1].kind # "fetch"
    BY <2>3, <2>5, <2>7, ReadStep
  <2>9. e.kind = "ptr" /\ ~timedOut => NextPtr' = ToRead(p)'
    BY <2>1, <2>3, <2>4, <2>5 DEF NextPtr, ToRead, Idle
  <2>10. ReadRight(p)'
    <3>1. CASE e.kind = "ptr"
      BY <2>1, <2>8, <2>9, <3>1 DEF ReadRight
    <3>2. CASE e.kind = "select"
      BY <2>4, <2>5, <2>8, <3>2 DEF ReadRight
    <3> QED BY <2>1, <3>1, <3>2
  <2>11. \A q \in Procs \ {p} : ReadPart(q)'
    BY <1>1, <1>7, <2>1, GoOnOthers
  <2> QED BY <2>1, <2>2, <2>5, <2>6, <2>10, <2>11 DEF ReadInv, GotType, ReadPart, Reading
<1>10. ASSUME StartRead(p) PROVE ReadInv' /\ GotType'
  <2>1. /\ e.kind = "read" /\ bus = Idle /\ bus' = [Idle EXCEPT !.kind = "read"]
        /\ todo' = [todo EXCEPT ![p] = [todo[p] EXCEPT ![1] = [e EXCEPT !.kind = "fetch"]]]
        /\ UNCHANGED <<ptr, data0, i2c_lock, op, got, timedOut>>
    BY <1>2, <1>10 DEF StartRead, Turn, e, codec, ghosts, BusOK, Transfers
  <2>2. Reading(p)
    BY <1>6, <2>1
  <2>3. /\ op[p] \in Readers /\ n \in 1 .. Len(ReadList(op[p])) /\ e = Left(op[p], n, 1)
    BY <1>5, <2>1, <2>2
  <2>4. /\ Len(todo'[p]) = n /\ todo'[p][1] = [e EXCEPT !.kind = "fetch"]
        /\ \A i \in 2 .. n : todo'[p][i] = todo[p][i]
        /\ \A q \in Procs \ {p} : todo'[q] = todo[q]
    <3> DEFINE x == [e EXCEPT !.kind = "fetch"]
               s == [todo[p] EXCEPT ![1] = x]
    <3> HIDE DEF x
    <3>1. \A y \in Seq(Entry) : DOMAIN y = 1 .. Len(y)
      OBVIOUS
    <3>2. n \in Nat /\ DOMAIN todo[p] = 1 .. n
      BY <1>2, <3>1 DEF n
    <3>3. s = [i \in 1 .. n |-> IF i = 1 THEN x ELSE todo[p][i]]
      BY <3>2
    <3>4. Len(s) = n /\ s[1] = x /\ \A i \in 2 .. n : s[i] = todo[p][i]
      BY <1>2, <3>2, <3>3
    <3>5. todo' = [todo EXCEPT ![p] = s] /\ todo \in [Procs -> Seq(Entry)]
      BY <2>1 DEF BusOK, x
    <3> HIDE DEF s
    <3> QED BY <3>4, <3>5 DEF x
  <2>5. ReadShape(p)'
    <3>1. ReadShape(p)
      BY <1>3, <2>2 DEF ReadPart
    <3> QED BY <2>1, <2>3, <2>4, <3>1 DEF ReadShape, n
  <2>6. ReadRight(p)'
    <3>1. ~timedOut => NextPtr = ToRead(p)
      BY <1>1, <1>2, <1>3, <2>1, <2>2 DEF ReadPart, ReadRight, e
    <3>2. ~timedOut => ptr = ToRead(p) /\ ToRead(p) \in Nat \ {0}
      <4>1. Wanted(op[p])[Done(op[p], n) + 1] \in Nat \ {0}
        BY <2>3, ReadStep
      <4> QED BY <1>5, <2>1, <2>2, <3>1, <4>1 DEF NextPtr, ToRead
    <3>3. bus' # Idle /\ bus'.kind = "read"
      BY <2>1 DEF Idle
    <3>4. ToRead(p)' = ToRead(p)
      BY <2>1 DEF ToRead
    <3>5. ~timedOut => NextPtr' = ToRead(p) + 1
      BY <2>1, <3>2, <3>3 DEF NextPtr
    <3>6. todo'[p][1].kind = "fetch"
      BY <1>2, <2>4 DEF Entry
    <3> QED BY <2>1, <3>2, <3>3, <3>4, <3>5, <3>6 DEF ReadRight
  <2>7. \A q \in Procs \ {p} : ReadPart(q)'
    BY <1>1, <1>7, <2>1, <2>4
  <2> QED BY <2>1, <2>2, <2>5, <2>6, <2>7 DEF ReadInv, GotType, ReadPart, Reading
<1>11. ASSUME Fetch(p) PROVE ReadInv' /\ GotType'
  <2>1. /\ e.kind = "fetch" /\ bus = Idle /\ GoOn(p, Tail(todo[p]))
        /\ got' = [got EXCEPT ![p] = IF n = 1 THEN 0 ELSE got[p] + 1]
        /\ UNCHANGED <<bus, ptr, data0, timedOut, shadow>>
    BY <1>11 DEF Fetch, Keep, Turn, e, n, wires, ghosts
  <2>2. Reading(p)
    BY <1>6, <2>1
  <2>3. /\ op[p] \in Readers /\ n \in 1 .. Len(ReadList(op[p])) /\ Left(op[p], n, 1).kind = "read"
        /\ got[p] <= Done(op[p], n) /\ (~timedOut => got[p] = Done(op[p], n))
    BY <1>5, <2>1, <2>2
  <2>4. Done(op[p], n) \in 0 .. 3
    BY <2>3, ReadStep
  <2>5. got' \in [Procs -> 0 .. 4]
    BY <1>3, <2>1, <2>3, <2>4
  <2>6. \A q \in Procs \ {p} : ReadPart(q)'
    BY <1>1, <1>3, <1>7, <2>1, GoOnOthers
  <2>7. CASE n = 1
    <3>1. Tail(todo[p]) = << >>
      <4>1. Len(Tail(todo[p])) = 0
        BY <1>2, <2>7 DEF n
      <4> QED BY <1>2, <4>1, EmptyIff
    <3>2. op'[p] = "none" /\ todo'[p] = << >> /\ got'[p] = 0
      BY <1>1, <1>3, <2>1, <2>7, <3>1, GoOnOthers
    <3>3. << >> \in Seq(MixerEntry)
      OBVIOUS
    <3>4. ReadPart(p)'
      BY <3>2, <3>3 DEF ReadPart, ReadRight, Reading, Readers
    <3> QED BY <2>5, <2>6, <3>4 DEF ReadInv, GotType
  <2>8. CASE n # 1
    <3>1. n > 1 /\ got'[p] = got[p] + 1
      BY <1>3, <2>1, <2>3, <2>8
    <3>2. /\ Done(op[p], n - 1) = Done(op[p], n) + 1
          /\ Left(op[p], n, 2).kind = "read" =>
                Wanted(op[p])[Done(op[p], n) + 2] = Wanted(op[p])[Done(op[p], n) + 1] + 1
      BY <2>3, <3>1, ReadStep
    <3>3. /\ op' = op /\ i2c_lock' = p
          /\ Len(todo'[p]) = n - 1
          /\ todo'[p][1] = Left(op[p], n, 2) /\ todo'[p][1] = Left(op[p], n - 1, 1)
          /\ \A i \in 2 .. n - 1 : todo'[p][i] = Left(op[p], n - 1, i)
      BY <1>1, <2>1, <2>2, <3>1, ReaderNext DEF n
    <3>4. ReadShape(p)'
      BY <1>1, <1>3, <2>1, <2>3, <2>4, <3>1, <3>2, <3>3 DEF ReadShape
    <3>5. n - 1 \in 1 .. Len(ReadList(op[p]))
      BY <2>3, <3>1
    <3>6. todo'[p][1].kind # "fetch"
      BY <2>3, <3>3, <3>5, ReadStep
    <3>7. ~timedOut => NextPtr = ToRead(p) + 1
      BY <1>1, <1>2, <1>3, <2>1, <2>2 DEF ReadPart, ReadRight, e
    <3>8. ~timedOut /\ Left(op[p], n, 2).kind = "read" => NextPtr' = ToRead(p)'
      <4>1. NextPtr' = NextPtr
        BY <2>1 DEF NextPtr
      <4>2. ~timedOut => ToRead(p) = Wanted(op[p])[Done(op[p], n) + 1]
        BY <2>3 DEF ToRead
      <4>3. ~timedOut => got'[p] + 1 = Done(op[p], n) + 2
        BY <2>3, <2>4, <3>1
      <4> QED BY <3>2, <3>3, <3>7, <4>1, <4>2, <4>3 DEF ToRead
    <3>9. ReadRight(p)'
      BY <2>1, <3>3, <3>6, <3>8 DEF ReadRight
    <3> QED BY <2>2, <2>5, <2>6, <3>3, <3>4, <3>9 DEF ReadInv, GotType, ReadPart, Reading
  <2> QED BY <2>7, <2>8
<1>12. ASSUME TimeOut(p) PROVE ReadInv' /\ GotType'
  <2> DEFINE rest == IF e.kind = "select" THEN << >> ELSE Tail(todo[p])
  <2>1. /\ timedOut' = TRUE /\ GoOn(p, rest)
        /\ shadow' = IF e.kind = "write" THEN [shadow EXCEPT ![e.reg] = Written(e)] ELSE shadow
        /\ got' = [got EXCEPT ![p] = 0]
    BY <1>12 DEF TimeOut, e
  <2>2. shadow' \in [Regs -> SUBSET Word]
    BY <1>2, <1>4, <2>1 DEF Entry, Written
  <2>3. got'[p] = 0 /\ got' \in [Procs -> 0 .. 4]
    BY <1>3, <2>1
  <2>4. \A q \in Procs \ {p} : ReadPart(q)'
    BY <1>1, <1>3, <1>7, <2>1, GoOnOthers
  <2>5. CASE ~Reading(p)
    <3>1. rest \in Seq(MixerEntry)
      BY <1>6, <2>5
    <3> HIDE DEF rest
    <3>2. ReadPart(p)'
      BY <1>1, <2>1, <2>2, <2>3, <2>5, <3>1, ReadWrites
    <3> QED BY <2>3, <2>4, <3>2 DEF ReadInv, GotType
  <2>6. CASE Reading(p) /\ rest = << >>
    <3>1. op'[p] = "none" /\ todo'[p] = << >>
      BY <1>1, <2>1, <2>6, GoOnOthers
    <3>2. << >> \in Seq(MixerEntry)
      OBVIOUS
    <3>3. ReadPart(p)'
      BY <2>3, <3>1, <3>2 DEF ReadPart, ReadRight, Reading, Readers
    <3> QED BY <2>3, <2>4, <3>3 DEF ReadInv, GotType
  <2>7. CASE Reading(p) /\ rest # << >>
    <3>1. rest = Tail(todo[p]) /\ n > 1
      BY <1>2, <2>7 DEF n
    <3>2. op[p] \in Readers /\ n \in 1 .. Len(ReadList(op[p]))
      BY <1>5, <2>7
    <3>3. /\ op' = op /\ i2c_lock' = p
          /\ Len(todo'[p]) = n - 1
          /\ todo'[p][1] = Left(op[p], n - 1, 1)
          /\ \A i \in 2 .. n - 1 : todo'[p][i] = Left(op[p], n - 1, i)
      BY <1>1, <2>1, <2>7, <3>1, ReaderNext DEF n
    <3>4. n - 1 \in 1 .. Len(ReadList(op[p]))
      BY <3>1, <3>2
    <3>5. Done(op[p], n - 1) >= 0
      <4>1. Done(op[p], n - 1) \in 0 .. 3
        BY <3>2, <3>4, ReadStep
      <4> QED BY <4>1
    <3>6. ReadShape(p)'
      BY <1>1, <2>1, <2>3, <3>2, <3>3, <3>4, <3>5 DEF ReadShape
    <3> QED BY <2>1, <2>3, <2>4, <2>7, <3>3, <3>6 DEF ReadInv, GotType, ReadPart, ReadRight, Reading
  <2> QED BY <2>5, <2>6, <2>7
<1> QED BY <1>8, <1>9, <1>10, <1>11, <1>12 DEF Step

LEMMA ReadNext == BusOK /\ ReadInv /\ GotType /\ [Next]_vars => ReadInv' /\ GotType'
<1> SUFFICES ASSUME BusOK, ReadInv, GotType, [Next]_vars PROVE ReadInv' /\ GotType'
  OBVIOUS
<1>1. ASSUME Complete PROVE ReadInv' /\ GotType'
  <2>1. /\ bus # Idle /\ bus' = Idle
        /\ UNCHANGED <<i2c_lock, op, todo, got, timedOut>>
        /\ ptr' = CASE bus.kind = "ptr"  -> bus.reg
                    [] bus.kind = "read" /\ ptr # 0 -> ptr + 1
                    [] OTHER -> 0
        /\ data0' = IF bus.kind = "read" THEN ptr ELSE data0
    BY <1>1 DEF Complete, procs, ghosts
  <2>2. NextPtr' = NextPtr
    BY <2>1 DEF NextPtr
  <2>3. ASSUME NEW p \in Procs PROVE ReadPart(p)'
    <3>1. /\ Reading(p)' = Reading(p) /\ ReadShape(p)' = ReadShape(p) /\ ToRead(p)' = ToRead(p)
      BY <2>1 DEF Reading, ReadShape, ToRead
    <3>2. ReadPart(p)
      BY DEF ReadInv
    <3>3. ReadRight(p)'
      BY <2>1, <2>2, <3>1, <3>2 DEF ReadPart, ReadRight
    <3> QED BY <2>1, <3>1, <3>2, <3>3 DEF ReadPart
  <2> QED BY <2>1, <2>3 DEF ReadInv, GotType
<1>2. ASSUME Boot PROVE ReadInv' /\ GotType'
  <2>1. \A p \in Procs : op[p] = "none" /\ op'[p] = op[p] /\ todo'[p] = todo[p] /\ got' = got
    BY <1>2 DEF Boot, procs
  <2>2. \A p \in Procs : ~Reading(p) /\ ~Reading(p)'
    BY <2>1 DEF Reading, Readers
  <2>3. \A p \in Procs : got[p] = 0 /\ todo[p] \in Seq(MixerEntry)
    BY <2>2 DEF ReadInv, ReadPart
  <2>4. \A p \in Procs : ReadPart(p)'
    BY <2>1, <2>2, <2>3 DEF ReadPart, ReadRight
  <2> QED BY <1>2, <2>4 DEF ReadInv, GotType, Boot, procs
<1>3. ASSUME NEW p \in Procs, Acquire(p) PROVE ReadInv' /\ GotType'
  <2>1. /\ i2c_lock = None /\ i2c_lock' = p /\ op[p] # "none"
        /\ UNCHANGED <<op, todo, got, timedOut>>
    BY <1>3 DEF Acquire, ghosts
  <2>2. ASSUME NEW q \in Procs, q # p PROVE ReadPart(q)'
    <3>1. i2c_lock # q /\ i2c_lock' # q /\ ReadPart(q)
      BY <2>1, <2>2, CodecAssumption DEF ReadInv
    <3> QED BY <2>1, <3>1, ReadOthers
  <2>3. ReadPart(p)'
    <3>1. ReadPart(p) /\ i2c_lock # p /\ todo[p] \in Seq(Entry) /\ todo[p] # << >>
      BY <2>1, CodecAssumption DEF ReadInv, BusOK
    <3>2. CASE ~Reading(p)
      BY <2>1, <3>1, <3>2 DEF ReadPart, ReadRight, Reading
    <3>3. CASE Reading(p)
      <4>1. ReadShape(p) /\ Len(todo[p]) = Len(ReadList(op[p]))
        BY <3>1, <3>3 DEF ReadPart, ReadShape
      <4>2. todo[p][1].kind \notin {"read", "fetch"}
        BY <3>1, <3>3, <4>1, ReadFromTop
      <4>3. ReadShape(p)' /\ Reading(p)'
        BY <2>1, <3>3, <4>1 DEF ReadShape, Reading
      <4> QED BY <2>1, <4>2, <4>3 DEF ReadPart, ReadRight
    <3> QED BY <3>2, <3>3
  <2> QED BY <2>1, <2>2, <2>3 DEF ReadInv, GotType
<1>4. ASSUME UNCHANGED vars PROVE ReadInv' /\ GotType'
  <2>1. UNCHANGED <<i2c_lock, op, todo, got, timedOut, bus, ptr, data0>>
    BY <1>4 DEF vars, wires, procs, ghosts
  <2> QED BY <2>1 DEF ReadInv, GotType, ReadPart, ReadRight, Reading, ReadShape, ToRead, NextPtr
<1> QED BY <1>1, <1>2, <1>3, <1>4, ReadRequest, ReadSteps DEF Next

\* A register of the clock or of the battery is never mistaken for another,
\* whichever processes use the bus between the transfers of a read: the lock
\* is kept from the register's number to the byte (adc_read, as_rtc_read).
THEOREM ReadsGetRegister == Spec => ReadGetsRegister
<1> DEFINE Right == \A p \in Procs : Fetch(p) /\ ~timedOut =>
                        data0 = Wanted(op[p])[got[p] + 1]
<1>1. BusOK /\ ReadInv => Right
  <2> SUFFICES ASSUME BusOK, ReadInv, NEW p \in Procs, Fetch(p), ~timedOut
               PROVE  data0 = Wanted(op[p])[got[p] + 1]
    OBVIOUS
  <2>1. i2c_lock = p /\ Head(todo[p]).kind = "fetch" /\ bus = Idle
    BY DEF Fetch, Turn
  <2>2. todo[p] \in Seq(Entry) /\ todo[p] # << >> /\ ReadPart(p)
    BY <2>1, HolderHasTurn DEF ReadInv, Transfers
  <2>3. todo[p][1].kind = "fetch"
    BY <2>1, <2>2
  <2>4. Reading(p)
    <3>1. todo[p] \in Seq(MixerEntry) => todo[p][1] \in MixerEntry
      BY <2>2, EmptyIff
    <3> QED BY <2>2, <2>3, <3>1 DEF ReadPart, MixerEntry
  <2> QED BY <2>1, <2>2, <2>3, <2>4 DEF ReadPart, ReadRight, ToRead
<1>2. Init => BusOK /\ ShadowAgrees /\ ReadInv /\ GotType
  BY InitOK, ReadInit
<1>3. BusOK /\ ShadowAgrees /\ ReadInv /\ GotType /\ [Next]_vars
          => (BusOK /\ ShadowAgrees /\ ReadInv /\ GotType)'
  BY StepsOK, ReadNext
<1>4. [Next]_vars /\ Right => [Right]_vars
  OBVIOUS
<1> HIDE DEF Right
<1>5. Spec => [][Right]_vars
  BY <1>1, <1>2, <1>3, <1>4, PTL DEF Spec
<1> QED BY <1>5 DEF ReadGetsRegister, Right

-----------------------------------------------------------------------------
(* Types of the settings *)

SettingsType ==
    /\ vol \in [l : 0..53, r : 0..53]
    /\ sansa_active_rec \in {"mic", "line"}
    /\ dsp \in {"closed", "opening", "open", "closing"} /\ mode \subseteq {"r", "w"}
    /\ ptr \in Nat /\ data0 \in Nat
    /\ lost \in BOOLEAN /\ crossed \in BOOLEAN /\ wide \in BOOLEAN /\ timedOut \in BOOLEAN
    /\ begun \in 0..MaxOps

LEMMA TypeParts == TypeOK <=> BusOK /\ SettingsType /\ GotType
BY DEF TypeOK, SettingsType, GotType

LEMMA SettingsInit == Init => SettingsType
<1>1. 0 \in 0..MaxOps /\ [l |-> 37, r |-> 37] \in [l : 0..53, r : 0..53]
  BY CodecAssumption
<1>2. {} \subseteq {"r", "w"} /\ 0 \in Nat
  OBVIOUS
<1> SUFFICES ASSUME Init PROVE SettingsType
  OBVIOUS
<1>3. /\ vol = [l |-> 37, r |-> 37] /\ sansa_active_rec = "mic" /\ dsp = "closed" /\ mode = {}
      /\ ptr = 0 /\ data0 = 0 /\ begun = 0
      /\ lost = FALSE /\ crossed = FALSE /\ wide = FALSE /\ timedOut = FALSE
  BY DEF Init
<1> QED BY <1>1, <1>2, <1>3 DEF SettingsType

LEMMA PercentType == \A n \in 0..100 : Percent(n) \in 0..53
BY DEF Percent

LEMMA SettingsBegin ==
    ASSUME SettingsType, NEW p \in Procs, NEW o, NEW es, Begin(p, o, es),
           vol' \in [l : 0..53, r : 0..53],
           dsp' \in {"closed", "opening", "open", "closing"}, mode' \subseteq {"r", "w"},
           wide' \in BOOLEAN
    PROVE  SettingsType'
<1>1. /\ begun < MaxOps /\ begun' = begun + 1
      /\ UNCHANGED <<sansa_active_rec, ptr, data0, lost, timedOut>>
      /\ crossed' \in BOOLEAN
  BY DEF Begin, wires, SettingsType
<1>2. begun' \in 0..MaxOps
  BY <1>1, CodecAssumption DEF SettingsType
<1> QED BY <1>1, <1>2 DEF SettingsType

LEMMA SettingsGoOn ==
    ASSUME SettingsType, NEW p \in Procs, NEW rest, GoOn(p, rest),
           UNCHANGED <<vol, ptr, data0, crossed, wide, begun>>,
           lost' \in BOOLEAN, timedOut' \in BOOLEAN
    PROVE  SettingsType'
<1>1. /\ sansa_active_rec' \in {"mic", "line"}
      /\ dsp' \in {"closed", "opening", "open", "closing"} /\ mode' \subseteq {"r", "w"}
  BY DEF GoOn, SettingsType
<1> QED BY <1>1 DEF SettingsType

LEMMA SettingsNext == BusOK /\ SettingsType /\ [Next]_vars => SettingsType'
<1> SUFFICES ASSUME BusOK, SettingsType, [Next]_vars PROVE SettingsType'
  OBVIOUS
<1>1. ASSUME Complete PROVE SettingsType'
  <2>1. bus.reg \in Nat
    BY DEF BusOK, Regs, Others, RTC_0, ADC_0, HPH_OUT_R, HPH_OUT_L, MIC1_R, DAC_R, DAC_L,
           ADC_R, ADC_L, AUDIOSET1
  <2>2. ptr' \in Nat /\ data0' \in Nat
    BY <1>1, <2>1 DEF Complete, SettingsType
  <2> QED BY <1>1, <2>2 DEF Complete, SettingsType, codec, ghosts
<1>2. ASSUME Boot PROVE SettingsType'
  <2>1. 0 \in 0..MaxOps /\ [l |-> 37, r |-> 37] \in [l : 0..53, r : 0..53]
    BY CodecAssumption
  <2> QED BY <1>2, <2>1 DEF Boot, SettingsType
<1>3. ASSUME NEW p \in Procs, Acquire(p) PROVE SettingsType'
  BY <1>3 DEF Acquire, codec, wires, ghosts, SettingsType
<1>4. ASSUME UNCHANGED vars PROVE SettingsType'
  BY <1>4 DEF vars, codec, wires, ghosts, SettingsType
<1>5. ASSUME NEW p \in Procs, Request(p) PROVE SettingsType'
  <2>1. /\ vol \in [l : 0..53, r : 0..53]
        /\ dsp \in {"closed", "opening", "open", "closing"} /\ mode \subseteq {"r", "w"}
        /\ wide \in BOOLEAN
    BY DEF SettingsType
  <2>2. ASSUME NEW lr \in PcmLevels, SetPcm(p, lr[1], lr[2]) PROVE SettingsType'
    <3>1. lr[1] \in 0..100 /\ lr[2] \in 0..100
      BY CodecAssumption
    <3>2. vol' \in [l : 0..53, r : 0..53]
      BY <2>2, <3>1, PercentType DEF SetPcm
    <3> QED BY <2>1, <2>2, <3>2, SettingsBegin DEF SetPcm
  <2>3. ASSUME NEW lr \in LineLevels, SetLine(p, lr[1], lr[2]) PROVE SettingsType'
    <3>1. wide' \in BOOLEAN
      BY <2>1, <2>3 DEF SetLine
    <3> QED BY <2>1, <2>3, <3>1, SettingsBegin DEF SetLine
  <2>4. ASSUME NEW v \in MicLevels, SetMic(p, v) PROVE SettingsType'
    <3>1. wide' \in BOOLEAN
      BY <2>1, <2>4 DEF SetMic
    <3> QED BY <2>1, <2>4, <3>1, SettingsBegin DEF SetMic
  <2>5. ASSUME NEW src \in {"mic", "line"}, SetRecSrc(p, src) PROVE SettingsType'
    BY <2>1, <2>5, SettingsBegin DEF SetRecSrc
  <2>6. ASSUME NEW m \in SUBSET {"r", "w"}, OpenPlay(p, m) PROVE SettingsType'
    BY <2>1, <2>6, SettingsBegin DEF OpenPlay
  <2>7. ASSUME OpenRecord(p) PROVE SettingsType'
    BY <2>1, <2>7, SettingsBegin DEF OpenRecord
  <2>8. ASSUME Close(p) PROVE SettingsType'
    BY <2>1, <2>8, SettingsBegin DEF Close
  <2>9. ASSUME ReadAdc(p) \/ ReadRtc(p) PROVE SettingsType'
    BY <2>1, <2>9, SettingsBegin DEF ReadAdc, ReadRtc
  <2> QED BY <1>5, <2>2, <2>3, <2>4, <2>5, <2>6, <2>7, <2>8, <2>9 DEF Request
<1>6. ASSUME NEW p \in Procs, Step(p) PROVE SettingsType'
  <2>1. ASSUME SendWrite(p) PROVE SettingsType'
    <3>1. lost' \in BOOLEAN /\ timedOut' \in BOOLEAN
      BY <2>1 DEF SendWrite, SettingsType
    <3> QED BY <2>1, <3>1, SettingsGoOn DEF SendWrite
  <2>2. ASSUME SendSelect(p) PROVE SettingsType'
    BY <2>2, SettingsGoOn DEF SendSelect, ghosts, SettingsType
  <2>3. ASSUME SendPtr(p) PROVE SettingsType'
    BY <2>3, SettingsGoOn DEF SendPtr, ghosts, SettingsType
  <2>4. ASSUME StartRead(p) PROVE SettingsType'
    BY <2>4 DEF StartRead, codec, ghosts, SettingsType
  <2>5. ASSUME Fetch(p) PROVE SettingsType'
    BY <2>5, SettingsGoOn DEF Fetch, wires, ghosts, SettingsType
  <2>6. ASSUME TimeOut(p) PROVE SettingsType'
    BY <2>6, SettingsGoOn DEF TimeOut, wires, SettingsType
  <2> QED BY <1>6, <2>1, <2>2, <2>3, <2>4, <2>5, <2>6 DEF Step
<1> QED BY <1>1, <1>2, <1>3, <1>4, <1>5, <1>6 DEF Next

\* The volume and what is read stay in their ranges, a codec register is a
\* byte and its copy in the driver a word, and every transfer is one that the
\* codec knows, for any number of processes, volumes and line levels in
\* percent and any int as a microphone level (sansa_mixer_ioctl).
THEOREM TypeCorrect == Spec => []TypeOK
<1> DEFINE I == BusOK /\ ShadowAgrees /\ ReadInv /\ GotType /\ SettingsType
<1>1. Init => I
  BY InitOK, ReadInit, SettingsInit
<1>2. I /\ [Next]_vars => I'
  BY StepsOK, ReadNext, SettingsNext
<1>3. I => TypeOK
  BY TypeParts
<1> QED BY <1>1, <1>2, <1>3, PTL DEF Spec

-----------------------------------------------------------------------------
(* What a step is to who looks at the mixer's registers only *)

Core == BusOK /\ ShadowAgrees /\ ReadInv /\ GotType /\ SettingsType

LEMMA CoreInit == Init => Core
BY InitOK, ReadInit, SettingsInit DEF Core

LEMMA CoreNext == Core /\ [Next]_vars => Core'
BY StepsOK, ReadNext, SettingsNext DEF Core

\* A write that loses nothing changes its register in one step.
LEMMA WriteIs ==
    ASSUME Core, NEW p \in Procs, SendWrite(p)
    PROVE  LET e == Head(todo[p])
           IN  /\ i2c_lock = p /\ ~Reading(p) /\ op[p] # "none"
               /\ e \in Entry /\ e.kind = "write" /\ e.reg \in Regs
               /\ todo[p] \in Seq(MixerEntry) /\ todo[p] # << >> /\ todo[p] \in Seq(Entry)
               /\ e = todo[p][1] /\ Tail(todo[p]) \in Seq(MixerEntry)
               /\ GoOn(p, Tail(todo[p]))
               /\ bus = Idle /\ chip' = chip
               /\ ~timedOut => Agrees
               /\ shadow' \in [Regs -> SUBSET Word]
               /\ ~lost' => /\ ~lost
                            /\ shadow' = [shadow EXCEPT ![e.reg] =
                                             (shadow[e.reg] \cap e.keep) \cup e.set]
               /\ UNCHANGED <<vol, crossed, wide, timedOut>>
<1> DEFINE e == Head(todo[p])
<1>1. /\ i2c_lock = p /\ e.kind = "write" /\ bus = Idle
      /\ lost' = (lost \/ e.base # shadow[e.reg] \cap e.keep)
      /\ shadow' = [shadow EXCEPT ![e.reg] = Written(e)]
      /\ GoOn(p, Tail(todo[p]))
      /\ UNCHANGED <<vol, chip, crossed, wide, timedOut>>
  BY DEF SendWrite, Turn
<1>2. BusOK /\ ShadowAgrees /\ ReadInv /\ lost \in BOOLEAN
  BY DEF Core, SettingsType
<1>3. /\ todo[p] \in Transfers /\ e \in Entry /\ Tail(todo[p]) \in Seq(Entry)
      /\ todo[p] \in Seq(Entry) /\ todo[p] # << >> /\ e = todo[p][1]
  BY <1>1, <1>2, HolderHasTurn DEF Transfers
<1>4. shadow \in [Regs -> SUBSET Word] /\ chip \in [Regs -> SUBSET Byte] /\ op[p] # "none"
  BY <1>2, <1>3 DEF BusOK
<1> HIDE DEF e
<1>5. e.reg \in Regs /\ Written(e) \in SUBSET Word
  BY <1>1, <1>3 DEF Entry, Written
<1>6. shadow' \in [Regs -> SUBSET Word]
  BY <1>1, <1>4, <1>5
<1>7. ~Reading(p)
  <2>1. SUFFICES ASSUME Reading(p) PROVE FALSE
    OBVIOUS
  <2>2. ReadShape(p) /\ op[p] \in Readers /\ Len(ReadList(op[p])) \in Nat
    BY <1>2, <2>1, AdcIs, RtcIs DEF ReadInv, ReadPart, Reading, ReadList
  <2>3. Len(todo[p]) \in 1 .. Len(ReadList(op[p]))
    BY <1>3, <2>2, EmptyIff DEF ReadShape
  <2>4. LET f == Left(op[p], Len(todo[p]), 1) IN f \in Entry /\ f.kind \in {"select", "ptr", "read"}
    BY <2>2, <2>3, ReadStep
  <2> QED BY <1>1, <1>3, <2>2, <2>4 DEF ReadShape, Entry
<1>8. todo[p] \in Seq(MixerEntry) /\ Tail(todo[p]) \in Seq(MixerEntry)
  <2>1. todo[p] \in Seq(MixerEntry)
    BY <1>2, <1>7 DEF ReadInv, ReadPart
  <2> QED BY <1>3, <2>1
<1>9. ~timedOut => Agrees
  BY <1>1, <1>2 DEF Agrees, ShadowAgrees, Carried, Idle
<1>10. ~lost' => /\ ~lost
                 /\ shadow' = [shadow EXCEPT ![e.reg] =
                                  (shadow[e.reg] \cap e.keep) \cup e.set]
  <2>1. ~lost' => ~lost /\ e.base = shadow[e.reg] \cap e.keep
    BY <1>1, <1>2
  <2> QED BY <1>1, <2>1 DEF Written
<1> QED BY <1>1, <1>3, <1>4, <1>5, <1>6, <1>7, <1>8, <1>9, <1>10 DEF e

\* The transfers of a reader.
ReaderStep(p) == SendSelect(p) \/ SendPtr(p) \/ StartRead(p) \/ Fetch(p)

LEMMA ReaderIs ==
    ASSUME Core, NEW p \in Procs, ReaderStep(p)
    PROVE  /\ i2c_lock = p /\ Reading(p)
           /\ UNCHANGED <<shadow, chip, sansa_active_rec, dsp, mode, vol,
                          lost, crossed, wide, timedOut>>
           /\ \A q \in Procs \ {p} : op'[q] = op[q] /\ todo'[q] = todo[q] /\ i2c_lock' # q
           /\ op'[p] = op[p] \/ (op'[p] = "none" /\ todo'[p] = << >>)
           /\ ~Reading(p)' => todo'[p] = << >> /\ op'[p] = "none"
<1>1. BusOK /\ ReadInv /\ p # None
  BY CodecAssumption DEF Core
<1>2. /\ i2c_lock = p /\ Head(todo[p]).kind \notin {"write", "master", "enable"}
      /\ UNCHANGED <<shadow, chip, vol, lost, crossed, wide, timedOut>>
  BY DEF ReaderStep, SendSelect, SendPtr, StartRead, Fetch, Turn, ghosts, codec, wires
<1>3. todo[p] \in Seq(Entry) /\ todo[p] # << >>
  BY <1>1, <1>2, HolderHasTurn DEF Transfers
<1>4. Reading(p)
  <2>1. SUFFICES ASSUME ~Reading(p) PROVE FALSE
    OBVIOUS
  <2>2. todo[p] \in Seq(MixerEntry)
    BY <1>1, <2>1 DEF ReadInv, ReadPart
  <2>3. Head(todo[p]) \in MixerEntry
    BY <1>3, <2>2
  <2> QED BY <1>2, <2>3 DEF MixerEntry
<1>5. CASE StartRead(p)
  <2>1. /\ UNCHANGED <<sansa_active_rec, dsp, mode, op, i2c_lock>>
        /\ \A q \in Procs \ {p} : todo'[q] = todo[q]
    BY <1>1, <1>5 DEF StartRead, codec, BusOK
  <2> QED BY <1>2, <1>4, <2>1 DEF Reading
<1>6. CASE ~StartRead(p)
  <2>1. GoOn(p, Tail(todo[p]))
    BY <1>6 DEF ReaderStep, SendSelect, SendPtr, Fetch
  <2>2. UNCHANGED <<sansa_active_rec, dsp, mode>>
    BY <1>4, <2>1 DEF GoOn, Reading, Readers
  <2>3. /\ \A q \in Procs \ {p} : op'[q] = op[q] /\ todo'[q] = todo[q] /\ i2c_lock' # q
        /\ op'[p] = op[p] \/ (op'[p] = "none" /\ todo'[p] = << >>)
    BY <1>1, <1>2, <2>1, GoOnOthers
  <2> QED BY <1>2, <1>4, <2>2, <2>3 DEF Reading
<1> QED BY <1>5, <1>6

\* A transfer that times out.
LEMMA TimeOutIs ==
    ASSUME Core, NEW p \in Procs, TimeOut(p)
    PROVE  /\ i2c_lock = p /\ timedOut' = TRUE
           /\ UNCHANGED <<chip, vol, lost, crossed, wide>>
           /\ shadow' \in [Regs -> SUBSET Word]
           /\ GoOn(p, << >>) \/ GoOn(p, Tail(todo[p]))
           /\ todo[p] \in Seq(Entry) /\ todo[p] # << >>
<1> DEFINE e == Head(todo[p])
<1>1. /\ i2c_lock = p /\ timedOut' = TRUE
      /\ shadow' = IF e.kind = "write" THEN [shadow EXCEPT ![e.reg] = Written(e)] ELSE shadow
      /\ UNCHANGED <<chip, vol, lost, crossed, wide>>
      /\ GoOn(p, << >>) \/ GoOn(p, Tail(todo[p]))
  <2>1. GoOn(p, IF e.kind = "select" THEN << >> ELSE Tail(todo[p]))
    BY DEF TimeOut
  <2>2. GoOn(p, << >>) \/ GoOn(p, Tail(todo[p]))
    <3>1. CASE e.kind = "select"
      BY <2>1, <3>1
    <3>2. CASE e.kind # "select"
      BY <2>1, <3>2
    <3> QED BY <3>1, <3>2
  <2> QED BY <2>2 DEF TimeOut, wires
<1>2. /\ BusOK /\ e \in Entry /\ todo[p] \in Seq(Entry) /\ todo[p] # << >>
  BY <1>1, HolderHasTurn DEF Core, Transfers
<1> HIDE DEF e
<1>3. e.kind = "write" => e.reg \in Regs /\ Written(e) \in SUBSET Word
  BY <1>2 DEF Entry, Written
<1>4. shadow' \in [Regs -> SUBSET Word]
  BY <1>1, <1>2, <1>3 DEF BusOK
<1> QED BY <1>1, <1>2, <1>4

-----------------------------------------------------------------------------
(* The paths through the codec.  Who opens /dev/dsp for playing has to get *)
(* past the first transfers of as3514_init_pb, who opens it for recording  *)
(* to the last two of as3514_enable_recording; everybody else's transfers  *)
(* keep what these have switched on.                                       *)

KeepsPaths(e) ==
    e.kind = "write" =>
        /\ e.reg = HPH_OUT_L => 6 \in e.keep \cup e.set /\ 7 \notin e.set
        /\ e.reg = AUDIOSET1 => {5, 6, 7} \subseteq e.keep \cup e.set
        /\ e.reg = ADC_L => 6 \in e.keep \cup e.set
PathEntry == {e \in MixerEntry : KeepsPaths(e)}

PlayGood(regs) ==
    6 \in regs[HPH_OUT_L] /\ 7 \notin regs[HPH_OUT_L] /\ {5, 6} \subseteq regs[AUDIOSET1]
RecGood(regs) == 6 \in regs[ADC_L]

\* A transfer but for what it was based on.
Bare(e) == [e EXCEPT !.base = {}]

\* The list of an operation that plays, from transfer k + 1 of InitPb on.
Stage(es, k) ==
    /\ Len(es) >= 5 - k
    /\ \A i \in 1 .. 5 - k : Bare(es[i]) = InitPb[k + i]
    /\ \A i \in 6 - k .. Len(es) : es[i] \in PathEntry

OpeningPlay(p) ==
    \/ Stage(todo[p], 0)
    \/ Stage(todo[p], 1) /\ {5, 6} \subseteq shadow[AUDIOSET1]
    \/ Stage(todo[p], 2) /\ {5, 6} \subseteq shadow[AUDIOSET1] /\ 6 \in shadow[HPH_OUT_L]
    \/ todo[p] \in Seq(PathEntry) /\ PlayGood(shadow)

\* The converter, and its path, are switched on by the last transfers.
AdcOn  == WriteOr(ADC_L, {6})
PathOn == WriteOr(AUDIOSET1, {7})
EndsOn(es) ==
    Len(es) > 1 /\ Bare(es[Len(es) - 1]) = AdcOn /\ Bare(es[Len(es)]) = PathOn

\* A list that ends in switching on the converter, or will.
EndsRec(es) == Len(es) > 0 /\ (es[Len(es)].kind = "enable" \/ EndsOn(es))

OpeningRec(p) ==
    \/ EndsRec(todo[p])
    \/ Len(todo[p]) = 1 /\ Bare(todo[p][1]) = PathOn /\ RecGood(shadow)

DspOps == {"open", "record", "close"}
DspInv ==
    /\ \A p, q \in Procs : op[p] \in DspOps /\ op[q] \in DspOps => p = q
    /\ \A p \in Procs : /\ op[p] \in {"open", "record"} => dsp = "opening"
                        /\ op[p] = "close" => dsp = "closing"
                        /\ op[p] = "record" => "w" \notin mode

LooseInv ==
    \A p \in Procs : ~Reading(p) /\ op[p] \notin {"open", "close"} => todo[p] \in Seq(PathEntry)

OpenGood ==
    dsp = "open" =>
        /\ "w" \in mode => PlayGood(shadow) /\ PlayGood(chip)
        /\ "r" \in mode => RecGood(shadow) /\ RecGood(chip) /\ 7 \in shadow[AUDIOSET1]

OpeningGood ==
    \A p \in Procs : /\ op[p] = "open" => OpeningPlay(p)
                     /\ op[p] \in {"open", "record"} /\ "r" \in mode => OpeningRec(p)

PathInv == DspInv /\ LooseInv /\ (~lost /\ ~timedOut => OpenGood /\ OpeningGood)

LEMMA LowBits == \A n \in 0..31 : Bits(n) \subseteq Low5
<1> TAKE n \in 0..31
<1>1. 2^5 = 32 /\ 2^6 = 64 /\ 2^7 = 128
  OBVIOUS
<1>2. ASSUME NEW i \in Byte, (n \div 2^i) % 2 = 1 PROVE i \in Low5
  <2>1. n \div 32 = 0 /\ n \div 64 = 0 /\ n \div 128 = 0
    OBVIOUS
  <2>2. (i = 5 => 2^i = 2^5) /\ (i = 6 => 2^i = 2^6) /\ (i = 7 => 2^i = 2^7)
    BY Zenon
  <2>3. (i = 5 => 2^i = 32) /\ (i = 6 => 2^i = 64) /\ (i = 7 => 2^i = 128)
    BY <1>1, <2>2
  <2>4. i # 5 /\ i # 6 /\ i # 7
    BY <1>2, <2>1, <2>3
  <2> QED BY <2>4 DEF Byte, Low5
<1>3. n \in 0..255
  OBVIOUS
<1> QED BY <1>2, <1>3 DEF Bits

LEMMA PartsLow == \A v \in 0..53 : MixerPart(v) \subseteq Low5 /\ HeadphonePart(v) \subseteq Low5
<1> TAKE v \in 0..53
<1>1. (IF v <= 22 THEN v ELSE 22) \in 0..31 /\ (v > 22 => v - 22 \in 0..31)
  OBVIOUS
<1> QED BY <1>1, LowBits DEF MixerPart, HeadphonePart

LEMMA RegsDiffer ==
    /\ Regs = {2, 3, 6, 14, 15, 16, 17, 20}
    /\ HPH_OUT_R = 2 /\ HPH_OUT_L = 3 /\ MIC1_R = 6 /\ DAC_R = 14 /\ DAC_L = 15
    /\ ADC_R = 16 /\ ADC_L = 17 /\ AUDIOSET1 = 20
BY DEF Regs, HPH_OUT_R, HPH_OUT_L, MIC1_R, DAC_R, DAC_L, ADC_R, ADC_L, AUDIOSET1

LEMMA WritePath ==
    ASSUME NEW reg \in Regs, NEW keep \in SUBSET Word, NEW set \in SUBSET Word,
           reg = HPH_OUT_L => 6 \in keep \cup set /\ 7 \notin set,
           reg = AUDIOSET1 => {5, 6, 7} \subseteq keep \cup set,
           reg = ADC_L => 6 \in keep \cup set
    PROVE  Write(reg, keep, set) \in PathEntry
<1>1. Write(reg, keep, set) \in MixerEntry
  BY WriteMixes
<1> QED BY <1>1 DEF Write, PathEntry, KeepsPaths

LEMMA PathLists ==
    /\ \A v \in [l : 0..53, r : 0..53] : MasterVol(v) \in Seq(PathEntry)
    /\ \A src : EnableRecording(src) \in Seq(PathEntry)
    /\ \A l, r : SetRecVol(l, r) \in Seq(PathEntry)
    /\ \A v : SetMicVol(v) \in Seq(PathEntry)
    /\ Other("enable", 0) \in PathEntry /\ Other("master", 0) \in PathEntry
    /\ Write(HPH_OUT_L, Word \ {7}, {}) \in PathEntry
<1> DEFINE M == PathEntry
<1>1. /\ \A x : Bits(x) \in SUBSET Word /\ MicGain(x) \in SUBSET Word
      /\ Word = 0..8 /\ Word \ Low5 = {5, 6, 7, 8} /\ Low5 = 0..4 /\ Low5 \in SUBSET Word
  <2>1. /\ Word = 0..8 /\ Word \ Low5 = {5, 6, 7, 8} /\ Low5 = 0..4 /\ Low5 \in SUBSET Word
    BY DEF Word, Low5
  <2>2. \A x : MicGain(x) \in SUBSET Word
    BY DEF MicGain, Word
  <2> QED BY <2>1, <2>2, BitsOfWord
<1>2. Other("enable", 0) \in M /\ Other("master", 0) \in M
  BY Mixers DEF Other, PathEntry, KeepsPaths, MixerEntry, Entry, Others
<1>3. /\ Write(ADC_R, Word \ {6, 7}, {}) \in M /\ Write(AUDIOSET1, Word \ {2}, {0}) \in M
      /\ Write(MIC1_R, Word \ {7}, {}) \in M /\ Write(ADC_R, Word \ {6, 7}, {6}) \in M
      /\ Write(AUDIOSET1, Word \ {0}, {2}) \in M /\ Write(ADC_L, Word, {6}) \in M
      /\ Write(AUDIOSET1, Word, {7}) \in M /\ Write(HPH_OUT_L, Word \ {7}, {}) \in M
  <2>1. Write(ADC_R, Word \ {6, 7}, {}) \in M /\ Write(ADC_R, Word \ {6, 7}, {6}) \in M
    BY <1>1, RegsDiffer, WritePath
  <2>2. Write(AUDIOSET1, Word \ {2}, {0}) \in M /\ Write(AUDIOSET1, Word \ {0}, {2}) \in M
    BY <1>1, RegsDiffer, WritePath
  <2>3. Write(MIC1_R, Word \ {7}, {}) \in M /\ Write(ADC_L, Word, {6}) \in M
    BY <1>1, RegsDiffer, WritePath
  <2>4. Write(AUDIOSET1, Word, {7}) \in M /\ Write(HPH_OUT_L, Word \ {7}, {}) \in M
    BY <1>1, RegsDiffer, WritePath
  <2> QED BY <2>1, <2>2, <2>3, <2>4
<1> HIDE DEF M
<1>4. ASSUME NEW v \in [l : 0..53, r : 0..53] PROVE MasterVol(v) \in Seq(M)
  <2>1. /\ MixerPart(v.r) \subseteq Low5 /\ HeadphonePart(v.r) \subseteq Low5
        /\ MixerPart(v.l) \subseteq Low5 /\ HeadphonePart(v.l) \subseteq Low5
    BY PartsLow
  <2>2. /\ Write(DAC_R, Word \ Low5, MixerPart(v.r)) \in M
        /\ Write(DAC_L, Word \ Low5, MixerPart(v.l)) \in M
        /\ Write(HPH_OUT_R, Word \ Low5, HeadphonePart(v.r)) \in M
        /\ Write(HPH_OUT_L, Word \ Low5, HeadphonePart(v.l)) \in M
    BY <1>1, <2>1, RegsDiffer, WritePath DEF M
  <2> QED BY <2>2, MasterVolIn
<1>5. ASSUME NEW l, NEW r PROVE SetRecVol(l, r) \in Seq(M)
  <2>1. /\ Write(ADC_R, Word \ Low5, Bits(r)) \in M
        /\ Write(ADC_L, Word \ Low5, Bits(l)) \in M
    BY <1>1, RegsDiffer, WritePath DEF M
  <2> QED BY <2>1, RecVolIn
<1>6. ASSUME NEW v PROVE SetMicVol(v) \in Seq(M)
  <2>1. /\ Write(MIC1_R, Word \ {5, 6}, MicGain(v)) \in M
        /\ Write(ADC_R, Word \ Low5, Bits(MicVol(v))) \in M
        /\ Write(ADC_L, Word \ Low5, Bits(MicVol(v))) \in M
    BY <1>1, RegsDiffer, WritePath DEF M
  <2> QED BY <2>1, MicVolIn
<1>7. ASSUME NEW src PROVE EnableRecording(src) \in Seq(M)
  BY <1>3, EnableIn
<1> QED BY <1>2, <1>3, <1>4, <1>5, <1>6, <1>7 DEF M

LEMMA PathBase ==
    /\ PathEntry \in SUBSET Entry
    /\ \A e \in PathEntry : e.kind = "write" =>
           \A b \in SUBSET Word : [e EXCEPT !.base = b] \in PathEntry
BY DEF PathEntry, KeepsPaths, MixerEntry, Entry

\* What is left keeps the paths when what was left did.
LEMMA PathGoesOn ==
    ASSUME Core, NEW es \in Seq(PathEntry), es # << >>, NEW regs \in [Regs -> SUBSET Word]
    PROVE  LoadHead(Expand(es), regs) \in Seq(PathEntry)
<1>1. Tail(es) \in Seq(PathEntry)
  OBVIOUS
<1>2. /\ MasterVol(vol) \in Seq(PathEntry)
      /\ EnableRecording(sansa_active_rec) \in Seq(PathEntry)
  BY PathLists DEF Core, SettingsType
<1>3. Expand(es) \in Seq(PathEntry)
  BY <1>1, <1>2 DEF Expand
<1>4. es \in Seq(Entry)
  BY PathBase
<1>5. Expand(es) # << >>
  BY <1>4, ExpandType DEF Transfers
<1> QED BY <1>3, <1>5, PathBase, LoadIn

LEMMA BareLoad ==
    ASSUME NEW e \in Entry, NEW regs \in [Regs -> SUBSET Word]
    PROVE  Bare(Load(e, regs)) = Bare(e) /\ Load(e, regs).kind = e.kind
BY DEF Load, Bare, Entry

LEMMA LoadHeadIs ==
    ASSUME NEW es \in Seq(Entry), es # << >>, NEW regs \in [Regs -> SUBSET Word]
    PROVE  LET s == LoadHead(es, regs)
           IN  /\ s \in Seq(Entry) /\ Len(s) = Len(es) /\ Len(es) > 0
               /\ \A i \in 2 .. Len(es) : s[i] = es[i]
               /\ \A i \in 1 .. Len(es) : Bare(s[i]) = Bare(es[i]) /\ s[i].kind = es[i].kind
<1> DEFINE h == Load(Head(es), regs)
           s == LoadHead(es, regs)
<1>1. /\ Len(es) \in Nat /\ Len(es) > 0 /\ Tail(es) \in Seq(Entry) /\ Len(Tail(es)) = Len(es) - 1
      /\ \A i \in 1 .. Len(es) - 1 : Tail(es)[i] = es[i + 1]
      /\ Head(es) = es[1] /\ es[1] \in Entry
  BY EmptyIff
<1>2. h \in Entry /\ Bare(h) = Bare(es[1]) /\ h.kind = es[1].kind
  BY <1>1, LoadType, BareLoad
<1>3. s = << h >> \o Tail(es)
  BY DEF LoadHead
<1> HIDE DEF h, s
<1>4. s \in Seq(Entry) /\ Len(s) = Len(es) /\ s[1] = h
  BY <1>1, <1>2, <1>3
<1>5. \A i \in 2 .. Len(es) : s[i] = es[i]
  <2> TAKE i \in 2 .. Len(es)
  <2>1. i - 1 \in 1 .. Len(es) - 1 /\ s[i] = Tail(es)[i - 1] /\ (i - 1) + 1 = i
    BY <1>1, <1>2, <1>3
  <2> QED BY <1>1, <2>1
<1> QED BY <1>1, <1>2, <1>4, <1>5 DEF s

LEMMA TailIs ==
    ASSUME NEW es \in Seq(Entry), es # << >>
    PROVE  /\ Tail(es) \in Seq(Entry) /\ Len(Tail(es)) = Len(es) - 1 /\ Len(es) \in Nat \ {0}
           /\ \A i \in 1 .. Len(es) - 1 : Tail(es)[i] = es[i + 1]
           /\ Head(es) = es[1] /\ es[1] \in Entry
BY EmptyIff

LEMMA CatIs ==
    ASSUME NEW a \in Seq(Entry), NEW b \in Seq(Entry)
    PROVE  /\ a \o b \in Seq(Entry) /\ Len(a \o b) = Len(a) + Len(b)
           /\ Len(a) \in Nat /\ Len(b) \in Nat
           /\ \A i \in 1 .. Len(a) : (a \o b)[i] = a[i]
           /\ \A i \in 1 .. Len(b) : (a \o b)[Len(a) + i] = b[i]
OBVIOUS

LEMMA BareKind ==
    /\ \A e \in Entry : Bare(e).kind = e.kind /\ Bare(e).reg = e.reg
    /\ \A e \in Entry : Bare(e).keep = e.keep /\ Bare(e).set = e.set
    /\ AdcOn.kind = "write" /\ PathOn.kind = "write"
BY DEF Bare, Entry, AdcOn, PathOn, WriteOr, Write

LEMMA EndsSome == ASSUME NEW es \in Seq(Entry), EndsRec(es) PROVE es # << >>
<1>1. Len(es) > 0 /\ Len(es) \in Nat
  BY DEF EndsRec
<1> QED BY <1>1, EmptyIff

LEMMA EndsTail ==
    ASSUME NEW es \in Seq(Entry), EndsRec(es),
           Len(es) > 2 \/ (Len(es) > 1 /\ es[Len(es)].kind = "enable")
    PROVE  EndsRec(Tail(es))
<1> DEFINE t == Tail(es)
           n == Len(es)
<1>1. es # << >> /\ n \in Nat
  BY EmptyIff DEF EndsRec
<1>2. t \in Seq(Entry) /\ Len(t) = n - 1 /\ \A i \in 1 .. n - 1 : t[i] = es[i + 1]
  BY <1>1, TailIs
<1> HIDE DEF t
<1>3. n > 1 /\ t[n - 1] = es[n]
  BY <1>1, <1>2
<1>4. CASE es[n].kind = "enable"
  BY <1>1, <1>2, <1>3, <1>4 DEF EndsRec, t
<1>5. CASE n > 2 /\ EndsOn(es)
  <2>1. t[n - 2] = es[n - 1]
    BY <1>1, <1>2, <1>5
  <2> QED BY <1>1, <1>2, <1>3, <1>5, <2>1 DEF EndsRec, EndsOn, t
<1> QED BY <1>4, <1>5 DEF EndsRec

LEMMA EndsCat ==
    ASSUME NEW a \in Seq(Entry), NEW b \in Seq(Entry), EndsRec(b)
    PROVE  EndsRec(a \o b)
<1> DEFINE c == a \o b
           n == Len(b)
<1>1. /\ Len(c) = Len(a) + n /\ Len(a) \in Nat /\ n \in Nat /\ n > 0
      /\ \A i \in 1 .. n : c[Len(a) + i] = b[i]
  BY CatIs DEF EndsRec
<1> HIDE DEF c
<1>2. c[Len(c)] = b[n] /\ Len(c) > 0 /\ (n > 1 => Len(c) > 1)
  BY <1>1
<1>3. n > 1 => c[Len(c) - 1] = b[n - 1]
  <2>1. n > 1 => n - 1 \in 1 .. n /\ Len(c) - 1 = Len(a) + (n - 1)
    BY <1>1
  <2> QED BY <1>1, <2>1
<1>4. CASE b[n].kind = "enable"
  BY <1>2, <1>4 DEF EndsRec, c
<1>5. CASE EndsOn(b)
  BY <1>2, <1>3, <1>5 DEF EndsRec, EndsOn, c
<1> QED BY <1>4, <1>5 DEF EndsRec

LEMMA EndsEnable == \A src : EnableRecording(src) \in Seq(Entry) /\ EndsRec(EnableRecording(src))
<1> TAKE src
<1> DEFINE a == IF src = "mic"
                THEN << WriteAnd(ADC_R, Word \ {6, 7}), Write(AUDIOSET1, Word \ {2}, {0}),
                        WriteAnd(MIC1_R, Word \ {7}) >>
                ELSE << Write(ADC_R, Word \ {6, 7}, {6}), Write(AUDIOSET1, Word \ {0}, {2}) >>
           b == << AdcOn, PathOn >>
<1>1. /\ Write(ADC_R, Word \ {6, 7}, {}) \in Entry
      /\ Write(AUDIOSET1, Word \ {2}, {0}) \in Entry
      /\ Write(MIC1_R, Word \ {7}, {}) \in Entry
      /\ Write(ADC_R, Word \ {6, 7}, {6}) \in Entry
      /\ Write(AUDIOSET1, Word \ {0}, {2}) \in Entry
      /\ AdcOn \in Entry /\ PathOn \in Entry
  BY WriteType DEF Regs, Word, AdcOn, PathOn, WriteOr
<1>2. a \in Seq(Entry)
  BY <1>1 DEF WriteAnd
<1>3. b \in Seq(Entry) /\ EndsRec(b)
  <2>1. Bare(AdcOn) = AdcOn /\ Bare(PathOn) = PathOn
    BY DEF Bare, AdcOn, PathOn, WriteOr, Write
  <2> QED BY <1>1, <2>1 DEF EndsRec, EndsOn
<1>4. EnableRecording(src) = a \o b
  BY DEF EnableRecording, AdcOn, PathOn
<1> HIDE DEF a, b
<1> QED BY <1>2, <1>3, <1>4, EndsCat, CatIs

LEMMA ManyIs == \A n \in Nat : n > 0 /\ n # 1 => n > 1 /\ (n = 2 \/ n > 2)
OBVIOUS

LEMMA EndsGoOn ==
    ASSUME NEW es \in Seq(Entry), EndsRec(es), NEW regs \in [Regs -> SUBSET Word]
    PROVE  EndsRec(LoadHead(Expand(es), regs))
<1>1. es # << >> /\ Len(es) \in Nat /\ Len(es) > 0
  BY EmptyIff DEF EndsRec
<1>2. /\ Tail(es) \in Seq(Entry) /\ Head(es) = es[1]
      /\ MasterVol(vol) \in Seq(Entry)
      /\ EnableRecording(sansa_active_rec) \in Seq(Entry)
      /\ EndsRec(EnableRecording(sansa_active_rec))
  BY <1>1, TailIs, MasterVolType, EndsEnable DEF Transfers
<1>3. EndsRec(Expand(es)) /\ Expand(es) \in Seq(Entry) /\ Expand(es) # << >>
  <2>1. CASE Head(es).kind = "master"
    <3>1. EndsRec(Tail(es))
      <4>1. Len(es) # 1
        BY <1>2, <2>1 DEF EndsRec, EndsOn
      <4>2. ~(Len(es) = 2 /\ EndsOn(es))
        <5>1. SUFFICES ASSUME Len(es) = 2, EndsOn(es) PROVE FALSE
          OBVIOUS
        <5>2. Bare(es[1]) = AdcOn /\ es[1] \in Entry
          BY <1>1, <5>1, TailIs DEF EndsOn
        <5> QED BY <1>2, <2>1, <5>2, BareKind
      <4>3. Len(es) > 1 /\ (Len(es) = 2 \/ Len(es) > 2)
        BY <1>1, <4>1, ManyIs, Zenon
      <4>4. EndsOn(es) => Len(es) > 2
        BY <4>2, <4>3, Zenon
      <4>5. es[Len(es)].kind = "enable" \/ EndsOn(es)
        BY DEF EndsRec
      <4> QED BY <4>3, <4>4, <4>5, EndsTail
    <3>2. Expand(es) = MasterVol(vol) \o Tail(es)
      BY <2>1 DEF Expand
    <3> QED BY <1>2, <3>1, <3>2, EndsCat, CatIs, EndsSome
  <2>2. CASE Head(es).kind = "enable" /\ Len(es) = 1
    <3>1. Tail(es) = << >>
      <4>1. Len(Tail(es)) = 0
        BY <1>1, <2>2, TailIs
      <4> QED BY <1>2, <4>1, EmptyIff
    <3>2. Expand(es) = MasterVol(vol) \o EnableRecording(sansa_active_rec) \o << >>
      BY <2>2, <3>1 DEF Expand
    <3>3. \A s \in Seq(Entry) : s \o << >> = s
      OBVIOUS
    <3>4. Expand(es) = MasterVol(vol) \o EnableRecording(sansa_active_rec)
      BY <1>2, <3>2, <3>3, CatIs
    <3> QED BY <1>2, <3>4, EndsCat, CatIs, EndsSome
  <2>3. CASE Head(es).kind = "enable" /\ Len(es) # 1
    <3>1. EndsRec(Tail(es))
      <4>1. ~(Len(es) = 2 /\ EndsOn(es))
        <5>1. SUFFICES ASSUME Len(es) = 2, EndsOn(es) PROVE FALSE
          OBVIOUS
        <5>2. Bare(es[1]) = AdcOn /\ es[1] \in Entry
          BY <1>1, <5>1, TailIs DEF EndsOn
        <5> QED BY <1>2, <2>3, <5>2, BareKind
      <4>2. Len(es) > 1 /\ (Len(es) = 2 \/ Len(es) > 2)
        BY <1>1, <2>3, ManyIs, Zenon
      <4>3. EndsOn(es) => Len(es) > 2
        BY <4>1, <4>2, Zenon
      <4>4. es[Len(es)].kind = "enable" \/ EndsOn(es)
        BY DEF EndsRec
      <4> QED BY <4>2, <4>3, <4>4, EndsTail
    <3>2. Expand(es) = (MasterVol(vol) \o EnableRecording(sansa_active_rec)) \o Tail(es)
      BY <2>3 DEF Expand
    <3>3. MasterVol(vol) \o EnableRecording(sansa_active_rec) \in Seq(Entry)
      BY <1>2, CatIs
    <3> QED BY <1>2, <3>1, <3>2, <3>3, EndsCat, CatIs, EndsSome
  <2>4. CASE Head(es).kind \notin {"master", "enable"}
    <3>1. Expand(es) = es
      BY <2>4 DEF Expand
    <3> QED BY <1>1, <3>1
  <2> QED BY <2>1, <2>2, <2>3, <2>4
<1> DEFINE x == Expand(es)
           s == LoadHead(x, regs)
<1> HIDE DEF x
<1>4. /\ Len(s) = Len(x) /\ Len(x) > 0
      /\ \A i \in 1 .. Len(x) : Bare(s[i]) = Bare(x[i]) /\ s[i].kind = x[i].kind
  BY <1>3, LoadHeadIs DEF x
<1>5. EndsRec(x) /\ Len(x) \in Nat
  BY <1>3 DEF x
<1> HIDE DEF s
<1>6. s[Len(s)].kind = x[Len(x)].kind /\ Bare(s[Len(s)]) = Bare(x[Len(x)])
  BY <1>4, <1>5
<1>7. Len(x) > 1 => Bare(s[Len(s) - 1]) = Bare(x[Len(x) - 1])
  BY <1>4, <1>5
<1>8. EndsRec(s)
  BY <1>4, <1>5, <1>6, <1>7 DEF EndsRec, EndsOn
<1> QED BY <1>8 DEF s, x

LEMMA InitPbIs ==
    /\ Len(InitPb) = 5 /\ InitPb \in Seq(MixerEntry)
    /\ InitPb[1] = Write(AUDIOSET1, {}, {5, 6})
    /\ InitPb[2] = Write(HPH_OUT_L, Word, {6})
    /\ InitPb[3] = Write(HPH_OUT_L, Word \ {7}, {})
    /\ InitPb[4] = Write(HPH_OUT_L, Word \ {7}, {})
    /\ InitPb[5] = Other("master", 0)
    /\ \A i \in 1..5 : Bare(InitPb[i]) = InitPb[i]
<1>1. /\ Len(InitPb) = 5
      /\ InitPb[1] = Write(AUDIOSET1, {}, {5, 6})
      /\ InitPb[2] = Write(HPH_OUT_L, Word, {6})
      /\ InitPb[3] = Write(HPH_OUT_L, Word \ {7}, {})
      /\ InitPb[4] = Write(HPH_OUT_L, Word \ {7}, {})
      /\ InitPb[5] = Other("master", 0)
  BY DEF InitPb, WriteOr, WriteAnd
<1>2. /\ \A reg, keep, set : Bare(Write(reg, keep, set)) = Write(reg, keep, set)
      /\ \A kind, reg : Bare(Other(kind, reg)) = Other(kind, reg)
  BY DEF Bare, Write, Other
<1>3. \A i \in 1..5 : i = 1 \/ i = 2 \/ i = 3 \/ i = 4 \/ i = 5
  OBVIOUS
<1> QED BY <1>1, <1>2, <1>3, Mixers

LEMMA BarePath ==
    ASSUME NEW e \in MixerEntry, Bare(e) \in PathEntry
    PROVE  e \in PathEntry
<1>1. e \in Entry /\ Bare(e).kind = e.kind /\ Bare(e).reg = e.reg /\ Bare(e).keep = e.keep
      /\ Bare(e).set = e.set
  BY BareKind DEF MixerEntry
<1> QED BY <1>1 DEF PathEntry, KeepsPaths

LEMMA StageFirst ==
    ASSUME NEW regs \in [Regs -> SUBSET Word], NEW t \in Seq(PathEntry)
    PROVE  Stage(LoadHead(InitPb, regs) \o t, 0)
<1> DEFINE h == LoadHead(InitPb, regs)
<1>1. InitPb \in Seq(Entry) /\ InitPb # << >>
  BY InitPbType DEF Transfers
<1>2. h \in Seq(Entry) /\ Len(h) = 5 /\ \A i \in 1..5 : Bare(h[i]) = Bare(InitPb[i])
  BY <1>1, InitPbIs, LoadHeadIs
<1> HIDE DEF h
<1>3. t \in Seq(Entry) /\ Len(t) \in Nat /\ \A i \in 1 .. Len(t) : t[i] \in PathEntry
  BY PathBase
<1>4. /\ Len(h \o t) = 5 + Len(t)
      /\ \A i \in 1..5 : (h \o t)[i] = h[i]
      /\ \A i \in 1 .. Len(t) : (h \o t)[5 + i] = t[i]
  <2>1. /\ Len(h \o t) = Len(h) + Len(t)
        /\ \A i \in 1 .. Len(h) : (h \o t)[i] = h[i]
        /\ \A i \in 1 .. Len(t) : (h \o t)[Len(h) + i] = t[i]
    BY <1>2, <1>3, CatIs
  <2>2. Len(h) = 5
    BY <1>2
  <2> QED BY <2>1, <2>2
<1>5. \A i \in 6 .. 5 + Len(t) : (h \o t)[i] \in PathEntry
  <2> TAKE i \in 6 .. 5 + Len(t)
  <2>1. i - 5 \in 1 .. Len(t) /\ 5 + (i - 5) = i
    BY <1>3
  <2> QED BY <1>3, <1>4, <2>1
<1>6. \A i \in 1..5 : Bare((h \o t)[i]) = InitPb[0 + i]
  BY <1>2, <1>4, InitPbIs
<1>7. Stage(h \o t, 0)
  BY <1>3, <1>4, <1>5, <1>6 DEF Stage
<1> QED BY <1>7 DEF h

LEMMA StageNext ==
    ASSUME NEW es \in Seq(MixerEntry), NEW k \in {0, 1}, Stage(es, k),
           NEW regs \in [Regs -> SUBSET Word]
    PROVE  Tail(es) # << >> /\ Stage(LoadHead(Expand(Tail(es)), regs), k + 1)
<1> DEFINE t == Tail(es)
           s == LoadHead(t, regs)
<1>1. Len(es) \in Nat /\ Len(es) >= 5 - k /\ es \in Seq(Entry) /\ es # << >>
  BY EmptyIff DEF Stage, MixerEntry
<1>2. t \in Seq(Entry) /\ Len(t) = Len(es) - 1 /\ \A i \in 1 .. Len(es) - 1 : t[i] = es[i + 1]
  BY <1>1, TailIs
<1>3. /\ \A i \in 1 .. 5 - k : Bare(es[i]) = InitPb[k + i]
      /\ \A i \in 6 - k .. Len(es) : es[i] \in PathEntry
  BY DEF Stage
<1> HIDE DEF t
<1>4. Len(t) > 0 /\ t # << >> /\ Head(t) = t[1] /\ t[1] = es[2]
  BY <1>1, <1>2, EmptyIff, TailIs
<1>5. Head(t).kind = "write"
  <2>1. Bare(es[2]) = InitPb[k + 2] /\ es[2] \in Entry
    BY <1>1, <1>3
  <2>2. k + 2 = 2 \/ k + 2 = 3
    OBVIOUS
  <2>3. InitPb[k + 2].kind = "write"
    BY <2>2, InitPbIs DEF Write
  <2> QED BY <1>4, <2>1, <2>3, BareKind
<1>6. Expand(t) = t
  BY <1>5 DEF Expand
<1>7. /\ Len(s) = Len(t)
      /\ \A i \in 2 .. Len(t) : s[i] = t[i]
      /\ \A i \in 1 .. Len(t) : Bare(s[i]) = Bare(t[i])
  BY <1>2, <1>4, LoadHeadIs
<1> HIDE DEF s
<1>8. \A i \in 1 .. 5 - (k + 1) : Bare(s[i]) = InitPb[(k + 1) + i]
  <2> TAKE i \in 1 .. 5 - (k + 1)
  <2>1. i \in 1 .. Len(t) /\ i \in 1 .. Len(es) - 1 /\ i + 1 \in 1 .. 5 - k /\ k + (i + 1) = (k + 1) + i
    BY <1>1, <1>2
  <2> QED BY <1>2, <1>3, <1>7, <2>1
<1>9. \A i \in 6 - (k + 1) .. Len(s) : s[i] \in PathEntry
  <2> TAKE i \in 6 - (k + 1) .. Len(s)
  <2>1. i \in 2 .. Len(t) /\ i \in 1 .. Len(es) - 1 /\ i + 1 \in 6 - k .. Len(es)
    BY <1>1, <1>2, <1>7
  <2> QED BY <1>2, <1>3, <1>7, <2>1
<1>10. Len(s) >= 5 - (k + 1)
  BY <1>1, <1>2, <1>7
<1>11. Stage(s, k + 1)
  BY <1>8, <1>9, <1>10 DEF Stage
<1> QED BY <1>4, <1>6, <1>11 DEF s, t

LEMMA StageLast ==
    ASSUME NEW es \in Seq(MixerEntry), Stage(es, 2)
    PROVE  Tail(es) \in Seq(PathEntry) /\ Tail(es) # << >>
<1> DEFINE t == Tail(es)
<1>1. Len(es) \in Nat /\ Len(es) >= 3 /\ es \in Seq(Entry) /\ es # << >>
  BY EmptyIff DEF Stage, MixerEntry
<1>2. t \in Seq(MixerEntry) /\ Len(t) = Len(es) - 1 /\ \A i \in 1 .. Len(es) - 1 : t[i] = es[i + 1]
  BY <1>1
<1>3. Bare(es[2]) = InitPb[4] /\ Bare(es[3]) = InitPb[5]
  <2>1. \A i \in 1 .. 3 : Bare(es[i]) = InitPb[2 + i]
    BY DEF Stage
  <2>2. Bare(es[2]) = InitPb[2 + 2] /\ Bare(es[3]) = InitPb[2 + 3]
    BY <2>1
  <2> QED BY <2>2
<1>4. es[2] \in PathEntry /\ es[3] \in PathEntry
  BY <1>1, <1>3, InitPbIs, PathLists, BarePath
<1>5. \A i \in 4 .. Len(es) : es[i] \in PathEntry
  BY DEF Stage
<1>6. \A i \in 1 .. Len(t) : t[i] \in PathEntry
  <2> TAKE i \in 1 .. Len(t)
  <2>1. i + 1 = 2 \/ i + 1 = 3 \/ i + 1 \in 4 .. Len(es)
    BY <1>1, <1>2
  <2> QED BY <1>1, <1>2, <1>4, <1>5, <2>1
<1> HIDE DEF t
<1>7. t \in Seq(PathEntry) /\ t # << >>
  BY <1>1, <1>2, <1>6, EmptyIff
<1> QED BY <1>7 DEF t

\* What a write that keeps the paths does to the registers.
LEMMA PathWrite ==
    ASSUME NEW e \in PathEntry, e.kind = "write", NEW regs \in [Regs -> SUBSET Word]
    PROVE  LET new == [regs EXCEPT ![e.reg] = (regs[e.reg] \cap e.keep) \cup e.set]
           IN  /\ PlayGood(regs) => PlayGood(new)
               /\ RecGood(regs) => RecGood(new)
               /\ {5, 6} \subseteq regs[AUDIOSET1] => {5, 6} \subseteq new[AUDIOSET1]
               /\ 6 \in regs[HPH_OUT_L] => 6 \in new[HPH_OUT_L]
               /\ 7 \in regs[AUDIOSET1] => 7 \in new[AUDIOSET1]
<1>1. KeepsPaths(e) /\ e.reg \in Regs
  BY DEF PathEntry, MixerEntry, Entry
<1>2. {HPH_OUT_L, AUDIOSET1, ADC_L} \subseteq Regs
  BY DEF Regs
<1> QED BY <1>1, <1>2 DEF KeepsPaths, PlayGood, RecGood

\* A beginning operation, to who looks at lists and registers only.
LEMMA BeginIs ==
    ASSUME Core, NEW p \in Procs, NEW o, NEW es, Begin(p, o, es)
    PROVE  /\ op[p] = "none" /\ op'[p] = o /\ todo'[p] = es
           /\ \A q \in Procs \ {p} : op'[q] = op[q] /\ todo'[q] = todo[q]
           /\ i2c_lock' = (IF i2c_lock = None THEN p ELSE i2c_lock)
           /\ ~lost /\ ~crossed /\ ~timedOut
           /\ UNCHANGED <<shadow, chip, bus, sansa_active_rec, lost, timedOut>>
           /\ crossed' = (o \in Selecting /\ \E q \in Procs : op[q] \in Selecting)
           /\ shadow \in [Regs -> SUBSET Word]
<1>1. /\ op \in [Procs -> Ops] /\ todo \in [Procs -> Seq(Entry)]
      /\ shadow \in [Regs -> SUBSET Word]
  BY DEF Core, BusOK
<1>2. /\ op[p] = "none" /\ ~lost /\ ~crossed /\ ~timedOut
      /\ op' = [op EXCEPT ![p] = o] /\ todo' = [todo EXCEPT ![p] = es]
      /\ i2c_lock' = (IF i2c_lock = None THEN p ELSE i2c_lock)
      /\ crossed' = (crossed \/ (o \in Selecting /\ \E q \in Procs : op[q] \in Selecting))
      /\ UNCHANGED <<shadow, chip, bus, sansa_active_rec, lost, timedOut>>
  BY DEF Begin, Spoiled, wires
<1> QED BY <1>1, <1>2

\* An operation that has nothing to do with opening and closing /dev/dsp.
LEMMA PathBeginOther ==
    ASSUME Core, PathInv, NEW p \in Procs, NEW o \in Ops \ (DspOps \cup {"none"}), NEW es,
           Begin(p, o, es), o \in Readers \/ es \in Seq(PathEntry), UNCHANGED <<dsp, mode>>
    PROVE  PathInv'
<1>1. /\ op'[p] = o /\ todo'[p] = es
      /\ \A q \in Procs \ {p} : op'[q] = op[q] /\ todo'[q] = todo[q]
      /\ ~lost /\ ~timedOut /\ UNCHANGED <<shadow, chip, dsp, mode>>
  BY BeginIs
<1>2. DspInv'
  <2>1. \A q \in Procs : op'[q] \in DspOps => op[q] = op'[q]
    BY <1>1
  <2> QED BY <1>1, <2>1 DEF PathInv, DspInv, DspOps
<1>3. LooseInv'
  BY <1>1 DEF PathInv, LooseInv, Reading
<1>4. OpenGood'
  BY <1>1 DEF PathInv, OpenGood
<1>5. OpeningGood'
  BY <1>1 DEF PathInv, OpeningGood, DspOps, OpeningPlay, OpeningRec
<1> QED BY <1>2, <1>3, <1>4, <1>5 DEF PathInv

LEMMA PathRequest ==
    ASSUME Core, PathInv, NEW p \in Procs, Request(p)
    PROVE  PathInv'
<1>1. /\ shadow \in [Regs -> SUBSET Word] /\ vol \in [l : 0..53, r : 0..53]
  BY DEF Core, BusOK, SettingsType
<1>2. \A es \in Seq(PathEntry) : LoadAll(es, shadow) \in Seq(PathEntry)
          /\ (es # << >> => LoadHead(es, shadow) \in Seq(PathEntry))
  BY <1>1, PathBase, LoadIn
<1>3. \A o \in Ops \ (DspOps \cup {"none"}) : \A es :
          Begin(p, o, es) /\ (o \in Readers \/ es \in Seq(PathEntry)) /\ UNCHANGED <<dsp, mode>>
              => PathInv'
  BY PathBeginOther
<1>4. {"pcm", "level", "mic", "line", "adc", "rtc"} \subseteq Ops \ (DspOps \cup {"none"})
  BY DEF Ops, DspOps
<1>5. ASSUME NEW lr \in PcmLevels, SetPcm(p, lr[1], lr[2]) PROVE PathInv'
  <2>1. lr[1] \in 0..100 /\ lr[2] \in 0..100
    BY CodecAssumption
  <2>2. vol' \in [l : 0..53, r : 0..53]
    BY <1>5, <2>1, PercentType DEF SetPcm
  <2>3. LoadAll(MasterVol(vol'), shadow) \in Seq(PathEntry)
    BY <1>2, <2>2, PathLists
  <2> QED BY <1>3, <1>4, <1>5, <2>3 DEF SetPcm
<1>6. ASSUME NEW l, NEW r, SetLine(p, l, r) PROVE PathInv'
  <2>1. SetRecVol(l, r) \in Seq(PathEntry) /\ SetRecVol(l, r) # << >>
    BY PathLists, RecVolType DEF Transfers
  <2> QED BY <1>2, <1>3, <1>4, <1>6, <2>1 DEF SetLine
<1>7. ASSUME NEW v, SetMic(p, v) PROVE PathInv'
  <2>1. SetMicVol(v) \in Seq(PathEntry) /\ SetMicVol(v) # << >>
    BY PathLists, MicVolType DEF Transfers
  <2> QED BY <1>2, <1>3, <1>4, <1>7, <2>1 DEF SetMic
<1>8. \A src : LoadAll(MasterVol(vol), shadow) \o EnableRecording(src) \in Seq(PathEntry)
  <2>1. /\ LoadAll(MasterVol(vol), shadow) \in Seq(PathEntry)
        /\ \A src : EnableRecording(src) \in Seq(PathEntry)
    BY <1>1, <1>2, PathLists
  <2>2. \A a, b \in Seq(PathEntry) : a \o b \in Seq(PathEntry)
    OBVIOUS
  <2> QED BY <2>1, <2>2
<1>9. ASSUME NEW src \in {"mic", "line"}, SetRecSrc(p, src) PROVE PathInv'
  BY <1>3, <1>4, <1>8, <1>9 DEF SetRecSrc
<1>10. ASSUME ReadAdc(p) \/ ReadRtc(p) PROVE PathInv'
  BY <1>3, <1>4, <1>10 DEF ReadAdc, ReadRtc, Readers
<1>11. dsp = "closed" => \A q \in Procs : op[q] \notin DspOps
  BY DEF PathInv, DspInv, DspOps
<1>12. dsp = "open" => \A q \in Procs : op[q] \notin DspOps
  BY DEF PathInv, DspInv, DspOps
<1>13. ASSUME NEW m \in SUBSET {"r", "w"}, OpenPlay(p, m) PROVE PathInv'
  <2> DEFINE t == IF "r" \in m THEN << Other("enable", 0) >> ELSE << >>
             h == LoadHead(InitPb, shadow)
             es == h \o t
  <2>1. Begin(p, "open", es) /\ dsp = "closed" /\ dsp' = "opening" /\ mode' = m
    BY <1>13 DEF OpenPlay
  <2>2. t \in Seq(PathEntry) /\ t \in Seq(Entry)
    BY PathLists, PathBase
  <2>3. Stage(es, 0)
    BY <1>1, <2>2, StageFirst
  <2>4. "r" \in m => EndsRec(es)
    <3>1. "r" \in m => EndsRec(t)
      BY DEF EndsRec, Other
    <3>2. h \in Seq(Entry)
      BY <1>1, InitPbType, LoadListType DEF Transfers
    <3> QED BY <2>2, <3>1, <3>2, EndsCat
  <2> HIDE DEF es
  <2>5. /\ op'[p] = "open" /\ todo'[p] = es
        /\ \A q \in Procs \ {p} : op'[q] = op[q] /\ todo'[q] = todo[q]
    BY <2>1, BeginIs
  <2>6. DspInv'
    BY <1>11, <2>1, <2>5 DEF DspInv, DspOps
  <2>7. LooseInv'
    BY <2>5 DEF PathInv, LooseInv, Reading
  <2>8. OpenGood'
    BY <2>1 DEF OpenGood
  <2>9. OpeningGood'
    BY <1>11, <2>1, <2>3, <2>4, <2>5 DEF OpeningGood, OpeningPlay, OpeningRec, DspOps
  <2> QED BY <2>6, <2>7, <2>8, <2>9 DEF PathInv
<1>14. ASSUME OpenRecord(p) PROVE PathInv'
  <2> DEFINE a == LoadAll(MasterVol(vol), shadow)
             b == EnableRecording(sansa_active_rec)
             es == a \o b
  <2>1. Begin(p, "record", es) /\ dsp = "closed" /\ dsp' = "opening" /\ mode' = {"r"}
    BY <1>14 DEF OpenRecord
  <2>2. es \in Seq(PathEntry)
    BY <1>8
  <2>3. EndsRec(es)
    <3>1. a \in Seq(Entry)
      BY <1>1, MasterVolType, LoadListType DEF Transfers
    <3> QED BY <3>1, EndsEnable, EndsCat
  <2> HIDE DEF es
  <2>4. /\ op'[p] = "record" /\ todo'[p] = es
        /\ \A q \in Procs \ {p} : op'[q] = op[q] /\ todo'[q] = todo[q]
    BY <2>1, BeginIs
  <2>5. DspInv'
    BY <1>11, <2>1, <2>4 DEF DspInv, DspOps
  <2>6. LooseInv'
    BY <2>2, <2>4 DEF PathInv, LooseInv, Reading
  <2>7. OpenGood'
    BY <2>1 DEF OpenGood
  <2>8. OpeningGood'
    BY <1>11, <2>1, <2>3, <2>4 DEF OpeningGood, OpeningRec, DspOps
  <2> QED BY <2>5, <2>6, <2>7, <2>8 DEF PathInv
<1>15. ASSUME Close(p) PROVE PathInv'
  <2>1. Begin(p, "close", LoadHead(CloseCodec, shadow)) /\ dsp = "open" /\ dsp' = "closing"
        /\ mode' = mode
    BY <1>15 DEF Close
  <2>2. /\ op'[p] = "close"
        /\ \A q \in Procs \ {p} : op'[q] = op[q] /\ todo'[q] = todo[q]
    BY <2>1, BeginIs
  <2>3. DspInv'
    BY <1>12, <2>1, <2>2 DEF DspInv, DspOps
  <2>4. LooseInv'
    BY <2>2 DEF PathInv, LooseInv, Reading
  <2>5. OpenGood'
    BY <2>1 DEF OpenGood
  <2>6. OpeningGood'
    BY <1>12, <2>1, <2>2 DEF OpeningGood, DspOps
  <2> QED BY <2>3, <2>4, <2>5, <2>6 DEF PathInv
<1> QED BY <1>5, <1>6, <1>7, <1>9, <1>10, <1>13, <1>14, <1>15 DEF Request

LEMMA PathShape ==
    ASSUME Core, PathInv, NEW p \in Procs, i2c_lock = p, NEW rest, GoOn(p, rest),
           todo[p] \in Seq(Entry), todo[p] # << >>,
           rest = << >> \/ rest = Tail(todo[p]), shadow' \in [Regs -> SUBSET Word]
    PROVE  /\ DspInv' /\ LooseInv'
           /\ IF rest = << >> /\ op[p] \in {"open", "record"} THEN dsp' = "open" ELSE dsp' \in {dsp, "closed"}
           /\ dsp' # "closed" => mode' = mode
<1>1. /\ \A q \in Procs \ {p} : op'[q] = op[q] /\ todo'[q] = todo[q]
      /\ rest = << >> => op'[p] = "none" /\ todo'[p] = << >>
      /\ rest # << >> => op' = op /\ todo'[p] = LoadHead(Expand(rest), shadow')
  BY GoOnOthers DEF Core
<1>2. CASE rest # << >>
  <2>1. UNCHANGED <<dsp, mode>>
    BY <1>2 DEF GoOn
  <2>2. DspInv'
    BY <1>1, <1>2, <2>1 DEF PathInv, DspInv
  <2>3. ASSUME ~Reading(p), op[p] \notin {"open", "close"} PROVE todo'[p] \in Seq(PathEntry)
    <3>1. rest \in Seq(PathEntry)
      <4>1. todo[p] \in Seq(PathEntry)
        BY <2>3 DEF PathInv, LooseInv
      <4> QED BY <1>2, <4>1
    <3> QED BY <1>1, <1>2, <3>1, PathGoesOn
  <2>4. LooseInv'
    BY <1>1, <1>2, <2>3 DEF PathInv, LooseInv, Reading
  <2> QED BY <1>2, <2>1, <2>2, <2>4
<1>3. CASE rest = << >>
  <2>1. /\ dsp' = CASE op[p] \in {"open", "record"} -> "open"
                    [] op[p] = "close" -> "closed"
                    [] OTHER -> dsp
        /\ mode' = IF op[p] = "close" THEN {} ELSE mode
    BY <1>3 DEF GoOn
  <2>2. /\ op[p] \in {"open", "record"} => dsp' = "open" /\ mode' = mode
        /\ op[p] = "close" => dsp' = "closed"
        /\ op[p] \notin DspOps => dsp' = dsp /\ mode' = mode
    BY <2>1 DEF DspOps
  <2>3. op'[p] \notin DspOps /\ op'[p] \notin Readers
    BY <1>1, <1>3 DEF DspOps, Readers
  <2>4. DspInv'
    <3>1. \A q \in Procs : op'[q] \in DspOps => q # p /\ op'[q] = op[q] /\ dsp' = dsp /\ mode' = mode
      BY <1>1, <2>2, <2>3 DEF PathInv, DspInv, DspOps
    <3> QED BY <3>1 DEF PathInv, DspInv, DspOps
  <2>5. LooseInv'
    <3>1. << >> \in Seq(PathEntry)
      OBVIOUS
    <3> QED BY <1>1, <1>3, <3>1 DEF PathInv, LooseInv, Reading
  <2> QED BY <1>3, <2>2, <2>4, <2>5 DEF DspOps
<1> QED BY <1>2, <1>3

LEMMA PathSendWrite ==
    ASSUME Core, PathInv, NEW p \in Procs, SendWrite(p)
    PROVE  PathInv'
<1> DEFINE e == Head(todo[p])
           t == Tail(todo[p])
<1>1. /\ i2c_lock = p /\ ~Reading(p) /\ op[p] # "none"
      /\ e \in Entry /\ e.kind = "write" /\ e.reg \in Regs
      /\ todo[p] \in Seq(MixerEntry) /\ todo[p] # << >> /\ todo[p] \in Seq(Entry)
      /\ e = todo[p][1] /\ t \in Seq(MixerEntry)
      /\ GoOn(p, t)
      /\ bus = Idle /\ chip' = chip
      /\ ~timedOut => Agrees
      /\ shadow' \in [Regs -> SUBSET Word]
      /\ ~lost' => /\ ~lost
                   /\ shadow' = [shadow EXCEPT ![e.reg] = (shadow[e.reg] \cap e.keep) \cup e.set]
      /\ timedOut' = timedOut
  BY WriteIs
<1> HIDE DEF e
<1>2. /\ DspInv' /\ LooseInv'
      /\ IF t = << >> /\ op[p] \in {"open", "record"} THEN dsp' = "open" ELSE dsp' \in {dsp, "closed"}
      /\ dsp' # "closed" => mode' = mode
  BY <1>1, PathShape
<1>3. /\ \A q \in Procs \ {p} : op'[q] = op[q] /\ todo'[q] = todo[q]
      /\ t = << >> => op'[p] = "none" /\ todo'[p] = << >>
      /\ t # << >> => op' = op /\ todo'[p] = LoadHead(Expand(t), shadow')
  BY <1>1, GoOnOthers DEF Core
<1> SUFFICES ASSUME ~lost', ~timedOut' PROVE OpenGood' /\ OpeningGood'
  BY <1>2 DEF PathInv
<1>4. /\ ~lost /\ ~timedOut /\ OpenGood /\ OpeningGood /\ Agrees
      /\ shadow' = [shadow EXCEPT ![e.reg] = (shadow[e.reg] \cap e.keep) \cup e.set]
      /\ shadow \in [Regs -> SUBSET Word]
  BY <1>1 DEF PathInv, Core, BusOK
<1>5. ASSUME e \in PathEntry
      PROVE  /\ PlayGood(shadow) => PlayGood(shadow')
             /\ RecGood(shadow) => RecGood(shadow')
             /\ {5, 6} \subseteq shadow[AUDIOSET1] => {5, 6} \subseteq shadow'[AUDIOSET1]
             /\ 6 \in shadow[HPH_OUT_L] => 6 \in shadow'[HPH_OUT_L]
             /\ 7 \in shadow[AUDIOSET1] => 7 \in shadow'[AUDIOSET1]
  BY <1>1, <1>4, <1>5, PathWrite
<1>6. op[p] \notin {"open", "close"} => e \in PathEntry
  <2>1. op[p] \notin {"open", "close"} => todo[p] \in Seq(PathEntry)
    BY <1>1 DEF PathInv, LooseInv
  <2> QED BY <1>1, <2>1, EmptyIff
<1>7. Len(todo[p]) \in Nat \ {0} /\ Len(t) = Len(todo[p]) - 1 /\ (t = << >> <=> Len(todo[p]) = 1)
  <2>1. Len(todo[p]) \in Nat \ {0} /\ Len(t) = Len(todo[p]) - 1
    BY <1>1, TailIs
  <2>2. t = << >> <=> Len(t) = 0
    BY <1>1, EmptyIff
  <2> HIDE DEF t
  <2> QED BY <2>1, <2>2
\* The last two transfers of who records.
<1>8. ASSUME OpeningRec(p)
      PROVE  \/ t # << >> /\ EndsRec(LoadHead(Expand(t), shadow'))
             \/ /\ t # << >> /\ Len(todo'[p]) = 1 /\ Bare(todo'[p][1]) = PathOn
                /\ RecGood(shadow')
             \/ t = << >> /\ Bare(e) = PathOn /\ RecGood(shadow)
  <2>1. t \in Seq(Entry)
    BY <1>1, TailIs
  <2>2. Bare(e).kind = e.kind /\ Bare(e).reg = e.reg /\ Bare(e).set = e.set
    BY <1>1, BareKind
  <2>3. CASE EndsRec(todo[p]) /\ todo[p][Len(todo[p])].kind = "enable"
    <3>1. Len(todo[p]) > 1
      BY <1>1, <1>7, <2>3
    <3>2. EndsRec(t) /\ t # << >>
      BY <1>1, <1>7, <2>3, <3>1, EndsTail
    <3> QED BY <1>1, <2>1, <3>2, EndsGoOn
  <2>4. CASE EndsOn(todo[p]) /\ Len(todo[p]) > 2
    <3>1. EndsRec(todo[p])
      BY <1>7, <2>4 DEF EndsRec
    <3>2. EndsRec(t)
      BY <1>1, <2>4, <3>1, EndsTail
    <3>3. t # << >>
      BY <2>1, <3>2, EndsSome
    <3> QED BY <1>1, <2>1, <3>2, <3>3, EndsGoOn
  <2>5. CASE EndsOn(todo[p]) /\ Len(todo[p]) = 2
    <3>1. Bare(e) = AdcOn /\ Bare(todo[p][2]) = PathOn
      BY <1>1, <2>5 DEF EndsOn
    <3>2. Len(t) = 1 /\ t # << >> /\ t[1] = todo[p][2] /\ Head(t) = t[1] /\ t[1] \in Entry
      BY <1>1, <1>7, <2>1, <2>5, TailIs
    <3>3. Bare(t[1]) = PathOn /\ t[1].kind = "write"
      BY <3>1, <3>2, BareKind
    <3>4. Expand(t) = t
      BY <3>2, <3>3 DEF Expand
    <3>5. Len(todo'[p]) = 1 /\ Bare(todo'[p][1]) = PathOn
      <4> HIDE DEF t
      <4>1. todo'[p] = LoadHead(t, shadow')
        BY <1>3, <3>2, <3>4
      <4>3. shadow' \in [Regs -> SUBSET Word]
        BY <1>1
      <4>2. /\ Len(LoadHead(t, shadow')) = Len(t)
            /\ \A i \in 1 .. Len(t) : Bare(LoadHead(t, shadow')[i]) = Bare(t[i])
        BY <2>1, <3>2, <4>3, LoadHeadIs
      <4> QED BY <3>2, <3>3, <4>1, <4>2
    <3>6. e.reg = ADC_L /\ e.set = {6}
      BY <2>2, <3>1 DEF AdcOn, WriteOr, Write
    <3>7. RecGood(shadow')
      BY <1>1, <1>4, <3>6 DEF RecGood
    <3> QED BY <3>2, <3>5, <3>7
  <2>6. CASE Len(todo[p]) = 1 /\ Bare(todo[p][1]) = PathOn /\ RecGood(shadow)
    BY <1>1, <1>7, <2>6
  <2>7. EndsOn(todo[p]) => Len(todo[p]) > 1
    BY DEF EndsOn
  <2>8. Len(todo[p]) > 1 => Len(todo[p]) = 2 \/ Len(todo[p]) > 2
    <3>1. \A n \in Nat : n > 1 => n = 2 \/ n > 2
      OBVIOUS
    <3> QED BY <1>7, <3>1
  <2> QED BY <1>8, <2>3, <2>4, <2>5, <2>6, <2>7, <2>8 DEF OpeningRec, EndsRec
<1> \A es \in Seq(PathEntry) : es # << >> => LoadHead(Expand(es), shadow') \in Seq(PathEntry)
  BY <1>1, PathGoesOn
\* The first transfers of who plays.
<1>9. ASSUME OpeningPlay(p), t # << >>
      PROVE  OpeningPlay(p)'
  <2>1. todo'[p] = LoadHead(Expand(t), shadow')
    BY <1>3, <1>9
  <2>2. Bare(e).kind = e.kind /\ Bare(e).reg = e.reg /\ Bare(e).keep = e.keep /\ Bare(e).set = e.set
    BY <1>1, BareKind
  <2>3. \A k \in 0..2 : Stage(todo[p], k) => Bare(e) = InitPb[k + 1]
    BY <1>1 DEF Stage
  <2>4. CASE Stage(todo[p], 0)
    <3>1. Bare(e) = Write(AUDIOSET1, {}, {5, 6})
      <4>1. Bare(e) = InitPb[0 + 1]
        BY <2>3, <2>4
      <4> QED BY <4>1, InitPbIs
    <3>2. e.reg = AUDIOSET1 /\ e.set = {5, 6}
      BY <2>2, <3>1 DEF Write
    <3>3. {5, 6} \subseteq shadow'[AUDIOSET1]
      BY <1>1, <1>4, <3>2
    <3>4. Stage(todo'[p], 0 + 1)
      BY <1>1, <2>1, <2>4, StageNext
    <3> QED BY <3>3, <3>4 DEF OpeningPlay
  <2>5. CASE Stage(todo[p], 1) /\ {5, 6} \subseteq shadow[AUDIOSET1]
    <3>1. Bare(e) = Write(HPH_OUT_L, Word, {6})
      <4>1. Bare(e) = InitPb[1 + 1]
        BY <2>3, <2>5
      <4> QED BY <4>1, InitPbIs
    <3>2. e.reg = HPH_OUT_L /\ e.set = {6}
      BY <2>2, <3>1 DEF Write
    <3>3. {5, 6} \subseteq shadow'[AUDIOSET1] /\ 6 \in shadow'[HPH_OUT_L]
      BY <1>1, <1>4, <2>5, <3>2, RegsDiffer
    <3>4. Stage(todo'[p], 1 + 1)
      BY <1>1, <2>1, <2>5, StageNext
    <3> QED BY <3>3, <3>4 DEF OpeningPlay
  <2>6. CASE Stage(todo[p], 2) /\ {5, 6} \subseteq shadow[AUDIOSET1] /\ 6 \in shadow[HPH_OUT_L]
    <3>1. Bare(e) = Write(HPH_OUT_L, Word \ {7}, {})
      <4>1. Bare(e) = InitPb[2 + 1]
        BY <2>3, <2>6
      <4> QED BY <4>1, InitPbIs
    <3>2. e.reg = HPH_OUT_L /\ e.set = {} /\ e.keep = Word \ {7}
      BY <2>2, <3>1 DEF Write
    <3>3. PlayGood(shadow')
      <4>1. shadow'[HPH_OUT_L] = shadow[HPH_OUT_L] \cap (Word \ {7}) /\ shadow'[AUDIOSET1] = shadow[AUDIOSET1]
        BY <1>1, <1>4, <3>2, RegsDiffer
      <4> QED BY <2>6, <4>1 DEF PlayGood, Word
    <3>4. t \in Seq(PathEntry)
      BY <1>1, <2>6, StageLast
    <3>5. todo'[p] \in Seq(PathEntry)
      BY <1>9, <2>1, <3>4
    <3> QED BY <3>3, <3>5 DEF OpeningPlay
  <2>7. CASE todo[p] \in Seq(PathEntry) /\ PlayGood(shadow)
    <3>1. e \in PathEntry /\ t \in Seq(PathEntry)
      BY <1>1, <2>7, EmptyIff
    <3>2. todo'[p] \in Seq(PathEntry)
      BY <1>9, <2>1, <3>1
    <3> QED BY <1>5, <2>7, <3>1, <3>2 DEF OpeningPlay
  <2> QED BY <1>9, <2>4, <2>5, <2>6, <2>7 DEF OpeningPlay
<1>10. ASSUME OpeningPlay(p), t = << >>
       PROVE  PlayGood(shadow) /\ PlayGood(shadow')
  <2>1. ~Stage(todo[p], 0) /\ ~Stage(todo[p], 1) /\ ~Stage(todo[p], 2)
    BY <1>7, <1>10 DEF Stage
  <2>2. todo[p] \in Seq(PathEntry) /\ PlayGood(shadow)
    BY <1>10, <2>1 DEF OpeningPlay
  <2>3. e \in PathEntry
    BY <1>1, <2>2, EmptyIff
  <2> QED BY <1>5, <2>2, <2>3
<1>11. OpenGood'
  <2> SUFFICES ASSUME dsp' = "open"
               PROVE  /\ "w" \in mode => PlayGood(shadow') /\ PlayGood(chip)
                      /\ "r" \in mode => RecGood(shadow') /\ RecGood(chip) /\ 7 \in shadow'[AUDIOSET1]
    BY <1>1, <1>2 DEF OpenGood
  <2>1. CASE t = << >> /\ op[p] \in {"open", "record"}
    <3>1. "w" \in mode => op[p] = "open"
      BY <2>1 DEF PathInv, DspInv
    <3>2. "w" \in mode => PlayGood(shadow') /\ PlayGood(chip)
      BY <1>4, <1>10, <2>1, <3>1, RegsDiffer DEF OpeningGood, Agrees, PlayGood, Byte
    <3>3. ASSUME "r" \in mode PROVE RecGood(shadow') /\ RecGood(chip) /\ 7 \in shadow'[AUDIOSET1]
      <4>1. OpeningRec(p)
        BY <1>4, <2>1, <3>3 DEF OpeningGood
      <4>2. Bare(e) = PathOn /\ RecGood(shadow)
        BY <1>8, <2>1, <4>1
      <4>3. e.reg = AUDIOSET1 /\ e.set = {7}
        BY <1>1, <4>2, BareKind DEF PathOn, WriteOr, Write
      <4> QED BY <1>1, <1>4, <4>2, <4>3, RegsDiffer DEF RecGood, Agrees, Byte
    <3> QED BY <3>2, <3>3
  <2>2. CASE ~(t = << >> /\ op[p] \in {"open", "record"})
    <3>1. dsp = "open"
      BY <1>2, <2>2
    <3>2. op[p] \notin {"open", "close"}
      BY <3>1 DEF PathInv, DspInv
    <3> QED BY <1>4, <1>5, <1>6, <3>1, <3>2 DEF OpenGood
  <2> QED BY <2>1, <2>2
<1>12. OpeningGood'
  <2> SUFFICES ASSUME NEW q \in Procs, op'[q] \in {"open", "record"}
               PROVE  /\ op'[q] = "open" => OpeningPlay(q)'
                      /\ "r" \in mode' => OpeningRec(q)'
    BY DEF OpeningGood
  <2>1. op[q] = op'[q] /\ dsp = "opening" /\ (q = p => t # << >>)
    BY <1>3 DEF PathInv, DspInv
  <2>2. ~(t = << >> /\ op[p] \in {"open", "record"}) => mode' = mode
    <3>1. ~(t = << >> /\ op[p] = "close")
      BY <2>1 DEF PathInv, DspInv
    <3>2. CASE t = << >> /\ op[p] \notin {"open", "record"}
      <4>1. mode' = IF op[p] = "close" THEN {} ELSE mode
        BY <1>1, <3>2 DEF GoOn
      <4> QED BY <3>1, <3>2, <4>1
    <3>3. CASE t # << >>
      BY <1>1, <3>3 DEF GoOn
    <3> QED BY <3>2, <3>3
  <2>3. CASE q = p
    <3>1. mode' = mode /\ t # << >>
      BY <2>1, <2>2, <2>3
    <3>2. op'[q] = "open" => OpeningPlay(q)'
      BY <1>4, <1>9, <2>1, <2>3, <3>1 DEF OpeningGood
    <3>3. ASSUME "r" \in mode PROVE OpeningRec(q)'
      <4>1. OpeningRec(p)
        BY <1>4, <2>1, <2>3, <3>3 DEF OpeningGood
      <4>2. todo'[p] = LoadHead(Expand(t), shadow')
        BY <1>3, <3>1
      <4>3. \/ EndsRec(todo'[p])
            \/ Len(todo'[p]) = 1 /\ Bare(todo'[p][1]) = PathOn /\ RecGood(shadow')
        BY <1>8, <3>1, <4>1, <4>2
      <4> QED BY <2>3, <4>3 DEF OpeningRec
    <3> QED BY <3>1, <3>2, <3>3
  <2>4. CASE q # p
    <3>1. op[p] \notin DspOps
      BY <2>1, <2>4 DEF PathInv, DspInv, DspOps
    <3>2. e \in PathEntry /\ mode' = mode /\ todo'[q] = todo[q]
      BY <1>3, <1>6, <2>2, <2>4, <3>1 DEF DspOps
    <3>3. OpeningPlay(q) => OpeningPlay(q)'
      BY <1>5, <3>2 DEF OpeningPlay
    <3>4. OpeningRec(q) => OpeningRec(q)'
      BY <1>5, <3>2 DEF OpeningRec
    <3> QED BY <1>4, <2>1, <3>2, <3>3, <3>4 DEF OpeningGood
  <2> QED BY <2>3, <2>4
<1> QED BY <1>11, <1>12

LEMMA PathNext == Core /\ PathInv /\ [Next]_vars => PathInv'
<1> SUFFICES ASSUME Core, PathInv, [Next]_vars PROVE PathInv'
  OBVIOUS
<1>1. ASSUME Complete PROVE PathInv'
  <2>1. /\ ~timedOut /\ UNCHANGED <<shadow, op, todo, dsp, mode, lost, timedOut>>
        /\ chip' = IF bus.kind = "write" /\ bus.reg \in Regs
                   THEN [chip EXCEPT ![bus.reg] = bus.val] ELSE chip
    BY <1>1 DEF Complete, codec, procs, ghosts
  <2>2. /\ DspInv' /\ LooseInv' /\ (OpeningGood => OpeningGood')
    BY <2>1 DEF PathInv, DspInv, LooseInv, OpeningGood, OpeningPlay, OpeningRec, Reading
  <2>3. \A r \in Regs : chip'[r] = chip[r] \/ chip'[r] = shadow[r] \cap Byte
    BY <2>1 DEF Core, BusOK, ShadowAgrees, Carried
  <2>4. OpenGood => OpenGood'
    BY <2>1, <2>3, RegsDiffer DEF OpenGood, PlayGood, RecGood, Byte
  <2> QED BY <2>1, <2>2, <2>4 DEF PathInv
<1>2. ASSUME Boot PROVE PathInv'
  <2>1. dsp' = "closed" /\ \A p \in Procs : op[p] = "none" /\ op'[p] = op[p] /\ todo'[p] = todo[p]
    BY <1>2 DEF Boot, procs
  <2>2. DspInv' /\ OpenGood' /\ OpeningGood'
    BY <2>1 DEF DspInv, DspOps, OpenGood, OpeningGood
  <2>3. LooseInv'
    BY <2>1 DEF PathInv, LooseInv, Reading
  <2> QED BY <2>2, <2>3 DEF PathInv
<1>3. ASSUME NEW p \in Procs, Acquire(p) PROVE PathInv'
  <2>1. UNCHANGED <<chip, shadow, op, todo, dsp, mode, lost, timedOut>>
    BY <1>3 DEF Acquire, codec, wires, ghosts
  <2> QED BY <2>1 DEF PathInv, DspInv, LooseInv, OpenGood, OpeningGood, OpeningPlay, OpeningRec,
                      Reading
<1>4. ASSUME UNCHANGED vars PROVE PathInv'
  <2>1. UNCHANGED <<chip, shadow, op, todo, dsp, mode, lost, timedOut>>
    BY <1>4 DEF vars, codec, wires, procs, ghosts
  <2> QED BY <2>1 DEF PathInv, DspInv, LooseInv, OpenGood, OpeningGood, OpeningPlay, OpeningRec,
                      Reading
<1>5. ASSUME NEW p \in Procs, ReaderStep(p) PROVE PathInv'
  <2>1. /\ Reading(p) /\ UNCHANGED <<chip, shadow, dsp, mode, lost, timedOut>>
        /\ \A q \in Procs \ {p} : op'[q] = op[q] /\ todo'[q] = todo[q]
        /\ op'[p] = op[p] \/ (op'[p] = "none" /\ todo'[p] = << >>)
        /\ ~Reading(p)' => todo'[p] = << >> /\ op'[p] = "none"
    BY <1>5, ReaderIs
  <2>2. op[p] \notin DspOps /\ op'[p] \notin DspOps
    BY <2>1 DEF Reading, Readers, DspOps
  <2>3. \A q \in Procs : op'[q] \in DspOps => q # p /\ op'[q] = op[q] /\ todo'[q] = todo[q]
    BY <2>1, <2>2
  <2>4. DspInv'
    BY <2>1, <2>3 DEF PathInv, DspInv, DspOps
  <2>5. LooseInv'
    <3>1. << >> \in Seq(PathEntry)
      OBVIOUS
    <3> QED BY <2>1, <3>1 DEF PathInv, LooseInv, Reading
  <2>6. OpenGood => OpenGood'
    BY <2>1 DEF OpenGood
  <2>7. OpeningGood => OpeningGood'
    BY <2>1, <2>3 DEF OpeningGood, OpeningPlay, OpeningRec, DspOps
  <2> QED BY <2>1, <2>4, <2>5, <2>6, <2>7 DEF PathInv
<1>6. ASSUME NEW p \in Procs, TimeOut(p) PROVE PathInv'
  <2>1. /\ i2c_lock = p /\ timedOut' = TRUE /\ shadow' \in [Regs -> SUBSET Word]
        /\ GoOn(p, << >>) \/ GoOn(p, Tail(todo[p]))
        /\ todo[p] \in Seq(Entry) /\ todo[p] # << >>
    BY <1>6, TimeOutIs
  <2>2. DspInv' /\ LooseInv'
    BY <2>1, PathShape
  <2> QED BY <2>1, <2>2 DEF PathInv
<1> QED BY <1>1, <1>2, <1>3, <1>4, <1>5, <1>6, PathRequest, PathSendWrite
        DEF Next, Step, ReaderStep

LEMMA PathInit == Init => PathInv
<1> SUFFICES ASSUME Init PROVE PathInv
  OBVIOUS
<1>1. dsp = "closed" /\ \A p \in Procs : op[p] = "none" /\ todo[p] = << >>
  BY DEF Init
<1>2. << >> \in Seq(PathEntry)
  OBVIOUS
<1> QED BY <1>1, <1>2 DEF PathInv, DspInv, DspOps, LooseInv, OpenGood, OpeningGood

\* While /dev/dsp is open the sound gets through: no volume, level or source
\* that another process sets, and no reader of the clock, ever mutes what
\* as3514_init_pb and as3514_enable_recording have switched on, unless a
\* value that was stale when it was written back undoes it.
THEOREM PathsStayOn == Spec => []PathsOn
<1>1. Core /\ PathInv => PathsOn
  <2> SUFFICES ASSUME Core, PathInv, dsp = "open", ~lost, ~timedOut
               PROVE  /\ "w" \in mode => /\ 6 \in chip[HPH_OUT_L] /\ 7 \notin chip[HPH_OUT_L]
                                         /\ {5, 6} \subseteq chip[AUDIOSET1]
                      /\ "r" \in mode => /\ 6 \in chip[ADC_L]
                                         /\ 7 \in chip[AUDIOSET1] \/ Carried(AUDIOSET1)
    BY DEF PathsOn
  <2>1. /\ "w" \in mode => PlayGood(chip)
        /\ "r" \in mode => RecGood(chip) /\ 7 \in shadow[AUDIOSET1]
    BY DEF PathInv, OpenGood
  <2>2. Carried(AUDIOSET1) \/ shadow[AUDIOSET1] \cap Byte = chip[AUDIOSET1]
    BY RegsDiffer DEF Core, ShadowAgrees
  <2> QED BY <2>1, <2>2 DEF PlayGood, RecGood, Byte
<1>2. Core /\ PathInv /\ [Next]_vars => (Core /\ PathInv)'
  BY CoreNext, PathNext
<1> QED BY <1>1, <1>2, CoreInit, PathInit, PTL DEF Spec

-----------------------------------------------------------------------------
(* The mixer's settings.  The volume is a field of four registers, the     *)
(* recording source one of two.  A transfer leaves a field alone or sets   *)
(* it to what it is to be; what matters is which operation has such a      *)
(* transfer ahead, and that it is the last to have one.                    *)

VolRegs   == {DAC_R, DAC_L, HPH_OUT_R, HPH_OUT_L}
SrcRegs   == {ADC_R, AUDIOSET1}
FieldRegs == VolRegs \cup SrcRegs
Mask(r)   == IF r = ADC_R THEN {6, 7} ELSE IF r = AUDIOSET1 THEN {0, 2} ELSE Low5

PartOf(r, v) ==
    CASE r = DAC_R -> MixerPart(v.r) [] r = HPH_OUT_R -> HeadphonePart(v.r)
      [] r = DAC_L -> MixerPart(v.l) [] r = HPH_OUT_L -> HeadphonePart(v.l)
SrcOf(r, src) ==
    IF r = ADC_R THEN (IF src = "line" THEN {6} ELSE {})
    ELSE IF src = "line" THEN {2} ELSE {0}

\* The operations that change the setting; those that write its register
\* without regard to it; what an operation o sets it to; what it is to be.
Setters(r) == IF r \in SrcRegs THEN {"mic", "line"} ELSE {"pcm"}
Apart(r)   == IF r = AUDIOSET1 THEN {"open", "close"} ELSE {}
Aim(r, o)  == IF r \in SrcRegs THEN SrcOf(r, o) ELSE PartOf(r, vol)
Now(r)     == Aim(r, sansa_active_rec)

\* The field of AUDIOSET1 has a meaning only while the device records.
On(r) == r = AUDIOSET1 => dsp = "open" /\ "r" \in mode

\* Transfers that leave the field alone, and those that set it to v.
Neutral(r) ==
    {e \in Entry : e.kind = "write" /\ e.reg = r =>
                       Mask(r) \subseteq e.keep /\ e.set \cap Mask(r) = {}}
Setting(r, v) ==
    {e \in Entry : /\ e.kind = "write" /\ e.reg = r
                   /\ e.keep \cap Mask(r) \subseteq v /\ e.set \cap Mask(r) = v}
Fits(r, v)     == Neutral(r) \cup Setting(r, v)
Some(es, r, v) == \E i \in 1 .. Len(es) : es[i] \in Setting(r, v)
Holds(r, v)    == shadow[r] \cap Mask(r) = v
Leads(p, r, v) == todo[p] \in Seq(Fits(r, v)) /\ (Some(todo[p], r, v) \/ Holds(r, v))

\* Who waits for the lock, and has loaded no setting, will load a new one.
Waiting(r) ==
    \A p \in Procs :
        op[p] \notin Readers \cup Selecting \cup Apart(r) /\ i2c_lock # p =>
            todo[p] \in Seq(Neutral(r))
\* With no change pending the setting is in the register, and stays.
Settled(r) ==
    (\A p \in Procs : op[p] \notin Setters(r)) =>
        /\ On(r) => Holds(r, Now(r))
        /\ \A p \in Procs : op[p] \notin Readers \cup Apart(r) => todo[p] \in Seq(Fits(r, Now(r)))
\* A pending change will be made.
Pending(r) ==
    \A p \in Procs : op[p] \in Setters(r) =>
        /\ Leads(p, r, Aim(r, op[p]))
        /\ i2c_lock # p => Some(todo[p], r, Aim(r, op[p]))
Field(r) == Waiting(r) /\ Settled(r) /\ Pending(r)

\* Operations that load a setting meet only when crossed says so, and they
\* load all that they need.
Plain == {e \in Entry : e.kind = "write"}
SelInv ==
    /\ \A p \in Procs : op[p] \in Selecting => todo[p] \in Seq(Plain)
    /\ ~crossed => \A p, q \in Procs : op[p] \in Selecting /\ op[q] \in Selecting => p = q

\* Who opens /dev/dsp for recording selects the source last.
EndsIn(es) == Len(es) > 0 /\ es[Len(es)].kind = "enable"
OpenerInv ==
    \A p \in Procs : op[p] \in {"open", "record"} /\ "r" \in mode =>
        /\ op[p] = "open" /\ i2c_lock # p => EndsIn(todo[p])
        /\ (\A q \in Procs : op[q] \notin Setters(AUDIOSET1)) =>
               EndsIn(todo[p]) \/ Leads(p, AUDIOSET1, Now(AUDIOSET1))

FieldInv ==
    /\ SelInv
    /\ ~lost /\ ~crossed /\ ~timedOut =>
           /\ \A r \in VolRegs : Field(r)
           /\ ~wide => OpenerInv /\ \A r \in SrcRegs : Field(r)

LEMMA NeutralWrite ==
    ASSUME NEW r, NEW reg \in Regs, NEW keep \in SUBSET Word, NEW set \in SUBSET Word,
           reg = r => Mask(r) \subseteq keep /\ set \cap Mask(r) = {}
    PROVE  Write(reg, keep, set) \in Neutral(r)
<1>1. Write(reg, keep, set) \in Entry
  BY WriteType
<1>2. Write(reg, keep, set).keep = keep /\ Write(reg, keep, set).set = set /\ Write(reg, keep, set).reg = reg
  BY DEF Write
<1> QED BY <1>1, <1>2 DEF Neutral

LEMMA SettingWrite ==
    ASSUME NEW r \in Regs, NEW keep \in SUBSET Word, NEW set \in SUBSET Word, NEW v,
           keep \cap Mask(r) \subseteq v, set \cap Mask(r) = v
    PROVE  Write(r, keep, set) \in Setting(r, v)
<1>1. Write(r, keep, set) \in Entry
  BY WriteType
<1>2. /\ Write(r, keep, set).keep = keep /\ Write(r, keep, set).set = set
      /\ Write(r, keep, set).reg = r /\ Write(r, keep, set).kind = "write"
  BY DEF Write
<1> QED BY <1>1, <1>2 DEF Setting

LEMMA OtherNeutral ==
    \A r : Other("master", 0) \in Neutral(r) /\ Other("enable", 0) \in Neutral(r)
<1>1. Other("master", 0) \in Entry /\ Other("enable", 0) \in Entry
  BY OtherType DEF Others
<1>2. Other("master", 0).kind = "master" /\ Other("enable", 0).kind = "enable"
  BY DEF Other
<1> QED BY <1>1, <1>2 DEF Neutral

LEMMA Masks ==
    /\ FieldRegs \subseteq Regs /\ VolRegs \subseteq Regs /\ SrcRegs \subseteq Regs
    /\ \A r \in VolRegs : Mask(r) = Low5 /\ r \notin SrcRegs
    /\ Mask(ADC_R) = {6, 7} /\ Mask(AUDIOSET1) = {0, 2}
    /\ Low5 = 0..4 /\ Word = 0..8 /\ Word \ Low5 = {5, 6, 7, 8}
    /\ \A r \in FieldRegs : Mask(r) \subseteq Byte /\ Mask(r) \subseteq Word
BY RegsDiffer DEF FieldRegs, VolRegs, SrcRegs, Mask, Low5, Byte, Word

\* as3514_set_master_vol sets the volume's fields, and only them.
LEMMA MasterSets ==
    ASSUME NEW v \in [l : 0..53, r : 0..53], NEW r \in VolRegs
    PROVE  MasterVol(v) \in Seq(Fits(r, PartOf(r, v))) /\ Some(MasterVol(v), r, PartOf(r, v))
<1> DEFINE W(reg) == Write(reg, Word \ Low5, PartOf(reg, v))
<1>1. \A reg \in VolRegs : PartOf(reg, v) \in SUBSET Word /\ PartOf(reg, v) \subseteq Low5
  <2>1. /\ MixerPart(v.r) \subseteq Low5 /\ HeadphonePart(v.r) \subseteq Low5
        /\ MixerPart(v.l) \subseteq Low5 /\ HeadphonePart(v.l) \subseteq Low5
    BY PartsLow
  <2> QED BY <2>1, Masks, RegsDiffer DEF VolRegs, PartOf
<1>2. W(r) \in Setting(r, PartOf(r, v))
  <2>1. /\ (Word \ Low5) \cap Mask(r) \subseteq PartOf(r, v)
        /\ PartOf(r, v) \cap Mask(r) = PartOf(r, v)
        /\ Word \ Low5 \in SUBSET Word /\ PartOf(r, v) \in SUBSET Word /\ r \in Regs
    BY <1>1, Masks
  <2> QED BY <2>1, SettingWrite
<1>3. \A reg \in VolRegs : W(reg) \in Fits(r, PartOf(r, v))
  <2> TAKE reg \in VolRegs
  <2>1. CASE reg = r
    BY <1>2, <2>1 DEF Fits
  <2>2. CASE reg # r
    <3>1. reg \in Regs /\ Word \ Low5 \in SUBSET Word /\ PartOf(reg, v) \in SUBSET Word
      BY <1>1, Masks
    <3> QED BY <2>2, <3>1, NeutralWrite DEF Fits
  <2> QED BY <2>1, <2>2
<1>4. /\ PartOf(DAC_R, v) = MixerPart(v.r) /\ PartOf(DAC_L, v) = MixerPart(v.l)
      /\ PartOf(HPH_OUT_R, v) = HeadphonePart(v.r) /\ PartOf(HPH_OUT_L, v) = HeadphonePart(v.l)
  BY RegsDiffer DEF PartOf
<1>5. MasterVol(v) = << W(DAC_R), W(DAC_L), W(HPH_OUT_R), W(HPH_OUT_L) >>
  BY <1>4 DEF MasterVol
<1>6. {DAC_R, DAC_L, HPH_OUT_R, HPH_OUT_L} = VolRegs
  BY DEF VolRegs
<1> HIDE DEF W
<1>7. MasterVol(v) \in Seq(Fits(r, PartOf(r, v)))
  BY <1>3, <1>5, <1>6
<1>8. /\ Len(MasterVol(v)) = 4
      /\ MasterVol(v)[1] = W(DAC_R) /\ MasterVol(v)[2] = W(DAC_L)
      /\ MasterVol(v)[3] = W(HPH_OUT_R) /\ MasterVol(v)[4] = W(HPH_OUT_L)
  BY <1>5
<1>9. \E i \in 1..4 : MasterVol(v)[i] = W(r)
  BY <1>6, <1>8
<1> QED BY <1>2, <1>7, <1>8, <1>9 DEF Some

LEMMA MasterApart ==
    ASSUME NEW v, NEW r \in SrcRegs
    PROVE  MasterVol(v) \in Seq(Neutral(r))
<1>1. \A x : MixerPart(x) \in SUBSET Word /\ HeadphonePart(x) \in SUBSET Word
  BY BitsOfWord DEF MixerPart, HeadphonePart, Word
<1>2. \A reg \in VolRegs, x \in SUBSET Word : Write(reg, Word \ Low5, x) \in Neutral(r)
  <2> TAKE reg \in VolRegs, x \in SUBSET Word
  <2>1. reg \in Regs /\ reg # r /\ Word \ Low5 \in SUBSET Word
    BY Masks
  <2> QED BY <2>1, NeutralWrite
<1>3. {DAC_R, DAC_L, HPH_OUT_R, HPH_OUT_L} = VolRegs
  BY DEF VolRegs
<1> QED BY <1>1, <1>2, <1>3, MasterVolIn

\* as3514_enable_recording sets the source's fields, and no others.
LEMMA EnableSets ==
    ASSUME NEW src \in {"mic", "line"}, NEW r \in SrcRegs
    PROVE  /\ EnableRecording(src) \in Seq(Fits(r, SrcOf(r, src)))
           /\ Some(EnableRecording(src), r, SrcOf(r, src))
<1> DEFINE v == SrcOf(r, src)
           F == Fits(r, v)
<1>1. /\ r = ADC_R => v = (IF src = "line" THEN {6} ELSE {})
      /\ r = AUDIOSET1 => v = (IF src = "line" THEN {2} ELSE {0})
  BY RegsDiffer DEF SrcOf
<1>2. r = ADC_R \/ r = AUDIOSET1
  BY DEF SrcRegs
<1> HIDE DEF v
<1>3. Write(ADC_L, Word, {6}) \in Neutral(r)
  BY RegsDiffer, <1>2, Masks, NeutralWrite
<1>4. Write(AUDIOSET1, Word, {7}) \in Neutral(r)
  BY RegsDiffer, <1>2, Masks, NeutralWrite
<1>5. CASE src = "mic"
  <2>1. Write(MIC1_R, Word \ {7}, {}) \in Neutral(r)
    BY RegsDiffer, <1>2, Masks, NeutralWrite
  <2>2. /\ r = ADC_R => Write(ADC_R, Word \ {6, 7}, {}) \in Setting(r, v)
        /\ r # ADC_R => Write(ADC_R, Word \ {6, 7}, {}) \in Neutral(r)
    BY <1>1, <1>2, <1>5, RegsDiffer, Masks, NeutralWrite, SettingWrite
  <2>3. /\ r = AUDIOSET1 => Write(AUDIOSET1, Word \ {2}, {0}) \in Setting(r, v)
        /\ r # AUDIOSET1 => Write(AUDIOSET1, Word \ {2}, {0}) \in Neutral(r)
    BY <1>1, <1>2, <1>5, RegsDiffer, Masks, NeutralWrite, SettingWrite
  <2>4. EnableRecording(src) \in Seq(F)
    <3>1. /\ Write(ADC_R, Word \ {6, 7}, {}) \in F /\ Write(AUDIOSET1, Word \ {2}, {0}) \in F
          /\ Write(MIC1_R, Word \ {7}, {}) \in F /\ Write(ADC_L, Word, {6}) \in F
          /\ Write(AUDIOSET1, Word, {7}) \in F
      BY <1>3, <1>4, <2>1, <2>2, <2>3 DEF Fits
    <3> HIDE DEF F
    <3> QED BY <1>5, <3>1, EnableIn
  <2>5. /\ EnableRecording(src)[1] = Write(ADC_R, Word \ {6, 7}, {})
        /\ EnableRecording(src)[2] = Write(AUDIOSET1, Word \ {2}, {0})
        /\ Len(EnableRecording(src)) = 5
    BY <1>5 DEF EnableRecording, WriteAnd, WriteOr
  <2>6. Some(EnableRecording(src), r, v)
    BY <1>2, <2>2, <2>3, <2>5 DEF Some
  <2> QED BY <2>4, <2>6 DEF v
<1>6. CASE src = "line"
  <2>2. /\ r = ADC_R => Write(ADC_R, Word \ {6, 7}, {6}) \in Setting(r, v)
        /\ r # ADC_R => Write(ADC_R, Word \ {6, 7}, {6}) \in Neutral(r)
    BY <1>1, <1>2, <1>6, RegsDiffer, Masks, NeutralWrite, SettingWrite
  <2>3. /\ r = AUDIOSET1 => Write(AUDIOSET1, Word \ {0}, {2}) \in Setting(r, v)
        /\ r # AUDIOSET1 => Write(AUDIOSET1, Word \ {0}, {2}) \in Neutral(r)
    BY <1>1, <1>2, <1>6, RegsDiffer, Masks, NeutralWrite, SettingWrite
  <2>4. EnableRecording(src) \in Seq(F)
    <3>1. /\ Write(ADC_R, Word \ {6, 7}, {6}) \in F /\ Write(AUDIOSET1, Word \ {0}, {2}) \in F
          /\ Write(ADC_L, Word, {6}) \in F /\ Write(AUDIOSET1, Word, {7}) \in F
      BY <1>3, <1>4, <2>2, <2>3 DEF Fits
    <3> HIDE DEF F
    <3> QED BY <1>6, <3>1, EnableIn
  <2>5. /\ EnableRecording(src)[1] = Write(ADC_R, Word \ {6, 7}, {6})
        /\ EnableRecording(src)[2] = Write(AUDIOSET1, Word \ {0}, {2})
        /\ Len(EnableRecording(src)) = 4
    BY <1>6 DEF EnableRecording, WriteAnd, WriteOr
  <2>6. Some(EnableRecording(src), r, v)
    BY <1>2, <2>2, <2>3, <2>5 DEF Some
  <2> QED BY <2>4, <2>6 DEF v
<1> QED BY <1>5, <1>6

\* The operations that are about something else.
LEMMA OthersApart ==
    /\ \A r \in VolRegs : \A src : EnableRecording(src) \in Seq(Neutral(r))
    /\ \A r \in VolRegs : \A x, y : SetRecVol(x, y) \in Seq(Neutral(r))
    /\ \A r \in VolRegs : \A x : SetMicVol(x) \in Seq(Neutral(r))
    /\ \A r \in SrcRegs : \A x, y : Bits(x) \subseteq Low5 /\ Bits(y) \subseteq Low5 =>
           SetRecVol(x, y) \in Seq(Neutral(r))
    /\ \A r \in SrcRegs : \A x : Bits(MicVol(x)) \subseteq Low5 => SetMicVol(x) \in Seq(Neutral(r))
    /\ \A r \in FieldRegs : r # AUDIOSET1 =>
           InitPb \in Seq(Neutral(r)) /\ CloseCodec \in Seq(Neutral(r))
<1>1. /\ \A x : Bits(x) \in SUBSET Word /\ MicGain(x) \in SUBSET Word
      /\ Word \ Low5 \in SUBSET Word
  BY BitsOfWord DEF MicGain, Word
<1>2. ASSUME NEW r \in VolRegs
      PROVE  /\ r \in {2, 3, 14, 15} /\ Mask(r) = 0..4
             /\ \A x \in SUBSET Word : Write(ADC_R, Word \ Low5, x) \in Neutral(r)
             /\ \A x \in SUBSET Word : Write(ADC_L, Word \ Low5, x) \in Neutral(r)
  <2>1. r \in {2, 3, 14, 15} /\ Mask(r) = 0..4
    BY RegsDiffer, Masks DEF VolRegs
  <2> QED BY <1>1, <2>1, RegsDiffer, NeutralWrite
<1>3. ASSUME NEW r \in VolRegs, NEW src PROVE EnableRecording(src) \in Seq(Neutral(r))
  <2>1. /\ Write(ADC_R, Word \ {6, 7}, {}) \in Neutral(r)
        /\ Write(AUDIOSET1, Word \ {2}, {0}) \in Neutral(r)
        /\ Write(MIC1_R, Word \ {7}, {}) \in Neutral(r)
        /\ Write(ADC_R, Word \ {6, 7}, {6}) \in Neutral(r)
        /\ Write(AUDIOSET1, Word \ {0}, {2}) \in Neutral(r)
        /\ Write(ADC_L, Word, {6}) \in Neutral(r) /\ Write(AUDIOSET1, Word, {7}) \in Neutral(r)
    BY <1>2, RegsDiffer, NeutralWrite, Masks
  <2> QED BY <2>1, EnableIn
<1>4. ASSUME NEW r \in VolRegs, NEW x, NEW y PROVE SetRecVol(x, y) \in Seq(Neutral(r))
  BY <1>1, <1>2, RecVolIn
<1>5. ASSUME NEW r \in VolRegs, NEW x PROVE SetMicVol(x) \in Seq(Neutral(r))
  <2>1. Write(MIC1_R, Word \ {5, 6}, MicGain(x)) \in Neutral(r)
    BY <1>1, <1>2, RegsDiffer, NeutralWrite, Masks
  <2> QED BY <1>1, <1>2, <2>1, MicVolIn
<1>6. ASSUME NEW r \in SrcRegs, NEW x \in SUBSET Word, x \subseteq Low5
      PROVE  /\ Write(ADC_R, Word \ Low5, x) \in Neutral(r)
             /\ Write(ADC_L, Word \ Low5, x) \in Neutral(r)
  <2>1. r = ADC_R \/ r = AUDIOSET1
    BY DEF SrcRegs
  <2>2. r = ADC_R => Mask(r) \subseteq Word \ Low5 /\ x \cap Mask(r) = {}
    BY <1>6, Masks
  <2>3. Write(ADC_R, Word \ Low5, x) \in Neutral(r)
    BY <1>1, <2>1, <2>2, RegsDiffer, NeutralWrite
  <2>4. Write(ADC_L, Word \ Low5, x) \in Neutral(r)
    BY <1>1, <2>1, RegsDiffer, NeutralWrite
  <2> QED BY <2>3, <2>4
<1>7. ASSUME NEW r \in SrcRegs, NEW x, NEW y, Bits(x) \subseteq Low5, Bits(y) \subseteq Low5
      PROVE  SetRecVol(x, y) \in Seq(Neutral(r))
  BY <1>1, <1>6, <1>7, RecVolIn
<1>8. ASSUME NEW r \in SrcRegs, NEW x, Bits(MicVol(x)) \subseteq Low5
      PROVE  SetMicVol(x) \in Seq(Neutral(r))
  <2>1. Write(MIC1_R, Word \ {5, 6}, MicGain(x)) \in Neutral(r)
    BY <1>1, RegsDiffer, NeutralWrite, Masks DEF SrcRegs
  <2> QED BY <1>1, <1>6, <1>8, <2>1, MicVolIn
<1>9. ASSUME NEW r \in FieldRegs, r # AUDIOSET1
      PROVE  InitPb \in Seq(Neutral(r)) /\ CloseCodec \in Seq(Neutral(r))
  <2>1. r = ADC_R \/ r \in VolRegs
    BY <1>9 DEF FieldRegs, SrcRegs
  <2>2. r = HPH_OUT_L => Mask(r) = 0..4
    BY <2>1, RegsDiffer, Masks
  <2>3. Write(AUDIOSET1, {}, {5, 6}) \in Neutral(r) /\ Write(AUDIOSET1, {}, {}) \in Neutral(r)
    BY <1>9, RegsDiffer, NeutralWrite, Masks
  <2>4. /\ Write(HPH_OUT_L, Word, {6}) \in Neutral(r)
        /\ Write(HPH_OUT_L, Word, {7}) \in Neutral(r)
        /\ Write(HPH_OUT_L, Word \ {7}, {}) \in Neutral(r)
    BY <2>2, RegsDiffer, NeutralWrite, Masks
  <2> QED BY <2>3, <2>4, OtherNeutral DEF InitPb, CloseCodec, WriteOr, WriteAnd
<1> QED BY <1>3, <1>4, <1>5, <1>7, <1>8, <1>9

\* Loading a transfer changes nothing that the sets of transfers look at.
LEMMA FitsBase ==
    ASSUME NEW r, NEW v
    PROVE  /\ Neutral(r) \in SUBSET Entry /\ Setting(r, v) \in SUBSET Entry
           /\ Fits(r, v) \in SUBSET Entry /\ Plain \in SUBSET Entry
           /\ \A e \in Neutral(r), b \in SUBSET Word :
                  e.kind = "write" => [e EXCEPT !.base = b] \in Neutral(r)
           /\ \A e \in Setting(r, v), b \in SUBSET Word : [e EXCEPT !.base = b] \in Setting(r, v)
           /\ \A e \in Fits(r, v), b \in SUBSET Word :
                  e.kind = "write" => [e EXCEPT !.base = b] \in Fits(r, v)
           /\ \A e \in Plain, b \in SUBSET Word : [e EXCEPT !.base = b] \in Plain
<1>1. \A e \in Entry, b \in SUBSET Word : e.kind = "write" => [e EXCEPT !.base = b] \in Entry
  BY DEF Entry
<1>2. \A e \in Entry : \A b : LET f == [e EXCEPT !.base = b]
                          IN  f.kind = e.kind /\ f.reg = e.reg /\ f.keep = e.keep /\ f.set = e.set
  BY DEF Entry
<1>3. \A e \in Neutral(r), b \in SUBSET Word :
          e.kind = "write" => [e EXCEPT !.base = b] \in Neutral(r)
  BY <1>1, <1>2 DEF Neutral
<1>4. \A e \in Setting(r, v), b \in SUBSET Word : [e EXCEPT !.base = b] \in Setting(r, v)
  BY <1>1, <1>2 DEF Setting
<1>5. \A e \in Plain, b \in SUBSET Word : [e EXCEPT !.base = b] \in Plain
  BY <1>1, <1>2 DEF Plain
<1> QED BY <1>3, <1>4, <1>5 DEF Fits, Neutral, Setting, Plain

LEMMA LoadsFit ==
    ASSUME NEW r, NEW v, NEW regs \in [Regs -> SUBSET Word],
           NEW S \in {Neutral(r), Fits(r, v), Plain}, NEW es \in Seq(S)
    PROVE  /\ LoadAll(es, regs) \in Seq(S)
           /\ es # << >> => LoadHead(es, regs) \in Seq(S)
<1>1. /\ S \in SUBSET Entry
      /\ \A e \in S : e.kind = "write" => \A b \in SUBSET Word : [e EXCEPT !.base = b] \in S
  BY FitsBase
<1> QED BY <1>1, LoadIn

LEMMA LoadsSome ==
    ASSUME NEW r, NEW v, NEW regs \in [Regs -> SUBSET Word],
           NEW es \in Seq(Entry), Some(es, r, v)
    PROVE  /\ Some(LoadAll(es, regs), r, v)
           /\ es # << >> /\ Some(LoadHead(es, regs), r, v)
<1>1. PICK i \in 1 .. Len(es) : es[i] \in Setting(r, v)
  BY DEF Some
<1>2. \A e \in Setting(r, v) : Load(e, regs) \in Setting(r, v)
  <2> TAKE e \in Setting(r, v)
  <2>1. e.kind = "write" /\ e.reg \in Regs
    BY DEF Setting, Entry
  <2>2. regs[e.reg] \cap e.keep \in SUBSET Word
    BY <2>1
  <2> QED BY <2>1, <2>2, FitsBase DEF Load
<1>3. Len(LoadAll(es, regs)) = Len(es) /\ LoadAll(es, regs)[i] = Load(es[i], regs)
  <2>1. DOMAIN es = 1 .. Len(es) /\ Len(es) \in Nat
    OBVIOUS
  <2>2. LoadAll(es, regs) \in Seq(Entry)
    <3>1. \A e \in Entry : e.kind = "write" => \A b \in SUBSET Word : [e EXCEPT !.base = b] \in Entry
      BY DEF Entry
    <3> QED BY <3>1, LoadIn
  <2>3. DOMAIN LoadAll(es, regs) = 1 .. Len(es)
    BY <2>1 DEF LoadAll
  <2>4. LoadAll(es, regs)[i] = Load(es[i], regs)
    BY <2>1 DEF LoadAll
  <2>5. Len(LoadAll(es, regs)) \in Nat /\ DOMAIN LoadAll(es, regs) = 1 .. Len(LoadAll(es, regs))
    BY <2>2
  <2> HIDE DEF LoadAll
  <2> QED BY <2>1, <2>3, <2>4, <2>5
<1>4. Some(LoadAll(es, regs), r, v)
  BY <1>1, <1>2, <1>3 DEF Some
<1>5. es # << >>
  BY <1>1
<1>6. /\ Len(LoadHead(es, regs)) = Len(es)
      /\ \A j \in 2 .. Len(es) : LoadHead(es, regs)[j] = es[j]
  BY <1>5, LoadHeadIs
<1>7. LoadHead(es, regs)[1] = Load(es[1], regs)
  <2> DEFINE h == Load(es[1], regs)
  <2>1. Head(es) = es[1] /\ Tail(es) \in Seq(Entry) /\ h \in Entry
    BY <1>5, TailIs, LoadType
  <2>2. LoadHead(es, regs) = << h >> \o Tail(es)
    BY <2>1 DEF LoadHead
  <2> HIDE DEF h
  <2>3. LoadHead(es, regs)[1] = h
    BY <2>1, <2>2
  <2> QED BY <2>3 DEF h
<1>8. CASE i = 1
  <2>1. es[1] \in Setting(r, v) /\ 1 \in 1 .. Len(es)
    BY <1>1, <1>8
  <2>2. LoadHead(es, regs)[1] \in Setting(r, v)
    BY <1>2, <1>7, <2>1
  <2>3. Some(LoadHead(es, regs), r, v)
    BY <1>6, <2>1, <2>2 DEF Some
  <2> QED BY <1>4, <1>5, <2>3
<1>9. CASE i # 1
  <2>1. i \in 2 .. Len(es)
    BY <1>9
  <2> QED BY <1>1, <1>5, <1>4, <1>6, <2>1 DEF Some
<1> QED BY <1>4, <1>5, <1>8, <1>9

LEMMA CatSome ==
    ASSUME NEW r, NEW v, NEW a \in Seq(Entry), NEW b \in Seq(Entry),
           Some(a, r, v) \/ Some(b, r, v)
    PROVE  Some(a \o b, r, v)
<1>1. CASE Some(a, r, v)
  <2>1. PICK i \in 1 .. Len(a) : a[i] \in Setting(r, v)
    BY <1>1 DEF Some
  <2>2. (a \o b)[i] = a[i] /\ i \in 1 .. Len(a \o b)
    BY CatIs
  <2> QED BY <2>1, <2>2 DEF Some
<1>2. CASE Some(b, r, v)
  <2>1. PICK i \in 1 .. Len(b) : b[i] \in Setting(r, v)
    BY <1>2 DEF Some
  <2>2. (a \o b)[Len(a) + i] = b[i] /\ Len(a) + i \in 1 .. Len(a \o b)
    BY CatIs
  <2> QED BY <2>1, <2>2 DEF Some
<1> QED BY <1>1, <1>2

LEMMA TailSome ==
    ASSUME NEW r, NEW v, NEW es \in Seq(Entry), Some(es, r, v)
    PROVE  es[1] \in Setting(r, v) \/ (Tail(es) # << >> /\ Some(Tail(es), r, v))
<1>1. PICK i \in 1 .. Len(es) : es[i] \in Setting(r, v)
  BY DEF Some
<1>2. es # << >>
  BY <1>1
<1>3. CASE i = 1
  BY <1>1, <1>3
<1>4. CASE i # 1
  <2>1. /\ Tail(es) \in Seq(Entry) /\ Len(Tail(es)) = Len(es) - 1
        /\ \A j \in 1 .. Len(es) - 1 : Tail(es)[j] = es[j + 1]
    BY <1>2, TailIs
  <2>2. i - 1 \in 1 .. Len(es) - 1 /\ (i - 1) + 1 = i
    BY <1>4
  <2>3. Tail(es)[i - 1] = es[i] /\ i - 1 \in 1 .. Len(Tail(es))
    BY <2>1, <2>2
  <2>4. Len(Tail(es)) # 0
    BY <2>1, <2>3
  <2>5. Tail(es) # << >>
    BY <2>1, <2>4, EmptyIff
  <2> QED BY <1>1, <2>3, <2>5 DEF Some
<1> QED BY <1>3, <1>4

\* A transfer that fits leaves the setting right; one that sets it makes it
\* so.
LEMMA FitWrites ==
    ASSUME NEW r \in Regs, NEW v, NEW e \in Fits(r, v), e.kind = "write",
           shadow \in [Regs -> SUBSET Word],
           shadow' = [shadow EXCEPT ![e.reg] = (shadow[e.reg] \cap e.keep) \cup e.set]
    PROVE  /\ Holds(r, v) => Holds(r, v)'
           /\ e \in Setting(r, v) => Holds(r, v)'
<1>1. e \in Entry /\ e.reg \in Regs
  BY DEF Fits, Neutral, Setting, Entry
<1>2. CASE e.reg # r
  <2>1. shadow'[r] = shadow[r]
    BY <1>1, <1>2
  <2>2. e \notin Setting(r, v)
    BY <1>2 DEF Setting
  <2> QED BY <2>1, <2>2 DEF Holds
<1>3. CASE e.reg = r
  <2>1. shadow'[r] = (shadow[r] \cap e.keep) \cup e.set
    BY <1>1, <1>3
  <2>2. CASE e \in Setting(r, v)
    <3>1. e.keep \cap Mask(r) \subseteq v /\ e.set \cap Mask(r) = v
      BY <2>2 DEF Setting
    <3>2. shadow'[r] \cap Mask(r) = v
      BY <2>1, <3>1
    <3> QED BY <3>2 DEF Holds
  <2>3. CASE e \in Neutral(r)
    <3>1. Mask(r) \subseteq e.keep /\ e.set \cap Mask(r) = {}
      BY <1>3, <2>3 DEF Neutral
    <3>2. shadow'[r] \cap Mask(r) = shadow[r] \cap Mask(r)
      BY <2>1, <3>1
    <3>3. e \in Setting(r, v) => Holds(r, v)'
      BY <2>1 DEF Setting, Holds
    <3> QED BY <3>2, <3>3 DEF Holds
  <2> QED BY <2>2, <2>3 DEF Fits
<1> QED BY <1>2, <1>3

\* So what leads to the setting goes on to, until it is there.
LEMMA LeadOn ==
    ASSUME NEW r \in Regs, NEW v, NEW p \in Procs, Leads(p, r, v),
           LET e == todo[p][1]
           IN  /\ todo[p] # << >> /\ e.kind = "write"
               /\ shadow' = [shadow EXCEPT ![e.reg] = (shadow[e.reg] \cap e.keep) \cup e.set],
           shadow \in [Regs -> SUBSET Word]
    PROVE  /\ Tail(todo[p]) \in Seq(Fits(r, v))
           /\ (Tail(todo[p]) # << >> /\ Some(Tail(todo[p]), r, v)) \/ Holds(r, v)'
           /\ Tail(todo[p]) = << >> => Holds(r, v)'
<1> DEFINE e == todo[p][1]
<1>1. todo[p] \in Seq(Fits(r, v)) /\ todo[p] # << >>
  BY DEF Leads
<1>2. e \in Fits(r, v) /\ Tail(todo[p]) \in Seq(Fits(r, v))
  BY <1>1, EmptyIff
<1>3. todo[p] \in Seq(Entry)
  <2>1. Fits(r, v) \in SUBSET Entry
    BY FitsBase
  <2> QED BY <1>1, <2>1
<1>4. /\ Holds(r, v) => Holds(r, v)'
      /\ e \in Setting(r, v) => Holds(r, v)'
  BY <1>2, FitWrites
<1>5. Some(todo[p], r, v) =>
          e \in Setting(r, v) \/ (Tail(todo[p]) # << >> /\ Some(Tail(todo[p]), r, v))
  BY <1>3, TailSome
<1>6. (Tail(todo[p]) # << >> /\ Some(Tail(todo[p]), r, v)) \/ Holds(r, v)'
  BY <1>4, <1>5 DEF Leads
<1> QED BY <1>2, <1>6

\* What is expanded goes on to lead to a setting that is to be.
LEMMA ExpandFits ==
    ASSUME NEW S, NEW es \in Seq(S), es # << >>,
           MasterVol(vol) \in Seq(S), EnableRecording(sansa_active_rec) \in Seq(S)
    PROVE  Expand(es) \in Seq(S)
<1>1. Tail(es) \in Seq(S)
  OBVIOUS
<1>2. \A a, b \in Seq(S) : a \o b \in Seq(S)
  OBVIOUS
<1> QED BY <1>1, <1>2 DEF Expand

LEMMA ExpandSome ==
    ASSUME NEW es \in Seq(Entry), NEW r, NEW v, Some(es, r, v)
    PROVE  Expand(es) \in Seq(Entry) /\ Some(Expand(es), r, v)
<1>1. /\ MasterVol(vol) \in Seq(Entry) /\ EnableRecording(sansa_active_rec) \in Seq(Entry)
      /\ MasterVol(vol) \o EnableRecording(sansa_active_rec) \in Seq(Entry)
  BY MasterVolType, EnableType, CatIs DEF Transfers
<1>2. es # << >>
  <2>1. Len(es) > 0
    BY DEF Some
  <2> QED BY <2>1
<1>3. Head(es) = es[1] /\ Tail(es) \in Seq(Entry)
  BY <1>2, TailIs
<1>4. CASE es[1] \in Setting(r, v)
  <2>1. Head(es).kind = "write"
    BY <1>3, <1>4 DEF Setting
  <2> QED BY <2>1 DEF Expand
<1>5. CASE Some(Tail(es), r, v)
  <2>4. \A a \in Seq(Entry) : a \o Tail(es) \in Seq(Entry) /\ Some(a \o Tail(es), r, v)
    <3> TAKE a \in Seq(Entry)
    <3> QED BY <1>3, <1>5, CatSome, CatIs
  <2>1. CASE Head(es).kind = "master"
    <3>1. Expand(es) = MasterVol(vol) \o Tail(es)
      BY <2>1 DEF Expand
    <3> QED BY <1>1, <2>4, <3>1
  <2>2. CASE Head(es).kind = "enable"
    <3>1. Expand(es) = (MasterVol(vol) \o EnableRecording(sansa_active_rec)) \o Tail(es)
      BY <2>2 DEF Expand
    <3> QED BY <1>1, <2>4, <3>1
  <2>3. CASE Head(es).kind \notin {"master", "enable"}
    <3>1. Expand(es) = es
      BY <2>3 DEF Expand
    <3> QED BY <3>1
  <2> QED BY <2>1, <2>2, <2>3
<1> QED BY <1>4, <1>5, TailSome

\* Operations that load what they set expand nothing.
LEMMA PlainGoesOn ==
    ASSUME NEW es \in Seq(Plain), es # << >>
    PROVE  Expand(es) = es
<1>1. Head(es) \in Plain
  OBVIOUS
<1> QED BY <1>1 DEF Expand, Plain

LEMMA PlainLists ==
    /\ \A v : MasterVol(v) \in Seq(Plain)
    /\ \A src : EnableRecording(src) \in Seq(Plain)
<1>1. \A reg \in Regs, keep \in SUBSET Word, set \in SUBSET Word : Write(reg, keep, set) \in Plain
  <2> TAKE reg \in Regs, keep \in SUBSET Word, set \in SUBSET Word
  <2> QED BY WriteType DEF Plain, Write
<1>2. \A x : MixerPart(x) \in SUBSET Word /\ HeadphonePart(x) \in SUBSET Word
  BY BitsOfWord DEF MixerPart, HeadphonePart, Word
<1>3. {HPH_OUT_R, HPH_OUT_L, MIC1_R, DAC_R, DAC_L, ADC_R, ADC_L, AUDIOSET1} = Regs
  BY DEF Regs
<1>4. Word \ Low5 \in SUBSET Word
  OBVIOUS
<1>5. ASSUME NEW v PROVE MasterVol(v) \in Seq(Plain)
  <2>1. \A reg \in Regs, x \in SUBSET Word : Write(reg, Word \ Low5, x) \in Plain
    BY <1>1, <1>4
  <2> QED BY <1>2, <1>3, <2>1, MasterVolIn
<1>6. ASSUME NEW src PROVE EnableRecording(src) \in Seq(Plain)
  <2>1. /\ Write(ADC_R, Word \ {6, 7}, {}) \in Plain
        /\ Write(AUDIOSET1, Word \ {2}, {0}) \in Plain
        /\ Write(MIC1_R, Word \ {7}, {}) \in Plain
        /\ Write(ADC_R, Word \ {6, 7}, {6}) \in Plain
        /\ Write(AUDIOSET1, Word \ {0}, {2}) \in Plain
        /\ Write(ADC_L, Word, {6}) \in Plain /\ Write(AUDIOSET1, Word, {7}) \in Plain
    BY <1>1, <1>3, Masks
  <2> QED BY <2>1, EnableIn
<1> QED BY <1>5, <1>6

LEMMA SetterKinds ==
    \A r : /\ Setters(r) \subseteq Selecting /\ "none" \notin Setters(r) /\ "none" \notin Apart(r)
           /\ Setters(r) \cap Readers = {} /\ Setters(r) \cap Apart(r) = {}
           /\ "none" \notin Selecting /\ Selecting \cap Readers = {} /\ Selecting \cap Apart(r) = {}
BY DEF Setters, Selecting, Apart, Readers

LEMMA FieldBegin ==
    ASSUME Core, SelInv, NEW r \in FieldRegs, Field(r), NEW p \in Procs,
           NEW o \in Ops \ {"none"}, NEW es, Begin(p, o, es), ~crossed',
           On(r)' => On(r),
           o \notin Setters(r) => \A x : Aim(r, x)' = Aim(r, x),
           o \notin Selecting \cup Readers \cup Apart(r) => es \in Seq(Neutral(r)),
           o \in Selecting \ Setters(r) => es \in Seq(Fits(r, Now(r))),
           o \in Setters(r) => es \in Seq(Fits(r, Aim(r, o)')) /\ Some(es, r, Aim(r, o)')
    PROVE  Field(r)'
<1>1. /\ op[p] = "none" /\ op'[p] = o /\ todo'[p] = es
      /\ \A q \in Procs \ {p} : op'[q] = op[q] /\ todo'[q] = todo[q]
      /\ i2c_lock' = (IF i2c_lock = None THEN p ELSE i2c_lock)
      /\ shadow' = shadow /\ sansa_active_rec' = sansa_active_rec
      /\ o \in Selecting => \A q \in Procs : op[q] \notin Selecting
  BY BeginIs
<1>2. \A q \in Procs \ {p} : i2c_lock' # q <=> i2c_lock # q
  BY <1>1, CodecAssumption
<1>3. Waiting(r) /\ Settled(r) /\ Pending(r)
  BY DEF Field
<1>4. \A e : e \in Seq(Neutral(r)) => e \in Seq(Fits(r, Now(r)))
  <2>1. Neutral(r) \subseteq Fits(r, Now(r))
    BY DEF Fits
  <2> QED BY <2>1
<1>5. Waiting(r)'
  BY <1>1, <1>2, <1>3 DEF Waiting
<1>6. Settled(r)'
  <2> SUFFICES ASSUME \A q \in Procs : op'[q] \notin Setters(r)
               PROVE  /\ On(r)' => Holds(r, Now(r))'
                      /\ \A q \in Procs : op'[q] \notin Readers \cup Apart(r) =>
                             todo'[q] \in Seq(Fits(r, Now(r)'))
    BY DEF Settled
  <2>1. o \notin Setters(r) /\ \A q \in Procs : op[q] \notin Setters(r)
    BY <1>1, SetterKinds
  <2>2. Now(r)' = Now(r)
    BY <1>1, <2>1 DEF Now
  <2>3. On(r) => Holds(r, Now(r))
    BY <1>3, <2>1 DEF Settled
  <2>4. On(r)' => Holds(r, Now(r))'
    BY <1>1, <2>2, <2>3 DEF Holds
  <2>5. \A q \in Procs : op[q] \notin Readers \cup Apart(r) => todo[q] \in Seq(Fits(r, Now(r)))
    BY <1>3, <2>1 DEF Settled
  <2>6. o \notin Readers \cup Apart(r) => es \in Seq(Fits(r, Now(r)))
    BY <1>4, <2>1
  <2> QED BY <1>1, <2>2, <2>4, <2>5, <2>6
<1>7. Pending(r)'
  <2> SUFFICES ASSUME NEW q \in Procs, op'[q] \in Setters(r)
               PROVE  /\ Leads(q, r, Aim(r, op[q]))'
                      /\ i2c_lock' # q => Some(todo[q], r, Aim(r, op[q]))'
    BY DEF Pending
  <2>1. CASE q = p
    BY <1>1, <2>1 DEF Leads
  <2>2. CASE q # p
    <3>1. op'[q] = op[q] /\ todo'[q] = todo[q]
      BY <1>1, <2>2
    <3>2. o \notin Setters(r)
      BY <1>1, <3>1, SetterKinds
    <3>3. Aim(r, op[q])' = Aim(r, op[q])
      BY <3>1, <3>2
    <3>4. /\ Leads(q, r, Aim(r, op[q]))
          /\ i2c_lock # q => Some(todo[q], r, Aim(r, op[q]))
      BY <1>3, <3>1 DEF Pending
    <3> QED BY <1>1, <1>2, <2>2, <3>1, <3>3, <3>4 DEF Leads, Holds
  <2> QED BY <2>1, <2>2
<1> QED BY <1>5, <1>6, <1>7 DEF Field

\* What is in force when the step is over: an operation that changes the
\* setting puts its own in force at its end.
LEMMA NowWrite ==
    ASSUME Core, NEW r \in FieldRegs, NEW p \in Procs, i2c_lock = p, NEW t, GoOn(p, t),
           UNCHANGED vol
    PROVE  /\ \A x : Aim(r, x)' = Aim(r, x)
           /\ t = << >> /\ op[p] \in Setters(r) => Now(r)' = Aim(r, op[p])
           /\ t # << >> \/ op[p] \notin Setters(r) => Now(r)' = Now(r)
           /\ t # << >> => UNCHANGED <<sansa_active_rec, dsp, mode>>
<1>1. \A x : Aim(r, x)' = Aim(r, x)
  BY DEF Aim
<1>2. /\ t # << >> => UNCHANGED <<sansa_active_rec, dsp, mode>>
      /\ t = << >> => sansa_active_rec' =
                          IF op[p] \in {"mic", "line"} THEN op[p] ELSE sansa_active_rec
  BY DEF GoOn
<1>3. CASE r \in SrcRegs
  <2>1. Setters(r) = {"mic", "line"}
    BY <1>3 DEF Setters
  <2>2. Now(r) = SrcOf(r, sansa_active_rec) /\ Aim(r, op[p]) = SrcOf(r, op[p])
    BY <1>3 DEF Now, Aim
  <2>3. Now(r)' = SrcOf(r, sansa_active_rec')
    BY <1>3 DEF Now, Aim
  <2>4. CASE t = << >> /\ op[p] \in Setters(r)
    BY <1>1, <1>2, <2>1, <2>2, <2>3, <2>4
  <2>5. CASE ~(t = << >> /\ op[p] \in Setters(r))
    <3>1. sansa_active_rec' = sansa_active_rec
      BY <1>2, <2>1, <2>5
    <3> QED BY <1>1, <1>2, <2>2, <2>3, <2>5, <3>1
  <2> QED BY <2>4, <2>5
<1>4. CASE r \notin SrcRegs
  <2>1. \A x : Aim(r, x) = PartOf(r, vol)
    BY <1>4 DEF Aim
  <2>2. Now(r) = PartOf(r, vol)
    BY <1>4 DEF Now, Aim
  <2>3. Now(r)' = PartOf(r, vol')
    BY <1>4 DEF Now, Aim
  <2>4. PartOf(r, vol') = PartOf(r, vol)
    OBVIOUS
  <2> QED BY <1>1, <1>2, <2>1, <2>2, <2>3, <2>4
<1> QED BY <1>1, <1>2, <1>3, <1>4

LEMMA FieldWrite ==
    ASSUME Core, SelInv, NEW r \in FieldRegs, Field(r), NEW p \in Procs, SendWrite(p),
           ~lost', ~crossed, ~timedOut,
           op[p] \in Apart(r) => ~On(r),
           MasterVol(vol) \in Seq(Fits(r, Now(r))),
           EnableRecording(sansa_active_rec) \in Seq(Fits(r, Now(r))),
           On(r)' => \/ On(r)
                     \/ (\A q \in Procs : op[q] \notin Setters(r)) => Holds(r, Now(r))'
    PROVE  Field(r)'
<1> DEFINE e == Head(todo[p])
           t == Tail(todo[p])
<1>1. /\ i2c_lock = p /\ ~Reading(p) /\ op[p] # "none"
      /\ e \in Entry /\ e.kind = "write" /\ e.reg \in Regs
      /\ todo[p] # << >> /\ todo[p] \in Seq(Entry)
      /\ e = todo[p][1] /\ t \in Seq(Entry)
      /\ GoOn(p, t)
      /\ shadow' \in [Regs -> SUBSET Word] /\ shadow \in [Regs -> SUBSET Word]
      /\ shadow' = [shadow EXCEPT ![e.reg] = (shadow[e.reg] \cap e.keep) \cup e.set]
      /\ UNCHANGED vol
  BY WriteIs, TailIs DEF Core, BusOK
<1> HIDE DEF e
<1>2. /\ \A q \in Procs \ {p} : op'[q] = op[q] /\ todo'[q] = todo[q] /\ i2c_lock' # q
      /\ t = << >> => op'[p] = "none" /\ todo'[p] = << >> /\ i2c_lock' = None
      /\ t # << >> => /\ op' = op /\ i2c_lock' = p
                      /\ todo'[p] = LoadHead(Expand(t), shadow')
  BY <1>1, GoOnOthers DEF Core
<1>3. /\ \A x : Aim(r, x)' = Aim(r, x)
      /\ t = << >> /\ op[p] \in Setters(r) => Now(r)' = Aim(r, op[p])
      /\ t # << >> \/ op[p] \notin Setters(r) => Now(r)' = Now(r)
      /\ t # << >> => UNCHANGED <<sansa_active_rec, dsp, mode>>
  BY <1>1, NowWrite
<1>4. /\ Waiting(r) /\ Settled(r) /\ Pending(r) /\ r \in Regs
      /\ op[p] \notin Readers /\ \A v : << >> \in Seq(Fits(r, v)) /\ << >> \in Seq(Neutral(r))
  BY <1>1, Masks DEF Field, Reading
<1>5. Waiting(r)'
  BY <1>1, <1>2, <1>4 DEF Waiting
\* p goes on, when no change is pending
<1>6. ASSUME \A q \in Procs : op[q] \notin Setters(r)
      PROVE  /\ On(r) => Holds(r, Now(r)) /\ shadow'[r] \cap Mask(r) = Now(r)
             /\ op[p] \notin Apart(r) /\ t # << >> =>
                    LoadHead(Expand(t), shadow') \in Seq(Fits(r, Now(r)))
  <2>1. /\ On(r) => Holds(r, Now(r))
        /\ op[p] \notin Apart(r) => todo[p] \in Seq(Fits(r, Now(r)))
    BY <1>4, <1>6 DEF Settled
  <2>2. op[p] \notin Apart(r) => e \in Fits(r, Now(r)) /\ t \in Seq(Fits(r, Now(r)))
    BY <1>1, <2>1, EmptyIff
  <2>3. ASSUME On(r) PROVE shadow'[r] \cap Mask(r) = Now(r)
    <3> DEFINE v == Now(r)
    <3>1. e \in Fits(r, v) /\ Holds(r, v)
      BY <2>1, <2>2, <2>3
    <3> HIDE DEF v
    <3>2. shadow'[r] \cap Mask(r) = v
      <4>1. CASE e.reg # r
        BY <1>1, <1>4, <3>1, <4>1 DEF Holds
      <4>2. CASE e.reg = r
        <5>1. shadow'[r] = (shadow[r] \cap e.keep) \cup e.set
          BY <1>1, <1>4, <4>2
        <5>2. shadow[r] \cap Mask(r) = v
          BY <3>1 DEF Holds
        <5>3. \/ Mask(r) \subseteq e.keep /\ e.set \cap Mask(r) = {}
              \/ e.keep \cap Mask(r) \subseteq v /\ e.set \cap Mask(r) = v
          BY <1>1, <3>1, <4>2 DEF Fits, Neutral, Setting
        <5> QED BY <5>1, <5>2, <5>3
      <4> QED BY <4>1, <4>2
    <3> QED BY <3>2 DEF v
  <2>4. ASSUME op[p] \notin Apart(r), t # << >>
        PROVE  LoadHead(Expand(t), shadow') \in Seq(Fits(r, Now(r)))
    <3>1. Expand(t) \in Seq(Fits(r, Now(r)))
      BY <2>2, <2>4, ExpandFits
    <3>2. Expand(t) # << >>
      BY <1>1, <2>4, ExpandType DEF Transfers
    <3> QED BY <1>1, <3>1, <3>2, LoadsFit
  <2> QED BY <2>1, <2>3, <2>4
\* p goes on with its own change, or has made it
<1>7. ASSUME op[p] \in Setters(r), NEW v, v = Aim(r, op[p])
      PROVE  /\ t # << >> => /\ todo'[p] \in Seq(Fits(r, v))
                             /\ Some(todo'[p], r, v) \/ shadow'[r] \cap Mask(r) = v
             /\ t = << >> => shadow'[r] \cap Mask(r) = v
  <2>1. Leads(p, r, v)
    BY <1>4, <1>7 DEF Pending
  <2>2. /\ t \in Seq(Fits(r, v))
        /\ (t # << >> /\ Some(t, r, v)) \/ Holds(r, v)'
        /\ t = << >> => Holds(r, v)'
    BY <1>1, <1>4, <2>1, LeadOn
  <2>3. Holds(r, v)' => shadow'[r] \cap Mask(r) = v
    BY DEF Holds
  <2>4. ASSUME t # << >> PROVE todo'[p] = LoadHead(t, shadow')
    <3>1. todo[p] \in Seq(Plain)
      BY <1>7, SetterKinds DEF SelInv
    <3>2. t \in Seq(Plain)
      BY <1>1, <3>1
    <3> QED BY <1>2, <2>4, <3>2, PlainGoesOn
  <2>5. t # << >> => LoadHead(t, shadow') \in Seq(Fits(r, v))
    BY <1>1, <2>2, LoadsFit
  <2>6. Some(t, r, v) => Some(LoadHead(t, shadow'), r, v)
    BY <1>1, LoadsSome
  <2> QED BY <2>2, <2>3, <2>4, <2>5, <2>6
<1>8. Settled(r)'
  <2> SUFFICES ASSUME \A q \in Procs : op'[q] \notin Setters(r)
               PROVE  /\ On(r)' => Holds(r, Now(r))'
                      /\ \A q \in Procs : op'[q] \notin Readers \cup Apart(r) =>
                             todo'[q] \in Seq(Fits(r, Now(r)'))
    BY DEF Settled
  <2>1. CASE op[p] \notin Setters(r)
    <3>1. \A q \in Procs : op[q] \notin Setters(r)
      BY <1>2, <2>1
    <3>2. Now(r)' = Now(r)
      BY <1>3, <2>1
    <3>3. On(r)' => On(r) \/ Holds(r, Now(r))'
      BY <3>1
    <3>4. On(r) => Holds(r, Now(r))'
      BY <1>6, <3>1, <3>2 DEF Holds
    <3>5. \A q \in Procs : op[q] \notin Readers \cup Apart(r) => todo[q] \in Seq(Fits(r, Now(r)))
      BY <1>4, <3>1 DEF Settled
    <3>6. op'[p] \notin Readers \cup Apart(r) => todo'[p] \in Seq(Fits(r, Now(r)))
      BY <1>2, <1>4, <1>6, <3>1
    <3> QED BY <1>2, <3>2, <3>3, <3>4, <3>5, <3>6
  <2>2. CASE op[p] \in Setters(r)
    <3>1. t = << >>
      BY <1>2, <2>2
    <3>2. Now(r)' = Aim(r, op[p])
      BY <1>3, <2>2, <3>1
    <3>3. Holds(r, Now(r))'
      BY <1>7, <2>2, <3>1, <3>2 DEF Holds
    <3>4. ASSUME NEW q \in Procs \ {p}, op[q] \notin Readers \cup Apart(r)
          PROVE  todo'[q] \in Seq(Fits(r, Now(r)'))
      <4>1. op[q] \notin Selecting
        BY <2>2, SetterKinds DEF SelInv
      <4>2. todo[q] \in Seq(Neutral(r))
        BY <1>1, <1>4, <3>4, <4>1 DEF Waiting
      <4>3. \A v : Neutral(r) \subseteq Fits(r, v)
        BY DEF Fits
      <4> QED BY <1>2, <4>2, <4>3
    <3>5. todo'[p] \in Seq(Fits(r, Now(r)'))
      BY <1>2, <1>4, <3>1
    <3> QED BY <1>2, <3>3, <3>4, <3>5
  <2> QED BY <2>1, <2>2
<1>9. Pending(r)'
  <2> SUFFICES ASSUME NEW q \in Procs, op'[q] \in Setters(r)
               PROVE  /\ Leads(q, r, Aim(r, op[q]))'
                      /\ i2c_lock' # q => Some(todo[q], r, Aim(r, op[q]))'
    BY DEF Pending
  <2>1. op'[q] = op[q] /\ (q = p => t # << >>)
    BY <1>2, SetterKinds
  <2>2. Aim(r, op[q])' = Aim(r, op[q])
    BY <1>3, <2>1
  <2>3. CASE q = p
    BY <1>2, <1>7, <2>1, <2>2, <2>3 DEF Leads, Holds
  <2>4. CASE q # p
    <3>1. Leads(q, r, Aim(r, op[q])) /\ Some(todo[q], r, Aim(r, op[q]))
      BY <1>1, <1>4, <2>1, <2>4 DEF Pending
    <3> QED BY <1>2, <2>2, <2>4, <3>1 DEF Leads
  <2> QED BY <2>3, <2>4
<1> QED BY <1>5, <1>8, <1>9 DEF Field

\* Steps that are not about the setting: of readers, of the bus, of who gets
\* the lock.
LEMMA FieldIdle ==
    ASSUME NEW r \in FieldRegs, Field(r),
           UNCHANGED <<shadow, vol, sansa_active_rec, dsp, mode>>,
           \A q \in Procs :
               \/ op'[q] = op[q] /\ todo'[q] = todo[q] /\ (i2c_lock' # q => i2c_lock # q)
               \/ op[q] \in Readers /\ (op'[q] \in Readers \/ (op'[q] = "none" /\ todo'[q] = << >>))
    PROVE  Field(r)'
<1>1. Waiting(r) /\ Settled(r) /\ Pending(r)
  BY DEF Field
<1>2. /\ Now(r)' = Now(r) /\ (On(r)' <=> On(r)) /\ \A x : Aim(r, x)' = Aim(r, x)
  BY DEF Now, On, Aim
<1>3. \A v : << >> \in Seq(Fits(r, v)) /\ << >> \in Seq(Neutral(r))
  OBVIOUS
<1>4. \A q \in Procs : op'[q] \in Setters(r) <=> op[q] \in Setters(r)
  BY SetterKinds
<1>5. Waiting(r)'
  BY <1>1, <1>3 DEF Waiting
<1>6. Settled(r)'
  <2> SUFFICES ASSUME \A q \in Procs : op'[q] \notin Setters(r)
               PROVE  /\ On(r)' => Holds(r, Now(r))'
                      /\ \A q \in Procs : op'[q] \notin Readers \cup Apart(r) =>
                             todo'[q] \in Seq(Fits(r, Now(r)'))
    BY DEF Settled
  <2>1. /\ On(r) => Holds(r, Now(r))
        /\ \A q \in Procs : op[q] \notin Readers \cup Apart(r) => todo[q] \in Seq(Fits(r, Now(r)))
    BY <1>1, <1>4 DEF Settled
  <2>2. On(r)' => Holds(r, Now(r))'
    BY <1>2, <2>1 DEF Holds
  <2> QED BY <1>2, <1>3, <2>1, <2>2
<1>7. Pending(r)'
  <2> SUFFICES ASSUME NEW q \in Procs, op'[q] \in Setters(r)
               PROVE  /\ Leads(q, r, Aim(r, op[q]))'
                      /\ i2c_lock' # q => Some(todo[q], r, Aim(r, op[q]))'
    BY DEF Pending
  <2>1. op'[q] = op[q] /\ todo'[q] = todo[q] /\ (i2c_lock' # q => i2c_lock # q)
    BY SetterKinds
  <2>2. Aim(r, op[q])' = Aim(r, op[q])
    BY <1>2, <2>1
  <2>3. /\ Leads(q, r, Aim(r, op[q]))
        /\ i2c_lock # q => Some(todo[q], r, Aim(r, op[q]))
    BY <1>1, <2>1 DEF Pending
  <2> QED BY <2>1, <2>2, <2>3 DEF Leads, Holds
<1> QED BY <1>5, <1>6, <1>7 DEF Field

LEMMA SelBegin ==
    ASSUME Core, SelInv, NEW p \in Procs, NEW o \in Ops, NEW es, Begin(p, o, es),
           o \in Selecting => es \in Seq(Plain)
    PROVE  SelInv'
<1>1. /\ op'[p] = o /\ todo'[p] = es
      /\ \A q \in Procs \ {p} : op'[q] = op[q] /\ todo'[q] = todo[q]
      /\ ~crossed
      /\ crossed' = (o \in Selecting /\ \E q \in Procs : op[q] \in Selecting)
      /\ op[p] = "none" /\ "none" \notin Selecting
  BY BeginIs DEF Selecting
<1>2. ASSUME ~crossed', NEW a \in Procs, NEW b \in Procs, op'[a] \in Selecting, op'[b] \in Selecting
      PROVE  a = b
  BY <1>1, <1>2 DEF SelInv
<1>3. \A q \in Procs : op'[q] \in Selecting => todo'[q] \in Seq(Plain)
  BY <1>1 DEF SelInv
<1> QED BY <1>2, <1>3 DEF SelInv

LEMMA SelGoOn ==
    ASSUME Core, SelInv, NEW p \in Procs, i2c_lock = p, NEW rest, GoOn(p, rest),
           todo[p] \in Seq(Entry), todo[p] # << >>,
           rest = << >> \/ rest = Tail(todo[p]), shadow' \in [Regs -> SUBSET Word],
           crossed' = crossed
    PROVE  SelInv'
<1>1. /\ \A q \in Procs \ {p} : op'[q] = op[q] /\ todo'[q] = todo[q]
      /\ rest = << >> => op'[p] = "none" /\ todo'[p] = << >>
      /\ rest # << >> => op' = op /\ todo'[p] = LoadHead(Expand(rest), shadow')
  BY GoOnOthers DEF Core
<1>2. \A q \in Procs : op'[q] \in Selecting => op[q] = op'[q]
  BY <1>1 DEF Selecting
<1>3. ASSUME op'[p] \in Selecting PROVE todo'[p] \in Seq(Plain)
  <2>1. rest = Tail(todo[p]) /\ rest # << >> /\ todo[p] \in Seq(Plain)
    BY <1>1, <1>2, <1>3 DEF SelInv, Selecting
  <2>2. rest \in Seq(Plain)
    BY <2>1
  <2>3. Expand(rest) = rest
    BY <2>1, <2>2, PlainGoesOn
  <2>4. LoadHead(rest, shadow') \in Seq(Plain)
    BY <2>1, <2>2, LoadsFit
  <2> QED BY <1>1, <2>1, <2>3, <2>4
<1> QED BY <1>1, <1>2, <1>3 DEF SelInv

LEMMA EndsInTail ==
    ASSUME NEW es \in Seq(Entry), EndsIn(es), Len(es) # 1
    PROVE  Tail(es) \in Seq(Entry) /\ EndsIn(Tail(es))
<1> DEFINE t == Tail(es)
           n == Len(es)
<1>1. es # << >> /\ n \in Nat
  BY EmptyIff DEF EndsIn
<1>2. t \in Seq(Entry) /\ Len(t) = n - 1 /\ \A i \in 1 .. n - 1 : t[i] = es[i + 1]
  BY <1>1, TailIs
<1> HIDE DEF t
<1>3. n > 1 /\ t[n - 1] = es[n]
  BY <1>1, <1>2 DEF EndsIn
<1> QED BY <1>1, <1>2, <1>3 DEF EndsIn, t

LEMMA EndsInCat ==
    ASSUME NEW a \in Seq(Entry), NEW b \in Seq(Entry), EndsIn(b)
    PROVE  a \o b \in Seq(Entry) /\ EndsIn(a \o b)
<1> DEFINE c == a \o b
           n == Len(b)
<1>1. /\ Len(c) = Len(a) + n /\ Len(a) \in Nat /\ n \in Nat /\ n > 0 /\ c \in Seq(Entry)
      /\ \A i \in 1 .. n : c[Len(a) + i] = b[i]
  BY CatIs DEF EndsIn
<1> HIDE DEF c
<1>2. c[Len(c)] = b[n] /\ Len(c) > 0
  BY <1>1
<1> QED BY <1>1, <1>2 DEF EndsIn, c

\* Who will select the source goes on to, or loads the one in force.
LEMMA EndsInGoOn ==
    ASSUME Core, NEW es \in Seq(Entry), EndsIn(es), NEW regs \in [Regs -> SUBSET Word]
    PROVE  LET s == LoadHead(Expand(es), regs)
               v == Now(AUDIOSET1)
           IN  EndsIn(s) \/ (s \in Seq(Fits(AUDIOSET1, v)) /\ Some(s, AUDIOSET1, v))
<1> DEFINE v == Now(AUDIOSET1)
           m == MasterVol(vol)
           a == EnableRecording(sansa_active_rec)
<1>1. es # << >> /\ Len(es) \in Nat /\ Len(es) > 0
  BY EmptyIff DEF EndsIn
<1>2. /\ Tail(es) \in Seq(Entry) /\ Head(es) = es[1] /\ Len(Tail(es)) = Len(es) - 1
      /\ m \in Seq(Entry) /\ a \in Seq(Entry)
      /\ sansa_active_rec \in {"mic", "line"}
  BY <1>1, TailIs, MasterVolType, EnableType DEF Transfers, Core, SettingsType
<1>3. /\ m \in Seq(Fits(AUDIOSET1, v))
      /\ a \in Seq(Fits(AUDIOSET1, v)) /\ Some(a, AUDIOSET1, v)
  <2>1. AUDIOSET1 \in SrcRegs
    BY DEF SrcRegs
  <2>2. v = SrcOf(AUDIOSET1, sansa_active_rec)
    BY <2>1 DEF Now, Aim
  <2>3. Neutral(AUDIOSET1) \subseteq Fits(AUDIOSET1, v)
    BY DEF Fits
  <2>4. m \in Seq(Neutral(AUDIOSET1))
    BY <2>1, MasterApart
  <2>5. m \in Seq(Fits(AUDIOSET1, v))
    BY <2>3, <2>4
  <2>6. a \in Seq(Fits(AUDIOSET1, v)) /\ Some(a, AUDIOSET1, v)
    BY <1>2, <2>1, <2>2, EnableSets
  <2> QED BY <2>5, <2>6
<1> HIDE DEF v, m, a
<1>4. \/ Expand(es) \in Seq(Entry) /\ EndsIn(Expand(es))
      \/ /\ Expand(es) \in Seq(Fits(AUDIOSET1, v)) /\ Expand(es) \in Seq(Entry)
         /\ Some(Expand(es), AUDIOSET1, v)
  <2>1. CASE Head(es).kind = "master"
    <3>1. Len(es) # 1
      BY <1>2, <2>1 DEF EndsIn
    <3>2. EndsIn(Tail(es))
      BY <3>1, EndsInTail
    <3>3. Expand(es) = m \o Tail(es)
      BY <2>1 DEF Expand, m
    <3> QED BY <1>2, <3>2, <3>3, EndsInCat
  <2>2. CASE Head(es).kind = "enable" /\ Len(es) = 1
    <3>1. Tail(es) = << >>
      <4>1. Len(Tail(es)) = 0
        BY <1>2, <2>2
      <4> QED BY <1>2, <4>1, EmptyIff
    <3>2. Expand(es) = (m \o a) \o << >>
      BY <2>2, <3>1 DEF Expand, m, a
    <3>3. \A s \in Seq(Entry) : s \o << >> = s
      OBVIOUS
    <3>4. m \o a \in Seq(Entry) /\ Some(m \o a, AUDIOSET1, v)
      BY <1>2, <1>3, CatIs, CatSome
    <3>5. m \o a \in Seq(Fits(AUDIOSET1, v))
      BY <1>3
    <3>6. Expand(es) = m \o a
      BY <3>2, <3>3, <3>4
    <3> QED BY <3>4, <3>5, <3>6
  <2>3. CASE Head(es).kind = "enable" /\ Len(es) # 1
    <3>1. EndsIn(Tail(es))
      BY <2>3, EndsInTail
    <3>2. Expand(es) = (m \o a) \o Tail(es)
      BY <2>3 DEF Expand, m, a
    <3>3. m \o a \in Seq(Entry)
      BY <1>2, CatIs
    <3> QED BY <1>2, <3>1, <3>2, <3>3, EndsInCat
  <2>4. CASE Head(es).kind \notin {"master", "enable"}
    <3>1. Expand(es) = es
      BY <2>4 DEF Expand
    <3> QED BY <3>1
  <2> QED BY <2>1, <2>2, <2>3, <2>4
<1> DEFINE x == Expand(es)
           s == LoadHead(x, regs)
<1> HIDE DEF x
<1>5. CASE x \in Seq(Entry) /\ EndsIn(x)
  <2>1. x # << >> /\ Len(x) \in Nat
    BY <1>5, EmptyIff DEF EndsIn
  <2>2. /\ Len(s) = Len(x) /\ Len(x) > 0
        /\ \A i \in 1 .. Len(x) : s[i].kind = x[i].kind
    BY <1>5, <2>1, LoadHeadIs
  <2> HIDE DEF s
  <2>3. EndsIn(s)
    BY <1>5, <2>1, <2>2 DEF EndsIn
  <2> QED BY <2>3 DEF s, x
<1>6. CASE x \in Seq(Fits(AUDIOSET1, v)) /\ x \in Seq(Entry) /\ Some(x, AUDIOSET1, v)
  <2>1. x # << >> /\ Some(s, AUDIOSET1, v)
    BY <1>6, LoadsSome
  <2>2. s \in Seq(Fits(AUDIOSET1, v))
    BY <1>6, <2>1, LoadsFit
  <2> QED BY <2>1, <2>2 DEF s, x, v
<1> QED BY <1>4, <1>5, <1>6 DEF x

LEMMA OpenerWrite ==
    ASSUME Core, PathInv, SelInv, Field(AUDIOSET1), OpenerInv, NEW p \in Procs, SendWrite(p),
           ~lost', ~crossed, ~timedOut
    PROVE  /\ OpenerInv'
           /\ Tail(todo[p]) = << >> /\ op[p] \in {"open", "record"} /\ "r" \in mode
              /\ (\A q \in Procs : op[q] \notin Setters(AUDIOSET1)) =>
                     Holds(AUDIOSET1, Now(AUDIOSET1))'
<1> DEFINE r == AUDIOSET1
           e == Head(todo[p])
           t == Tail(todo[p])
<1>0. r \in SrcRegs /\ r \in FieldRegs /\ r \in Regs
  BY RegsDiffer DEF SrcRegs, FieldRegs
<1>1. /\ i2c_lock = p /\ ~Reading(p) /\ op[p] # "none"
      /\ e \in Entry /\ e.kind = "write" /\ e.reg \in Regs
      /\ todo[p] # << >> /\ todo[p] \in Seq(Entry)
      /\ e = todo[p][1] /\ t \in Seq(Entry)
      /\ GoOn(p, t)
      /\ shadow' \in [Regs -> SUBSET Word] /\ shadow \in [Regs -> SUBSET Word]
      /\ shadow' = [shadow EXCEPT ![e.reg] = (shadow[e.reg] \cap e.keep) \cup e.set]
      /\ UNCHANGED vol
  BY WriteIs, TailIs DEF Core, BusOK
<1> HIDE DEF e
<1>2. /\ \A q \in Procs \ {p} : op'[q] = op[q] /\ todo'[q] = todo[q] /\ i2c_lock' # q
      /\ t = << >> => op'[p] = "none" /\ todo'[p] = << >> /\ i2c_lock' = None
      /\ t # << >> => /\ op' = op /\ i2c_lock' = p
                      /\ todo'[p] = LoadHead(Expand(t), shadow')
  BY <1>1, GoOnOthers DEF Core
<1>3. /\ t # << >> \/ op[p] \notin Setters(r) => Now(r)' = Now(r)
      /\ t # << >> => UNCHANGED <<sansa_active_rec, dsp, mode>>
      /\ t = << >> => mode' = IF op[p] = "close" THEN {} ELSE mode
  <2>1. t = << >> => mode' = IF op[p] = "close" THEN {} ELSE mode
    BY <1>1 DEF GoOn
  <2> QED BY <1>0, <1>1, <2>1, NowWrite
<1>4. /\ MasterVol(vol) \in Seq(Fits(r, Now(r)))
      /\ EnableRecording(sansa_active_rec) \in Seq(Fits(r, Now(r)))
  <2>1. sansa_active_rec \in {"mic", "line"}
    BY DEF Core, SettingsType
  <2>2. Now(r) = SrcOf(r, sansa_active_rec)
    BY <1>0 DEF Now, Aim
  <2>3. Neutral(r) \subseteq Fits(r, Now(r)) /\ MasterVol(vol) \in Seq(Neutral(r))
    BY <1>0, MasterApart DEF Fits
  <2>4. EnableRecording(sansa_active_rec) \in Seq(Fits(r, Now(r)))
    BY <1>0, <2>1, <2>2, EnableSets
  <2> QED BY <2>3, <2>4
<1> HIDE DEF r
<1>5. ASSUME Leads(p, r, Now(r))
      PROVE  /\ t # << >> => /\ todo'[p] \in Seq(Fits(r, Now(r)))
                             /\ \/ Some(todo'[p], r, Now(r))
                                \/ shadow'[r] \cap Mask(r) = Now(r)
             /\ t = << >> => shadow'[r] \cap Mask(r) = Now(r)
  <2> DEFINE v == Now(r)
  <2>1. Leads(p, r, v)
    BY <1>5
  <2>2. MasterVol(vol) \in Seq(Fits(r, v)) /\ EnableRecording(sansa_active_rec) \in Seq(Fits(r, v))
    BY <1>4
  <2>3. SUFFICES ASSUME NEW x, x = v, Leads(p, r, x)
                 PROVE  /\ t # << >> => /\ todo'[p] \in Seq(Fits(r, x))
                                        /\ \/ Some(todo'[p], r, x)
                                           \/ shadow'[r] \cap Mask(r) = x
                        /\ t = << >> => shadow'[r] \cap Mask(r) = x
    BY <2>1
  <2> HIDE DEF v
  <2>4. /\ t \in Seq(Fits(r, x))
        /\ (t # << >> /\ Some(t, r, x)) \/ Holds(r, x)'
        /\ t = << >> => Holds(r, x)'
    BY <1>0, <1>1, <2>3, LeadOn
  <2>5. Holds(r, x)' => shadow'[r] \cap Mask(r) = x
    BY DEF Holds
  <2>6. ASSUME t # << >> PROVE todo'[p] \in Seq(Fits(r, x))
    <3>1. Expand(t) \in Seq(Fits(r, x))
      BY <2>2, <2>3, <2>4, <2>6, ExpandFits
    <3>2. Expand(t) # << >>
      BY <1>1, <2>6, ExpandType DEF Transfers
    <3> HIDE DEF t
    <3>3. LoadHead(Expand(t), shadow') \in Seq(Fits(r, x))
      BY <1>1, <3>1, <3>2, LoadsFit
    <3> QED BY <1>2, <2>6, <3>3
  <2>7. ASSUME t # << >>, Some(t, r, x) PROVE Some(todo'[p], r, x)
    <3>1. Expand(t) \in Seq(Entry) /\ Some(Expand(t), r, x)
      BY <1>1, <2>7, ExpandSome
    <3> HIDE DEF t
    <3>2. Some(LoadHead(Expand(t), shadow'), r, x)
      BY <1>1, <3>1, LoadsSome
    <3> QED BY <1>2, <2>7, <3>2
  <2> QED BY <2>4, <2>5, <2>6, <2>7
<1>6. ASSUME EndsIn(todo[p])
      PROVE  /\ t # << >>
             /\ EndsIn(todo'[p]) \/ (todo'[p] \in Seq(Fits(r, Now(r))) /\ Some(todo'[p], r, Now(r)))
  <2>1. Len(todo[p]) # 1
    BY <1>1, <1>6 DEF EndsIn
  <2>2. EndsIn(t)
    BY <1>1, <1>6, <2>1, EndsInTail
  <2>3. t # << >>
    <3>1. Len(t) > 0
      BY <2>2 DEF EndsIn
    <3> HIDE DEF t
    <3> QED BY <1>1, <3>1, EmptyIff
  <2> HIDE DEF t
  <2>4. LET s == LoadHead(Expand(t), shadow')
        IN  EndsIn(s) \/ (s \in Seq(Fits(r, Now(r))) /\ Some(s, r, Now(r)))
    BY <1>1, <2>2, EndsInGoOn DEF r
  <2> QED BY <1>2, <2>3, <2>4
<1>7. ASSUME t = << >>, op[p] \in {"open", "record"}, "r" \in mode,
             \A q \in Procs : op[q] \notin Setters(r)
      PROVE  Holds(r, Now(r))'
  <2>1. EndsIn(todo[p]) \/ Leads(p, r, Now(r))
    BY <1>7 DEF OpenerInv, r
  <2>2. Now(r)' = Now(r)
    BY <1>3, <1>7
  <2> QED BY <1>5, <1>6, <1>7, <2>1, <2>2 DEF Holds
<1>8. ASSUME NEW q \in Procs, op'[q] \in {"open", "record"}, "r" \in mode'
      PROVE  /\ op'[q] = "open" /\ i2c_lock' # q => EndsIn(todo'[q])
             /\ (\A u \in Procs : op'[u] \notin Setters(r)) =>
                    EndsIn(todo'[q]) \/ Leads(q, r, Now(r))'
  <2>1. op[q] = op'[q] /\ (q = p => t # << >>)
    BY <1>2, <1>8
  <2>2. q # p => op[p] \notin DspOps
    BY <1>8, <2>1 DEF PathInv, DspInv, DspOps
  <2>3. mode' = mode
    <3>1. op[p] # "close" \/ t # << >>
      BY <2>1, <2>2 DEF DspOps
    <3> QED BY <1>3, <3>1
  <2>4. /\ op[q] = "open" /\ i2c_lock # q => EndsIn(todo[q])
        /\ (\A u \in Procs : op[u] \notin Setters(r)) => EndsIn(todo[q]) \/ Leads(q, r, Now(r))
    BY <1>8, <2>1, <2>3 DEF OpenerInv, r
  <2>5. CASE q = p
    <3>1. t # << >> /\ op' = op /\ Now(r)' = Now(r) /\ i2c_lock' = p
      BY <1>2, <1>3, <2>1, <2>5
    <3>2. ASSUME \A u \in Procs : op[u] \notin Setters(r)
          PROVE  EndsIn(todo'[p]) \/ Leads(p, r, Now(r))'
      <4>1. EndsIn(todo[p]) \/ Leads(p, r, Now(r))
        BY <2>4, <2>5, <3>2
      <4> QED BY <1>5, <1>6, <3>1, <4>1 DEF Leads, Holds
    <3> QED BY <2>5, <3>1, <3>2
  <2>6. CASE q # p
    <3>1. todo'[q] = todo[q] /\ i2c_lock # q
      BY <1>1, <1>2, <2>6
    <3>2. op'[q] = "open" => EndsIn(todo'[q])
      BY <2>1, <2>4, <3>1
    <3>3. ASSUME \A u \in Procs : op'[u] \notin Setters(r)
          PROVE  EndsIn(todo[q]) \/ Leads(q, r, Now(r))'
      <4>1. CASE op[p] \in Setters(r)
        <5>1. op[q] \notin Selecting
          BY <2>6, <4>1, SetterKinds DEF SelInv
        <5> QED BY <1>8, <2>1, <3>1, <3>2, <5>1 DEF Selecting
      <4>2. CASE op[p] \notin Setters(r)
        <5>1. \A u \in Procs : op[u] \notin Setters(r)
          BY <1>2, <3>3, <4>2
        <5>2. Now(r)' = Now(r)
          BY <1>3, <4>2
        <5>3. EndsIn(todo[q]) \/ Leads(q, r, Now(r))
          BY <2>4, <5>1
        <5>4. todo[p] \in Seq(Fits(r, Now(r)))
          <6>1. op[p] \notin Readers \cup Apart(r)
            BY <1>1, <2>2, <2>6 DEF Reading, Apart, DspOps
          <6> QED BY <5>1, <6>1 DEF Field, Settled, r
        <5>5. e \in Fits(r, Now(r))
          BY <1>1, <5>4, EmptyIff
        <5>6. Holds(r, Now(r)) => shadow'[r] \cap Mask(r) = Now(r)
          <6>1. SUFFICES ASSUME NEW v, e \in Fits(r, v), Holds(r, v)
                         PROVE  shadow'[r] \cap Mask(r) = v
            BY <5>5
          <6>2. Holds(r, v)'
            BY <1>0, <1>1, <6>1, FitWrites
          <6> QED BY <6>2 DEF Holds
        <5> QED BY <3>1, <5>2, <5>3, <5>6 DEF Leads, Holds
      <4> QED BY <4>1, <4>2
    <3> QED BY <3>1, <3>2, <3>3
  <2> QED BY <2>5, <2>6
<1>9. OpenerInv'
  BY <1>8 DEF OpenerInv, r
<1> QED BY <1>7, <1>9 DEF r

Loads(es, r, v) == es \in Seq(Fits(r, v)) /\ Some(es, r, v)

LEMMA FieldsBegin ==
    ASSUME Core, FieldInv, NEW p \in Procs, NEW o \in Ops \ {"none"}, NEW es, Begin(p, o, es),
           o # "pcm" => vol' = vol,
           dsp' # "open" \/ UNCHANGED <<dsp, mode>>,
           o \in Selecting => es \in Seq(Plain),
           \A r \in VolRegs :
               \/ o \in Readers
               \/ o \notin Selecting /\ es \in Seq(Neutral(r))
               \/ o \in Selecting /\ Loads(es, r, PartOf(r, vol')),
           ~wide' => ~wide /\ OpenerInv' /\ \A r \in SrcRegs :
               \/ o \in Readers \cup Apart(r)
               \/ o \notin Setters(r) /\ es \in Seq(Neutral(r))
               \/ o \in Setters(r) /\ Loads(es, r, SrcOf(r, o))
               \/ o = "record" /\ Loads(es, r, Now(r))
    PROVE  FieldInv'
<1>1. SelInv /\ SelInv'
  BY SelBegin DEF FieldInv
<1>2. /\ ~lost /\ ~crossed /\ ~timedOut /\ sansa_active_rec' = sansa_active_rec
  BY BeginIs
<1>3. \A r : On(r)' => On(r)
  BY DEF On
<1>4. \A r, v : es \in Seq(Neutral(r)) => es \in Seq(Fits(r, v))
  <2>1. \A r, v : Neutral(r) \subseteq Fits(r, v)
    BY DEF Fits
  <2> QED BY <2>1
<1>5. ASSUME ~crossed', NEW r \in VolRegs PROVE Field(r)'
  <2>1. r \in FieldRegs /\ Field(r) /\ r \notin SrcRegs /\ r # AUDIOSET1
    BY <1>2, Masks DEF FieldInv, FieldRegs, SrcRegs
  <2>2. Setters(r) = {"pcm"} /\ Apart(r) = {} /\ \A x : Aim(r, x) = PartOf(r, vol)
    BY <2>1 DEF Setters, Apart, Aim
  <2>3. \A x : Aim(r, x)' = PartOf(r, vol')
    BY <2>1 DEF Aim
  <2>4. Now(r) = PartOf(r, vol)
    BY <2>2 DEF Now
  <2>5. o \notin Setters(r) => \A x : Aim(r, x)' = Aim(r, x)
    BY <2>2, <2>3
  <2>6. o \notin Selecting \cup Readers \cup Apart(r) => es \in Seq(Neutral(r))
    OBVIOUS
  <2>7. o \in Selecting => Loads(es, r, PartOf(r, vol'))
    BY SetterKinds
  <2>8. o \in Selecting \ Setters(r) => es \in Seq(Fits(r, Now(r)))
    BY <2>2, <2>4, <2>7 DEF Loads
  <2>9. o \in Setters(r) => es \in Seq(Fits(r, Aim(r, o)')) /\ Some(es, r, Aim(r, o)')
    BY <2>3, <2>7, SetterKinds DEF Loads
  <2> QED BY <1>1, <1>3, <1>5, <2>1, <2>5, <2>6, <2>8, <2>9, FieldBegin
<1>6. ASSUME ~crossed', ~wide', NEW r \in SrcRegs PROVE Field(r)'
  <2>1. r \in FieldRegs /\ Field(r)
    BY <1>2, <1>6 DEF FieldInv, FieldRegs
  <2>2. /\ \A x : Aim(r, x) = SrcOf(r, x)
        /\ Setters(r) = {"mic", "line"}
    BY DEF Aim, Setters
  <2>3. \A x : Aim(r, x)' = SrcOf(r, x)
    BY DEF Aim
  <2>4. \/ o \in Readers \cup Apart(r)
        \/ o \notin Setters(r) /\ es \in Seq(Neutral(r))
        \/ o \in Setters(r) /\ Loads(es, r, SrcOf(r, o))
        \/ o = "record" /\ Loads(es, r, Now(r))
    BY <1>6
  <2>5. o \in Selecting \ Setters(r) => es \in Seq(Fits(r, Now(r)))
    BY <1>4, <2>4, SetterKinds DEF Loads
  <2>6. o \in Setters(r) => es \in Seq(Fits(r, Aim(r, o)')) /\ Some(es, r, Aim(r, o)')
    BY <2>2, <2>3, <2>4, SetterKinds DEF Loads
  <2>7. o \notin Selecting \cup Readers \cup Apart(r) => es \in Seq(Neutral(r))
    BY <2>4, SetterKinds DEF Selecting
  <2> QED BY <1>1, <1>3, <1>6, <2>1, <2>2, <2>3, <2>5, <2>6, <2>7, FieldBegin
<1> QED BY <1>1, <1>5, <1>6 DEF FieldInv

\* Openers do not care who else begins.
LEMMA OpenerBegin ==
    ASSUME Core, OpenerInv, NEW p \in Procs, NEW o \in Ops \ {"open", "record"}, NEW es,
           Begin(p, o, es), mode' = mode
    PROVE  OpenerInv'
<1>1. /\ op[p] = "none" /\ op'[p] = o /\ todo'[p] = es
      /\ \A q \in Procs \ {p} : op'[q] = op[q] /\ todo'[q] = todo[q]
      /\ i2c_lock' = (IF i2c_lock = None THEN p ELSE i2c_lock)
      /\ shadow' = shadow /\ sansa_active_rec' = sansa_active_rec
  BY BeginIs
<1>2. \A q \in Procs \ {p} : i2c_lock' # q => i2c_lock # q
  BY <1>1, CodecAssumption
<1>3. Now(AUDIOSET1)' = Now(AUDIOSET1) /\ "none" \notin Setters(AUDIOSET1)
  BY <1>1 DEF Now, Aim, SrcRegs, Setters
<1> SUFFICES ASSUME NEW q \in Procs, op'[q] \in {"open", "record"}, "r" \in mode
             PROVE  /\ op'[q] = "open" /\ i2c_lock' # q => EndsIn(todo'[q])
                    /\ (\A u \in Procs : op'[u] \notin Setters(AUDIOSET1)) =>
                           EndsIn(todo'[q]) \/ Leads(q, AUDIOSET1, Now(AUDIOSET1))'
  BY DEF OpenerInv
<1>4. q # p /\ op'[q] = op[q] /\ todo'[q] = todo[q]
  BY <1>1
<1>5. /\ op[q] = "open" /\ i2c_lock # q => EndsIn(todo[q])
      /\ (\A u \in Procs : op[u] \notin Setters(AUDIOSET1)) =>
             EndsIn(todo[q]) \/ Leads(q, AUDIOSET1, Now(AUDIOSET1))
  BY <1>4 DEF OpenerInv
<1>6. (\A u \in Procs : op'[u] \notin Setters(AUDIOSET1)) =>
          \A u \in Procs : op[u] \notin Setters(AUDIOSET1)
  BY <1>1, <1>3
<1>7. Leads(q, AUDIOSET1, Now(AUDIOSET1)) => Leads(q, AUDIOSET1, Now(AUDIOSET1))'
  BY <1>1, <1>3, <1>4 DEF Leads, Holds
<1> QED BY <1>2, <1>4, <1>5, <1>6, <1>7

\* The lists of the operations that load a setting.
LEMMA VolumeList ==
    ASSUME Core, NEW v \in [l : 0..53, r : 0..53]
    PROVE  LET es == LoadAll(MasterVol(v), shadow)
           IN  /\ es \in Seq(Entry) /\ es \in Seq(Plain)
               /\ \A r \in VolRegs : Loads(es, r, PartOf(r, v))
               /\ \A r \in SrcRegs : es \in Seq(Neutral(r))
<1> DEFINE es == LoadAll(MasterVol(v), shadow)
<1>1. shadow \in [Regs -> SUBSET Word] /\ MasterVol(v) \in Seq(Entry)
  BY MasterVolType DEF Core, BusOK, Transfers
<1>2. es \in Seq(Entry)
  BY <1>1, LoadIn DEF Entry
<1>3. es \in Seq(Plain)
  BY <1>1, PlainLists, LoadsFit
<1>4. ASSUME NEW r \in VolRegs PROVE Loads(es, r, PartOf(r, v))
  <2>1. MasterVol(v) \in Seq(Fits(r, PartOf(r, v))) /\ Some(MasterVol(v), r, PartOf(r, v))
    BY MasterSets
  <2> QED BY <1>1, <2>1, LoadsFit, LoadsSome DEF Loads
<1>5. ASSUME NEW r \in SrcRegs PROVE es \in Seq(Neutral(r))
  <2>1. MasterVol(v) \in Seq(Neutral(r))
    BY MasterApart
  <2> QED BY <1>1, <2>1, LoadsFit
<1> QED BY <1>2, <1>3, <1>4, <1>5

LEMMA SourceList ==
    ASSUME Core, NEW src \in {"mic", "line"}
    PROVE  LET es == LoadAll(MasterVol(vol), shadow) \o EnableRecording(src)
           IN  /\ es \in Seq(Plain) /\ es \in Seq(Entry)
               /\ \A r \in VolRegs : Loads(es, r, PartOf(r, vol))
               /\ \A r \in SrcRegs : Loads(es, r, SrcOf(r, src))
<1> DEFINE a == LoadAll(MasterVol(vol), shadow)
           b == EnableRecording(src)
<1>1. vol \in [l : 0..53, r : 0..53]
  BY DEF Core, SettingsType
<1>2. /\ a \in Seq(Entry) /\ a \in Seq(Plain)
      /\ \A r \in VolRegs : Loads(a, r, PartOf(r, vol))
      /\ \A r \in SrcRegs : a \in Seq(Neutral(r))
  BY <1>1, VolumeList
<1>3. b \in Seq(Entry) /\ b \in Seq(Plain)
  BY EnableType, PlainLists DEF Transfers
<1>4. /\ \A r \in SrcRegs : Loads(b, r, SrcOf(r, src))
      /\ \A r \in VolRegs : b \in Seq(Neutral(r))
  BY EnableSets, OthersApart DEF Loads
<1> HIDE DEF a, b
<1>5. \A r, v, s : s \in Seq(Neutral(r)) => s \in Seq(Fits(r, v))
  <2>1. \A r, v : Neutral(r) \subseteq Fits(r, v)
    BY DEF Fits
  <2> QED BY <2>1
<1>6. \A S : \A x, y \in Seq(S) : x \o y \in Seq(S)
  OBVIOUS
<1>7. a \o b \in Seq(Plain) /\ a \o b \in Seq(Entry)
  BY <1>2, <1>3, <1>6
<1>8. ASSUME NEW r \in VolRegs PROVE Loads(a \o b, r, PartOf(r, vol))
  <2>1. Some(a \o b, r, PartOf(r, vol))
    BY <1>2, <1>3, CatSome DEF Loads
  <2>2. a \in Seq(Fits(r, PartOf(r, vol))) /\ b \in Seq(Fits(r, PartOf(r, vol)))
    BY <1>2, <1>4, <1>5 DEF Loads
  <2> QED BY <1>6, <2>1, <2>2 DEF Loads
<1>9. ASSUME NEW r \in SrcRegs PROVE Loads(a \o b, r, SrcOf(r, src))
  <2>1. Some(a \o b, r, SrcOf(r, src))
    BY <1>2, <1>3, <1>4, CatSome DEF Loads
  <2>2. a \in Seq(Fits(r, SrcOf(r, src))) /\ b \in Seq(Fits(r, SrcOf(r, src)))
    BY <1>2, <1>4, <1>5 DEF Loads
  <2> QED BY <1>6, <2>1, <2>2 DEF Loads
<1> QED BY <1>7, <1>8, <1>9 DEF a, b

LEMMA FieldRequest ==
    ASSUME Core, PathInv, FieldInv, NEW p \in Procs, Request(p)
    PROVE  FieldInv'
<1>1. /\ shadow \in [Regs -> SUBSET Word] /\ vol \in [l : 0..53, r : 0..53]
      /\ sansa_active_rec \in {"mic", "line"}
  BY DEF Core, BusOK, SettingsType
<1>2. /\ {"pcm", "level", "mic", "line", "adc", "rtc", "open", "record", "close"} \subseteq Ops \ {"none"}
      /\ Selecting = {"pcm", "mic", "line", "record"} /\ Readers = {"adc", "rtc"}
      /\ \A r \in SrcRegs : Setters(r) = {"mic", "line"}
      /\ Apart(AUDIOSET1) = {"open", "close"}
  BY DEF Ops, Selecting, Readers, Setters, Apart
<1>3. ASSUME NEW o, NEW es, Begin(p, o, es) PROVE ~wide => OpenerInv
  BY <1>3, BeginIs DEF FieldInv
<1>4. \A o \in Ops \ {"open", "record", "none"} : \A es :
          Begin(p, o, es) /\ mode' = mode => (~wide => OpenerInv')
  <2> TAKE o \in Ops \ {"open", "record", "none"}
  <2> TAKE es
  <2> HAVE Begin(p, o, es) /\ mode' = mode
  <2>1. ~wide => OpenerInv
    BY BeginIs DEF FieldInv
  <2> QED BY <2>1, OpenerBegin
<1>5. \A r, es : es \in Seq(Neutral(r)) /\ es # << >> => LoadHead(es, shadow) \in Seq(Neutral(r))
  BY <1>1, LoadsFit
<1>6. ASSUME NEW lr \in PcmLevels, SetPcm(p, lr[1], lr[2]) PROVE FieldInv'
  <2>1. lr[1] \in 0..100 /\ lr[2] \in 0..100
    BY CodecAssumption
  <2>2. vol' \in [l : 0..53, r : 0..53]
    BY <1>6, <2>1, PercentType DEF SetPcm
  <2> DEFINE es == LoadAll(MasterVol(vol'), shadow)
  <2>3. /\ es \in Seq(Plain)
        /\ \A r \in VolRegs : Loads(es, r, PartOf(r, vol'))
        /\ \A r \in SrcRegs : es \in Seq(Neutral(r))
    BY <2>2, VolumeList
  <2>4. Begin(p, "pcm", es) /\ UNCHANGED <<dsp, mode, wide>>
    BY <1>6 DEF SetPcm
  <2> HIDE DEF es
  <2>5. ~wide => OpenerInv'
    BY <1>2, <1>4, <2>4
  <2> QED BY <1>2, <2>3, <2>4, <2>5, FieldsBegin
<1>7. ASSUME NEW l, NEW r, SetLine(p, l, r) PROVE FieldInv'
  <2> DEFINE es == LoadHead(SetRecVol(l, r), shadow)
  <2>1. SetRecVol(l, r) # << >>
    BY RecVolType DEF Transfers
  <2>2. Begin(p, "level", es) /\ UNCHANGED <<vol, dsp, mode>>
        /\ (~wide' => ~wide /\ Bits(l) \subseteq Low5 /\ Bits(r) \subseteq Low5)
    BY <1>7 DEF SetLine
  <2>3. /\ \A x \in VolRegs : es \in Seq(Neutral(x))
        /\ ~wide' => \A x \in SrcRegs : es \in Seq(Neutral(x))
    BY <1>5, <2>1, <2>2, OthersApart
  <2> HIDE DEF es
  <2>4. ~wide => OpenerInv'
    BY <1>2, <1>4, <2>2
  <2> QED BY <1>2, <2>2, <2>3, <2>4, FieldsBegin
<1>8. ASSUME NEW v, SetMic(p, v) PROVE FieldInv'
  <2> DEFINE es == LoadHead(SetMicVol(v), shadow)
  <2>1. SetMicVol(v) # << >>
    BY MicVolType DEF Transfers
  <2>2. Begin(p, "level", es) /\ UNCHANGED <<vol, dsp, mode>>
        /\ (~wide' => ~wide /\ Bits(MicVol(v)) \subseteq Low5)
    BY <1>8 DEF SetMic
  <2>3. /\ \A x \in VolRegs : es \in Seq(Neutral(x))
        /\ ~wide' => \A x \in SrcRegs : es \in Seq(Neutral(x))
    BY <1>5, <2>1, <2>2, OthersApart
  <2> HIDE DEF es
  <2>4. ~wide => OpenerInv'
    BY <1>2, <1>4, <2>2
  <2> QED BY <1>2, <2>2, <2>3, <2>4, FieldsBegin
<1>9. ASSUME NEW src \in {"mic", "line"}, SetRecSrc(p, src) PROVE FieldInv'
  <2> DEFINE es == LoadAll(MasterVol(vol), shadow) \o EnableRecording(src)
  <2>1. /\ es \in Seq(Plain)
        /\ \A r \in VolRegs : Loads(es, r, PartOf(r, vol))
        /\ \A r \in SrcRegs : Loads(es, r, SrcOf(r, src))
    BY SourceList
  <2>2. Begin(p, src, es) /\ UNCHANGED <<vol, dsp, mode, wide>>
    BY <1>9 DEF SetRecSrc
  <2> HIDE DEF es
  <2>3. src \in Ops \ {"open", "record", "none"} /\ src \in Ops \ {"none"} /\ src \in Selecting
    BY <1>2
  <2>4. ~wide => OpenerInv'
    BY <1>4, <2>2, <2>3
  <2>5. \A r \in VolRegs : Loads(es, r, PartOf(r, vol'))
    BY <2>1, <2>2
  <2> QED BY <1>2, <2>1, <2>2, <2>3, <2>4, <2>5, FieldsBegin
<1>10. ASSUME ReadAdc(p) \/ ReadRtc(p) PROVE FieldInv'
  <2>1. PICK o \in {"adc", "rtc"} :
            \E es : Begin(p, o, es) /\ UNCHANGED <<vol, dsp, mode, wide>>
    BY <1>10 DEF ReadAdc, ReadRtc
  <2>2. PICK es : Begin(p, o, es) /\ UNCHANGED <<vol, dsp, mode, wide>>
    BY <2>1
  <2>3. ~wide => OpenerInv'
    BY <1>2, <1>4, <2>2
  <2> QED BY <1>2, <2>2, <2>3, FieldsBegin
<1>11. dsp \in {"closed", "open"} => \A q \in Procs : op[q] \notin {"open", "record"}
  BY DEF PathInv, DspInv
<1>12. ASSUME Close(p) PROVE FieldInv'
  <2> DEFINE es == LoadHead(CloseCodec, shadow)
  <2>1. Begin(p, "close", es) /\ dsp = "open" /\ dsp' = "closing" /\ UNCHANGED <<vol, mode, wide>>
    BY <1>12 DEF Close
  <2>2. \A r \in FieldRegs : r # AUDIOSET1 => es \in Seq(Neutral(r))
    <3>1. CloseCodec # << >>
      BY CloseType DEF Transfers
    <3> QED BY <1>5, <3>1, OthersApart
  <2> HIDE DEF es
  <2>3. ~wide => OpenerInv'
    BY <1>2, <1>4, <2>1
  <2>4. /\ \A r \in VolRegs : es \in Seq(Neutral(r))
        /\ \A r \in SrcRegs : r = AUDIOSET1 \/ es \in Seq(Neutral(r))
    <3>1. /\ \A r \in VolRegs : r \in FieldRegs /\ r # AUDIOSET1
          /\ SrcRegs \subseteq FieldRegs
      BY RegsDiffer DEF FieldRegs, VolRegs
    <3> QED BY <2>2, <3>1
  <2> QED BY <1>2, <2>1, <2>3, <2>4, FieldsBegin
<1>13. ASSUME NEW m \in SUBSET {"r", "w"}, OpenPlay(p, m) PROVE FieldInv'
  <2> DEFINE t == IF "r" \in m THEN << Other("enable", 0) >> ELSE << >>
             h == LoadHead(InitPb, shadow)
             es == h \o t
  <2>1. Begin(p, "open", es) /\ dsp = "closed" /\ dsp' = "opening" /\ mode' = m
        /\ UNCHANGED <<vol, wide>>
    BY <1>13 DEF OpenPlay
  <2>2. \A r \in FieldRegs : r # AUDIOSET1 => es \in Seq(Neutral(r))
    <3> TAKE r \in FieldRegs
    <3> HAVE r # AUDIOSET1
    <3>1. InitPb # << >> /\ InitPb \in Seq(Neutral(r))
      BY InitPbType, OthersApart DEF Transfers
    <3>2. h \in Seq(Neutral(r))
      BY <1>5, <3>1
    <3>3. t \in Seq(Neutral(r))
      BY OtherNeutral
    <3> HIDE DEF h, t
    <3> QED BY <3>2, <3>3
  <2>3. "r" \in m => EndsIn(es)
    <3>1. "r" \in m => t \in Seq(Entry) /\ EndsIn(t)
      BY PathLists, PathBase DEF EndsIn, Other
    <3>2. h \in Seq(Entry)
      BY <1>1, InitPbType, LoadListType DEF Transfers
    <3> HIDE DEF h, t
    <3> QED BY <3>1, <3>2, EndsInCat
  <2> HIDE DEF es
  <2>4. /\ op'[p] = "open" /\ todo'[p] = es
        /\ \A q \in Procs \ {p} : op'[q] = op[q] /\ todo'[q] = todo[q]
    BY <2>1, BeginIs
  <2>5. OpenerInv'
    BY <1>11, <2>1, <2>3, <2>4 DEF OpenerInv
  <2>6. /\ \A r \in VolRegs : es \in Seq(Neutral(r))
        /\ \A r \in SrcRegs : r = AUDIOSET1 \/ es \in Seq(Neutral(r))
    <3>1. /\ \A r \in VolRegs : r \in FieldRegs /\ r # AUDIOSET1
          /\ SrcRegs \subseteq FieldRegs
      BY RegsDiffer DEF FieldRegs, VolRegs
    <3> QED BY <2>2, <3>1
  <2> QED BY <1>2, <2>1, <2>5, <2>6, FieldsBegin
<1>14. ASSUME OpenRecord(p) PROVE FieldInv'
  <2> DEFINE es == LoadAll(MasterVol(vol), shadow) \o EnableRecording(sansa_active_rec)
  <2>1. /\ es \in Seq(Plain)
        /\ \A r \in VolRegs : Loads(es, r, PartOf(r, vol))
        /\ \A r \in SrcRegs : Loads(es, r, SrcOf(r, sansa_active_rec))
    BY <1>1, SourceList
  <2>2. Begin(p, "record", es) /\ dsp = "closed" /\ dsp' = "opening" /\ mode' = {"r"}
        /\ UNCHANGED <<vol, wide>>
    BY <1>14 DEF OpenRecord
  <2> HIDE DEF es
  <2>3. \A r \in SrcRegs : Now(r) = SrcOf(r, sansa_active_rec)
    BY DEF Now, Aim
  <2>4. /\ op'[p] = "record" /\ todo'[p] = es /\ sansa_active_rec' = sansa_active_rec
        /\ \A q \in Procs \ {p} : op'[q] = op[q] /\ todo'[q] = todo[q]
    BY <2>2, BeginIs
  <2>5. OpenerInv'
    <3>1. AUDIOSET1 \in SrcRegs
      BY DEF SrcRegs
    <3>2. Now(AUDIOSET1)' = SrcOf(AUDIOSET1, sansa_active_rec)
      BY <2>4, <3>1 DEF Now, Aim
    <3>3. Leads(p, AUDIOSET1, Now(AUDIOSET1))'
      BY <2>1, <2>4, <3>1, <3>2 DEF Leads, Loads
    <3> QED BY <1>11, <2>2, <2>4, <3>3 DEF OpenerInv
  <2>6. \A r \in VolRegs : Loads(es, r, PartOf(r, vol'))
    BY <2>1, <2>2
  <2> QED BY <1>2, <2>1, <2>2, <2>3, <2>5, <2>6, FieldsBegin
<1> QED BY <1>6, <1>7, <1>8, <1>9, <1>10, <1>12, <1>13, <1>14 DEF Request

\* When the driver starts, the registers hold what it remembers.
Fresh ==
    /\ shadow = InitRegs /\ vol = [l |-> 37, r |-> 37]
    /\ sansa_active_rec = "mic" /\ dsp = "closed"
    /\ \A p \in Procs : op[p] = "none" /\ todo[p] = << >>

LEMMA FreshFields == Fresh => FieldInv
<1> SUFFICES ASSUME Fresh PROVE FieldInv
  OBVIOUS
<1>1. SelInv
  BY DEF Fresh, SelInv, Selecting
<1>2. OpenerInv
  BY DEF Fresh, OpenerInv
<1>3. ASSUME NEW r \in FieldRegs PROVE Field(r)
  <2>1. << >> \in Seq(Neutral(r)) /\ << >> \in Seq(Fits(r, Now(r)))
    OBVIOUS
  <2>2. "none" \notin Setters(r)
    BY DEF Setters
  <2>3. On(r) => Holds(r, Now(r))
    <3>1. CASE r = AUDIOSET1
      BY <3>1 DEF Fresh, On
    <3>2. CASE r = ADC_R
      <4>1. shadow[r] = {}
        BY <3>2, RegsDiffer DEF Fresh, InitRegs
      <4>2. Now(r) = {}
        BY <3>2 DEF Fresh, Now, Aim, SrcRegs, SrcOf
      <4> QED BY <4>1, <4>2 DEF Holds
    <3>3. CASE r \in VolRegs
      <4>1. Now(r) = PartOf(r, vol) /\ Mask(r) = Low5
        BY <3>3, Masks DEF Now, Aim
      <4>2. MixerPart(37) \subseteq Low5 /\ HeadphonePart(37) \subseteq Low5
        BY PartsLow
      <4>3. {6, 7} \cap Low5 = {}
        BY DEF Low5
      <4>4. \/ shadow[r] = MixerPart(37) /\ PartOf(r, vol) = MixerPart(37)
            \/ shadow[r] = {6} \cup MixerPart(37) /\ PartOf(r, vol) = MixerPart(37)
            \/ shadow[r] = HeadphonePart(37) /\ PartOf(r, vol) = HeadphonePart(37)
            \/ shadow[r] = {6, 7} \cup HeadphonePart(37) /\ PartOf(r, vol) = HeadphonePart(37)
        <5>1. vol.l = 37 /\ vol.r = 37
          BY DEF Fresh
        <5>2. r \in Regs
          BY <3>3, Masks
        <5> QED BY <3>3, <5>1, <5>2, RegsDiffer DEF Fresh, InitRegs, PartOf, VolRegs
      <4> QED BY <4>1, <4>2, <4>3, <4>4 DEF Holds
    <3> QED BY <3>1, <3>2, <3>3 DEF FieldRegs, SrcRegs
  <2> QED BY <2>1, <2>2, <2>3 DEF Fresh, Field, Waiting, Settled, Pending
<1> QED BY <1>1, <1>2, <1>3 DEF FieldInv, FieldRegs

LEMMA FreshNext == Fresh' => FieldInv'
BY FreshFields, PTL

\* A transfer to a mixer register keeps every setting on its way.
LEMMA FieldSendWrite ==
    ASSUME Core, PathInv, FieldInv, NEW p \in Procs, SendWrite(p)
    PROVE  FieldInv'
<1>1. /\ i2c_lock = p /\ op[p] # "none"
      /\ todo[p] \in Seq(Entry) /\ todo[p] # << >>
      /\ GoOn(p, Tail(todo[p]))
      /\ shadow' \in [Regs -> SUBSET Word]
      /\ ~lost' => ~lost
      /\ UNCHANGED <<vol, crossed, wide, timedOut>>
  BY WriteIs
<1>2. SelInv /\ SelInv'
  BY <1>1, SelGoOn DEF FieldInv
<1> SUFFICES ASSUME ~lost', ~crossed', ~timedOut'
             PROVE  /\ \A r \in VolRegs : Field(r)'
                    /\ ~wide' => OpenerInv' /\ \A r \in SrcRegs : Field(r)'
  BY <1>2 DEF FieldInv
<1>3. /\ ~lost /\ ~crossed /\ ~timedOut
      /\ \A r \in VolRegs : Field(r)
      /\ ~wide' => OpenerInv /\ \A r \in SrcRegs : Field(r)
  BY <1>1 DEF FieldInv
<1>4. vol \in [l : 0..53, r : 0..53] /\ sansa_active_rec \in {"mic", "line"}
  BY DEF Core, SettingsType
<1>5. \A r, v : Seq(Neutral(r)) \subseteq Seq(Fits(r, v))
  BY DEF Fits
<1>6. ASSUME NEW r \in VolRegs PROVE Field(r)'
  <2>1. r \in FieldRegs /\ r # AUDIOSET1 /\ Apart(r) = {} /\ On(r)
    BY RegsDiffer DEF FieldRegs, VolRegs, Apart, On
  <2>2. Now(r) = PartOf(r, vol)
    BY Masks DEF Now, Aim
  <2>3. MasterVol(vol) \in Seq(Fits(r, Now(r)))
    BY <1>4, <2>2, MasterSets
  <2>4. EnableRecording(sansa_active_rec) \in Seq(Fits(r, Now(r)))
    BY <1>5, OthersApart
  <2> QED BY <1>2, <1>3, <2>1, <2>3, <2>4, FieldWrite
<1>7. ASSUME ~wide' PROVE OpenerInv' /\ \A r \in SrcRegs : Field(r)'
  <2>1. OpenerInv /\ Field(AUDIOSET1)
    BY <1>3, <1>7 DEF SrcRegs
  <2>2. /\ OpenerInv'
        /\ Tail(todo[p]) = << >> /\ op[p] \in {"open", "record"} /\ "r" \in mode
           /\ (\A q \in Procs : op[q] \notin Setters(AUDIOSET1)) =>
                  Holds(AUDIOSET1, Now(AUDIOSET1))'
    BY <1>2, <1>3, <2>1, OpenerWrite
  <2>3. ASSUME NEW r \in SrcRegs PROVE Field(r)'
    <3>1. r \in FieldRegs /\ Field(r)
      BY <1>3, <1>7 DEF FieldRegs
    <3>2. Now(r) = SrcOf(r, sansa_active_rec)
      BY DEF Now, Aim
    <3>3. MasterVol(vol) \in Seq(Fits(r, Now(r)))
      BY <1>5, MasterApart
    <3>4. EnableRecording(sansa_active_rec) \in Seq(Fits(r, Now(r)))
      BY <1>4, <3>2, EnableSets
    <3>5. op[p] \in Apart(r) => ~On(r)
      BY DEF Apart, On, PathInv, DspInv
    <3>6. On(r)' => \/ On(r)
                    \/ (\A q \in Procs : op[q] \notin Setters(r)) => Holds(r, Now(r))'
      <4>1. CASE r # AUDIOSET1
        BY <4>1 DEF On
      <4>2. CASE r = AUDIOSET1 /\ Tail(todo[p]) # << >>
        <5>1. UNCHANGED <<dsp, mode>>
          BY <1>1, <4>2 DEF GoOn
        <5> QED BY <5>1 DEF On
      <4>3. CASE r = AUDIOSET1 /\ Tail(todo[p]) = << >>
        <5>1. /\ dsp' = CASE op[p] \in {"open", "record"} -> "open"
                          [] op[p] = "close" -> "closed"
                          [] OTHER -> dsp
              /\ mode' = IF op[p] = "close" THEN {} ELSE mode
          BY <1>1, <4>3 DEF GoOn
        <5>2. CASE op[p] \in {"open", "record"}
          <6>1. On(r)' => "r" \in mode
            BY <4>3, <5>1, <5>2 DEF On
          <6> QED BY <2>2, <4>3, <5>2, <6>1
        <5>3. CASE op[p] \notin {"open", "record"}
          BY <4>3, <5>1, <5>3 DEF On
        <5> QED BY <5>2, <5>3
      <4> QED BY <4>1, <4>2, <4>3
    <3> QED BY <1>2, <1>3, <3>1, <3>3, <3>4, <3>5, <3>6, FieldWrite
  <2> QED BY <2>2, <2>3
<1> QED BY <1>6, <1>7

LEMMA FieldsIdle ==
    ASSUME FieldInv,
           UNCHANGED <<shadow, vol, sansa_active_rec, dsp, mode, lost, crossed, wide, timedOut>>,
           \A q \in Procs :
               \/ op'[q] = op[q] /\ todo'[q] = todo[q] /\ (i2c_lock' # q => i2c_lock # q)
               \/ op[q] \in Readers /\ (op'[q] \in Readers \/ (op'[q] = "none" /\ todo'[q] = << >>))
    PROVE  FieldInv'
<1>1. \A q \in Procs :
          \/ op'[q] = op[q] /\ todo'[q] = todo[q] /\ (i2c_lock' # q => i2c_lock # q)
          \/ /\ op'[q] \notin Selecting \cup {"open", "record", "mic", "line"}
             /\ op[q] \notin Selecting \cup {"open", "record", "mic", "line"}
  BY DEF Readers, Selecting
<1>2. SelInv'
  <2>1. SelInv
    BY DEF FieldInv
  <2> QED BY <1>1, <2>1 DEF SelInv
<1>3. \A r \in FieldRegs : Field(r) => Field(r)'
  BY FieldIdle
<1>4. OpenerInv => OpenerInv'
  <2> SUFFICES ASSUME OpenerInv, NEW p \in Procs, op'[p] \in {"open", "record"}, "r" \in mode'
               PROVE  /\ op'[p] = "open" /\ i2c_lock' # p => EndsIn(todo'[p])
                      /\ (\A q \in Procs : op'[q] \notin Setters(AUDIOSET1)) =>
                             EndsIn(todo'[p]) \/ Leads(p, AUDIOSET1, Now(AUDIOSET1))'
    BY DEF OpenerInv
  <2>1. op'[p] = op[p] /\ todo'[p] = todo[p] /\ (i2c_lock' # p => i2c_lock # p) /\ "r" \in mode
    BY <1>1
  <2>2. /\ op[p] = "open" /\ i2c_lock # p => EndsIn(todo[p])
        /\ (\A q \in Procs : op[q] \notin Setters(AUDIOSET1)) =>
               EndsIn(todo[p]) \/ Leads(p, AUDIOSET1, Now(AUDIOSET1))
    BY <2>1 DEF OpenerInv
  <2>3. Setters(AUDIOSET1) = {"mic", "line"}
    BY DEF Setters, SrcRegs
  <2>4. (\A q \in Procs : op'[q] \notin Setters(AUDIOSET1)) =>
            \A q \in Procs : op[q] \notin Setters(AUDIOSET1)
    BY <1>1, <2>3
  <2>5. Leads(p, AUDIOSET1, Now(AUDIOSET1)) => Leads(p, AUDIOSET1, Now(AUDIOSET1))'
    BY <2>1 DEF Leads, Holds, Now, Aim
  <2> QED BY <2>1, <2>2, <2>4, <2>5
<1> QED BY <1>2, <1>3, <1>4 DEF FieldInv, FieldRegs

LEMMA FieldNext == Core /\ PathInv /\ FieldInv /\ [Next]_vars => FieldInv'
<1> SUFFICES ASSUME Core, PathInv, FieldInv, [Next]_vars PROVE FieldInv'
  OBVIOUS
<1>1. CASE UNCHANGED vars
  <2>1. /\ UNCHANGED <<shadow, vol, sansa_active_rec, dsp, mode, lost, crossed, wide, timedOut>>
        /\ UNCHANGED <<op, todo, i2c_lock>>
    BY <1>1 DEF vars, codec, wires, procs, ghosts
  <2> QED BY <2>1, FieldsIdle
<1>2. CASE Complete
  <2>1. /\ UNCHANGED <<shadow, vol, sansa_active_rec, dsp, mode, lost, crossed, wide, timedOut>>
        /\ UNCHANGED <<op, todo, i2c_lock>>
    BY <1>2 DEF Complete, codec, procs, ghosts
  <2> QED BY <2>1, FieldsIdle
<1>3. CASE Boot
  <2>1. \A p \in Procs : op[p] = "none" /\ todo[p] = << >>
    BY <1>3 DEF Boot, Core, BusOK
  <2>2. Fresh'
    BY <1>3, <2>1 DEF Boot, Fresh, procs
  <2> QED BY <2>2, FreshNext
<1>4. ASSUME NEW p \in Procs, Acquire(p) PROVE FieldInv'
  <2>1. /\ UNCHANGED <<shadow, vol, sansa_active_rec, dsp, mode, lost, crossed, wide, timedOut>>
        /\ UNCHANGED <<op, todo>> /\ i2c_lock = None
    BY <1>4 DEF Acquire, codec, ghosts
  <2>2. \A q \in Procs : i2c_lock # q
    BY <2>1, CodecAssumption
  <2> QED BY <2>1, <2>2, FieldsIdle
<1>5. ASSUME NEW p \in Procs, ReaderStep(p) PROVE FieldInv'
  <2>1. /\ UNCHANGED <<shadow, vol, sansa_active_rec, dsp, mode, lost, crossed, wide, timedOut>>
        /\ i2c_lock = p /\ op[p] \in Readers
        /\ \A q \in Procs \ {p} : op'[q] = op[q] /\ todo'[q] = todo[q]
        /\ op'[p] = op[p] \/ (op'[p] = "none" /\ todo'[p] = << >>)
    BY <1>5, ReaderIs DEF Reading
  <2> QED BY <2>1, FieldsIdle
<1>6. ASSUME NEW p \in Procs, TimeOut(p) PROVE FieldInv'
  <2>1. /\ i2c_lock = p /\ timedOut' = TRUE /\ UNCHANGED crossed
        /\ shadow' \in [Regs -> SUBSET Word]
        /\ todo[p] \in Seq(Entry) /\ todo[p] # << >> /\ SelInv
    BY <1>6, TimeOutIs DEF FieldInv
  <2>2. SelInv'
    BY <1>6, <2>1, TimeOutIs, SelGoOn
  <2> QED BY <2>1, <2>2 DEF FieldInv
<1> QED BY <1>1, <1>2, <1>3, <1>4, <1>5, <1>6, FieldRequest, FieldSendWrite
        DEF Next, Step, ReaderStep

\* What the mixer was last told is what the codec does (as3514_set_master_vol
\* and as3514_enable_recording): whoever opened and closed /dev/dsp, set a
\* level, or read the clock or the battery meanwhile, and in whatever order
\* they got the bus, once all is quiet the four volume fields are those of
\* the volume remembered and the recording source is the one RECSRC reports.
\* Excepted are only the runs in which a ghost says that the lock was too
\* late, a level too wide, or a transfer timed out.
THEOREM SettingsStay == Spec => []SettingsKept
<1>1. Init => FieldInv
  <2>1. Init => Fresh
    BY DEF Init, Fresh
  <2> QED BY <2>1, FreshFields
<1>2. Core /\ FieldInv => SettingsKept
  <2> SUFFICES ASSUME Core, FieldInv, Quiet, ~lost, ~crossed, ~timedOut
               PROVE  /\ ~wide => SourceSelected
                      /\ /\ chip[DAC_R] \cap Low5 = MixerPart(vol.r)
                         /\ chip[DAC_L] \cap Low5 = MixerPart(vol.l)
                         /\ chip[HPH_OUT_R] \cap Low5 = HeadphonePart(vol.r)
                         /\ chip[HPH_OUT_L] \cap Low5 = HeadphonePart(vol.l)
    BY DEF SettingsKept, SourceSelected, VolumeSet, Spoiled
  <2>1. \A r \in Regs : chip[r] = shadow[r] \cap Byte
    <3>1. bus.kind = "idle"
      BY DEF Quiet, Idle
    <3> QED BY <3>1 DEF Core, ShadowAgrees, Carried
  <2>2. \A r \in FieldRegs : Field(r) => (On(r) => chip[r] \cap Mask(r) = Now(r))
    <3> TAKE r \in FieldRegs
    <3> HAVE Field(r)
    <3>1. \A p \in Procs : op[p] \notin Setters(r)
      BY DEF Quiet, Setters
    <3>2. On(r) => Holds(r, Now(r))
      BY <3>1 DEF Field, Settled
    <3>3. r \in Regs /\ Mask(r) \subseteq Byte
      BY Masks
    <3> QED BY <2>1, <3>2, <3>3 DEF Holds
  <2>3. \A r \in VolRegs : chip[r] \cap Low5 = PartOf(r, vol)
    <3> TAKE r \in VolRegs
    <3>1. r \in FieldRegs /\ Field(r) /\ On(r) /\ Mask(r) = Low5 /\ r \notin SrcRegs
      BY Masks, RegsDiffer DEF FieldRegs, VolRegs, On, FieldInv
    <3>2. Now(r) = PartOf(r, vol)
      BY <3>1 DEF Now, Aim
    <3> QED BY <2>2, <3>1, <3>2
  <2>4. /\ chip[DAC_R] \cap Low5 = MixerPart(vol.r)
        /\ chip[DAC_L] \cap Low5 = MixerPart(vol.l)
        /\ chip[HPH_OUT_R] \cap Low5 = HeadphonePart(vol.r)
        /\ chip[HPH_OUT_L] \cap Low5 = HeadphonePart(vol.l)
    BY <2>3, RegsDiffer DEF VolRegs, PartOf
  <2>5. ASSUME ~wide PROVE SourceSelected
    <3>1. \A r \in SrcRegs : /\ r \in FieldRegs /\ Field(r)
                             /\ Now(r) = SrcOf(r, sansa_active_rec)
      BY <2>5 DEF FieldInv, FieldRegs, Now, Aim
    <3>2. ADC_R \in SrcRegs /\ AUDIOSET1 \in SrcRegs /\ ADC_R # AUDIOSET1
      BY RegsDiffer DEF SrcRegs
    <3>3. chip[ADC_R] \cap {6, 7} = SrcOf(ADC_R, sansa_active_rec)
      BY <2>2, <3>1, <3>2, Masks DEF On
    <3>4. dsp = "open" /\ "r" \in mode =>
              chip[AUDIOSET1] \cap {0, 2} = SrcOf(AUDIOSET1, sansa_active_rec)
      BY <2>2, <3>1, <3>2, Masks DEF On
    <3> QED BY <3>2, <3>3, <3>4 DEF SourceSelected, SrcOf
  <2> QED BY <2>4, <2>5
<1>3. (Core /\ PathInv /\ FieldInv) /\ [Next]_vars => (Core /\ PathInv /\ FieldInv)'
  BY CoreNext, PathNext, FieldNext
<1> QED BY <1>1, <1>2, <1>3, CoreInit, PathInit, PTL DEF Spec
=============================================================================
