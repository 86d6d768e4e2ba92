------------------------ MODULE SansaPlaybackProofs ------------------------
(* Theorems about SansaPlayback, for every ring and FIFO size and without  *)
(* a bound on the samples, the writes or the opens.                        *)
EXTENDS SansaPlayback, TLAPS

USE DEF PlaybackAssumption

\* Offsets are advanced modulo BUF_LEN (audio.c:402, 594, 620) by amounts
\* that reach the end of the ring at most.
LEMMA ModLemma ==
    ASSUME NEW x \in 0 .. BUF_LEN
    PROVE  x % BUF_LEN = IF x = BUF_LEN THEN 0 ELSE x
  BY PlaybackAssumption

LEMMA ZeroSlot == 0 \in Slots
  BY PlaybackAssumption DEF Slots

LEMMA Next1Lemma ==
    ASSUME NEW i \in Slots
    PROVE  /\ Next1(i) \in Slots
           /\ Next1(i) = IF i = BUF_LEN - 1 THEN 0 ELSE i + 1
  BY PlaybackAssumption, ModLemma, i + 1 \in 0 .. BUF_LEN DEF Slots, Next1

LEMMA BothOffLemma == BothOff \in IISConfig
  BY Zenon DEF BothOff, IISConfig

LEMMA EnableWriteLemma ==
    ASSUME NEW e \in BOOLEAN, NEW b \in BOOLEAN
    PROVE  EnableWrite(e, b) \in BOOLEAN
  BY DEF EnableWrite

LEMMA SetBitLemma ==
    ASSUME NEW c \in IISConfig, NEW b \in BOOLEAN
    PROVE  /\ [c EXCEPT !.irqtx = b] \in IISConfig
           /\ [c EXCEPT !.txfifo = b] \in IISConfig
  BY DEF IISConfig

\* No pass of the write loop moves more than there is room for.
LEMMA CopyEndLemma ==
    ASSUME NEW r \in Slots, NEW w \in Slots, NEW left \in Nat,
           NEW n, n = AtMost(EndRoom(r, w), left)
    PROVE  /\ n \in Nat /\ n <= left
           /\ w + n <= BUF_LEN
           /\ (w + n) % BUF_LEN \in Slots
           /\ (w + n) % BUF_LEN = IF w + n = BUF_LEN THEN 0 ELSE w + n
           /\ Used(w, (w + n) % BUF_LEN) = n
           /\ Used(r, w) + n <= BUF_LEN - 1
           /\ r <= w /\ r > 0 /\ left - n > 0 => w + n = BUF_LEN
  <1>1. n \in Nat /\ n <= left /\ w + n <= BUF_LEN
    BY PlaybackAssumption DEF Slots, AtMost, EndRoom
  <1>2. (w + n) % BUF_LEN = IF w + n = BUF_LEN THEN 0 ELSE w + n
    BY <1>1, ModLemma, w + n \in 0 .. BUF_LEN DEF Slots
  <1>3. (w + n) % BUF_LEN \in Slots
    BY <1>1, <1>2, PlaybackAssumption DEF Slots
  <1>4. Used(r, w) + n <= BUF_LEN - 1
    BY PlaybackAssumption DEF Slots, AtMost, EndRoom, Used
  <1>5. Used(w, (w + n) % BUF_LEN) = n
    <2>1. n < BUF_LEN
      BY <1>1, <1>4, PlaybackAssumption DEF Slots, Used
    <2>2. CASE w + n = BUF_LEN
      BY <2>1, <2>2, <1>1, <1>2, PlaybackAssumption DEF Slots, Used
    <2>3. CASE w + n # BUF_LEN
      BY <2>3, <1>1, <1>2, PlaybackAssumption DEF Slots, Used
    <2> QED
      BY <2>2, <2>3
  <1>6. r <= w /\ r > 0 /\ left - n > 0 => w + n = BUF_LEN
    BY PlaybackAssumption DEF Slots, AtMost, EndRoom
  <1> QED
    BY <1>1, <1>2, <1>3, <1>4, <1>5, <1>6

LEMMA CopyStartLemma ==
    ASSUME NEW r \in Slots, NEW left \in Nat, r > 0
    PROVE  /\ StartRoom(r, left) \in Nat
           /\ StartRoom(r, left) <= left
           /\ StartRoom(r, left) < r
           /\ StartRoom(r, left) \in Slots
  BY PlaybackAssumption DEF Slots, StartRoom

LEMMA FilledLemma ==
    ASSUME NEW buf \in [Slots -> Nat], NEW w \in Nat, NEW n \in Nat,
           NEW first \in Nat
    PROVE  Filled(buf, w, n, first) \in [Slots -> Nat]
  BY PlaybackAssumption DEF Filled, Slots

-----------------------------------------------------------------------------
\* Alone TypeOK is not inductive: the second memcpy stays within the ring
\* because it is reached with a reader beyond slot 0 only (audio.c:624).
TypeInv == TypeOK /\ (pc = "start_copy" => read_off_current > 0)

\* Type correctness, with the FIFO never filled beyond its slots (the
\* free_count test, audio.c:385-392).
THEOREM TypeInvariance == Spec => []TypeInv
  <1>1. Init => TypeInv
    <2>1. 0 \in Slots /\ [i \in Slots |-> 0] \in [Slots -> Nat]
      BY ZeroSlot
    <2>2. 0 \in 0 .. FIFO_LEN
      BY PlaybackAssumption
    <2> QED
      BY <2>1, <2>2, BothOffLemma DEF Init, TypeInv, TypeOK, CpuPcs, CopPcs
  <1>2. TypeInv /\ [Next]_vars => TypeInv'
    <2> SUFFICES ASSUME TypeInv, [Next]_vars PROVE TypeInv'
      OBVIOUS
    <2> USE DEF TypeInv, TypeOK, ram, hw, locals, copVars, ghosts
    <2>1. CASE Request
      <3>1. CASE OpenReadOff
        BY <3>1, ZeroSlot DEF OpenReadOff, CpuPcs
      <3>2. ASSUME NEW on \in BOOLEAN, SetStereo(on) PROVE TypeInv'
        BY <3>2 DEF SetStereo
      <3>3. ASSUME NEW k \in 1 .. MaxCount, WriteBegin(k) PROVE TypeInv'
        BY <3>3, PlaybackAssumption DEF WriteBegin, CpuPcs
      <3>4. CASE SyncBegin \/ CloseBegin
        BY <3>4 DEF SyncBegin, CloseBegin, Goto, CpuPcs
      <3> QED
        BY <2>1, <3>1, <3>2, <3>3, <3>4 DEF Request
    <2>2. CASE Signal \/ Drain
      BY <2>2 DEF Signal, Drain, DrainTest, DrainDone, DrainSignal, Goto, CpuPcs
    <2>3. CASE Open
      <3>1. CASE OpenWriteOff
        BY <3>1, ZeroSlot DEF OpenWriteOff, CpuPcs
      <3>4. CASE OpenActive
        BY <3>4 DEF OpenActive, CpuPcs
      <3>2. CASE OpenReset
        BY <3>2, PlaybackAssumption, BothOffLemma DEF OpenReset, CpuPcs
      <3>3. CASE OpenHandler
        <4>1. EnableWrite(copIntEn, TRUE) \in BOOLEAN
          BY EnableWriteLemma
        <4> QED
          BY <3>3, <4>1 DEF OpenHandler, CpuPcs
      <3> QED
        BY <2>3, <3>1, <3>2, <3>3, <3>4 DEF Open
    <2>4. CASE Write
      <3>1. CASE WriteLoop \/ WritePublish \/ WriteTest
        BY <3>1, ZeroSlot DEF WriteLoop, WritePublish, WriteTest, CpuPcs
      <3>2. CASE CopyEnd
        <4> DEFINE n == AtMost(EndRoom(read_off_current, write_off_current), rem)
        <4>1. /\ n \in Nat /\ rem - n \in Nat /\ bufsp + n \in Nat
              /\ (write_off_current + n) % BUF_LEN \in Slots
          <5> HIDE DEF n
          <5>1. n = AtMost(EndRoom(read_off_current, write_off_current), rem)
            BY DEF n
          <5> QED
            BY <5>1, CopyEndLemma
        <4>2. write_off_current \in Nat /\ bufsp + 1 \in Nat
          BY PlaybackAssumption DEF Slots
        <4>3. Filled(dma_buf, write_off_current, n, bufsp + 1) \in [Slots -> Nat]
          BY <4>1, <4>2, FilledLemma
        <4>4. /\ dma_buf' = Filled(dma_buf, write_off_current, n, bufsp + 1)
              /\ rem' = rem - n /\ bufsp' = bufsp + n
              /\ write_off_current' = (write_off_current + n) % BUF_LEN
              /\ pc' \in {"start_copy", "publish"}
              /\ pc' = "start_copy" => read_off_current > 0
              /\ UNCHANGED <<r_off, w_off, dma_active, stereo, handler, hw,
                             isopen, read_off_current, cpuReg, copVars, ghosts>>
          BY <3>2 DEF CopyEnd
        <4> HIDE DEF n
        <4> QED
          BY <4>1, <4>3, <4>4 DEF CpuPcs
      <3>3. CASE CopyStart
        <4> DEFINE n == StartRoom(read_off_current, rem)
        <4>1. n \in Nat /\ n \in Slots /\ rem - n \in Nat /\ bufsp + n \in Nat
          BY <3>3, CopyStartLemma DEF CopyStart
        <4>2. Filled(dma_buf, 0, n, bufsp + 1) \in [Slots -> Nat]
          BY <4>1, FilledLemma, bufsp + 1 \in Nat
        <4> HIDE DEF n
        <4> QED
          BY <3>3, <4>1, <4>2 DEF CopyStart, CpuPcs, n
      <3>4. CASE WriteActivate \/ WriteIrqOn \/ WriteFifoRead \/ WriteFifoOn
        BY <3>4, SetBitLemma, BothOffLemma, ZenonT(60)
        DEF WriteActivate, WriteIrqOn, WriteFifoRead, WriteFifoOn, CpuPcs
      <3> QED
        BY <2>4, <3>1, <3>2, <3>3, <3>4 DEF Write
    <2>5. CASE Close
      BY <2>5, EnableWriteLemma DEF Close, CloseMask, CloseHandler, CpuPcs
    <2>6. CASE CopStep
      <3>1. CASE FiqPush
        BY <3>1, PlaybackAssumption
        DEF FiqPush, CopGoto, CopPcs, CopFreeCount, FifoFree
      <3>2. CASE FiqAdvance
        BY <3>2, Next1Lemma DEF FiqAdvance, CopGoto, CopPcs
      <3>3. CASE FiqEntry \/ FiqFull \/ FiqEmpty \/ FiqIrqRead
        BY <3>3 DEF FiqEntry, FiqFull, FiqEmpty, FiqIrqRead, CopGoto, CopPcs
      <3>6. CASE FiqLoop \/ FiqMore \/ FiqInactive
        BY <3>6, ZenonT(60) DEF FiqLoop, FiqMore, FiqInactive, CopGoto, CopPcs
      <3>4. CASE FiqIrqOff \/ FiqReturn \/ FiqIrqWrite
        BY <3>4, SetBitLemma, BothOffLemma, ZenonT(60)
        DEF FiqIrqOff, FiqReturn, FiqIrqWrite, CopGoto, CopPcs
      <3>5. CASE FiqFifoOn \/ FiqFifoOff
        BY <3>5, SetBitLemma, BothOffLemma
        DEF FiqFifoOn, FiqFifoOff, CopGoto, CopPcs
      <3> QED
        BY <2>6, <3>1, <3>2, <3>3, <3>4, <3>5, <3>6 DEF CopStep
    <2>7. CASE Transmit
      BY <2>7, PlaybackAssumption DEF Transmit
    <2>8. CASE UNCHANGED vars
      BY <2>8 DEF vars
    <2> QED
      BY <2>1, <2>2, <2>3, <2>4, <2>5, <2>6, <2>7, <2>8 DEF Next, CpuStep
  <1> QED
    BY <1>1, <1>2, PTL DEF Spec

THEOREM TypeCorrect == Spec => []TypeOK
  <1>1. TypeInv => TypeOK
    BY DEF TypeInv
  <1> QED
    BY <1>1, TypeInvariance, PTL

-----------------------------------------------------------------------------
(* The arithmetic of the ring *)

LEMMA UsedLemma ==
    ASSUME NEW r \in Slots, NEW w \in Slots
    PROVE  /\ Used(r, w) \in Nat /\ Used(r, w) <= BUF_LEN - 1
           /\ Used(r, w) = 0 <=> r = w
           /\ r = w => \A i \in Slots : ~InPart(i, r, w)
           /\ r # w => InPart(r, r, w)
  BY PlaybackAssumption DEF Slots, Used, InPart

LEMMA AdvanceLemma ==
    ASSUME NEW r \in Slots, NEW w \in Slots, r # w
    PROVE  /\ Used(Next1(r), w) = Used(r, w) - 1
           /\ \A i \in Slots : InPart(i, Next1(r), w) => InPart(i, r, w)
           /\ \A q \in Slots : Used(q, w) = Used(q, r) + Used(r, w)
                 => Used(q, w) = Used(q, Next1(r)) + Used(Next1(r), w)
  <1>1. Next1(r) \in Slots /\ Next1(r) = IF r = BUF_LEN - 1 THEN 0 ELSE r + 1
    BY Next1Lemma
  <1>2. Used(Next1(r), w) = Used(r, w) - 1
    BY <1>1, PlaybackAssumption DEF Slots, Used
  <1>3. \A i \in Slots : InPart(i, Next1(r), w) => InPart(i, r, w)
    BY <1>1, PlaybackAssumption DEF Slots, InPart
  <1>4. ASSUME NEW q \in Slots, Used(q, w) = Used(q, r) + Used(r, w)
        PROVE  Used(q, w) = Used(q, Next1(r)) + Used(Next1(r), w)
    BY <1>1, <1>4, PlaybackAssumption DEF Slots, Used
  <1> QED
    BY <1>2, <1>3, <1>4

\* Two adjoining parts of the ring that fit in it together are one part.
LEMMA JoinLemma ==
    ASSUME NEW r \in Slots, NEW w \in Slots, NEW x \in Slots,
           Used(r, w) + Used(w, x) <= BUF_LEN - 1
    PROVE  /\ Used(r, x) = Used(r, w) + Used(w, x)
           /\ \A i \in Slots : InPart(i, r, x) <=> InPart(i, r, w) \/ InPart(i, w, x)
           /\ \A i \in Slots : InPart(i, r, w) => Used(i, x) = Used(i, w) + Used(w, x)
           /\ \A i \in Slots : InPart(i, r, w) => ~InPart(i, w, x)
  <1>1. Used(r, x) = Used(r, w) + Used(w, x)
    BY PlaybackAssumption DEF Slots, Used
  <1>2. ASSUME NEW i \in Slots
        PROVE  InPart(i, r, x) <=> InPart(i, r, w) \/ InPart(i, w, x)
    BY PlaybackAssumption DEF Slots, Used, InPart
  <1>3. ASSUME NEW i \in Slots, InPart(i, r, w)
        PROVE  Used(i, x) = Used(i, w) + Used(w, x) /\ ~InPart(i, w, x)
    BY <1>3, PlaybackAssumption DEF Slots, Used, InPart
  <1> QED
    BY <1>1, <1>2, <1>3

\* n slots from w on, up to the end of the ring at most
LEMMA FillLemma ==
    ASSUME NEW w \in Slots, NEW n \in Nat, w + n <= BUF_LEN, n < BUF_LEN,
           NEW x \in Slots, x = IF w + n = BUF_LEN THEN 0 ELSE w + n,
           NEW i \in Slots
    PROVE  /\ InPart(i, w, x) <=> i >= w /\ i < w + n
           /\ InPart(i, w, x) => Used(i, x) = w + n - i
  BY PlaybackAssumption DEF Slots, Used, InPart

\* n more slots from 0 on, when the copy wrapped around
LEMMA WrapLemma ==
    ASSUME NEW w \in Slots, NEW n \in Slots, n < w, NEW i \in Slots
    PROVE  /\ Used(w, n) = Used(w, 0) + n
           /\ InPart(i, w, n) <=> InPart(i, w, 0) \/ i < n
           /\ InPart(i, w, 0) => Used(i, n) = Used(i, 0) + n /\ i >= n
           /\ i < n => Used(i, n) = n - i
  BY PlaybackAssumption DEF Slots, Used, InPart

-----------------------------------------------------------------------------
(* The ring invariant, one lemma per kind of step *)

\* What most CPU steps leave alone
Quiet == /\ UNCHANGED <<r_off, w_off, dma_buf, published, pushed, bufsp,
                        write_off_current, read_off_current, overlap, isopen>>
         /\ handler' = handler
         /\ cop' = cop

\* Steps of the CPU outside the copies, and to a program counter at which
\* no more is required than before.
LEMMA QuietCpu ==
    ASSUME RingInv, Quiet,
           pc' # "idle" => isopen,
           pc \notin {"open_w", "start_copy", "publish", "end_copy"},
           pc' \notin {"open_w", "start_copy", "publish", "end_copy"},
           pc' \in {"loop", "test", "activate", "irq_wr", "fifo_rd", "fifo_wr"}
             => pc \in {"loop", "test", "activate", "irq_wr", "fifo_rd", "fifo_wr"},
           pc' \in {"open_active", "open_reset", "open_handler"}
             => pc \in {"open_active", "open_reset", "open_handler"}
    PROVE  RingInv'
  BY DEF RingInv, OpenInv, WriterInv, CopyInv, HandlerInv, RingContents,
         NothingLost, Pushing, Quiet, Used, InPart

\* A pass of the write loop publishes what it copied.
LEMMA PublishStep ==
    ASSUME TypeInv, RingInv, WritePublish PROVE RingInv'
  <1> USE DEF ram, hw, locals, copVars, ghosts
  <1>1. /\ r_off \in Slots /\ w_off \in Slots /\ write_off_current \in Slots
        /\ read_off_current \in Slots /\ published \in Nat /\ pushed \in Nat
        /\ bufsp \in Nat
    BY DEF TypeInv, TypeOK
  <1>2. /\ pc = "publish" /\ pc' = "test"
        /\ w_off' = write_off_current /\ published' = bufsp
        /\ UNCHANGED <<r_off, dma_buf, pushed, bufsp, write_off_current,
                       overlap, isopen, handler, cop>>
    BY DEF WritePublish
  <1>3. /\ bufsp = published + Used(w_off, write_off_current)
        /\ Used(read_off_current, w_off) + Used(w_off, write_off_current)
             <= BUF_LEN - 1
    BY <1>2 DEF RingInv, WriterInv
  <1>4. OpenInv' /\ WriterInv'
    BY <1>2 DEF RingInv, OpenInv, WriterInv
  <1>5. CASE overlap
    BY <1>2, <1>4, <1>5 DEF RingInv, RingContents, NothingLost
  <1>6. CASE ~overlap
    <2>1. /\ Used(read_off_current, w_off)
               = Used(read_off_current, r_off) + Used(r_off, w_off)
          /\ \A i \in Slots : InPart(i, w_off, write_off_current) =>
                dma_buf[i] = bufsp - Used(i, write_off_current) + 1
      BY <1>2, <1>6 DEF RingInv, CopyInv
    <2>2. Used(r_off, w_off) + Used(w_off, write_off_current) <= BUF_LEN - 1
      BY <1>1, <1>3, <2>1, UsedLemma, PlaybackAssumption
    <2>3. CopyInv'
      BY <1>2 DEF CopyInv
    <2>4. HandlerInv'
      <3>1. Used(r_off, write_off_current)
              = Used(r_off, w_off) + Used(w_off, write_off_current)
        BY <1>1, <2>2, JoinLemma
      <3>2. r_off # w_off => r_off # write_off_current
        BY <3>1, <1>1, UsedLemma
      <3>3. cop \in {"free", "fifoon", "advance"} => r_off # w_off
        BY <1>2, <1>6 DEF RingInv, HandlerInv
      <3> QED
        BY <1>2, <3>2, <3>3 DEF HandlerInv
    <2>5. RingContents'
      <3> SUFFICES ASSUME NEW i \in Slots, InPart(i, r_off, write_off_current)
                   PROVE  dma_buf[i] = bufsp - Used(i, write_off_current) + 1
        BY <1>2 DEF RingContents, Used, InPart
      <3>1. CASE InPart(i, w_off, write_off_current)
        BY <3>1, <2>1
      <3>2. CASE InPart(i, r_off, w_off)
        <4>1. Used(i, write_off_current)
                = Used(i, w_off) + Used(w_off, write_off_current)
          BY <3>2, <1>1, <2>2, JoinLemma
        <4>2. dma_buf[i] = published - Used(i, w_off) + 1
          BY <3>2, <1>2, <1>6 DEF RingInv, RingContents
        <4> QED
          BY <4>1, <4>2, <1>1, <1>3, UsedLemma
      <3> QED
        BY <3>1, <3>2, <1>1, <2>2, JoinLemma
    <2>6. NothingLost'
      <3>1. pushed + Used(r_off, w_off) = published + (IF Pushing THEN 1 ELSE 0)
        BY <1>2, <1>6 DEF RingInv, NothingLost
      <3>2. Used(r_off, write_off_current)
              = Used(r_off, w_off) + Used(w_off, write_off_current)
        BY <1>1, <2>2, JoinLemma
      <3> QED
        BY <3>1, <3>2, <1>1, <1>2, <1>3, UsedLemma DEF NothingLost, Pushing, Used
    <2> QED
      BY <1>4, <2>3, <2>4, <2>5, <2>6 DEF RingInv
  <1> QED
    BY <1>5, <1>6

\* The handler reads the sample it pushes before the writer can touch it.
LEMMA PushStep ==
    ASSUME TypeInv, RingInv, FiqPush
    PROVE  RingInv' /\ (~overlap => pushed' = pushed + 1)
  <1> USE DEF ram, hw, locals, copVars, ghosts
  <1>1. /\ r_off \in Slots /\ w_off \in Slots
        /\ published \in Nat /\ pushed \in Nat
    BY DEF TypeInv, TypeOK
  <1>2. /\ cop = "free" /\ cop' = "fifoon"
        /\ pushed' = dma_buf[r_off]
        /\ UNCHANGED <<r_off, w_off, dma_buf, published, bufsp,
                       write_off_current, read_off_current, overlap, isopen,
                       handler, pc>>
    BY DEF FiqPush, CopGoto
  <1>3. pc = "open_w" => overlap
    BY <1>2 DEF RingInv, OpenInv
  <1>4. ~overlap => pushed' = pushed + 1
    <2> SUFFICES ASSUME ~overlap PROVE pushed' = pushed + 1
      OBVIOUS
    <2>1. r_off # w_off
      BY <1>2, <1>3 DEF RingInv, HandlerInv
    <2>2. dma_buf[r_off] = published - Used(r_off, w_off) + 1
      BY <2>1, <1>1, <1>3, UsedLemma DEF RingInv, RingContents
    <2>3. pushed + Used(r_off, w_off) = published
      BY <1>1, <1>2, <1>3 DEF RingInv, NothingLost, Pushing
    <2> QED
      BY <1>1, <1>2, <2>2, <2>3, UsedLemma
  <1>5. OpenInv' /\ WriterInv' /\ (~overlap' => CopyInv' /\ HandlerInv')
    BY <1>2, <1>3 DEF RingInv, OpenInv, WriterInv, CopyInv, HandlerInv, Used, InPart
  <1>6. RingContents'
    BY <1>2 DEF RingInv, RingContents, Used, InPart
  <1>7. NothingLost'
    <2>1. ~overlap => pushed + Used(r_off, w_off) = published
      BY <1>1, <1>2, <1>3 DEF RingInv, NothingLost, Pushing
    <2> QED
      BY <2>1, <1>1, <1>2, <1>4, UsedLemma DEF NothingLost, Pushing, Used
  <1> QED
    BY <1>4, <1>5, <1>6, <1>7 DEF RingInv

\* Releasing a slot takes it out of the part the handler may read.
LEMMA AdvanceStep ==
    ASSUME TypeInv, RingInv, FiqAdvance PROVE RingInv'
  <1> USE DEF ram, hw, locals, copVars, ghosts
  <1>1. /\ r_off \in Slots /\ w_off \in Slots /\ read_off_current \in Slots
        /\ published \in Nat /\ pushed \in Nat
    BY DEF TypeInv, TypeOK
  <1>2. /\ cop = "advance" /\ cop' = "loop"
        /\ r_off' = Next1(r_off)
        /\ UNCHANGED <<w_off, dma_buf, published, pushed, bufsp,
                       write_off_current, read_off_current, overlap, isopen,
                       handler, pc>>
    BY DEF FiqAdvance, CopGoto
  <1>3. pc = "open_w" => overlap
    BY <1>2 DEF RingInv, OpenInv
  <1>4. OpenInv' /\ WriterInv' /\ HandlerInv'
    BY <1>2, <1>3 DEF RingInv, OpenInv, WriterInv, HandlerInv, Used
  <1>5. CASE overlap
    BY <1>2, <1>4, <1>5 DEF RingInv, RingContents, NothingLost
  <1>6. CASE ~overlap
    <2>1. r_off # w_off
      BY <1>2, <1>3, <1>6 DEF RingInv, HandlerInv
    <2>2. /\ Used(Next1(r_off), w_off) = Used(r_off, w_off) - 1
          /\ \A i \in Slots : InPart(i, Next1(r_off), w_off) => InPart(i, r_off, w_off)
          /\ Used(read_off_current, w_off)
                = Used(read_off_current, r_off) + Used(r_off, w_off)
             => Used(read_off_current, w_off)
                  = Used(read_off_current, Next1(r_off)) + Used(Next1(r_off), w_off)
      BY <2>1, <1>1, AdvanceLemma
    <2>3. CopyInv'
      <3>1. CopyInv
        BY <1>3, <1>6 DEF RingInv
      <3>2. /\ Used(read_off_current, r_off)' = Used(read_off_current, Next1(r_off))
            /\ Used(r_off, w_off)' = Used(Next1(r_off), w_off)
            /\ Used(read_off_current, w_off)' = Used(read_off_current, w_off)
        BY <1>2 DEF Used
      <3>3. pc' \in {"start_copy", "publish"} =>
               \A i \in Slots : InPart(i, w_off, write_off_current)' =>
                   dma_buf'[i] = bufsp' - Used(i, write_off_current)' + 1
        BY <1>2, <3>1 DEF CopyInv, Used, InPart
      <3> QED
        BY <1>2, <2>2, <3>1, <3>2, <3>3 DEF CopyInv
    <2>4. RingContents'
      <3>1. \A i \in Slots : InPart(i, r_off, w_off) =>
                             dma_buf[i] = published - Used(i, w_off) + 1
        BY <1>3, <1>6 DEF RingInv, RingContents
      <3> QED
        BY <1>2, <2>2, <3>1 DEF RingContents, Used, InPart
    <2>5. NothingLost'
      <3>1. pushed + Used(r_off, w_off) = published + 1
        BY <1>2, <1>3, <1>6 DEF RingInv, NothingLost, Pushing
      <3> QED
        BY <1>1, <1>2, <2>2, <3>1, UsedLemma DEF NothingLost, Pushing, Used
    <2> QED
      BY <1>4, <2>3, <2>4, <2>5 DEF RingInv
  <1> QED
    BY <1>5, <1>6

\* The first copy goes to slots the handler has no business with.
LEMMA EndDisjoint ==
    ASSUME TypeInv, RingInv, pc = "end_copy", ~overlap,
           NEW n, n = AtMost(EndRoom(read_off_current, write_off_current), rem),
           NEW i \in Slots, i >= write_off_current, i < write_off_current + n
    PROVE  ~InPart(i, r_off, w_off)
  <1>1. /\ r_off \in Slots /\ w_off \in Slots /\ write_off_current \in Slots
        /\ read_off_current \in Slots /\ rem \in Nat
    BY DEF TypeInv, TypeOK
  <1>2. write_off_current = w_off
    BY DEF RingInv, WriterInv
  <1>3. Used(read_off_current, w_off)
          = Used(read_off_current, r_off) + Used(r_off, w_off)
    BY DEF RingInv, CopyInv
  <1> DEFINE x == (w_off + n) % BUF_LEN
  <1>4. /\ n \in Nat /\ w_off + n <= BUF_LEN /\ x \in Slots
        /\ x = IF w_off + n = BUF_LEN THEN 0 ELSE w_off + n
        /\ Used(w_off, x) = n
        /\ Used(read_off_current, w_off) + n <= BUF_LEN - 1
    <2>1. n = AtMost(EndRoom(read_off_current, w_off), rem)
      BY <1>2
    <2>2. x = (w_off + n) % BUF_LEN
      OBVIOUS
    <2> HIDE DEF x
    <2> QED
      BY <1>1, <2>1, <2>2, CopyEndLemma
  <1> HIDE DEF x
  <1>5. n < BUF_LEN /\ Used(r_off, w_off) + n <= BUF_LEN - 1
    BY <1>1, <1>3, <1>4, UsedLemma, PlaybackAssumption
  <1>6. InPart(i, w_off, x)
    BY <1>1, <1>2, <1>4, <1>5, FillLemma
  <1> QED
    BY <1>1, <1>4, <1>5, <1>6, JoinLemma

\* Neither does the second.
LEMMA StartDisjoint ==
    ASSUME TypeInv, RingInv, pc = "start_copy", ~overlap,
           NEW i \in Slots, i < StartRoom(read_off_current, rem)
    PROVE  ~InPart(i, r_off, w_off)
  <1>1. /\ r_off \in Slots /\ w_off \in Slots
        /\ read_off_current \in Slots /\ rem \in Nat
    BY DEF TypeInv, TypeOK
  <1>2. 0 < read_off_current /\ read_off_current <= w_off
    BY DEF RingInv, WriterInv
  <1>3. Used(read_off_current, w_off)
          = Used(read_off_current, r_off) + Used(r_off, w_off)
    BY DEF RingInv, CopyInv
  <1>4. i < read_off_current
    BY <1>1, <1>2, CopyStartLemma DEF Slots
  <1> QED
    BY <1>1, <1>2, <1>3, <1>4, PlaybackAssumption DEF Slots, Used, InPart

LEMMA CopyEndStep ==
    ASSUME TypeInv, RingInv, CopyEnd PROVE RingInv'
  <1> USE DEF ram, hw, locals, copVars, ghosts
  <1> DEFINE n == AtMost(EndRoom(read_off_current, write_off_current), rem)
             x == (write_off_current + n) % BUF_LEN
  <1>1. /\ r_off \in Slots /\ w_off \in Slots /\ write_off_current \in Slots
        /\ read_off_current \in Slots /\ rem \in Nat
        /\ published \in Nat /\ bufsp \in Nat /\ dma_buf \in [Slots -> Nat]
    BY DEF TypeInv, TypeOK
  <1>2. /\ pc = "end_copy" /\ pc' \in {"start_copy", "publish"}
        /\ pc' = "start_copy" => /\ read_off_current <= write_off_current
                                 /\ read_off_current > 0
                                 /\ rem - n > 0
        /\ dma_buf' = Filled(dma_buf, write_off_current, n, bufsp + 1)
        /\ bufsp' = bufsp + n /\ write_off_current' = x
        /\ UNCHANGED <<r_off, w_off, published, pushed, read_off_current,
                       overlap, isopen, handler, cop>>
    BY DEF CopyEnd
  <1>3. write_off_current = w_off /\ bufsp = published
    BY <1>2 DEF RingInv, WriterInv
  <1>4. /\ n \in Nat /\ w_off + n <= BUF_LEN /\ x \in Slots
        /\ x = IF w_off + n = BUF_LEN THEN 0 ELSE w_off + n
        /\ Used(w_off, x) = n
        /\ Used(read_off_current, w_off) + n <= BUF_LEN - 1
        /\ read_off_current <= w_off /\ read_off_current > 0 /\ rem - n > 0
             => w_off + n = BUF_LEN
    <2> HIDE DEF n
    <2>1. n = AtMost(EndRoom(read_off_current, w_off), rem)
      BY <1>3 DEF n
    <2>2. x = (w_off + n) % BUF_LEN
      BY <1>3
    <2> HIDE DEF x
    <2> QED
      BY <1>1, <2>1, <2>2, CopyEndLemma
  <1>5. ~overlap => \A i \in Slots : InPart(i, r_off, w_off) => dma_buf'[i] = dma_buf[i]
    <2> SUFFICES ASSUME ~overlap, NEW i \in Slots, InPart(i, r_off, w_off)
                 PROVE  dma_buf'[i] = dma_buf[i]
      OBVIOUS
    <2>1. ~(i >= write_off_current /\ i < write_off_current + n)
      BY <1>2, EndDisjoint
    <2> QED
      BY <1>2, <2>1 DEF Filled
  <1>6. \A i \in Slots : InPart(i, w_off, x) =>
                          dma_buf'[i] = bufsp + n - Used(i, x) + 1
    <2> SUFFICES ASSUME NEW i \in Slots, InPart(i, w_off, x)
                 PROVE  dma_buf'[i] = bufsp + n - Used(i, x) + 1
      OBVIOUS
    <2> HIDE DEF n, x
    <2>1. n < BUF_LEN
      BY <1>1, <1>4, UsedLemma, PlaybackAssumption
    <2>2. i >= w_off /\ i < w_off + n /\ Used(i, x) = w_off + n - i
      BY <1>1, <1>4, <2>1, FillLemma
    <2>3. dma_buf'[i] = bufsp + 1 + (i - w_off)
      BY <1>2, <1>3, <2>2 DEF Filled
    <2> QED
      BY <1>1, <1>4, <2>2, <2>3 DEF Slots
  <1> HIDE DEF n, x
  <1>7. OpenInv'
    BY <1>2 DEF RingInv, OpenInv
  <1>8. WriterInv'
    BY <1>1, <1>2, <1>3, <1>4 DEF WriterInv, Used
  <1>9. ~overlap' => CopyInv' /\ HandlerInv'
    <2> SUFFICES ASSUME ~overlap PROVE CopyInv' /\ HandlerInv'
      BY <1>2
    <2>1. CopyInv /\ HandlerInv
      BY <1>2 DEF RingInv
    <2>2. HandlerInv'
      BY <1>2, <2>1 DEF HandlerInv
    <2>3. CopyInv'
      <3>1. Used(read_off_current, w_off)
              = Used(read_off_current, r_off) + Used(r_off, w_off)
        BY <1>2, <2>1 DEF CopyInv
      <3>3. ASSUME NEW i \in Slots, InPart(i, w_off', write_off_current')
            PROVE  dma_buf'[i] = bufsp' - Used(i, write_off_current') + 1
        <4>1. InPart(i, w_off, x)
          BY <1>2, <3>3
        <4>2. Used(i, write_off_current') = Used(i, x)
          BY <1>2
        <4>3. bufsp' = bufsp + n /\ Used(i, x) \in Nat
          BY <1>2, <1>4, UsedLemma
        <4>4. dma_buf'[i] = bufsp + n - Used(i, x) + 1
          BY <1>6, <4>1
        <4> QED
          BY <1>1, <1>4, <4>2, <4>3, <4>4
      <3>4. /\ Used(read_off_current, w_off)' = Used(read_off_current, w_off)
            /\ Used(read_off_current, r_off)' = Used(read_off_current, r_off)
            /\ Used(r_off, w_off)' = Used(r_off, w_off)
        BY <1>2 DEF Used
      <3> QED
        BY <3>1, <3>3, <3>4 DEF CopyInv, Slots
    <2> QED
      BY <2>2, <2>3
  <1>10. RingContents'
    BY <1>2, <1>5 DEF RingInv, RingContents, Used, InPart
  <1>11. NothingLost'
    BY <1>2 DEF RingInv, NothingLost, Pushing, Used
  <1> QED
    BY <1>7, <1>8, <1>9, <1>10, <1>11, <1>2 DEF RingInv

LEMMA CopyStartStep ==
    ASSUME TypeInv, RingInv, CopyStart PROVE RingInv'
  <1> USE DEF ram, hw, locals, copVars, ghosts
  <1> DEFINE n == StartRoom(read_off_current, rem)
  <1>1. /\ r_off \in Slots /\ w_off \in Slots /\ write_off_current \in Slots
        /\ read_off_current \in Slots /\ rem \in Nat
        /\ published \in Nat /\ bufsp \in Nat /\ dma_buf \in [Slots -> Nat]
    BY DEF TypeInv, TypeOK
  <1>2. /\ pc = "start_copy" /\ pc' = "publish"
        /\ dma_buf' = Filled(dma_buf, 0, n, bufsp + 1)
        /\ bufsp' = bufsp + n /\ write_off_current' = n
        /\ UNCHANGED <<r_off, w_off, published, pushed, read_off_current,
                       overlap, isopen, handler, cop>>
    BY DEF CopyStart
  <1>3. /\ write_off_current = 0
        /\ 0 < read_off_current /\ read_off_current <= w_off
        /\ bufsp = published + Used(w_off, 0)
    BY <1>2 DEF RingInv, WriterInv
  <1>4. n \in Slots /\ n \in Nat /\ n < read_off_current
    BY <1>1, <1>3, CopyStartLemma
  <1>5. ~overlap => \A i \in Slots : InPart(i, r_off, w_off) => dma_buf'[i] = dma_buf[i]
    <2> SUFFICES ASSUME ~overlap, NEW i \in Slots, InPart(i, r_off, w_off)
                 PROVE  dma_buf'[i] = dma_buf[i]
      OBVIOUS
    <2>1. ~(i < n)
      BY <1>2, StartDisjoint
    <2> HIDE DEF n
    <2> QED
      BY <1>2, <1>4, <2>1 DEF Filled, Slots
  <1> HIDE DEF n
  <1>6. n < w_off
    BY <1>1, <1>3, <1>4 DEF Slots
  <1>7. OpenInv'
    BY <1>2 DEF RingInv, OpenInv
  <1>8. WriterInv'
    <2>1. Used(w_off, n) = Used(w_off, 0) + n
      BY <1>1, <1>4, <1>6, ZeroSlot, WrapLemma
    <2>2. Used(read_off_current, w_off) + Used(w_off, n) <= BUF_LEN - 1
      BY <1>1, <1>3, <1>4, PlaybackAssumption DEF Used, Slots
    <2>3. bufsp + n = published + Used(w_off, n)
      BY <1>1, <1>3, <1>4, <2>1, ZeroSlot, UsedLemma
    <2> QED
      BY <1>2, <2>2, <2>3 DEF WriterInv, Used
  <1>9. ~overlap' => CopyInv' /\ HandlerInv'
    <2> SUFFICES ASSUME ~overlap PROVE CopyInv' /\ HandlerInv'
      BY <1>2
    <2>1. CopyInv /\ HandlerInv
      BY <1>2 DEF RingInv
    <2>2. HandlerInv'
      BY <1>2, <2>1 DEF HandlerInv
    <2>3. ASSUME NEW i \in Slots, InPart(i, w_off, n)
          PROVE  dma_buf'[i] = bufsp + n - Used(i, n) + 1
      <3>1. CASE i < n
        <4>1. dma_buf'[i] = bufsp + 1 + (i - 0)
          BY <1>2, <1>4, <3>1, PlaybackAssumption DEF Filled, Slots
        <4>2. Used(i, n) = n - i
          BY <1>1, <1>4, <1>6, <3>1, WrapLemma
        <4> QED
          BY <4>1, <4>2, <1>1, <1>4 DEF Slots
      <3>2. CASE ~(i < n)
        <4>1. InPart(i, w_off, 0) /\ Used(i, n) = Used(i, 0) + n
          BY <1>1, <1>4, <1>6, <2>3, <3>2, WrapLemma
        <4>2. dma_buf[i] = bufsp - Used(i, 0) + 1
          BY <1>2, <1>3, <2>1, <4>1 DEF CopyInv
        <4>3. dma_buf'[i] = dma_buf[i]
          BY <1>2, <1>4, <3>2 DEF Filled, Slots
        <4> QED
          BY <4>1, <4>2, <4>3, <1>1, <1>4, ZeroSlot, UsedLemma
      <3> QED
        BY <3>1, <3>2
    <2>4. CopyInv'
      <3>1. Used(read_off_current, w_off)
              = Used(read_off_current, r_off) + Used(r_off, w_off)
        BY <1>2, <2>1 DEF CopyInv
      <3>3. ASSUME NEW i \in Slots, InPart(i, w_off', write_off_current')
            PROVE  dma_buf'[i] = bufsp' - Used(i, write_off_current') + 1
        <4>1. InPart(i, w_off, n)
          BY <1>2, <3>3
        <4>2. Used(i, write_off_current') = Used(i, n)
          BY <1>2
        <4>3. bufsp' = bufsp + n /\ Used(i, n) \in Nat
          BY <1>2, <1>4, UsedLemma
        <4>4. dma_buf'[i] = bufsp + n - Used(i, n) + 1
          BY <2>3, <4>1
        <4> QED
          BY <1>1, <1>4, <4>2, <4>3, <4>4
      <3>4. /\ Used(read_off_current, w_off)' = Used(read_off_current, w_off)
            /\ Used(read_off_current, r_off)' = Used(read_off_current, r_off)
            /\ Used(r_off, w_off)' = Used(r_off, w_off)
        BY <1>2 DEF Used
      <3> QED
        BY <3>1, <3>3, <3>4 DEF CopyInv, Slots
    <2> QED
      BY <2>2, <2>4
  <1>10. RingContents'
    BY <1>2, <1>5 DEF RingInv, RingContents, Used, InPart
  <1>11. NothingLost'
    BY <1>2 DEF RingInv, NothingLost, Pushing, Used
  <1> QED
    BY <1>7, <1>8, <1>9, <1>10, <1>11, <1>2 DEF RingInv

\* Opening an idle device starts the ring from nothing.
LEMMA OpenStep ==
    ASSUME TypeInv, TypeInv', RingInv, OpenReadOff \/ OpenWriteOff \/ OpenHandler
    PROVE  RingInv'
  <1> USE DEF ram, hw, locals, copVars, ghosts
  <1>1. CASE OpenReadOff
    BY <1>1 DEF OpenReadOff, RingInv, OpenInv, WriterInv, RingContents, NothingLost
  <1>2. CASE OpenWriteOff
    <2>1. /\ pc = "open_w" /\ pc' = "open_active" /\ w_off' = 0
          /\ UNCHANGED <<r_off, dma_buf, published, pushed, bufsp,
                         write_off_current, read_off_current, overlap, isopen,
                         handler, cop>>
      BY <1>2 DEF OpenWriteOff
    <2>2. bufsp = published
      BY <2>1 DEF RingInv, WriterInv
    <2>3. ~overlap => cop = "idle" /\ pushed = bufsp
      BY <2>1 DEF RingInv, OpenInv
    <2>4. ~overlap => r_off = 0
      BY <2>1 DEF RingInv, OpenInv
    <2>5. OpenInv' /\ WriterInv' /\ (~overlap' => CopyInv' /\ HandlerInv')
      BY <2>1, <2>3 DEF RingInv, OpenInv, WriterInv, CopyInv, HandlerInv
    <2>6. RingContents'
      BY <2>1, <2>4 DEF RingContents, InPart, Slots
    <2>7. NothingLost'
      BY <2>1, <2>2, <2>3, <2>4 DEF NothingLost, Used, Pushing, TypeInv, TypeOK
    <2> QED
      BY <2>5, <2>6, <2>7 DEF RingInv
  <1>3. CASE OpenHandler
    BY <1>3 DEF OpenHandler, RingInv, OpenInv, WriterInv, CopyInv, HandlerInv,
                RingContents, NothingLost, Pushing, Used, InPart
  <1> QED
    BY <1>1, <1>2, <1>3

\* Taking a request and reading *r_off make the writer's view fresh.
LEMMA WriterStep ==
    ASSUME TypeInv, RingInv,
           (\E k \in 1 .. MaxCount : WriteBegin(k)) \/ WriteLoop \/ CloseHandler
    PROVE  RingInv'
  <1> USE DEF ram, hw, locals, copVars, ghosts
  <1>1. ASSUME NEW k \in 1 .. MaxCount, WriteBegin(k) PROVE RingInv'
    BY <1>1 DEF WriteBegin, RingInv, OpenInv, WriterInv, CopyInv, HandlerInv,
                RingContents, NothingLost, Pushing, Used, InPart
  <1>2. CASE WriteLoop
    <2>1. /\ pc = "loop" /\ pc' \in {"idle", "end_copy"}
          /\ pc' = "end_copy" => /\ read_off_current' = r_off
                                 /\ write_off_current' = write_off_current
          /\ UNCHANGED <<r_off, w_off, dma_buf, published, pushed, bufsp,
                         overlap, isopen, handler, cop>>
      BY <1>2 DEF WriteLoop
    <2>2. Used(r_off, w_off) = Used(r_off, r_off) + Used(r_off, w_off)
      BY UsedLemma DEF TypeInv, TypeOK
    <2>3. OpenInv' /\ WriterInv' /\ (~overlap' => HandlerInv')
      BY <2>1 DEF RingInv, OpenInv, WriterInv, HandlerInv
    <2>4. CopyInv'
      BY <2>1, <2>2 DEF CopyInv
    <2>5. RingContents' /\ NothingLost'
      BY <2>1 DEF RingInv, RingContents, NothingLost, Pushing, Used, InPart
    <2> QED
      BY <2>3, <2>4, <2>5 DEF RingInv
  <1>3. CASE CloseHandler
    BY <1>3 DEF CloseHandler, RingInv, OpenInv, WriterInv, CopyInv, HandlerInv,
                RingContents, NothingLost, Pushing, Used, InPart
  <1> QED
    BY <1>1, <1>2, <1>3

\* What the handler's other steps leave alone
CopQuiet == UNCHANGED <<r_off, w_off, dma_buf, published, pushed, bufsp,
                        write_off_current, read_off_current, overlap, isopen,
                        handler, pc>>

\* The handler enters only when it is set, and leaves its loop test with a
\* sample to push only when there is one.
LEMMA HandlerStep ==
    ASSUME TypeInv, RingInv, CopQuiet,
           cop' \in {"free", "fifoon", "advance"} =>
               (cop \in {"free", "fifoon", "advance"} \/ r_off # w_off),
           cop = "idle" => handler = "pb_dma" \/ cop' = cop,
           Pushing' = Pushing
    PROVE  RingInv'
  <1>1. pc \in {"open_w", "open_active", "open_reset", "open_handler"} /\ ~overlap
          => cop' = "idle"
    BY DEF RingInv, OpenInv
  <1>2. OpenInv' /\ WriterInv' /\ (~overlap' /\ pc' # "open_w" => HandlerInv')
    BY <1>1 DEF CopQuiet, RingInv, OpenInv, WriterInv, HandlerInv, Used
  <1>3. ~overlap' /\ pc' # "open_w" => CopyInv'
    BY DEF CopQuiet, RingInv, CopyInv, Used, InPart
  <1>4. RingContents' /\ NothingLost'
    BY DEF CopQuiet, RingInv, RingContents, NothingLost, Used, InPart
  <1> QED
    BY <1>2, <1>3, <1>4 DEF RingInv

LEMMA RingStep == TypeInv /\ TypeInv' /\ RingInv /\ [Next]_vars => RingInv'
  <1> SUFFICES ASSUME TypeInv, TypeInv', RingInv, [Next]_vars PROVE RingInv'
    OBVIOUS
  <1> USE DEF ram, hw, locals, copVars, ghosts
  <1>1. CASE \/ \E on \in BOOLEAN : SetStereo(on)
             \/ SyncBegin \/ CloseBegin \/ Signal \/ Drain
    <2>1. CASE \E on \in BOOLEAN : SetStereo(on)
      BY <2>1, QuietCpu DEF SetStereo, Quiet
    <2>2. CASE SyncBegin \/ CloseBegin
      BY <2>2, QuietCpu DEF SyncBegin, CloseBegin, Goto, Quiet
    <2>3. CASE Signal
      BY <2>3, QuietCpu DEF Signal, DrainSignal, Goto, Quiet, RingInv, OpenInv
    <2>4. CASE Drain
      BY <2>4, QuietCpu
      DEF Drain, DrainTest, DrainDone, Goto, Quiet, RingInv, OpenInv
    <2> QED
      BY <1>1, <2>1, <2>2, <2>3, <2>4
  <1>2. CASE Open \/ OpenReadOff
    <2>1. CASE OpenReadOff \/ OpenWriteOff \/ OpenHandler
      BY <2>1, OpenStep
    <2>2. CASE OpenActive \/ OpenReset
      BY <2>2 DEF OpenActive, OpenReset, RingInv, OpenInv, WriterInv, CopyInv,
                  HandlerInv, RingContents, NothingLost, Pushing, Used, InPart
    <2> QED
      BY <1>2, <2>1, <2>2 DEF Open
  <1>3. CASE Write \/ \E k \in 1 .. MaxCount : WriteBegin(k)
    <2>1. CASE WriteLoop \/ \E k \in 1 .. MaxCount : WriteBegin(k)
      BY <2>1, WriterStep
    <2>2. CASE CopyEnd
      BY <2>2, CopyEndStep
    <2>3. CASE CopyStart
      BY <2>3, CopyStartStep
    <2>4. CASE WritePublish
      BY <2>4, PublishStep
    <2>5. CASE WriteTest
      BY <2>5, QuietCpu DEF WriteTest, Quiet, RingInv, OpenInv
    <2>6. CASE WriteActivate \/ WriteIrqOn
      BY <2>6, QuietCpu DEF WriteActivate, WriteIrqOn, Quiet, RingInv, OpenInv
    <2>7. CASE WriteFifoRead \/ WriteFifoOn
      BY <2>7, QuietCpu DEF WriteFifoRead, WriteFifoOn, Quiet, RingInv, OpenInv
    <2> QED
      BY <1>3, <2>1, <2>2, <2>3, <2>4, <2>5, <2>6, <2>7 DEF Write
  <1>4. CASE Close
    <2>1. CASE CloseMask
      BY <2>1, QuietCpu DEF CloseMask, Quiet, RingInv, OpenInv
    <2> QED
      BY <1>4, <2>1, WriterStep DEF Close
  <1>5. CASE CopStep
    <2>1. CASE FiqPush
      BY <2>1, PushStep
    <2>2. CASE FiqAdvance
      BY <2>2, AdvanceStep
    <2>3. CASE FiqEntry \/ FiqIrqOff \/ FiqLoop \/ FiqFull \/ FiqReturn
      BY <2>3, HandlerStep
      DEF FiqEntry, FiqIrqOff, FiqLoop, FiqFull, FiqReturn, CopGoto, CopQuiet,
          Pushing
    <2>4. CASE FiqFifoOn
      BY <2>4, HandlerStep DEF FiqFifoOn, CopGoto, CopQuiet, Pushing
    <2>5. CASE FiqMore \/ FiqEmpty \/ FiqFifoOff \/ FiqIrqRead \/ FiqIrqWrite
      BY <2>5, HandlerStep
      DEF FiqMore, FiqEmpty, FiqFifoOff, FiqIrqRead, FiqIrqWrite, CopGoto,
          CopQuiet, Pushing
    <2>6. CASE FiqInactive
      BY <2>6, HandlerStep DEF FiqInactive, CopGoto, CopQuiet, Pushing
    <2> QED
      BY <1>5, <2>1, <2>2, <2>3, <2>4, <2>5, <2>6 DEF CopStep
  <1>6. CASE Transmit \/ UNCHANGED vars
    <2>1. CopQuiet /\ cop' = cop
      BY <1>6 DEF Transmit, vars, CopQuiet
    <2> QED
      BY <2>1, HandlerStep DEF Pushing, RingInv, HandlerInv
  <1> QED
    BY <1>1, <1>2, <1>3, <1>4, <1>5, <1>6 DEF Next, Request, CpuStep

THEOREM RingInvariance == Spec => []RingInv
  <1>1. Init => RingInv
    BY ZeroSlot, UsedLemma, PlaybackAssumption
    DEF Init, RingInv, OpenInv, WriterInv, CopyInv, HandlerInv, RingContents,
        NothingLost, Pushing, Used, InPart, Slots
  <1> QED
    BY <1>1, RingStep, TypeInvariance, PTL DEF Spec

\* The ring holds the application's samples in order, and none is lost or
\* repeated, whatever the two processors do (audio.c:372-426, 571-662).
THEOREM RingIsFifo == Spec => []RingHolds
  <1>1. RingInv => RingHolds
    BY DEF RingInv, RingHolds
  <1> QED
    BY <1>1, RingInvariance, PTL

\* The writer's memcpys never touch a sample the handler has still to read,
\* with no lock between them (audio.c:607-650).
THEOREM NoDataRace == Spec => []CopyLeavesUnread
  <1>1. TypeInv /\ RingInv => CopyLeavesUnread
    <2> SUFFICES ASSUME TypeInv, RingInv, ~overlap
                 PROVE  CopyLeavesUnread
      BY DEF CopyLeavesUnread
    <2> QED
      BY EndDisjoint, StartDisjoint DEF CopyLeavesUnread
  <1> QED
    BY <1>1, TypeInvariance, RingInvariance, PTL

\* Only an open, a publish and a push change what the pipe sees.
LEMMA PipeStutter ==
    ASSUME [Next]_vars, ~OpenReadOff, ~WritePublish, ~FiqPush
    PROVE  UNCHANGED <<published, pushed>>
  <1> USE DEF ghosts
  <1>1. CASE CpuStep \/ Request \/ Signal
    BY <1>1
    DEF CpuStep, Request, Signal, Open, Write, Drain, Close, OpenWriteOff,
        OpenActive, OpenReset, OpenHandler, SetStereo, WriteBegin, WriteLoop,
        CopyEnd, CopyStart, WriteTest, WriteActivate, WriteIrqOn,
        WriteFifoRead, WriteFifoOn, Goto, SyncBegin, CloseBegin, DrainTest,
        DrainDone, DrainSignal, CloseMask, CloseHandler
  <1>2. CASE CopStep \/ Transmit
    BY <1>2
    DEF CopStep, Transmit, FiqEntry, FiqIrqOff, FiqLoop, FiqFull, FiqReturn,
        FiqFifoOn, FiqAdvance, FiqMore, FiqEmpty, FiqFifoOff, FiqIrqRead,
        FiqIrqWrite, FiqInactive
  <1>3. CASE UNCHANGED vars
    BY <1>3 DEF vars
  <1> QED
    BY <1>1, <1>2, <1>3 DEF Next

\* Within one open the handler pushes each sample once and in order.
THEOREM PushesInOrder == Spec => PushInOrder
  <1>1. TypeInv /\ RingInv /\ [Next]_vars
          => [pushed' # pushed /\ opens' = opens /\ ~overlap
                => pushed' = pushed + 1]_vars
    <2> SUFFICES ASSUME TypeInv, RingInv, Next, pushed' # pushed, opens' = opens,
                        ~overlap
                 PROVE  pushed' = pushed + 1
      BY DEF vars
    <2>1. ~OpenReadOff
      BY DEF OpenReadOff, TypeInv, TypeOK
    <2>2. CASE FiqPush
      BY <2>2, PushStep
    <2>3. CASE ~FiqPush
      <3>1. ~WritePublish \/ pushed' = pushed
        BY DEF WritePublish
      <3> QED
        BY <2>1, <2>3, <3>1, PipeStutter
    <2> QED
      BY <2>2, <2>3
  <1> QED
    BY <1>1, TypeInvariance, RingInvariance, PTL DEF Spec, PushInOrder

-----------------------------------------------------------------------------
\* The two processors and their shared words implement the bounded pipe
\* AudioPipe, step by step, until an open meets a handler still running.
THEOREM PlaybackImplementsPipe == Spec => PipeSpec
  <1>1. Init => Pipe!Init
    BY DEF Init, Pipe!Init
  <1>2. TypeInv /\ RingInv /\ [Next]_vars /\ ~overlap'
          => [Pipe!Next]_<<published, pushed>>
    <2> SUFFICES ASSUME TypeInv, RingInv, [Next]_vars, ~overlap'
                 PROVE  [Pipe!Next]_<<published, pushed>>
      OBVIOUS
    <2> USE DEF ram, hw, locals, copVars, ghosts
    <2>1. /\ r_off \in Slots /\ w_off \in Slots /\ write_off_current \in Slots
          /\ read_off_current \in Slots
          /\ published \in Nat /\ pushed \in Nat /\ bufsp \in Nat
      BY DEF TypeInv, TypeOK
    <2>2. CASE OpenReadOff
      <3>1. pc = "idle" /\ pushed' = bufsp /\ published' = published
        BY <2>2 DEF OpenReadOff
      <3>2. bufsp = published
        BY <3>1 DEF RingInv, WriterInv
      <3> QED
        BY <3>1, <3>2 DEF Pipe!Next, Pipe!Discard
    <2>3. CASE WritePublish
      <3> DEFINE n == Used(w_off, write_off_current)
      <3>1. /\ pc = "publish" /\ ~overlap
            /\ published' = bufsp /\ pushed' = pushed
        BY <2>3 DEF WritePublish
      <3>2. /\ bufsp = published + n
            /\ Used(read_off_current, w_off) + n <= BUF_LEN - 1
        BY <3>1 DEF RingInv, WriterInv
      <3>3. Used(read_off_current, w_off)
              = Used(read_off_current, r_off) + Used(r_off, w_off)
        BY <3>1 DEF RingInv, CopyInv
      <3>4. pushed + Used(r_off, w_off) = published + (IF Pushing THEN 1 ELSE 0)
        BY <3>1 DEF RingInv, NothingLost
      <3>5. n \in Nat
        BY <2>1, UsedLemma
      <3> HIDE DEF n
      <3>6. published + n - pushed <= BUF_LEN - 1 /\ n <= BUF_LEN - 1
        BY <2>1, <3>2, <3>3, <3>4, <3>5, UsedLemma, PlaybackAssumption
      <3>7. CASE n = 0
        BY <2>1, <3>1, <3>2, <3>7
      <3>8. CASE n # 0
        <4>1. n \in 1 .. BUF_LEN - 1
          BY <3>5, <3>6, <3>8, PlaybackAssumption
        <4>2. Pipe!Put(n)
          BY <3>1, <3>2, <3>6 DEF Pipe!Put
        <4> QED
          BY <4>1, <4>2 DEF Pipe!Next
      <3> QED
        BY <3>7, <3>8
    <2>4. CASE FiqPush
      <3>1. /\ cop = "free" /\ ~overlap /\ published' = published
            /\ pushed' = pushed + 1
        BY <2>4, PushStep DEF FiqPush, CopGoto
      <3>2. pc # "open_w"
        BY <3>1 DEF RingInv, OpenInv
      <3>3. r_off # w_off /\ pushed + Used(r_off, w_off) = published
        BY <2>1, <3>1, <3>2 DEF RingInv, HandlerInv, NothingLost, Pushing
      <3>4. pushed < published
        BY <2>1, <3>3, UsedLemma
      <3> QED
        BY <3>1, <3>4 DEF Pipe!Next, Pipe!Play
    <2>5. CASE ~OpenReadOff /\ ~WritePublish /\ ~FiqPush
      BY <2>5, PipeStutter
    <2> QED
      BY <2>2, <2>3, <2>4, <2>5
  <1>3. TypeInv /\ RingInv /\ [Next]_vars
          => [~overlap' => [Pipe!Next]_<<published, pushed>>]_vars
    BY <1>2
  <1> QED
    BY <1>1, <1>3, TypeInvariance, RingInvariance, PTL DEF Spec, PipeSpec
-----------------------------------------------------------------------------
\* GETOSPACE answers for a pass of the write loop (audio.c:623-639, 745-764):
\* the room at the end of the ring and the room at its start, each with its
\* own rule for the slot kept free, add up to the one difference it computes.
LEMMA SpaceLemma ==
    ASSUME NEW r \in Slots, NEW w \in Slots, NEW left \in Nat,
           NEW n, n = AtMost(EndRoom(r, w), left),
           NEW m, m = IF r <= w /\ r > 0
                      THEN AtMost(left - n, StartRoom(r, left - n)) ELSE 0
    PROVE  n + m = AtMost(left, GetSpace(r, w))
  <1>1. CASE r <= w /\ r > 0
    BY <1>1, PlaybackAssumption DEF Slots, AtMost, EndRoom, StartRoom, GetSpace
  <1>2. CASE ~(r <= w /\ r > 0)
    BY <1>2, Next1Lemma, PlaybackAssumption DEF Slots, AtMost, EndRoom, GetSpace
  <1> QED
    BY <1>1, <1>2

\* What an application is told it may write, a pass of the write loop takes,
\* for every ring, position and length of a write.
THEOREM SpaceIsTheRoom == Spec => []SpaceIsRoom
  <1>1. TypeInv => SpaceIsRoom
    BY SpaceLemma DEF TypeInv, TypeOK, SpaceIsRoom
  <1> QED
    BY <1>1, TypeInvariance, PTL
=============================================================================
