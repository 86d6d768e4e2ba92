------------------------- MODULE SansaRecordProofs -------------------------
(* Theorems about SansaRecord, for every ring and FIFO size and without a  *)
(* bound on the samples, the reads or the opens.                           *)
EXTENDS SansaRecord, TLAPS

USE DEF RecordAssumption

OpenPcs  == {"open_w", "open_active", "open_reset"}
SetPcs   == {"start_active", "start_r", "start_w", "start_handler"}
StartPcs == {"start_fiq", "irq_wr", "fifo_rd", "fifo_wr"}
ReadPcs  == {"loop", "pos", "copy", "check", "adv_rd", "adv_wr", "sigtest"}
PassPcs  == {"copy", "check", "adv_rd", "adv_wr"}

\* Alone TypeOK is not inductive: read takes no more off the count than is
\* left of it (audio.c:693-711).
TypeInv == TypeOK /\ (pc = "copy" => len <= rem)

-----------------------------------------------------------------------------
(* Who is running: the CPU's calls against the handler                     *)

\* The handler is set only while the device is open; when that open met no
\* handler, only between its first read and its close.
CallInv ==
    /\ ~isopen => pc = "idle"
    /\ ~isopen \/ pc \in OpenPcs => handler = "none"
    /\ overlap => interrupted
    /\ ~overlap =>
         /\ pc \in SetPcs => handler = "none"
         /\ pc \in StartPcs \cup ReadPcs => handler = "rec_dma"
         /\ handler = "rec_dma" => dma_active # 0

\* The offsets before a recording starts, when no handler is left over
FreshInv ==
    isopen /\ handler = "none" /\ ~overlap =>
        /\ cop = "idle" /\ r_off = 0
        /\ pc # "open_w" => w_off = 0
        /\ pc \in {"open_reset", "idle", "start_active"} => dma_active = 0
        /\ pc \in {"start_r", "start_w", "start_handler"} => dma_active = 1
        /\ pc = "start_handler" => /\ taken = 0 /\ user = 0
                                   /\ ~overrun /\ ~hit /\ ~mistaken

\* The receiver's bits while the handler answers it
HandlerBits ==
    /\ iisconfig.rxfifo <=> cop # "inactive"
    /\ iisconfig.irqrx <=> cop \in {"idle", "irqoff"}
    /\ cop \in {"irqoff", "irqon", "fifooff"} => copReg = iisconfig

Silent == cop = "idle" /\ iisconfig = BothOff

\* What each call knows of the handler, unless a signal cut a close short
WatchInv ==
    ~interrupted =>
        /\ handler = "none" \/ pc \in {"start_fiq", "irq_wr"} => Silent
        /\ pc = "irq_wr" => cpuReg = BothOff
        /\ pc \in SetPcs \cup StartPcs \/ (isopen /\ pc = "idle" /\ handler = "none")
             => fifo = 0 /\ cop = "idle"
        /\ pc = "start_active" \/ (isopen /\ pc = "idle" /\ handler = "none")
             => dma_active = 0
        /\ pc \in {"start_r", "start_w", "start_handler", "close_tell"}
                    \cup StartPcs \cup ReadPcs
             => dma_active = 1
        /\ pc = "idle" /\ handler = "rec_dma" => dma_active = 1
        /\ pc \in {"fifo_rd", "fifo_wr"} =>
             iisconfig = [irqrx |-> TRUE, rxfifo |-> FALSE]
        /\ pc = "fifo_wr" => cpuReg = iisconfig
        /\ pc \in ReadPcs \cup {"close_tell"} \/ (pc = "idle" /\ handler = "rec_dma")
             => HandlerBits /\ cop \notin {"fifooff", "inactive"}
        /\ pc = "close_tell" => handler = "rec_dma"
        /\ pc = "close_wait" => /\ handler = "rec_dma"
                                /\ \/ dma_active = 2 /\ HandlerBits
                                   \/ dma_active = 3 /\ Silent
        /\ pc = "close_handler" => Silent

-----------------------------------------------------------------------------
(* What the ring holds                                                     *)

Stored == IF cop = "advance" THEN 1 ELSE 0

\* the slot stored last, and how many samples came after that of slot i
Prev(w) == IF w = 0 THEN BUF_LEN - 1 ELSE w - 1
Last   == IF cop = "advance" THEN w_off ELSE Prev(w_off)
Age(i) == Used(i, Last)

Right(i) == dma_buf[i] = (taken - Age(i)) % NumIds

\* samples copied of a pass that has not moved *r_off yet, and the samples
\* stored from the one at *r_off on
Held   == IF pc \in PassPcs THEN got ELSE 0
Gap(a, u) == IF a >= u THEN a - u ELSE a - u + NumIds
Unread == Gap(taken, user) + Held

\* samples between the offsets; level, between the handler's store and the
\* end of its answer to an overrun, they stand for a full ring
Room == IF r_off = w_off /\ cop \in {"test", "over_rd", "over_wr"}
        THEN BUF_LEN ELSE Used(r_off, w_off)

\* One recording at a time; two that overlap are not followed.
Alone == handler = "rec_dma" /\ ~overlap

\* A pass of read, however the handler moves *r_off meanwhile
PassInv ==
    Alone =>
        /\ pc = "pos" =>
             /\ Used(r_off, write_pos) <= Room
             /\ cop \in {"over_rd", "over_wr"} =>
                  \/ write_pos = w_off
                  \/ r_off = w_off /\ (cop = "over_wr" => copOff = r_off)
        /\ pc = "copy" /\ ~hit => read_pos = r_off /\ len <= Room

\* Until the ring runs over only read moves *r_off, and the samples stored
\* since the last one handed out are those between the offsets.
CountInv ==
    /\ user \in Ids
    /\ cop \notin {"over_rd", "over_wr"} /\ ~hit
    /\ Unread <= BUF_LEN
    /\ \/ Unread - Stored = Used(r_off, w_off)
       \/ Unread = BUF_LEN /\ r_off = w_off /\ cop = "test"
    /\ pc = "pos" => Used(r_off, write_pos) <= Unread - Stored
    /\ pc \in PassPcs => /\ read_pos = r_off
                         /\ 1 <= len /\ len <= Unread - Stored
                         /\ pc # "copy" => got = len
    /\ pc = "adv_wr" => cpuOff = r_off
    /\ \A i \in Slots : Age(i) < Unread => Right(i)

\* Once it has, every slot holds one of the last BUF_LEN samples.
HoldInv ==
    /\ Alone /\ mistaken => overrun
    /\ Alone /\ ~mistaken =>
         /\ pc = "copy" /\ got > 0 /\ ~hit => user = dma_buf[read_pos + got - 1]
         /\ overrun => \A i \in Slots : Right(i)
         /\ ~overrun => CountInv

-----------------------------------------------------------------------------
(* The arithmetic of the ring and of the samples' numbers *)

LEMMA ModLemma ==
    ASSUME NEW x \in 0 .. 2 * BUF_LEN - 1
    PROVE  x % BUF_LEN = IF x >= BUF_LEN THEN x - BUF_LEN ELSE x
  BY RecordAssumption

LEMMA ZeroSlot == 0 \in Slots
  BY RecordAssumption DEF Slots

\* Offsets are advanced modulo BUF_LEN (audio.c:440, 452, 723).
LEMMA Next1Lemma ==
    ASSUME NEW i \in Slots
    PROVE  /\ Next1(i) \in Slots
           /\ Next1(i) = IF i = BUF_LEN - 1 THEN 0 ELSE i + 1
  BY RecordAssumption, ModLemma, i + 1 \in 0 .. 2 * BUF_LEN - 1 DEF Slots, Next1

LEMMA PlusLemma ==
    ASSUME NEW i \in Slots, NEW n \in 0 .. BUF_LEN - 1
    PROVE  /\ (i + n) % BUF_LEN \in Slots
           /\ (i + n) % BUF_LEN = IF i + n >= BUF_LEN THEN i + n - BUF_LEN ELSE i + n
  BY RecordAssumption, ModLemma, i + n \in 0 .. 2 * BUF_LEN - 1 DEF Slots

\* One sample on, and back k of them
LEMMA IdLemma ==
    ASSUME NEW a \in Ids, NEW k \in 0 .. NumIds
    PROVE  /\ (a + 1) % NumIds \in Ids
           /\ (a + 1) % NumIds = IF a = NumIds - 1 THEN 0 ELSE a + 1
           /\ (a - k) % NumIds \in Ids
           /\ (a - k) % NumIds = IF a >= k /\ k # NumIds THEN a - k
                                 ELSE IF k = NumIds THEN a ELSE a - k + NumIds
  BY RecordAssumption DEF Ids

LEMMA BothOffLemma == BothOff \in IISConfig
  BY Zenon DEF BothOff, IISConfig

LEMMA SetBitLemma ==
    ASSUME NEW c \in IISConfig, NEW b \in BOOLEAN
    PROVE  /\ [c EXCEPT !.irqrx = b] \in IISConfig
           /\ [c EXCEPT !.irqrx = b].irqrx = b
           /\ [c EXCEPT !.irqrx = b].rxfifo = c.rxfifo
           /\ [c EXCEPT !.rxfifo = b] \in IISConfig
           /\ [c EXCEPT !.rxfifo = b].rxfifo = b
           /\ [c EXCEPT !.rxfifo = b].irqrx = c.irqrx
  BY DEF IISConfig

\* What a pass of read takes lies before the end of the ring.
LEMMA AvailableLemma ==
    ASSUME NEW r \in Slots, NEW w \in Slots
    PROVE  /\ Available(r, w) \in 0 .. BUF_LEN - 1
           /\ r + Available(r, w) <= BUF_LEN
           /\ Available(r, w) <= Used(r, w)
  BY RecordAssumption DEF Slots, Available, Used

-----------------------------------------------------------------------------
\* Type correctness: the handler never takes a sample from an empty FIFO
\* (the full_count test, audio.c:443), a pass of read stays in the ring and
\* in what was asked for (audio.c:689-711).
THEOREM TypeInvariance == Spec => []TypeInv
  <1>1. Init => TypeInv
    <2> SUFFICES ASSUME Init PROVE TypeInv
      OBVIOUS
    <2>1. /\ r_off \in Slots /\ w_off \in Slots /\ write_pos \in Slots
          /\ read_pos \in Slots /\ cpuOff \in Slots /\ copOff \in Slots
      BY ZeroSlot DEF Init
    <2>2. /\ fifo \in 0 .. FIFO_LEN /\ taken \in Ids /\ user \in Ids \cup {Old}
          /\ dma_active \in 0 .. 3 /\ rem \in Nat
          /\ len \in 0 .. BUF_LEN - 1 /\ got \in 0 .. len
      BY RecordAssumption DEF Init, Ids
    <2>3. /\ dma_buf \in [Slots -> Ids \cup {Old}]
          /\ iisconfig \in IISConfig /\ cpuReg \in IISConfig
          /\ copReg \in IISConfig
      BY BothOffLemma DEF Init
    <2>4. /\ handler \in {"none", "rec_dma"} /\ pc \in CpuPcs /\ pc # "copy"
          /\ cop \in CopPcs
      BY DEF Init, CpuPcs, CopPcs
    <2>5. /\ copIntEn \in BOOLEAN /\ isopen \in BOOLEAN /\ copStereo \in BOOLEAN
          /\ overrun \in BOOLEAN /\ hit \in BOOLEAN /\ mistaken \in BOOLEAN
          /\ interrupted \in BOOLEAN /\ overlap \in BOOLEAN
      BY DEF Init
    <2> QED
      BY <2>1, <2>2, <2>3, <2>4, <2>5 DEF TypeInv, TypeOK
  <1>2. TypeInv /\ [Next]_vars => TypeInv'
    <2> SUFFICES ASSUME TypeInv, [Next]_vars PROVE TypeInv'
      OBVIOUS
    <2> USE DEF TypeInv, TypeOK, shared, hw, pass, locals, copVars, progress, ghosts
    <2>0. 0 \in Ids /\ [i \in Slots |-> Old] \in [Slots -> Ids \cup {Old}]
      BY RecordAssumption DEF Ids
    <2>1. CASE Request
      <3>1. CASE OpenReadOff
        BY <3>1, <2>0, ZeroSlot DEF OpenReadOff, Renumber, CpuGoto, CpuPcs
      <3>2. ASSUME NEW n \in 0 .. MaxCount, ReadBegin(n) PROVE TypeInv'
        BY <3>2, RecordAssumption DEF ReadBegin, CpuPcs
      <3>3. CASE CloseBegin
        BY <3>3 DEF CloseBegin, CpuPcs
      <3> QED
        BY <2>1, <3>1, <3>2, <3>3 DEF Request
    <2>2. CASE Open
      <3>1. CASE OpenWriteOff \/ OpenActive
        BY <3>1, ZeroSlot DEF OpenWriteOff, OpenActive, CpuGoto, CpuPcs
      <3>2. CASE OpenReset
        BY <3>2, RecordAssumption, BothOffLemma DEF OpenReset, CpuGoto, CpuPcs
      <3> QED
        BY <2>2, <3>1, <3>2 DEF Open
    <2>3. CASE Start
      <3>1. CASE StartActive \/ StartReadOff \/ StartHandler
        BY <3>1, ZeroSlot
        DEF StartActive, StartReadOff, StartHandler, CpuGoto, CpuPcs
      <3>2. CASE StartWriteOff
        BY <3>2, <2>0, ZeroSlot DEF StartWriteOff, Renumber, CpuGoto, CpuPcs
      <3>3. CASE StartFiq
        BY <3>3 DEF StartFiq, CpuGoto, CpuPcs
      <3>6. CASE StartFifoRead
        BY <3>6 DEF StartFifoRead, CpuGoto, CpuPcs
      <3>4. CASE StartIrqOn
        <4>1. /\ iisconfig' \in IISConfig /\ cpuReg' \in IISConfig
              /\ pc' \in CpuPcs /\ pc' # "copy"
          BY <3>4, SetBitLemma, BothOffLemma DEF StartIrqOn, CpuGoto, CpuPcs
        <4>2. UNCHANGED <<shared, fifo, copIntEn, isopen, rem, pass, cpuOff, copVars,
                          ghosts>>
          BY <3>4 DEF StartIrqOn
        <4> QED
          BY <4>1, <4>2
      <3>5. CASE StartFifoOn
        <4>1. /\ iisconfig' \in IISConfig /\ cpuReg' \in IISConfig
              /\ pc' \in CpuPcs /\ pc' # "copy"
          BY <3>5, SetBitLemma, BothOffLemma DEF StartFifoOn, CpuGoto, CpuPcs
        <4>2. UNCHANGED <<shared, fifo, copIntEn, isopen, rem, pass, cpuOff, copVars,
                          ghosts>>
          BY <3>5 DEF StartFifoOn
        <4> QED
          BY <4>1, <4>2
      <3> QED
        BY <2>3, <3>1, <3>2, <3>3, <3>4, <3>5, <3>6 DEF Start
    <2>4. CASE Read \/ Signal
      <3>1. CASE ReadLoop \/ ReadCheck \/ AdvanceLoad
        BY <3>1 DEF ReadLoop, ReadCheck, AdvanceLoad, CpuGoto, CpuPcs
      <3>2. CASE ReadPos
        <4>1. /\ len' = AtMost(Available(r_off, write_pos), rem)
              /\ read_pos' = r_off /\ got' = 0
              /\ pc' = IF len' = 0 THEN "sigtest" ELSE "copy"
              /\ write_pos' = 0 /\ hit' = FALSE
              /\ UNCHANGED <<shared, hw, isopen, rem, cpuReg, cpuOff,
                             copVars, taken, user, overrun, mistaken,
                             interrupted, overlap>>
          BY <3>2 DEF ReadPos
        <4>5. /\ Available(r_off, write_pos) \in 0 .. BUF_LEN - 1
              /\ r_off + Available(r_off, write_pos) <= BUF_LEN
          BY AvailableLemma
        <4>2. /\ len' \in 0 .. BUF_LEN - 1 /\ len' <= rem
              /\ r_off + len' <= BUF_LEN
          <5>1. r_off \in Nat /\ rem \in Nat
            BY RecordAssumption DEF Slots
          <5>2. len' = AtMost(Available(r_off, write_pos), rem)
            BY <4>1
          <5> DEFINE a == Available(r_off, write_pos)
          <5> HIDE DEF a
          <5>3. len' = AtMost(a, rem) /\ a \in 0 .. BUF_LEN - 1 /\ r_off + a <= BUF_LEN
            BY <4>5, <5>2 DEF a
          <5> QED
            BY <5>1, <5>3, RecordAssumption DEF AtMost
        <4>3. got' \in 0 .. len' /\ (pc' = "copy" => got' < len')
          BY <4>1, <4>2, RecordAssumption
        <4> QED
          BY <4>1, <4>2, <4>3, ZeroSlot, ZenonT(60) DEF CpuPcs
      <3>3. CASE CopyOne
        <4>1. /\ pc = "copy" /\ got < len /\ read_pos + len <= BUF_LEN
              /\ len <= rem /\ got \in Nat /\ len \in Nat /\ rem \in Nat
          BY <3>3, RecordAssumption DEF CopyOne
        <4>2. read_pos + got \in Slots /\ dma_buf[read_pos + got] \in Ids \cup {Old}
          BY <4>1, RecordAssumption DEF Slots
        <4>3. rem' \in Nat /\ got' \in 0 .. len /\ pc' \in {"copy", "check"}
              /\ (pc' = "copy" => got' < len /\ rem' = rem)
          BY <3>3, <4>1 DEF CopyOne
        <4>4. /\ user' = dma_buf[read_pos + got]
              /\ UNCHANGED <<shared, hw, isopen, write_pos, read_pos, len,
                             cpuReg, cpuOff, copVars, taken, overrun, hit,
                             mistaken, interrupted, overlap>>
          BY <3>3 DEF CopyOne
        <4> QED
          BY <4>1, <4>2, <4>3, <4>4 DEF CpuPcs
      <3>4. CASE AdvanceStore
        <4>1. cpuOff \in Slots /\ len \in 0 .. BUF_LEN - 1
          OBVIOUS
        <4>2. (cpuOff + len) % BUF_LEN \in Slots
          BY <4>1, PlusLemma
        <4> QED
          BY <3>4, <4>2, ZeroSlot DEF AdvanceStore, CpuGoto, CpuPcs
      <3>5. CASE NoSignal \/ ReadSignal
        <4>1. 0 \in 0 .. BUF_LEN - 1 /\ 0 \in 0 .. 0
          BY RecordAssumption
        <4>2. /\ len' = 0 /\ got' = 0 /\ write_pos' = 0 /\ read_pos' = 0
              /\ hit' = FALSE /\ user' \in Ids \cup {Old} /\ pc' \in {"loop", "idle"}
              /\ UNCHANGED <<shared, hw, isopen, rem, cpuReg, cpuOff, copVars,
                             taken, overrun, mistaken, interrupted, overlap>>
          BY <3>5, <2>0 DEF NoSignal, ReadSignal, EndPass, CpuGoto
        <4>3. len' \in 0 .. BUF_LEN - 1 /\ got' \in 0 .. len'
          BY <4>1, <4>2
        <4> QED
          BY <4>2, <4>3, ZeroSlot, ZenonT(60) DEF CpuPcs
      <3>6. CASE CloseSignal
        BY <3>6 DEF CloseSignal, CpuGoto, CpuPcs
      <3> QED
        BY <2>4, <3>1, <3>2, <3>3, <3>4, <3>5, <3>6 DEF Read, Signal
    <2>5. CASE Close
      <3>1. CASE CloseTell \/ CloseDone
        BY <3>1 DEF CloseTell, CloseDone, CpuGoto, CpuPcs
      <3>2. CASE CloseHandler
        BY <3>2, <2>0 DEF CloseHandler, Renumber, CpuGoto, CpuPcs
      <3> QED
        BY <2>5, <3>1, <3>2 DEF Close
    <2>6. CASE CopStep
      <3>1. CASE FiqStore
        <4>1. (taken + 1) % NumIds \in Ids
          BY IdLemma, RecordAssumption DEF Ids
        <4>2. taken' \in Ids /\ dma_buf' \in [Slots -> Ids \cup {Old}]
          BY <3>1, <4>1 DEF FiqStore
        <4>3. fifo' \in 0 .. FIFO_LEN
          BY <3>1, RecordAssumption DEF FiqStore
        <4> QED
          BY <3>1, <4>2, <4>3 DEF FiqStore, CopGoto, CopPcs
      <3>2. CASE FiqAdvance
        BY <3>2, Next1Lemma DEF FiqAdvance, CopGoto, CopPcs
      <3>3. CASE FiqTest
        BY <3>3, <2>0 DEF FiqTest, CopGoto, CopPcs
      <3>4. CASE FiqOverLoad
        BY <3>4 DEF FiqOverLoad, CopGoto, CopPcs
      <3>8. CASE FiqOverStore
        BY <3>8, Next1Lemma, ZeroSlot DEF FiqOverStore, CopGoto, CopPcs
      <3>12. CASE FiqEntry
        <4>1. copReg' \in IISConfig /\ copStereo' \in BOOLEAN /\ cop' \in CopPcs
          BY <3>12 DEF FiqEntry, CopGoto, CopPcs
        <4>2. UNCHANGED <<shared, hw, copOff, progress, pc, isopen, locals,
                          interrupted, overlap>>
          BY <3>12 DEF FiqEntry, CopGoto
        <4> QED
          BY <4>1, <4>2
      <3>5. CASE FiqInactive
        BY <3>5 DEF FiqInactive, CopGoto, CopPcs
      <3>11. CASE FiqEmpty
        <4>1. copReg' \in IISConfig /\ copStereo' \in BOOLEAN /\ cop' \in CopPcs
          BY <3>11 DEF FiqEmpty, CopGoto, CopPcs
        <4>2. UNCHANGED <<shared, hw, copOff, progress, pc, isopen, locals,
                          interrupted, overlap>>
          BY <3>11 DEF FiqEmpty, CopGoto
        <4> QED
          BY <4>1, <4>2
      <3>10. CASE FiqLoop
        <4>1. copReg' \in IISConfig /\ copStereo' \in BOOLEAN /\ cop' \in CopPcs
          BY <3>10 DEF FiqLoop, CopGoto, CopPcs
        <4>2. UNCHANGED <<shared, hw, copOff, progress, pc, isopen, locals,
                          interrupted, overlap>>
          BY <3>10 DEF FiqLoop, CopGoto
        <4> QED
          BY <4>1, <4>2
      <3>6. CASE FiqIrqOff
        <4>1. /\ iisconfig' \in IISConfig /\ copReg' \in IISConfig
              /\ cop' \in CopPcs
          BY <3>6, SetBitLemma, BothOffLemma DEF FiqIrqOff, CopGoto, CopPcs
        <4>2. UNCHANGED <<shared, fifo, copIntEn, copStereo, copOff, progress, pc,
                          isopen, locals, interrupted, overlap>>
          BY <3>6 DEF FiqIrqOff, CopGoto
        <4> QED
          BY <4>1, <4>2
      <3>9. CASE FiqReturn
        <4>1. /\ iisconfig' \in IISConfig /\ copReg' \in IISConfig
              /\ cop' \in CopPcs
          BY <3>9, SetBitLemma, BothOffLemma DEF FiqReturn, CopGoto, CopPcs
        <4>2. UNCHANGED <<shared, fifo, copIntEn, copStereo, copOff, progress, pc,
                          isopen, locals, interrupted, overlap>>
          BY <3>9 DEF FiqReturn, CopGoto
        <4> QED
          BY <4>1, <4>2
      <3>7. CASE FiqFifoOff
        <4>1. /\ iisconfig' \in IISConfig /\ copReg' \in IISConfig
              /\ cop' \in CopPcs
          BY <3>7, SetBitLemma, BothOffLemma DEF FiqFifoOff, CopGoto, CopPcs
        <4>2. UNCHANGED <<shared, fifo, copIntEn, copStereo, copOff, progress, pc,
                          isopen, locals, interrupted, overlap>>
          BY <3>7 DEF FiqFifoOff, CopGoto
        <4> QED
          BY <4>1, <4>2
      <3> QED
        BY <2>6, <3>1, <3>2, <3>3, <3>4, <3>5, <3>6, <3>7, <3>8, <3>9, <3>10, <3>11, <3>12
        DEF CopStep
    <2>7. CASE Receive
      BY <2>7, RecordAssumption DEF Receive
    <2>8. CASE UNCHANGED vars
      BY <2>8 DEF vars
    <2> QED
      BY <2>1, <2>2, <2>3, <2>4, <2>5, <2>6, <2>7, <2>8 DEF Next, CpuStep
  <1> QED
    BY <1>1, <1>2, PTL DEF Spec

\* The words, registers and locals keep their ranges.
THEOREM TypeCorrect == Spec => []TypeOK
  <1>1. TypeInv => TypeOK
    BY DEF TypeInv
  <1> QED
    BY <1>1, TypeInvariance, PTL

-----------------------------------------------------------------------------
(* The calls and the handler, one step per action *)

CallsInv == CallInv /\ FreshInv /\ WatchInv

\* Two bits make the receiver's configuration.
LEMMA BitsLemma ==
    ASSUME NEW c \in IISConfig, NEW d \in IISConfig
    PROVE  /\ c = d <=> c.irqrx = d.irqrx /\ c.rxfifo = d.rxfifo
           /\ c = BothOff <=> ~c.irqrx /\ ~c.rxfifo
           /\ c = [irqrx |-> TRUE, rxfifo |-> FALSE] <=> c.irqrx /\ ~c.rxfifo
  BY DEF IISConfig, BothOff

LEMMA CallStep ==
    ASSUME TypeInv, CallsInv, [Next]_vars PROVE CallInv' /\ FreshInv'
  <1> USE DEF shared, hw, pass, locals, copVars, progress, ghosts, CallsInv
  <1>1. CASE Request
    <2> USE DEF CpuGoto, CallInv, FreshInv, OpenPcs, SetPcs, StartPcs, ReadPcs
    <2>1. CASE OpenReadOff
      BY <2>1 DEF OpenReadOff, Renumber, WatchInv, Silent, TypeInv, TypeOK
    <2>2. ASSUME NEW n \in 0 .. MaxCount, ReadBegin(n) PROVE CallInv' /\ FreshInv'
      BY <2>2 DEF ReadBegin, WatchInv, TypeInv, TypeOK
    <2>3. CASE CloseBegin
      BY <2>3 DEF CloseBegin
    <2> QED
      BY <1>1, <2>1, <2>2, <2>3 DEF Request
  <1>2. CASE Open
    <2> USE DEF CpuGoto, CallInv, FreshInv, OpenPcs, SetPcs, StartPcs, ReadPcs
    <2>1. CASE OpenWriteOff \/ OpenActive
      BY <2>1 DEF OpenWriteOff, OpenActive
    <2>2. CASE OpenReset
      BY <2>2 DEF OpenReset, TypeInv, TypeOK
    <2> QED
      BY <1>2, <2>1, <2>2 DEF Open
  <1>3. CASE Start
    <2> USE DEF CpuGoto, CallInv, FreshInv, OpenPcs, SetPcs, StartPcs, ReadPcs
    <2>1. CASE StartActive \/ StartReadOff \/ StartWriteOff \/ StartHandler
      BY <2>1 DEF StartActive, StartReadOff, StartWriteOff, StartHandler, Renumber
    <2>2. CASE StartFiq \/ StartIrqOn \/ StartFifoRead \/ StartFifoOn
      BY <2>2 DEF StartFiq, StartIrqOn, StartFifoRead, StartFifoOn
    <2> QED
      BY <1>3, <2>1, <2>2 DEF Start
  <1>4. CASE Read \/ ReadSignal
    <2>1. /\ pc \in ReadPcs /\ pc' \in ReadPcs \cup {"idle"}
          /\ handler' = handler /\ interrupted' = interrupted
          /\ isopen' = isopen /\ overlap' = overlap /\ dma_active' = dma_active
      BY <1>4
      DEF Read, ReadLoop, ReadPos, CopyOne, ReadCheck, AdvanceLoad, AdvanceStore,
          NoSignal, ReadSignal, CpuGoto, ReadPcs
    <2> QED
      BY <2>1 DEF CallInv, FreshInv, OpenPcs, SetPcs, StartPcs, ReadPcs
  <1>5. CASE Close \/ CloseSignal
    BY <1>5
    DEF Close, CloseTell, CloseDone, CloseSignal, CloseHandler, Renumber, CpuGoto,
        CallInv, FreshInv, OpenPcs, SetPcs, StartPcs, ReadPcs
  <1>6. CASE CopStep
    <2>1. /\ cop = "idle" => handler = "rec_dma"
          /\ UNCHANGED <<pc, isopen, handler, interrupted, overlap>>
      BY <1>6
      DEF CopStep, FiqEntry, FiqIrqOff, FiqLoop, FiqEmpty, FiqReturn, FiqStore,
          FiqAdvance, FiqTest, FiqOverLoad, FiqOverStore, FiqFifoOff, FiqInactive,
          CopGoto
    <2>2. dma_active' = dma_active \/ (cop = "inactive" /\ dma_active' = 3)
      BY <1>6
      DEF CopStep, FiqEntry, FiqIrqOff, FiqLoop, FiqEmpty, FiqReturn, FiqStore,
          FiqAdvance, FiqTest, FiqOverLoad, FiqOverStore, FiqFifoOff, FiqInactive,
          CopGoto
    <2> QED
      BY <2>1, <2>2 DEF CallInv, FreshInv, OpenPcs, SetPcs, StartPcs, ReadPcs
  <1>7. CASE Receive \/ UNCHANGED vars
    BY <1>7 DEF Receive, vars, CallInv, FreshInv
  <1> QED
    BY <1>1, <1>2, <1>3, <1>4, <1>5, <1>6, <1>7 DEF Next, Signal, CpuStep

LEMMA WatchStep ==
    ASSUME TypeInv, CallsInv, [Next]_vars PROVE WatchInv'
  <1> USE DEF shared, hw, pass, locals, copVars, progress, ghosts, CallsInv
  <1>0. iisconfig \in IISConfig /\ cpuReg \in IISConfig /\ copReg \in IISConfig
        /\ BothOff \in IISConfig
    BY BothOffLemma DEF TypeInv, TypeOK
  <1>1. CASE Request
    <2> USE DEF CallInv, FreshInv, WatchInv, CpuGoto, OpenPcs, SetPcs, StartPcs, ReadPcs
    <2>1. CASE OpenReadOff
      BY <2>1 DEF OpenReadOff, Renumber, Silent
    <2>2. ASSUME NEW n \in 0 .. MaxCount, ReadBegin(n) PROVE WatchInv'
      <3>1. /\ pc = "idle" /\ isopen
            /\ ~interrupted => pc' = IF handler = "none" THEN "start_active"
                                                      ELSE "loop"
            /\ UNCHANGED <<shared, hw, isopen, cpuReg, copVars, ghosts>>
        BY <2>2 DEF ReadBegin, TypeInv, TypeOK
      <3> QED
        BY <3>1 DEF Silent, HandlerBits, TypeInv, TypeOK
    <2>3. CASE CloseBegin
      <3>1. /\ pc = "idle" /\ isopen
            /\ ~interrupted => pc' = IF handler = "none" THEN "close_handler"
                                                      ELSE "close_tell"
            /\ pc' \in {"close_tell", "close_handler"}
            /\ UNCHANGED <<shared, hw, isopen, cpuReg, copVars, ghosts>>
        BY <2>3 DEF CloseBegin, TypeInv, TypeOK
      <3> QED
        BY <3>1 DEF Silent, HandlerBits, TypeInv, TypeOK
    <2> QED
      BY <1>1, <2>1, <2>2, <2>3 DEF Request
  <1>2. CASE Open
    <2> USE DEF CallInv, FreshInv, WatchInv, CpuGoto, OpenPcs, SetPcs, StartPcs, ReadPcs
    <2>1. CASE OpenWriteOff \/ OpenActive
      BY <2>1 DEF OpenWriteOff, OpenActive, Silent
    <2>2. CASE OpenReset
      BY <2>2 DEF OpenReset, Silent
    <2> QED
      BY <1>2, <2>1, <2>2 DEF Open
  <1>3. CASE Start
    <2> USE DEF CallInv, FreshInv, WatchInv, CpuGoto, OpenPcs, SetPcs, StartPcs, ReadPcs
    <2>1. CASE StartActive \/ StartReadOff
      BY <2>1 DEF StartActive, StartReadOff, Silent
    <2>2. CASE StartWriteOff \/ StartHandler
      BY <2>2 DEF StartWriteOff, StartHandler, Renumber, Silent
    <2>3. CASE StartFiq
      BY <2>3 DEF StartFiq, Silent
    <2>4. CASE StartIrqOn
      <3>1. ~interrupted => iisconfig' = [irqrx |-> TRUE, rxfifo |-> FALSE]
        <4> SUFFICES ASSUME ~interrupted
                     PROVE  iisconfig' = [irqrx |-> TRUE, rxfifo |-> FALSE]
          OBVIOUS
        <4>1. cpuReg = BothOff /\ iisconfig' = [cpuReg EXCEPT !.irqrx = TRUE]
          BY <2>4 DEF StartIrqOn
        <4> QED
          BY <4>1 DEF BothOff
      <3> QED
        BY <2>4, <3>1 DEF StartIrqOn
    <2>5. CASE StartFifoRead
      BY <2>5 DEF StartFifoRead
    <2>6. CASE StartFifoOn
      <3>1. ~interrupted => iisconfig'.irqrx /\ iisconfig'.rxfifo
        BY <2>6, <1>0 DEF StartFifoOn
      <3>2. ~interrupted' => cop' = "idle" /\ dma_active' = 1 /\ HandlerBits'
        BY <2>6, <3>1 DEF StartFifoOn, HandlerBits
      <3> QED
        BY <2>6, <3>2 DEF StartFifoOn
    <2> QED
      BY <1>3, <2>1, <2>2, <2>3, <2>4, <2>5, <2>6 DEF Start
  <1>4. CASE Read \/ ReadSignal
    <2>1. /\ pc \in ReadPcs /\ pc' \in ReadPcs \cup {"idle"}
          /\ UNCHANGED <<dma_active, handler, hw, isopen, interrupted, overlap,
                         cop, copReg>>
      BY <1>4
      DEF Read, ReadLoop, ReadPos, CopyOne, ReadCheck, AdvanceLoad, AdvanceStore,
          NoSignal, ReadSignal, CpuGoto, ReadPcs
    <2> QED
      BY <2>1 DEF CallInv, WatchInv, HandlerBits, Silent, OpenPcs, SetPcs, StartPcs, ReadPcs
  <1>5. CASE Close \/ CloseSignal
    BY <1>5
    DEF Close, CloseTell, CloseDone, CloseSignal, CloseHandler, Renumber, CpuGoto,
        CallInv, WatchInv, HandlerBits, Silent, OpenPcs, SetPcs, StartPcs, ReadPcs
  <1>6. CASE CopStep
    <2> SUFFICES ASSUME ~interrupted PROVE WatchInv'
      BY <1>6
      DEF WatchInv, CopStep, FiqEntry, FiqIrqOff, FiqLoop, FiqEmpty, FiqReturn,
          FiqStore, FiqAdvance, FiqTest, FiqOverLoad, FiqOverStore, FiqFifoOff,
          FiqInactive, CopGoto
    <2> USE DEF CopGoto
    \* where the handler's steps find the CPU
    <2> DEFINE Recording == \/ pc \in ReadPcs \cup {"close_tell", "close_wait"}
                            \/ pc = "idle" /\ handler = "rec_dma"
    <2>1. ASSUME cop # "idle" \/ (iisconfig.irqrx /\ fifo >= RX_LEVEL /\ handler = "rec_dma")
          PROVE  Recording /\ HandlerBits /\ handler = "rec_dma" /\ isopen
                 /\ (pc = "close_wait" => dma_active = 2)
                 /\ (pc # "close_wait" => /\ dma_active = 1
                                          /\ cop \notin {"fifooff", "inactive"})
      BY <2>1, RecordAssumption
      DEF TypeInv, TypeOK, CpuPcs, CallInv, FreshInv, WatchInv, Silent, BothOff,
          OpenPcs, SetPcs, StartPcs, ReadPcs
    <2>2. ASSUME Recording, HandlerBits', handler = "rec_dma", isopen,
                 UNCHANGED <<pc, isopen, handler, dma_active, interrupted>>,
                 pc = "close_wait" => dma_active = 2,
                 pc # "close_wait" => /\ dma_active = 1
                                      /\ cop' \notin {"fifooff", "inactive"}
          PROVE  WatchInv'
      BY <2>2 DEF WatchInv, OpenPcs, SetPcs, StartPcs, ReadPcs
    <2>3. CASE FiqEntry
      <3>1. HandlerBits'
        BY <2>3, <2>1 DEF FiqEntry, HandlerBits
      <3> QED
        BY <2>3, <3>1, <2>1, <2>2 DEF FiqEntry
    <2>4. CASE FiqIrqOff
      <3>1. HandlerBits'
        <4>1. /\ iisconfig' = [copReg EXCEPT !.irqrx = FALSE]
              /\ HandlerBits /\ copReg = iisconfig
          BY <2>4, <2>1 DEF FiqIrqOff, HandlerBits
        <4>2. /\ iisconfig'.irqrx = FALSE
              /\ iisconfig'.rxfifo = iisconfig.rxfifo
          BY <4>1, <1>0, SetBitLemma
        <4> QED
          <5>1. cop = "irqoff" /\ cop' = "loop"
            BY <2>4 DEF FiqIrqOff
          <5>2. iisconfig'.rxfifo /\ ~iisconfig'.irqrx
            BY <4>1, <4>2, <5>1 DEF HandlerBits
          <5> QED
            BY <5>1, <5>2 DEF HandlerBits
      <3> QED
        BY <2>4, <3>1, <2>1, <2>2 DEF FiqIrqOff
    <2>5. CASE FiqLoop
      <3>1. HandlerBits'
        BY <2>5, <2>1 DEF FiqLoop, HandlerBits
      <3> QED
        BY <2>5, <3>1, <2>1, <2>2 DEF FiqLoop
    <2>6. CASE FiqEmpty
      <3>1. HandlerBits'
        BY <2>6, <2>1 DEF FiqEmpty, HandlerBits
      <3> QED
        BY <2>6, <3>1, <2>1, <2>2 DEF FiqEmpty
    <2>7. CASE FiqReturn
      <3>1. HandlerBits'
        <4>1. /\ iisconfig' = [copReg EXCEPT !.irqrx = TRUE]
              /\ HandlerBits /\ copReg = iisconfig
          BY <2>7, <2>1 DEF FiqReturn, HandlerBits
        <4>2. /\ iisconfig'.irqrx = TRUE
              /\ iisconfig'.rxfifo = iisconfig.rxfifo
          BY <4>1, <1>0, SetBitLemma
        <4> QED
          BY <2>7, <4>1, <4>2 DEF FiqReturn, HandlerBits
      <3> QED
        BY <2>7, <3>1, <2>1, <2>2 DEF FiqReturn
    <2>8. CASE FiqStore \/ FiqAdvance \/ FiqTest \/ FiqOverLoad \/ FiqOverStore
      <3>1. /\ cop \in {"count", "advance", "test", "over_rd", "over_wr"}
            /\ cop' \in {"advance", "test", "over_rd", "over_wr", "loop"}
            /\ UNCHANGED <<pc, isopen, handler, dma_active, interrupted,
                           iisconfig, copReg>>
        BY <2>8 DEF FiqStore, FiqAdvance, FiqTest, FiqOverLoad, FiqOverStore
      <3>2. HandlerBits'
        BY <3>1, <2>1 DEF HandlerBits
      <3> QED
        BY <3>1, <3>2, <2>1, <2>2
    <2>9. CASE FiqFifoOff
      <3>1. HandlerBits'
        <4>1. /\ iisconfig' = [copReg EXCEPT !.rxfifo = FALSE]
              /\ HandlerBits /\ copReg = iisconfig
          BY <2>9, <2>1 DEF FiqFifoOff, HandlerBits
        <4>2. /\ iisconfig'.rxfifo = FALSE
              /\ iisconfig'.irqrx = iisconfig.irqrx
          BY <4>1, <1>0, SetBitLemma
        <4> QED
          <5>1. cop = "fifooff" /\ cop' = "inactive"
            BY <2>9 DEF FiqFifoOff
          <5>2. ~iisconfig'.rxfifo /\ ~iisconfig'.irqrx
            BY <4>1, <4>2, <5>1 DEF HandlerBits
          <5> QED
            BY <5>1, <5>2 DEF HandlerBits
      <3> QED
        BY <2>9, <3>1, <2>1, <2>2 DEF FiqFifoOff
    <2>10. CASE FiqInactive
      <3>1. ~iisconfig.irqrx /\ ~iisconfig.rxfifo
        BY <2>10, <2>1 DEF FiqInactive, HandlerBits
      <3>2. Silent'
        BY <2>10, <3>1, <1>0, BitsLemma DEF FiqInactive, Silent
      <3>3. /\ pc' = "close_wait" /\ dma_active' = 3 /\ handler' = "rec_dma"
        BY <2>10, <2>1 DEF FiqInactive
      <3> QED
        BY <3>2, <3>3 DEF WatchInv, OpenPcs, SetPcs, StartPcs, ReadPcs
    <2> QED
      BY <1>6, <2>3, <2>4, <2>5, <2>6, <2>7, <2>8, <2>9, <2>10 DEF CopStep
  <1>7. CASE Receive
    <2>1. /\ iisconfig.rxfifo
          /\ UNCHANGED <<shared, iisconfig, copIntEn, pc, isopen, cpuReg, copVars,
                         ghosts>>
      BY <1>7 DEF Receive
    <2>2. iisconfig # BothOff /\ iisconfig # [irqrx |-> TRUE, rxfifo |-> FALSE]
      BY <2>1 DEF BothOff
    <2>3. Silent' = Silent /\ HandlerBits' = HandlerBits
      BY <2>1 DEF Silent, HandlerBits
    <2> QED
      BY <2>1, <2>2, <2>3
      DEF CallInv, WatchInv, Silent, OpenPcs, SetPcs, StartPcs, ReadPcs
  <1>8. CASE UNCHANGED vars
    BY <1>8 DEF vars, WatchInv, Silent, HandlerBits
  <1> QED
    BY <1>1, <1>2, <1>3, <1>4, <1>5, <1>6, <1>7, <1>8 DEF Next, Signal, CpuStep

LEMMA CallsInvariance == Spec => []CallsInv
  <1>1. Init => CallsInv
    BY DEF Init, CallsInv, CallInv, FreshInv, WatchInv, Silent, HandlerBits,
           OpenPcs, SetPcs, StartPcs, ReadPcs
  <1>2. TypeInv /\ CallsInv /\ [Next]_vars => CallsInv'
    BY CallStep, WatchStep DEF CallsInv
  <1> QED
    BY <1>1, <1>2, TypeInvariance, PTL DEF Spec

\* A close that no signal cuts short leaves nothing running, and the next
\* open does not meet the handler: the word dma_active carries the request
\* to end and the answer to it without a lock (audio.c:429-465, 543-560).
THEOREM ClosedIsQuiet == Spec => []QuietAfterClose
  <1>1. CallsInv => QuietAfterClose
    BY DEF CallsInv, CallInv, WatchInv, Silent, QuietAfterClose
  <1> QED
    BY <1>1, CallsInvariance, PTL

-----------------------------------------------------------------------------
(* Positions in the ring and the samples' numbers *)

LEMMA UsedLemma ==
    ASSUME NEW r \in Slots, NEW w \in Slots
    PROVE  /\ Used(r, w) \in 0 .. BUF_LEN - 1
           /\ Used(r, w) = 0 <=> r = w
           /\ r = w => \A i \in Slots : ~InPart(i, r, w)
  BY RecordAssumption DEF Slots, Used, InPart

LEMMA PrevLemma ==
    ASSUME NEW w \in Slots
    PROVE  /\ Prev(w) \in Slots
           /\ Prev(Next1(w)) = w
           /\ \A i \in Slots : i # w => Used(i, w) = Used(i, Prev(w)) + 1
           /\ Used(w, Prev(w)) = BUF_LEN - 1
  BY Next1Lemma, RecordAssumption DEF Slots, Used, Prev

\* The writer moves on by one slot.
LEMMA GrowLemma ==
    ASSUME NEW r \in Slots, NEW w \in Slots
    PROVE  /\ r # Next1(w) => Used(r, Next1(w)) = Used(r, w) + 1
           /\ r = Next1(w) => Used(r, w) = BUF_LEN - 1
  BY Next1Lemma, RecordAssumption DEF Slots, Used

\* The reader moves on by k of the m samples there are.
LEMMA TakeLemma ==
    ASSUME NEW r \in Slots, NEW w \in Slots, NEW k \in 1 .. BUF_LEN - 1,
           NEW m \in 0 .. BUF_LEN, k <= m,
           m = Used(r, w) \/ (m = BUF_LEN /\ r = w)
    PROVE  Used((r + k) % BUF_LEN, w) = m - k
  <1> DEFINE x == (r + k) % BUF_LEN
  <1>1. x = IF r + k >= BUF_LEN THEN r + k - BUF_LEN ELSE r + k
    BY PlusLemma, k \in 0 .. BUF_LEN - 1, RecordAssumption
  <1> HIDE DEF x
  <1>2. Used(x, w) = m - k
    BY <1>1, RecordAssumption DEF Slots, Used
  <1> QED
    BY <1>2 DEF x

\* Slot r + k came k samples after slot r.
LEMMA StepsLemma ==
    ASSUME NEW r \in Slots, NEW l \in Slots, NEW k \in Nat, r + k < BUF_LEN,
           k <= Used(r, l)
    PROVE  r + k \in Slots /\ Used(r + k, l) = Used(r, l) - k
  BY RecordAssumption DEF Slots, Used

\* The copy stays off the slot stored next.
LEMMA OffLemma ==
    ASSUME NEW r \in Slots, NEW w \in Slots, NEW k \in Nat, r + k < BUF_LEN,
           k < Used(r, w)
    PROVE  r + k \in Slots /\ r + k # w
  BY RecordAssumption DEF Slots, Used

\* i lies between the offsets: how long ago it was stored
LEMMA PartLemma ==
    ASSUME NEW r \in Slots, NEW w \in Slots, NEW i \in Slots, InPart(i, r, w)
    PROVE  /\ r # w /\ i # w
           /\ Used(i, w) <= Used(r, w)
           /\ Used(i, Prev(w)) = Used(i, w) - 1
  BY RecordAssumption DEF Slots, Used, InPart, Prev

\* Numbers of samples: one stored, one handed out
LEMMA GapLemma ==
    ASSUME NEW a \in Ids, NEW u \in Ids
    PROVE  /\ Gap(a, u) \in 0 .. NumIds - 1
           /\ Gap(a, u) = 0 <=> a = u
           /\ Gap(a, u) < NumIds - 1 => Gap((a + 1) % NumIds, u) = Gap(a, u) + 1
           /\ Gap(a, u) > 0 => /\ Gap(a, (u + 1) % NumIds) = Gap(a, u) - 1
                               /\ (a - (Gap(a, u) - 1)) % NumIds = (u + 1) % NumIds
  <1>1. /\ (a + 1) % NumIds = IF a = NumIds - 1 THEN 0 ELSE a + 1
        /\ (u + 1) % NumIds = IF u = NumIds - 1 THEN 0 ELSE u + 1
    BY IdLemma, RecordAssumption
  <1>2. Gap(a, u) \in 0 .. NumIds - 1 /\ (Gap(a, u) = 0 <=> a = u)
    BY RecordAssumption DEF Ids, Gap
  <1>3. Gap(a, u) < NumIds - 1 => Gap((a + 1) % NumIds, u) = Gap(a, u) + 1
    BY <1>1, RecordAssumption DEF Ids, Gap
  <1>4. Gap(a, u) > 0 => Gap(a, (u + 1) % NumIds) = Gap(a, u) - 1
    BY <1>1, RecordAssumption DEF Ids, Gap
  <1>5. ASSUME Gap(a, u) > 0
        PROVE  (a - (Gap(a, u) - 1)) % NumIds = (u + 1) % NumIds
    <2>1. Gap(a, u) - 1 \in 0 .. NumIds
      BY <1>2, <1>5, RecordAssumption
    <2>2. (a - (Gap(a, u) - 1)) % NumIds
             = IF a >= Gap(a, u) - 1 THEN a - (Gap(a, u) - 1)
                                     ELSE a - (Gap(a, u) - 1) + NumIds
      BY <1>2, <2>1, IdLemma, RecordAssumption
    <2> QED
      BY <1>1, <1>5, <2>2, RecordAssumption DEF Ids, Gap
  <1> QED
    BY <1>2, <1>3, <1>4, <1>5

LEMMA BackLemma ==
    ASSUME NEW a \in Ids, NEW k \in 0 .. BUF_LEN - 1
    PROVE  /\ (a - k) % NumIds \in Ids
           /\ (a - 0) % NumIds = a
           /\ (((a + 1) % NumIds) - (k + 1)) % NumIds = (a - k) % NumIds
           /\ (((a - (k + 1)) % NumIds) + 1) % NumIds = (a - k) % NumIds
  <1> DEFINE b == (a + 1) % NumIds
             c == (a - (k + 1)) % NumIds
  <1>1. k \in 0 .. NumIds /\ k + 1 \in 0 .. NumIds /\ k + 1 # NumIds /\ k # NumIds
    BY RecordAssumption
  <1>2. /\ b \in Ids /\ b = IF a = NumIds - 1 THEN 0 ELSE a + 1
        /\ c \in Ids /\ c = IF a >= k + 1 THEN a - (k + 1) ELSE a - (k + 1) + NumIds
        /\ (a - k) % NumIds \in Ids
        /\ (a - k) % NumIds = IF a >= k THEN a - k ELSE a - k + NumIds
    BY <1>1, IdLemma
  <1>3. (a - 0) % NumIds = a
    <2>1. 0 \in 0 .. NumIds /\ a >= 0 /\ 0 # NumIds /\ a - 0 = a
      BY RecordAssumption DEF Ids
    <2>2. (a - 0) % NumIds = a - 0
      BY <2>1, IdLemma
    <2> QED
      BY <2>1, <2>2
  <1>4. (b - (k + 1)) % NumIds = IF b >= k + 1 THEN b - (k + 1) ELSE b - (k + 1) + NumIds
    BY <1>1, <1>2, IdLemma
  <1>5. (c + 1) % NumIds = IF c = NumIds - 1 THEN 0 ELSE c + 1
    <2> HIDE DEF c
    <2> QED
      BY <1>1, <1>2, IdLemma
  <1> HIDE DEF b, c
  <1>6. (b - (k + 1)) % NumIds = (a - k) % NumIds
    BY <1>1, <1>2, <1>4, RecordAssumption DEF Ids
  <1>7. (c + 1) % NumIds = (a - k) % NumIds
    BY <1>1, <1>2, <1>5, RecordAssumption DEF Ids
  <1> QED
    BY <1>2, <1>3, <1>6, <1>7 DEF b, c

-----------------------------------------------------------------------------
(* The ring, one lemma per kind of step *)

RingInv == PassInv /\ HoldInv

Ring   == <<r_off, w_off, dma_buf, taken, cop>>
Marks  == <<user, overrun, hit, mistaken, handler, overlap>>

LEMMA RingTypes ==
    ASSUME TypeInv
    PROVE  /\ r_off \in Slots /\ w_off \in Slots /\ write_pos \in Slots
           /\ read_pos \in Slots /\ cpuOff \in Slots /\ copOff \in Slots
           /\ Last \in Slots /\ taken \in Ids /\ Stored \in 0 .. 1
           /\ dma_buf \in [Slots -> Ids \cup {Old}]
           /\ len \in 0 .. BUF_LEN - 1 /\ got \in 0 .. BUF_LEN - 1
           /\ got <= len /\ Held \in 0 .. BUF_LEN - 1
           /\ Room \in 0 .. BUF_LEN
           /\ Used(r_off, w_off) \in 0 .. BUF_LEN - 1
           /\ \A i \in Slots : Age(i) \in 0 .. BUF_LEN - 1
           /\ pc = "copy" => got < len /\ read_pos + len <= BUF_LEN
  <1>1. /\ r_off \in Slots /\ w_off \in Slots /\ write_pos \in Slots
        /\ read_pos \in Slots /\ cpuOff \in Slots /\ copOff \in Slots
        /\ taken \in Ids /\ dma_buf \in [Slots -> Ids \cup {Old}]
        /\ len \in 0 .. BUF_LEN - 1 /\ got \in 0 .. len
        /\ pc = "copy" => got < len /\ read_pos + len <= BUF_LEN
    BY DEF TypeInv, TypeOK
  <1>2. Last \in Slots /\ Stored \in 0 .. 1
    BY <1>1, PrevLemma DEF Last, Stored
  <1>3. got \in 0 .. BUF_LEN - 1 /\ got <= len /\ Held \in 0 .. BUF_LEN - 1
    BY <1>1, RecordAssumption DEF Held
  <1>4. Used(r_off, w_off) \in 0 .. BUF_LEN - 1
    BY <1>1, UsedLemma
  <1>5. Room \in 0 .. BUF_LEN
    BY <1>4, RecordAssumption DEF Room
  <1>6. \A i \in Slots : Age(i) \in 0 .. BUF_LEN - 1
    BY <1>2, UsedLemma DEF Age
  <1> QED
    BY <1>1, <1>2, <1>3, <1>4, <1>5, <1>6

LEMMA SameRing ==
    ASSUME UNCHANGED Ring
    PROVE  /\ Room' = Room /\ Stored' = Stored
           /\ Used(r_off, w_off)' = Used(r_off, w_off)
           /\ \A i \in Slots : Age(i)' = Age(i) /\ (Right(i)' <=> Right(i))
  BY DEF Ring, Room, Stored, Age, Last, Prev, Used, Right

\* Steps of the CPU outside the passes of read
LEMMA OutsidePass ==
    ASSUME RingInv, UNCHANGED <<Ring, Marks>>,
           pc \notin PassPcs, pc' \notin PassPcs \cup {"pos"}
    PROVE  RingInv'
  <1>1. PassInv'
    BY DEF PassInv, PassPcs
  <1>2. CountInv => CountInv'
    <2>1. Unread' = Unread
      BY DEF Ring, Marks, Unread, Gap, Held
    <2> QED
      BY <2>1, SameRing DEF Ring, Marks, CountInv, PassPcs
  <1> QED
    BY <1>1, <1>2, SameRing DEF RingInv, HoldInv, Alone, Ring, Marks, PassPcs

\* A pass notes where the writer is, then where the reader is.
LEMMA PosStep ==
    ASSUME TypeInv, RingInv, Alone, ReadLoop \/ ReadPos
    PROVE  RingInv'
  <1> USE DEF shared, hw, pass, locals, copVars, progress, ghosts
  <1>0. /\ UNCHANGED Ring
        /\ Room' = Room /\ Stored' = Stored
        /\ \A i \in Slots : Age(i)' = Age(i) /\ (Right(i)' <=> Right(i))
    BY SameRing DEF ReadLoop, ReadPos, Ring
  <1>1. CASE ReadLoop /\ pc' = "idle"
    BY <1>1, OutsidePass DEF ReadLoop, Ring, Marks, PassPcs
  <1>2. CASE ReadLoop /\ pc' # "idle"
    <2>1. /\ pc = "loop" /\ pc' = "pos" /\ write_pos' = w_off
          /\ UNCHANGED <<user, overrun, hit, mistaken, handler>>
      BY <1>2 DEF ReadLoop
    <2>2. Used(r_off, write_pos)' = Used(r_off, w_off) /\ Unread' = Unread
      BY <1>0, <2>1 DEF Ring, Used, Unread, Gap, Held, PassPcs
    <2>3. PassInv'
      BY <1>0, <2>1, <2>2, RingTypes, RecordAssumption DEF PassInv, Room, Ring
    <2>4. CountInv => CountInv'
      <3>1. CountInv => Used(r_off, w_off) <= Unread - Stored
        BY RingTypes, RecordAssumption DEF CountInv, Stored
      <3> QED
        BY <1>0, <2>1, <2>2, <3>1, SameRing DEF CountInv, Ring, PassPcs
    <2> QED
      BY <1>0, <2>1, <2>3, <2>4 DEF RingInv, HoldInv
  <1>3. CASE ReadPos
    <2>1. /\ pc = "pos" /\ read_pos' = r_off /\ got' = 0 /\ hit' = FALSE
          /\ len' = AtMost(Available(r_off, write_pos), rem)
          /\ pc' = IF len' = 0 THEN "sigtest" ELSE "copy"
          /\ UNCHANGED <<user, overrun, mistaken, handler>>
      BY <1>3 DEF ReadPos
    <2>2. len' \in Nat /\ len' <= Used(r_off, write_pos)
      <3>1. /\ Available(r_off, write_pos) \in 0 .. BUF_LEN - 1
            /\ Available(r_off, write_pos) <= Used(r_off, write_pos)
        BY RingTypes, AvailableLemma
      <3>2. rem \in Nat /\ Used(r_off, write_pos) \in Nat
        BY RingTypes, UsedLemma, RecordAssumption DEF TypeInv, TypeOK
      <3> QED
        BY <2>1, <3>1, <3>2, RecordAssumption DEF AtMost
    <2>3. Unread' = Unread
      BY <1>0, <2>1 DEF Ring, Unread, Gap, Held, PassPcs
    <2>4. PassInv'
      <3>1. Used(r_off, write_pos) <= Room
        BY <2>1 DEF RingInv, PassInv
      <3>2. len' <= Room'
        BY <1>0, <2>2, <3>1, RingTypes, UsedLemma, RecordAssumption
      <3> QED
        BY <1>0, <2>1, <3>2 DEF PassInv, Ring
    <2>5. CountInv => CountInv'
      <3> SUFFICES ASSUME CountInv PROVE CountInv'
        OBVIOUS
      <3>1. Used(r_off, write_pos) <= Unread - Stored
        BY <2>1 DEF CountInv
      <3>2. len' <= Unread - Stored
        BY <2>2, <3>1, RingTypes, UsedLemma, GapLemma, RecordAssumption
        DEF CountInv, Unread
      <3>3. /\ pc' \in PassPcs => /\ read_pos' = r_off' /\ pc' = "copy"
                                  /\ 1 <= len' /\ len' <= Unread' - Stored'
            /\ pc' \notin {"pos", "adv_wr"} /\ ~hit'
            /\ user' \in Ids /\ cop' \notin {"over_rd", "over_wr"}
        BY <1>0, <2>1, <2>2, <2>3, <3>2 DEF PassPcs, Ring, CountInv
      <3> QED
        BY <1>0, <2>3, <3>3, SameRing DEF CountInv, Ring
    <2> QED
      BY <1>0, <2>1, <2>4, <2>5 DEF RingInv, HoldInv
  <1> QED
    BY <1>1, <1>2, <1>3

\* Before the ring runs over a pass hands out the samples one by one.
LEMMA NextSample ==
    ASSUME TypeInv, CountInv, pc = "copy"
    PROVE  LET v == dma_buf[read_pos + got]
           IN  /\ v = (user + 1) % NumIds /\ v \in Ids
               /\ Gap(taken, v) = Gap(taken, user) - 1
  <1>1. /\ user \in Ids /\ read_pos = r_off /\ len <= Unread - Stored
        /\ Unread <= BUF_LEN /\ Unread = Gap(taken, user) + got
        /\ \/ Unread - Stored = Used(r_off, w_off)
           \/ Unread = BUF_LEN /\ r_off = w_off /\ cop = "test"
        /\ \A i \in Slots : Age(i) < Unread => Right(i)
    BY DEF CountInv, PassPcs, Unread, Held
  <1>2. got < len /\ r_off + got < BUF_LEN /\ got \in Nat
    BY <1>1, RingTypes, RecordAssumption, SMTT(30) DEF Slots
  <1> DEFINE g == Gap(taken, user)
  <1>3. g \in 0 .. NumIds - 1
    BY <1>1, RingTypes, GapLemma
  <1>4. g > 0 /\ Unread > 0 /\ Unread \in Nat
    BY <1>1, <1>2, <1>3, RingTypes, RecordAssumption
  <1>5. Age(r_off) = Unread - 1
    <2>1. CASE cop = "advance"
      BY <1>1, <1>4, <2>1, RingTypes DEF Age, Last, Stored
    <2>2. CASE cop # "advance" /\ r_off # w_off
      BY <1>1, <1>4, <2>2, RingTypes, PrevLemma, UsedLemma, RecordAssumption
      DEF Age, Last, Stored
    <2>3. CASE cop # "advance" /\ r_off = w_off
      <3>1. Unread = BUF_LEN
        BY <1>1, <1>4, <2>3, RingTypes, UsedLemma, RecordAssumption DEF Stored
      <3>2. Age(r_off) = BUF_LEN - 1
        BY <2>3, RingTypes, PrevLemma DEF Age, Last
      <3> QED
        BY <3>1, <3>2
    <2> QED
      BY <2>1, <2>2, <2>3
  <1>6. r_off + got \in Slots /\ Age(r_off + got) = g - 1
    <2>1. got <= Age(r_off)
      BY <1>1, <1>3, <1>4, <1>5, RingTypes, RecordAssumption
    <2>2. r_off + got \in Slots /\ Age(r_off + got) = Age(r_off) - got
      BY <1>2, <2>1, RingTypes, StepsLemma DEF Age
    <2> QED
      BY <1>1, <1>3, <1>5, <2>2, RingTypes, RecordAssumption
  <1>7. dma_buf[r_off + got] = (taken - (g - 1)) % NumIds
    <2>1. Age(r_off + got) < Unread
      BY <1>1, <1>3, <1>4, <1>6, RingTypes, RecordAssumption
    <2> QED
      BY <1>1, <1>6, <2>1 DEF Right
  <1>8. /\ Gap(taken, (user + 1) % NumIds) = g - 1
        /\ (taken - (g - 1)) % NumIds = (user + 1) % NumIds
    BY <1>1, <1>4, RingTypes, GapLemma
  <1>9. (user + 1) % NumIds \in Ids
    BY <1>1, IdLemma, RecordAssumption
  <1> QED
    BY <1>1, <1>7, <1>8, <1>9

LEMMA CopyStep ==
    ASSUME TypeInv, RingInv, Alone, CopyOne
    PROVE  RingInv'
  <1> USE DEF shared, hw, pass, locals, copVars, progress, ghosts
  <1>0. /\ UNCHANGED Ring
        /\ Room' = Room /\ Stored' = Stored
        /\ Used(r_off, w_off)' = Used(r_off, w_off)
        /\ \A i \in Slots : Age(i)' = Age(i) /\ (Right(i)' <=> Right(i))
    BY SameRing DEF CopyOne, Ring
  <1>1. /\ pc = "copy" /\ user' = dma_buf[read_pos + got] /\ got' = got + 1
        /\ pc' = IF got + 1 < len THEN "copy" ELSE "check"
        /\ UNCHANGED <<read_pos, len, hit, overrun, mistaken, handler>>
    BY DEF CopyOne
  <1>2. got \in Nat /\ len \in Nat /\ got < len
    BY <1>1, RingTypes, RecordAssumption
  <1>3. PassInv'
    BY <1>0, <1>1 DEF RingInv, PassInv, Ring
  <1>4. pc' = "copy" => user' = dma_buf'[read_pos' + got' - 1]
    <2>1. read_pos + (got + 1) - 1 = read_pos + got
      BY <1>2, RingTypes, RecordAssumption DEF Slots
    <2> QED
      BY <1>0, <1>1, <2>1 DEF Ring
  <1>5. CountInv => CountInv'
    <2> SUFFICES ASSUME CountInv PROVE CountInv'
      OBVIOUS
    <2>1. user' \in Ids /\ Gap(taken, user') = Gap(taken, user) - 1
      BY <1>1, NextSample
    <2>2. Unread' = Unread
      <3>1. Unread' = Gap(taken, user') + got'
        BY <1>0, <1>1 DEF Unread, Held, Gap, PassPcs, Ring
      <3>2. Unread = Gap(taken, user) + got
        BY <1>1 DEF Unread, Held, PassPcs
      <3>3. Gap(taken, user) \in Nat
        BY RingTypes, GapLemma, RecordAssumption DEF CountInv
      <3> QED
        BY <1>1, <1>2, <2>1, <3>1, <3>2, <3>3
    <2>3. /\ pc' \in {"copy", "check"} /\ (pc' # "copy" => got' = len')
          /\ read_pos' = r_off' /\ 1 <= len' /\ len' <= Unread' - Stored'
      BY <1>0, <1>1, <1>2, <2>2 DEF CountInv, PassPcs, Ring
    <2> QED
      BY <1>0, <1>1, <2>1, <2>2, <2>3 DEF CountInv, Ring
  <1> QED
    BY <1>0, <1>1, <1>3, <1>4, <1>5 DEF RingInv, HoldInv

\* read moves *r_off by what it copied, unless the handler was there first.
LEMMA MoveStep ==
    ASSUME TypeInv, RingInv, Alone,
           ReadCheck \/ AdvanceLoad \/ AdvanceStore
    PROVE  RingInv'
  <1> USE DEF shared, hw, pass, locals, copVars, progress, ghosts
  <1>1. CASE ReadCheck \/ AdvanceLoad
    <2>1. /\ UNCHANGED Ring /\ UNCHANGED Marks
          /\ UNCHANGED <<read_pos, len, got>>
          /\ pc \in {"check", "adv_rd"} /\ pc' \in {"adv_rd", "adv_wr", "sigtest"}
          /\ pc' = "sigtest" => read_pos # r_off
          /\ pc' = "adv_wr" => cpuOff' = r_off
      BY <1>1 DEF ReadCheck, AdvanceLoad, CpuGoto, Ring, Marks
    <2>2. PassInv'
      BY <2>1 DEF PassInv
    <2>3. CountInv => CountInv'
      <3> SUFFICES ASSUME CountInv PROVE CountInv'
        OBVIOUS
      <3>1. read_pos = r_off /\ pc' \in {"adv_rd", "adv_wr"} /\ Unread' = Unread
        BY <2>1 DEF CountInv, PassPcs, Unread, Held, Gap, Ring, Marks
      <3> QED
        BY <2>1, <3>1, SameRing DEF CountInv, PassPcs, Ring, Marks
    <2> QED
      BY <2>1, <2>2, <2>3, SameRing DEF RingInv, HoldInv, Ring, Marks
  <1>2. CASE AdvanceStore
    <2>1. /\ pc = "adv_wr" /\ pc' = "sigtest" /\ r_off' = (cpuOff + len) % BUF_LEN
          /\ UNCHANGED <<w_off, dma_buf, taken, cop, len, got>>
          /\ UNCHANGED <<user, overrun, hit, mistaken, handler>>
      BY <1>2 DEF AdvanceStore, CpuGoto
    <2>2. /\ Stored' = Stored
          /\ \A i \in Slots : Age(i)' = Age(i) /\ (Right(i)' <=> Right(i))
      BY <2>1 DEF Stored, Age, Last, Prev, Used, Right
    <2>3. PassInv'
      BY <2>1 DEF PassInv
    <2>4. CountInv => CountInv'
      <3> SUFFICES ASSUME CountInv PROVE CountInv'
        OBVIOUS
      <3> DEFINE m == Unread - Stored
      <3>1. /\ cpuOff = r_off /\ got = len /\ 1 <= len /\ len <= m
            /\ user \in Ids /\ Unread <= BUF_LEN
            /\ m = Used(r_off, w_off)
                 \/ (Unread = BUF_LEN /\ r_off = w_off /\ cop = "test")
        BY <2>1 DEF CountInv, PassPcs
      <3>2. Gap(taken, user) \in Nat /\ Unread = Gap(taken, user) + got
            /\ Unread' = Gap(taken, user)
        BY <2>1, <3>1, RingTypes, GapLemma, RecordAssumption
        DEF Unread, Held, PassPcs, Gap
      <3>3. m \in 0 .. BUF_LEN /\ (m = Used(r_off, w_off) \/ (m = BUF_LEN /\ r_off = w_off))
        BY <3>1, <3>2, RingTypes, RecordAssumption DEF Stored
      <3> HIDE DEF m
      <3>4. Used((r_off + len) % BUF_LEN, w_off) = m - len
        BY <3>1, <3>3, TakeLemma, RingTypes, RecordAssumption
      <3>5. Used(r_off, w_off)' = m - len
        BY <2>1, <3>1, <3>4 DEF Used
      <3>6. Unread' = Unread - len
        BY <3>1, <3>2, RingTypes, RecordAssumption
      <3>7. Unread' - Stored' = Used(r_off, w_off)' /\ Unread' <= BUF_LEN
        <4>1. m = Unread - Stored
          BY DEF m
        <4>2. Unread \in Nat /\ Stored \in Nat /\ Stored' = Stored /\ len \in Nat
          BY <2>2, <3>2, RingTypes, RecordAssumption
        <4> QED
          BY <3>1, <3>5, <3>6, <4>1, <4>2, RecordAssumption
      <3>8. \A i \in Slots : Age(i)' < Unread' => Right(i)'
        BY <2>2, <3>1, <3>2, <3>6, RingTypes, RecordAssumption DEF CountInv
      <3> QED
        BY <2>1, <3>7, <3>8 DEF CountInv, PassPcs
    <2> QED
      BY <2>1, <2>2, <2>3, <2>4 DEF RingInv, HoldInv
  <1> QED
    BY <1>1, <1>2

\* The end of a pass
LEMMA EndStep ==
    ASSUME TypeInv, RingInv, Alone, NoSignal \/ ReadSignal
    PROVE  RingInv'
  <1> USE DEF shared, hw, pass, locals, copVars, progress, ghosts
  <1>1. /\ pc = "sigtest" /\ pc' \in {"loop", "idle"} /\ ~hit'
        /\ UNCHANGED Ring /\ UNCHANGED <<overrun, mistaken, handler>>
        /\ ~overrun => user' = user
    BY DEF NoSignal, ReadSignal, EndPass, CpuGoto, Ring
  <1>2. PassInv'
    BY <1>1 DEF PassInv
  <1>3. CountInv /\ ~overrun => CountInv'
    <2>1. ~overrun => Unread' = Unread
      BY <1>1 DEF Unread, Held, Gap, PassPcs, Ring
    <2> QED
      BY <1>1, <2>1, SameRing DEF CountInv, PassPcs, Ring
  <1> QED
    BY <1>1, <1>2, <1>3, SameRing DEF RingInv, HoldInv

\* The first read sets the handler on an empty ring.
LEMMA SetStep ==
    ASSUME TypeInv, CallsInv, RingInv, ~overlap, StartHandler PROVE RingInv'
  <1> USE DEF shared, hw, pass, locals, copVars, progress, ghosts
  <1>1. /\ pc = "start_handler" /\ pc' = "start_fiq"
        /\ UNCHANGED <<Ring, user, overrun, hit, mistaken>>
    BY DEF StartHandler, CpuGoto, Ring
  <1>2. isopen /\ handler = "none" /\ ~overlap
    BY <1>1 DEF CallsInv, CallInv, SetPcs, TypeInv, TypeOK
  <1>3. /\ cop = "idle" /\ r_off = 0 /\ w_off = 0 /\ taken = 0 /\ user = 0
        /\ ~overrun /\ ~hit /\ ~mistaken
    BY <1>1, <1>2 DEF CallsInv, FreshInv
  <1>4. Unread' = 0 /\ Stored' = 0
    BY <1>1, <1>3 DEF Unread, Gap, Held, PassPcs, Stored, Ring
  <1>5. Used(r_off, w_off)' = 0 /\ \A i \in Slots : Age(i)' \in 0 .. BUF_LEN - 1
    BY <1>1, <1>3, UsedLemma, ZeroSlot, RingTypes, SameRing DEF Ring
  <1>6. CountInv'
    BY <1>1, <1>3, <1>4, <1>5, RecordAssumption DEF CountInv, PassPcs, Ids, Ring
  <1> QED
    BY <1>1, <1>3, <1>6 DEF RingInv, PassInv, HoldInv, Alone, PassPcs

-----------------------------------------------------------------------------
\* Steps of the handler outside the storing of a sample
LEMMA HandlerQuiet ==
    ASSUME RingInv,
           UNCHANGED <<r_off, w_off, dma_buf, taken, Marks, pc, pass, cpuOff>>,
           cop \notin {"advance", "test", "over_rd", "over_wr"},
           cop' \notin {"advance", "test", "over_rd", "over_wr"}
    PROVE  RingInv'
  <1> USE DEF pass, Marks
  <1>1. /\ Room' = Room /\ Stored' = Stored /\ Unread' = Unread
        /\ Used(r_off, w_off)' = Used(r_off, w_off)
        /\ \A i \in Slots : Age(i)' = Age(i) /\ (Right(i)' <=> Right(i))
    BY DEF Room, Stored, Unread, Gap, Held, Age, Last, Prev, Used, Right
  <1>2. PassInv'
    BY <1>1 DEF RingInv, PassInv, Alone, Used
  <1>3. CountInv => CountInv'
    BY <1>1 DEF CountInv, Used
  <1> QED
    BY <1>1, <1>2, <1>3 DEF RingInv, HoldInv, Alone

\* A sample goes to the slot the ring does not promise.
LEMMA StoreStep ==
    ASSUME TypeInv, RingInv, Alone, FiqStore PROVE RingInv'
  <1> USE DEF pass
  <1>1. /\ cop = "count" /\ cop' = "advance"
        /\ UNCHANGED <<r_off, w_off, user, overrun, hit, mistaken, handler,
                       pc, pass, cpuOff>>
        /\ ~mistaken => /\ taken' = (taken + 1) % NumIds
                        /\ dma_buf' = [dma_buf EXCEPT ![w_off] = taken']
    BY DEF FiqStore, CopGoto, locals
  <1>2. /\ Room = Used(r_off, w_off) /\ Room' = Used(r_off, w_off)
        /\ Stored = 0 /\ Stored' = 1
        /\ Used(r_off, w_off)' = Used(r_off, w_off)
    BY <1>1 DEF Room, Stored, Used
  <1>3. PassInv'
    BY <1>1, <1>2 DEF RingInv, PassInv, Used
  <1>4. /\ \A i \in Slots : i = w_off => Age(i)' = 0
        /\ \A i \in Slots : i # w_off => Age(i)' = Age(i) + 1
    <2>1. Last' = w_off /\ Last = Prev(w_off)
      BY <1>1 DEF Last
    <2>2. \A i \in Slots : Age(i)' = Used(i, w_off) /\ Age(i) = Used(i, Prev(w_off))
      BY <2>1 DEF Age, Used
    <2>3. w_off \in Slots /\ Used(w_off, w_off) = 0
          /\ \A i \in Slots : i # w_off => Used(i, w_off) = Used(i, Prev(w_off)) + 1
      BY RingTypes, PrevLemma, UsedLemma
    <2> HIDE DEF Age
    <2> QED
      BY <2>2, <2>3
  <1>5. ASSUME ~mistaken
        PROVE  /\ \A i \in Slots : i = w_off => Right(i)'
               /\ \A i \in Slots : i # w_off /\ Right(i) => Right(i)'
               /\ \A i \in Slots : i # w_off => dma_buf'[i] = dma_buf[i]
    <2>1. taken' \in Ids /\ (taken' - 0) % NumIds = taken'
      <3>1. taken' \in Ids
        BY <1>1, <1>5, RingTypes, IdLemma, RecordAssumption
      <3> QED
        BY <3>1, BackLemma, RecordAssumption
    <2>2. dma_buf'[w_off] = taken' /\ \A i \in Slots : i # w_off => dma_buf'[i] = dma_buf[i]
      BY <1>1, <1>5, RingTypes
    <2>3. ASSUME NEW i \in Slots, i = w_off PROVE Right(i)'
      BY <1>4, <2>1, <2>2, <2>3 DEF Right
    <2>4. ASSUME NEW i \in Slots, i # w_off, Right(i) PROVE Right(i)'
      <3>1. (taken' - (Age(i) + 1)) % NumIds = (taken - Age(i)) % NumIds
        BY <1>1, <1>5, RingTypes, BackLemma
      <3> QED
        BY <1>4, <2>2, <2>4, <3>1 DEF Right
    <2> QED
      BY <2>2, <2>3, <2>4
  <1>6. ASSUME ~mistaken, pc = "copy", got > 0, ~hit
        PROVE  user' = dma_buf'[read_pos' + got' - 1]
    <2>1. read_pos = r_off /\ len <= Used(r_off, w_off) /\ user = dma_buf[read_pos + got - 1]
      BY <1>2, <1>6 DEF RingInv, PassInv, HoldInv
    <2>2. got - 1 \in Nat /\ r_off + (got - 1) < BUF_LEN /\ got - 1 < Used(r_off, w_off)
          /\ r_off + (got - 1) = read_pos + got - 1
      <3>1. /\ r_off \in Nat /\ read_pos \in Nat /\ got \in Nat /\ len \in Nat
            /\ Used(r_off, w_off) \in Nat
            /\ got < len /\ read_pos + len <= BUF_LEN
        BY <1>6, RingTypes, RecordAssumption DEF Slots
      <3> QED
        BY <1>6, <2>1, <3>1, RecordAssumption
    <2>3. r_off + (got - 1) \in Slots /\ r_off + (got - 1) # w_off
      BY <2>2, OffLemma, RingTypes
    <2> QED
      BY <1>1, <1>5, <1>6, <2>1, <2>2, <2>3
  <1>7. ASSUME ~mistaken, CountInv PROVE CountInv'
    <2>1. /\ user \in Ids /\ Unread = Used(r_off, w_off)
          /\ \A i \in Slots : Age(i) < Unread => Right(i)
      BY <1>1, <1>2, <1>7, RingTypes, UsedLemma, GapLemma, RecordAssumption
      DEF CountInv, Unread
    <2>2. Gap(taken, user) \in Nat /\ Gap(taken, user) < NumIds - 1
      BY <2>1, RingTypes, GapLemma, RecordAssumption DEF Unread
    <2>3. Unread' = Unread + 1
      <3>1. Gap(taken', user) = Gap(taken, user) + 1
        BY <1>1, <1>7, <2>1, <2>2, RingTypes, GapLemma
      <3>2. Unread' = Gap(taken', user) + Held
        BY <1>1 DEF Unread, Held, Gap
      <3> QED
        BY <2>2, <3>1, <3>2, RingTypes, RecordAssumption DEF Unread
    <2>4. Unread' <= BUF_LEN /\ Unread' - Stored' = Used(r_off, w_off)'
          /\ Unread' - Stored' = Unread - Stored
      BY <1>2, <2>1, <2>3, RingTypes, RecordAssumption
    <2>5. \A i \in Slots : Age(i)' < Unread' => Right(i)'
      <3> SUFFICES ASSUME NEW i \in Slots, Age(i)' < Unread'
                   PROVE  Right(i)'
        OBVIOUS
      <3>1. CASE i = w_off
        BY <1>5, <1>7, <3>1
      <3>2. CASE i # w_off
        <4>1. Age(i)' = Age(i) + 1 /\ Age(i) \in Nat /\ Unread \in Nat
          BY <1>4, <2>1, <3>2, RingTypes, RecordAssumption
        <4>2. Age(i) < Unread
          BY <2>3, <4>1
        <4> QED
          BY <1>5, <1>7, <2>1, <3>2, <4>2
      <3> QED
        BY <3>1, <3>2
    <2>6. Used(r_off, write_pos)' = Used(r_off, write_pos)
      BY <1>1 DEF Used
    <2> QED
      BY <1>1, <1>7, <2>4, <2>5, <2>6 DEF CountInv
  <1>8. ASSUME ~mistaken, overrun PROVE \A i \in Slots : Right(i)'
    BY <1>5, <1>8 DEF RingInv, HoldInv
  <1> QED
    BY <1>1, <1>3, <1>6, <1>7, <1>8 DEF RingInv, HoldInv

\* Publishing it fills the ring or makes it one longer.
LEMMA PublishStep ==
    ASSUME TypeInv, RingInv, Alone, FiqAdvance PROVE RingInv'
  <1> USE DEF pass
  <1>1. /\ cop = "advance" /\ cop' = "test" /\ w_off' = Next1(w_off)
        /\ UNCHANGED <<r_off, dma_buf, taken, user, overrun, hit, mistaken,
                       handler, pc, pass, cpuOff>>
    BY DEF FiqAdvance, CopGoto, locals, progress
  <1>2. Stored = 1 /\ Stored' = 0 /\ Unread' = Unread
    BY <1>1 DEF Stored, Unread, Gap, Held
  <1>3. Last' = Last
    <2>1. Last' = Prev(Next1(w_off)) /\ Last = w_off
      BY <1>1 DEF Last, Prev
    <2> QED
      BY <2>1, PrevLemma, RingTypes
  <1>4. \A i \in Slots : Age(i)' = Age(i) /\ (Right(i)' <=> Right(i))
    BY <1>1, <1>3 DEF Age, Right, Used
  <1>5. /\ Room = Used(r_off, w_off)
        /\ \/ /\ r_off = w_off' /\ Room' = BUF_LEN
              /\ Used(r_off, w_off) = BUF_LEN - 1 /\ Used(r_off, w_off)' = 0
           \/ /\ r_off # w_off' /\ Room' = Used(r_off, w_off)'
              /\ Used(r_off, w_off)' = Used(r_off, w_off) + 1
    <2>1. Room = Used(r_off, w_off) /\ Used(r_off, w_off)' = Used(r_off, Next1(w_off))
      BY <1>1 DEF Room, Used
    <2>2. Room' = IF r_off = w_off' THEN BUF_LEN ELSE Used(r_off, w_off)'
      BY <1>1 DEF Room
    <2> HIDE DEF Used
    <2>3. /\ r_off # Next1(w_off) => Used(r_off, Next1(w_off)) = Used(r_off, w_off) + 1
          /\ r_off = Next1(w_off) => Used(r_off, w_off) = BUF_LEN - 1
                                     /\ Used(r_off, Next1(w_off)) = 0
      BY RingTypes, GrowLemma, UsedLemma, Next1Lemma
    <2> QED
      BY <1>1, <2>1, <2>2, <2>3
  <1>6. Room <= Room' /\ Room \in Nat
    BY <1>5, RingTypes, RecordAssumption
  <1>7. PassInv'
    <2>1. Used(r_off, write_pos)' = Used(r_off, write_pos) /\ Used(r_off, write_pos) \in Nat
      BY <1>1, RingTypes, UsedLemma, RecordAssumption DEF Used
    <2>2. Room' \in Nat /\ len \in Nat
      BY <1>5, <1>6, RingTypes, RecordAssumption
    <2> QED
      BY <1>1, <1>6, <2>1, <2>2 DEF RingInv, PassInv
  <1>8. CountInv => CountInv'
    <2> SUFFICES ASSUME CountInv PROVE CountInv'
      OBVIOUS
    <2>1. Unread - 1 = Used(r_off, w_off) /\ Unread \in Nat
      BY <1>1, <1>2, RingTypes, GapLemma, RecordAssumption DEF CountInv, Unread
    <2>2. \/ Unread' - Stored' = Used(r_off, w_off)'
          \/ Unread' = BUF_LEN /\ r_off' = w_off' /\ cop' = "test"
      BY <1>1, <1>2, <1>5, <2>1, RecordAssumption
    <2>3. Used(r_off, write_pos)' = Used(r_off, write_pos)
          /\ Used(r_off, write_pos) \in Nat /\ len \in Nat
      BY <1>1, RingTypes, UsedLemma, RecordAssumption DEF Used
    <2>4. /\ pc' = "pos" => Used(r_off, write_pos)' <= Unread' - Stored'
          /\ pc' \in PassPcs => len' <= Unread' - Stored'
      BY <1>1, <1>2, <2>1, <2>3 DEF CountInv
    <2> QED
      BY <1>1, <1>2, <1>4, <2>2, <2>4 DEF CountInv
  <1> QED
    BY <1>1, <1>4, <1>7, <1>8 DEF RingInv, HoldInv

\* The handler finds the offsets level: the ring is full, unless the last
\* sample stored is the last one handed out.
LEMMA TestStep ==
    ASSUME TypeInv, RingInv, Alone, FiqTest PROVE RingInv'
  <1> USE DEF pass
  <1>1. /\ cop = "test" /\ cop' = IF r_off = w_off THEN "over_rd" ELSE "loop"
        /\ overrun' = (overrun \/ r_off = w_off)
        /\ mistaken' = (mistaken \/ (~overrun /\ r_off = w_off /\ user = taken))
        /\ ~mistaken' => UNCHANGED <<dma_buf, taken, user>>
        /\ UNCHANGED <<r_off, w_off, hit, handler, pc, pass, cpuOff>>
    BY DEF FiqTest, CopGoto, locals
  <1>2. /\ Room' = Room /\ Stored = 0 /\ Stored' = 0 /\ Last' = Last
        /\ Used(r_off, w_off)' = Used(r_off, w_off)
        /\ Used(r_off, write_pos)' = Used(r_off, write_pos)
    BY <1>1 DEF Room, Stored, Last, Prev, Used
  <1>3. PassInv'
    BY <1>1, <1>2 DEF RingInv, PassInv
  <1>4. mistaken' => overrun'
    BY <1>1 DEF RingInv, HoldInv
  <1>5. ASSUME ~mistaken'
        PROVE  /\ pc = "copy" /\ got > 0 /\ ~hit => user = dma_buf[read_pos + got - 1]
               /\ overrun' => \A i \in Slots : Right(i)'
               /\ ~overrun' => CountInv'
    <2>1. ~mistaken /\ UNCHANGED <<dma_buf, taken, user>>
          /\ (overrun \/ r_off # w_off \/ user # taken)
      BY <1>1, <1>5
    <2>2. \A i \in Slots : Age(i)' = Age(i) /\ (Right(i)' <=> Right(i))
      BY <1>2, <2>1 DEF Age, Right, Used
    <2>3. Unread' = Unread
      BY <1>1, <2>1 DEF Unread, Gap, Held
    <2>4. CASE overrun
      BY <1>1, <2>1, <2>2, <2>4 DEF RingInv, HoldInv
    <2>5. CASE ~overrun
      <3>1. CountInv
        BY <2>1, <2>5 DEF RingInv, HoldInv
      <3>2. CASE r_off = w_off
        <4>1. Unread # 0
          <5>1. Gap(taken, user) \in Nat /\ Gap(taken, user) # 0 /\ Held \in Nat
            BY <2>1, <2>5, <3>1, <3>2, RingTypes, GapLemma, RecordAssumption
            DEF CountInv
          <5> QED
            BY <5>1 DEF Unread
        <4>2. Unread = BUF_LEN
          BY <1>2, <3>1, <3>2, <4>1, RingTypes, UsedLemma, GapLemma, RecordAssumption
          DEF CountInv, Unread
        <4>3. \A i \in Slots : Right(i)
          BY <3>1, <4>2, RingTypes, RecordAssumption DEF CountInv
        <4> QED
          BY <1>1, <2>1, <2>2, <3>2, <4>3 DEF RingInv, HoldInv
      <3>3. CASE r_off # w_off
        BY <1>1, <1>2, <2>1, <2>2, <2>3, <2>5, <3>1, <3>3 DEF RingInv, HoldInv, CountInv
      <3> QED
        BY <3>2, <3>3
    <2> QED
      BY <2>4, <2>5
  <1>6. ~mistaken' => UNCHANGED <<dma_buf, user>>
    BY <1>1
  <1> QED
    BY <1>1, <1>3, <1>4, <1>5, <1>6 DEF RingInv, HoldInv

\* The handler's answer to an overrun may undo a move of the reader's, but
\* every slot of a ring that has run over holds a sample of its own.
LEMMA OverStep ==
    ASSUME TypeInv, RingInv, Alone, FiqOverLoad \/ FiqOverStore
    PROVE  RingInv'
  <1> USE DEF pass
  <1>0. overrun \/ mistaken
    BY DEF RingInv, HoldInv, CountInv, FiqOverLoad, FiqOverStore, CopGoto
  <1>1. CASE FiqOverLoad
    <2>1. /\ cop = "over_rd" /\ cop' = "over_wr" /\ copOff' = r_off
          /\ UNCHANGED <<r_off, w_off, dma_buf, taken, user, overrun, hit,
                         mistaken, handler, pc, pass, cpuOff>>
      BY <1>1 DEF FiqOverLoad, CopGoto, locals, shared, progress
    <2>2. /\ Room' = Room /\ Used(r_off, write_pos)' = Used(r_off, write_pos)
          /\ \A i \in Slots : Right(i)' <=> Right(i)
      BY <2>1 DEF Room, Used, Right, Age, Last, Prev
    <2>3. PassInv'
      BY <2>1, <2>2 DEF RingInv, PassInv
    <2> QED
      BY <1>0, <2>1, <2>2, <2>3 DEF RingInv, HoldInv
  <1>2. CASE FiqOverStore
    <2>1. /\ cop = "over_wr" /\ cop' = "loop" /\ r_off' = Next1(copOff) /\ hit'
          /\ UNCHANGED <<w_off, dma_buf, taken, user, overrun,
                         mistaken, handler, pc, pass, cpuOff>>
      BY <1>2 DEF FiqOverStore, CopGoto, locals
    <2>2. \A i \in Slots : Right(i)' <=> Right(i)
      BY <2>1 DEF Used, Right, Age, Last, Prev
    <2>3. Room' = Used(r_off', w_off)
          /\ Used(r_off, write_pos)' = Used(r_off', write_pos)
      BY <2>1 DEF Room, Used
    <2>4. r_off' \in Slots
      BY <2>1, RingTypes, Next1Lemma
    <2>5. pc = "pos" => Used(r_off', write_pos) <= Used(r_off', w_off)
      <3> SUFFICES ASSUME pc = "pos"
                   PROVE  Used(r_off', write_pos) <= Used(r_off', w_off)
        OBVIOUS
      <3>1. write_pos = w_off \/ r_off' = Next1(w_off)
        BY <2>1 DEF RingInv, PassInv
      <3>2. CASE write_pos = w_off
        BY <2>4, <3>2, RingTypes, UsedLemma, RecordAssumption
      <3>3. CASE r_off' = Next1(w_off)
        <4>1. Used(r_off', w_off) = BUF_LEN - 1
          BY <2>4, <3>3, RingTypes, GrowLemma
        <4> QED
          BY <2>4, <4>1, RingTypes, UsedLemma, RecordAssumption
      <3> QED
        BY <3>1, <3>2, <3>3
    <2>6. PassInv'
      BY <2>1, <2>3, <2>5 DEF PassInv
    <2> QED
      BY <1>0, <2>1, <2>2, <2>6 DEF RingInv, HoldInv
  <1> QED
    BY <1>1, <1>2

LEMMA RingStep == TypeInv /\ CallsInv /\ CallsInv' /\ RingInv /\ [Next]_vars => RingInv'
  <1> SUFFICES ASSUME TypeInv, CallsInv, CallsInv', RingInv, [Next]_vars PROVE RingInv'
    OBVIOUS
  <1>1. CASE ~Alone'
    BY <1>1 DEF RingInv, PassInv, HoldInv
  <1>2. CASE Alone'
    <2>0. handler' = "rec_dma" /\ ~overlap'
      BY <1>2 DEF Alone
    <2> USE DEF shared, hw, pass, locals, copVars, progress, ghosts, CpuGoto, CopGoto
    <2>1. CASE Request \/ CloseSignal
      <3>1. CASE OpenReadOff
        BY <2>0, <3>1 DEF OpenReadOff, CallsInv, CallInv
      <3>2. CASE CloseBegin \/ \E n \in 0 .. MaxCount : ReadBegin(n)
        BY <3>2, OutsidePass DEF ReadBegin, CloseBegin, Ring, Marks, PassPcs
      <3>3. CASE CloseSignal
        BY <3>3, OutsidePass DEF CloseSignal, Ring, Marks, PassPcs
      <3> QED
        BY <2>1, <3>1, <3>2, <3>3 DEF Request
    <2>2. CASE ReadSignal \/ NoSignal
      BY <2>0, <2>2, EndStep DEF Alone, ReadSignal, NoSignal
    <2>3. CASE Open
      BY <2>0, <2>3
      DEF Open, OpenWriteOff, OpenActive, OpenReset, CallsInv, CallInv, OpenPcs
    <2>4. CASE Start
      <3>1. CASE StartHandler
        BY <2>0, <3>1, SetStep DEF StartHandler
      <3>2. CASE StartActive \/ StartReadOff \/ StartWriteOff
        BY <2>0, <3>2
        DEF StartActive, StartReadOff, StartWriteOff, CallsInv, CallInv, SetPcs
      <3>3. CASE StartFiq \/ StartIrqOn \/ StartFifoRead \/ StartFifoOn
        BY <3>3, OutsidePass
        DEF StartFiq, StartIrqOn, StartFifoRead, StartFifoOn, Ring, Marks, PassPcs
      <3> QED
        BY <2>4, <3>1, <3>2, <3>3 DEF Start
    <2>5. CASE Read
      <3>1. CASE ReadLoop \/ ReadPos
        <4>1. handler' = handler /\ overlap' = overlap
          BY <3>1 DEF ReadLoop, ReadPos
        <4> QED
          BY <2>0, <3>1, <4>1, PosStep DEF Alone
      <3>2. CASE CopyOne
        BY <2>0, <3>2, CopyStep DEF Alone, CopyOne
      <3>3. CASE ReadCheck \/ AdvanceLoad \/ AdvanceStore
        BY <2>0, <3>3, MoveStep DEF Alone, ReadCheck, AdvanceLoad, AdvanceStore
      <3> QED
        BY <2>2, <2>5, <3>1, <3>2, <3>3 DEF Read
    <2>6. CASE Close
      <3>1. CASE CloseTell \/ CloseDone
        BY <3>1, OutsidePass DEF CloseTell, CloseDone, Ring, Marks, PassPcs
      <3>2. CASE CloseHandler
        BY <2>0, <3>2 DEF CloseHandler
      <3> QED
        BY <2>6, <3>1, <3>2 DEF Close
    <2>7. CASE CopStep
      <3>1. CASE FiqStore
        BY <2>0, <3>1, StoreStep DEF Alone, FiqStore
      <3>2. CASE FiqAdvance
        BY <2>0, <3>2, PublishStep DEF Alone, FiqAdvance
      <3>3. CASE FiqTest
        BY <2>0, <3>3, TestStep DEF Alone, FiqTest
      <3>4. CASE FiqOverLoad \/ FiqOverStore
        <4>1. handler' = handler /\ overlap' = overlap
          BY <3>4 DEF FiqOverLoad, FiqOverStore
        <4> QED
          BY <2>0, <3>4, <4>1, OverStep DEF Alone
      <3>5. CASE FiqEntry \/ FiqIrqOff \/ FiqLoop \/ FiqEmpty
        BY <3>5, HandlerQuiet DEF FiqEntry, FiqIrqOff, FiqLoop, FiqEmpty, Marks
      <3>6. CASE FiqReturn \/ FiqFifoOff \/ FiqInactive
        BY <3>6, HandlerQuiet DEF FiqReturn, FiqFifoOff, FiqInactive, Marks
      <3> QED
        BY <2>7, <3>1, <3>2, <3>3, <3>4, <3>5, <3>6 DEF CopStep
    <2>8. CASE Receive \/ UNCHANGED vars
      <3>1. UNCHANGED <<Ring, Marks, pc, pass, rem, cpuOff, copOff>>
        BY <2>8 DEF Receive, vars, Ring, Marks
      <3>2. /\ Unread' = Unread /\ Used(r_off, write_pos)' = Used(r_off, write_pos)
        BY <3>1 DEF Unread, Gap, Held, Used, Ring, Marks
      <3>3. PassInv'
        BY <3>1, <3>2, SameRing DEF RingInv, PassInv, Alone, Ring, Marks
      <3>4. CountInv => CountInv'
        BY <3>1, <3>2, SameRing DEF CountInv, PassPcs, Ring, Marks
      <3> QED
        BY <3>1, <3>3, <3>4, SameRing DEF RingInv, HoldInv, Alone, Ring, Marks
    <2> QED
      BY <2>1, <2>2, <2>3, <2>4, <2>5, <2>6, <2>7, <2>8 DEF Next, CpuStep, Signal
  <1> QED
    BY <1>1, <1>2

\* The inductive invariant: until the ring runs over, the samples between
\* the offsets are those the application has not got, and from then on every
\* slot holds one of the last BUF_LEN samples, so that no move of *r_off by
\* either processor can uncover anything else (audio.c:429-465, 664-742).
THEOREM RingInvariance == Spec => []RingInv
  <1>1. Init => RingInv
    BY DEF Init, RingInv, PassInv, HoldInv, Alone
  <1> QED
    BY <1>1, RingStep, TypeInvariance, CallsInvariance, PTL DEF Spec

\* What lies between the offsets is the last samples stored, in order and
\* without a gap, with two writers of *r_off and no lock (audio.c:443-452,
\* 719-722), unless the handler took an emptied ring for a full one.
THEOREM RingIsRecording == Spec => []RingContents
  <1>1. TypeInv /\ CallsInv /\ RingInv => RingContents
    <2> SUFFICES ASSUME TypeInv, CallsInv, RingInv, ~overlap, ~mistaken, ~Resetting,
                        NEW i \in Slots, InPart(i, r_off, w_off)
                 PROVE  dma_buf[i] = (taken - Used(i, w_off)
                                        + (IF cop = "advance" THEN 0 ELSE 1)) % NumIds
      BY DEF RingContents
    <2>1. r_off # w_off /\ i # w_off /\ Used(i, w_off) <= Used(r_off, w_off)
          /\ Used(i, Prev(w_off)) = Used(i, w_off) - 1
      BY PartLemma, RingTypes
    <2>2. handler = "rec_dma"
      BY <2>1 DEF TypeInv, TypeOK, CallsInv, FreshInv, Resetting
    <2>3. Age(i) = Used(i, w_off) - (IF cop = "advance" THEN 0 ELSE 1)
          /\ Used(i, w_off) \in Nat
      BY <2>1, RingTypes, UsedLemma, RecordAssumption DEF Age, Last
    <2>4. Right(i)
      <3>1. CASE overrun
        BY <2>2, <3>1 DEF RingInv, HoldInv, Alone
      <3>2. CASE ~overrun
        <4>1. CountInv
          BY <2>2, <3>2 DEF RingInv, HoldInv, Alone
        <4>2. Unread - Stored = Used(r_off, w_off)
          BY <2>1, <4>1 DEF CountInv
        <4>3. Gap(taken, user) \in Nat /\ Unread \in Nat
          BY <4>1, RingTypes, GapLemma, RecordAssumption DEF CountInv, Unread
        <4>4. Age(i) < Unread
          BY <2>1, <2>3, <4>2, <4>3, RingTypes, RecordAssumption DEF Stored
        <4> QED
          BY <4>1, <4>4 DEF CountInv
      <3> QED
        BY <3>1, <3>2
    <2>5. taken - Age(i) = taken - Used(i, w_off) + (IF cop = "advance" THEN 0 ELSE 1)
      BY <2>3, RingTypes, RecordAssumption DEF Ids
    <2> QED
      BY <2>4, <2>5 DEF Right
  <1> QED
    BY <1>1, TypeInvariance, CallsInvariance, RingInvariance, PTL

\* A pass of read copies consecutive samples, and until the ring runs over
\* the passes join up: each sample once and in order (audio.c:689-724).
THEOREM SamplesComeInOrder == Spec => SamplesInOrder
  <1>1. TypeInv /\ CallsInv /\ RingInv /\ CopyOne /\ ~overlap
        /\ (~overrun \/ (got > 0 /\ ~hit /\ ~mistaken))
          => user' = (user + 1) % NumIds
    <2> SUFFICES ASSUME TypeInv, CallsInv, RingInv, CopyOne, ~overlap,
                        ~overrun \/ (got > 0 /\ ~hit /\ ~mistaken)
                 PROVE  user' = (user + 1) % NumIds
      OBVIOUS
    <2>1. pc = "copy" /\ handler = "rec_dma" /\ user' = dma_buf[read_pos + got]
      BY DEF CopyOne, CallsInv, CallInv, ReadPcs
    <2>2. CASE ~overrun
      <3>1. CountInv
        BY <2>1, <2>2 DEF RingInv, HoldInv, Alone
      <3> QED
        BY <2>1, <3>1, NextSample
    <2>3. CASE overrun
      <3>1. /\ got > 0 /\ read_pos = r_off /\ len <= Room
            /\ user = dma_buf[read_pos + got - 1]
            /\ \A i \in Slots : Right(i)
        BY <2>1, <2>3 DEF RingInv, PassInv, HoldInv, Alone
      <3>2. got \in Nat /\ len \in Nat /\ got < len /\ r_off + len <= BUF_LEN /\ r_off \in Nat
        BY <2>1, <3>1, RingTypes, RecordAssumption DEF Slots
      <3>3. len - 1 <= Age(r_off)
        <4>1. CASE cop = "advance"
          BY <3>1, <3>2, <4>1, RingTypes DEF Age, Last, Room
        <4>2. CASE cop # "advance" /\ r_off # w_off
          BY <3>1, <3>2, <4>2, RingTypes, PrevLemma DEF Age, Last, Room
        <4>3. CASE cop # "advance" /\ r_off = w_off
          BY <3>2, <4>3, RingTypes, PrevLemma, RecordAssumption DEF Age, Last
        <4> QED
          BY <4>1, <4>2, <4>3
      <3> DEFINE k == Age(r_off) - got
      <3>4. k \in 0 .. BUF_LEN - 1 /\ k + 1 = Age(r_off) - (got - 1)
        BY <3>1, <3>2, <3>3, RingTypes, RecordAssumption
      <3>5. r_off + got \in Slots /\ Age(r_off + got) = k
        <4>1. r_off + got < BUF_LEN /\ got <= Age(r_off)
          BY <3>2, <3>3, RingTypes, RecordAssumption
        <4>2. r_off + got \in Slots /\ Used(r_off + got, Last) = Used(r_off, Last) - got
          BY <3>2, <4>1, RingTypes, StepsLemma DEF Age
        <4> QED
          BY <4>2 DEF Age
      <3>6. r_off + (got - 1) \in Slots /\ Age(r_off + (got - 1)) = k + 1
        <4>1. r_off + (got - 1) < BUF_LEN /\ got - 1 <= Age(r_off) /\ got - 1 \in Nat
          BY <3>1, <3>2, <3>3, RingTypes, RecordAssumption
        <4>2. /\ r_off + (got - 1) \in Slots
              /\ Used(r_off + (got - 1), Last) = Used(r_off, Last) - (got - 1)
          BY <4>1, RingTypes, StepsLemma DEF Age
        <4>3. Age(r_off + (got - 1)) = Age(r_off) - (got - 1)
          BY <4>2 DEF Age
        <4> QED
          BY <3>4, <4>2, <4>3
      <3> HIDE DEF k
      <3>7. /\ dma_buf[r_off + got] = (taken - k) % NumIds
            /\ dma_buf[r_off + (got - 1)] = (taken - (k + 1)) % NumIds
        BY <3>1, <3>5, <3>6 DEF Right
      <3>8. r_off + (got - 1) = read_pos + got - 1
        BY <3>1, <3>2
      <3>9. (((taken - (k + 1)) % NumIds) + 1) % NumIds = (taken - k) % NumIds
        BY <3>4, RingTypes, BackLemma
      <3> QED
        BY <2>1, <3>1, <3>7, <3>8, <3>9
    <2> QED
      BY <2>2, <2>3
  <1>2. TypeInv /\ CallsInv /\ RingInv /\ [Next]_vars
          => [CopyOne /\ ~overlap /\ (~overrun \/ (got > 0 /\ ~hit /\ ~mistaken))
                => user' = (user + 1) % NumIds]_vars
    BY <1>1
  <1> QED
    BY <1>2, TypeInvariance, CallsInvariance, RingInvariance, PTL DEF Spec, SamplesInOrder
=============================================================================





