---------------------------- MODULE SansaRecord ----------------------------
(***************************************************************************)
(* The recording half of the Sansa sound driver (mach-sansa/audio.c), with *)
(* the device open for reading only.                                       *)
(*                                                                         *)
(* The coprocessor (COP) runs i2s_pp5020_rec_dma as a fast interrupt       *)
(* handler: it moves samples from the FIFO of the I2S receiver into the    *)
(* ring and, when the ring runs over, moves the reader's offset on itself. *)
(* The CPU runs open, read and close.  As in SansaPlayback there is no     *)
(* lock, and a step is one access to a shared word or register.            *)
(*                                                                         *)
(* Samples are numbered in the order in which the handler stores them      *)
(* since the recording started, modulo NumIds, so that it may go on for    *)
(* ever.  Old is any sample left from an earlier recording.                *)
(***************************************************************************)
EXTENDS Integers

CONSTANTS
    BUF_LEN,      \* slots of the ring
    FIFO_LEN,     \* slots of the receive FIFO
    RX_LEVEL,     \* filled FIFO slots at which the receiver interrupts
    NumIds,       \* samples are numbered modulo this
    MaxCount      \* bound: samples asked for in one read

ASSUME RecordAssumption ==
    /\ BUF_LEN \in Nat \ {0, 1}
    /\ FIFO_LEN \in Nat \ {0, 1}
    /\ RX_LEVEL \in 2..FIFO_LEN
    /\ NumIds \in Nat /\ NumIds > BUF_LEN
    /\ MaxCount \in Nat

VARIABLES
    \* words of on-chip RAM both processors access
    r_off, w_off, dma_active, dma_buf, handler,
    \* the I2S receiver: two bits of IISCONFIG, the FIFO's fill, the
    \* coprocessor's interrupt enable bit
    iisconfig, fifo, copIntEn,
    \* the CPU: what it executes, the locals of read, the operand of a
    \* read-modify-write (forgotten once it is written)
    pc, isopen, rem, write_pos, read_pos, len, got, cpuReg, cpuOff,
    \* the coprocessor: what it executes, the handler's locals and operands
    cop, copStereo, copReg, copOff,
    \* ghosts: the last sample stored and the last one handed out, whether
    \* the ring ran over since recording started and since read loaded
    \* *r_off, whether the samples are no longer told apart (its first running
    \* over was none, or two recordings overlap), whether a signal cut a close
    \* short, whether an open met a running handler
    taken, user, overrun, hit, mistaken, interrupted, overlap

shared == <<r_off, w_off, dma_active, dma_buf, handler>>
hw     == <<iisconfig, fifo, copIntEn>>
pass   == <<write_pos, read_pos, len, got>>
locals == <<rem, pass, cpuReg, cpuOff>>
copVars == <<cop, copStereo, copReg, copOff>>
progress == <<taken, user, overrun, hit, mistaken>>
ghosts == <<progress, interrupted, overlap>>
vars == <<shared, hw, pc, isopen, locals, copVars, ghosts>>

Slots     == 0 .. BUF_LEN - 1
Ids       == 0 .. NumIds - 1
Old       == NumIds
IISConfig == [irqrx : BOOLEAN, rxfifo : BOOLEAN]
BothOff   == [irqrx |-> FALSE, rxfifo |-> FALSE]
Next1(i)  == (i + 1) % BUF_LEN

\* samples from slot r up to, not including, slot w
Used(r, w) == IF r <= w THEN w - r ELSE w - r + BUF_LEN

CpuPcs == {"idle", "open_w", "open_active", "open_reset",
           "start_active", "start_r", "start_w", "start_handler", "start_fiq",
           "irq_wr", "fifo_rd", "fifo_wr",
           "loop", "pos", "copy", "check", "adv_rd", "adv_wr", "sigtest",
           "close_tell", "close_wait", "close_handler"}
CopPcs == {"idle", "irqoff", "loop", "count", "irqon", "advance", "test",
           "over_rd", "over_wr", "fifooff", "inactive"}

TypeOK ==
    /\ r_off \in Slots /\ w_off \in Slots
    /\ dma_active \in 0..3
    /\ dma_buf \in [Slots -> Ids \cup {Old}]
    /\ handler \in {"none", "rec_dma"}
    /\ iisconfig \in IISConfig
    /\ fifo \in 0 .. FIFO_LEN
    /\ copIntEn \in BOOLEAN
    /\ pc \in CpuPcs /\ isopen \in BOOLEAN
    /\ rem \in Nat
    /\ write_pos \in Slots /\ read_pos \in Slots
    /\ len \in 0 .. BUF_LEN - 1 /\ got \in 0 .. len
    /\ pc = "copy" => got < len /\ read_pos + len <= BUF_LEN
    /\ cpuReg \in IISConfig /\ cpuOff \in Slots
    /\ cop \in CopPcs /\ copStereo \in BOOLEAN
    /\ copReg \in IISConfig /\ copOff \in Slots
    /\ taken \in Ids /\ user \in Ids \cup {Old}
    /\ overrun \in BOOLEAN /\ hit \in BOOLEAN /\ mistaken \in BOOLEAN
    /\ interrupted \in BOOLEAN /\ overlap \in BOOLEAN

Init ==
    /\ r_off = 0 /\ w_off = 0 /\ dma_active = 0
    /\ dma_buf = [i \in Slots |-> Old]
    /\ handler = "none"
    /\ iisconfig = BothOff /\ fifo = 0 /\ copIntEn = FALSE
    /\ pc = "idle" /\ isopen = FALSE
    /\ rem = 0 /\ write_pos = 0 /\ read_pos = 0 /\ len = 0 /\ got = 0
    /\ cpuReg = BothOff /\ cpuOff = 0
    /\ cop = "idle" /\ copStereo = FALSE /\ copReg = BothOff /\ copOff = 0
    /\ taken = 0 /\ user = 0
    /\ overrun = FALSE /\ hit = FALSE /\ mistaken = FALSE
    /\ interrupted = FALSE /\ overlap = FALSE

-----------------------------------------------------------------------------
(* CPU: open for reading, which sets no handler *)

CpuGoto(from, to) == pc = from /\ pc' = to

\* The samples of a recording that is over are old ones; with `untold` those
\* to come are not told apart either.
Renumber(untold) ==
    /\ dma_buf' = [i \in Slots |-> Old]
    /\ taken' = 0 /\ user' = 0
    /\ overrun' = FALSE /\ hit' = FALSE /\ mistaken' = untold

OpenReadOff ==
    /\ CpuGoto("idle", "open_w") /\ ~isopen
    /\ isopen' = TRUE
    /\ r_off' = 0
    /\ overlap' = (cop # "idle")
    /\ Renumber(cop # "idle")
    /\ UNCHANGED <<w_off, dma_active, handler, hw, locals, copVars, interrupted>>

OpenWriteOff ==
    /\ CpuGoto("open_w", "open_active")
    /\ w_off' = 0
    /\ UNCHANGED <<r_off, dma_active, dma_buf, handler, hw, isopen,
                   locals, copVars, ghosts>>

OpenActive ==
    /\ CpuGoto("open_active", "open_reset")
    /\ dma_active' = 0
    /\ UNCHANGED <<r_off, w_off, dma_buf, handler, hw, isopen, locals, copVars,
                   ghosts>>

\* i2s_reset: the FIFO is cleared; whether the soft reset clears the two
\* bits followed here is the hardware's choice.  With them cleared and the
\* handler idle an interrupted close is made good.
OpenReset ==
    /\ CpuGoto("open_reset", "idle")
    /\ fifo' = 0
    /\ iisconfig' \in {iisconfig, BothOff}
    /\ interrupted' = (interrupted /\ (overlap \/ iisconfig' # BothOff))
    /\ UNCHANGED <<shared, copIntEn, isopen, locals, copVars, progress, overlap>>

-----------------------------------------------------------------------------
(* CPU: read.  The first one starts the recording. *)

ReadBegin(n) ==
    /\ pc = "idle" /\ isopen
    /\ pc' = IF dma_active = 0 THEN "start_active" ELSE "loop"
    /\ rem' = n
    /\ UNCHANGED <<shared, hw, isopen, pass, cpuReg, cpuOff, copVars, ghosts>>

StartActive ==
    /\ CpuGoto("start_active", "start_r")
    /\ dma_active' = 1
    /\ UNCHANGED <<r_off, w_off, dma_buf, handler, hw, isopen, locals,
                   copVars, ghosts>>

StartReadOff ==
    /\ CpuGoto("start_r", "start_w")
    /\ r_off' = 0
    /\ UNCHANGED <<w_off, dma_active, dma_buf, handler, hw, isopen,
                   locals, copVars, ghosts>>

StartWriteOff ==
    /\ CpuGoto("start_w", "start_handler")
    /\ w_off' = 0
    /\ Renumber(overlap)
    /\ UNCHANGED <<r_off, dma_active, handler, hw, isopen, locals, copVars,
                   interrupted, overlap>>

StartHandler ==
    /\ CpuGoto("start_handler", "start_fiq")
    /\ handler' = "rec_dma"
    /\ UNCHANGED <<r_off, w_off, dma_active, dma_buf, hw, isopen,
                   locals, copVars, ghosts>>

\* the interrupt enable, and the inl of the first read-modify-write
StartFiq ==
    /\ CpuGoto("start_fiq", "irq_wr")
    /\ copIntEn' = TRUE
    /\ cpuReg' = iisconfig
    /\ UNCHANGED <<shared, iisconfig, fifo, isopen, rem, pass, cpuOff, copVars,
                   ghosts>>

StartIrqOn ==
    /\ CpuGoto("irq_wr", "fifo_rd")
    /\ iisconfig' = [cpuReg EXCEPT !.irqrx = TRUE]
    /\ cpuReg' = BothOff
    /\ UNCHANGED <<shared, fifo, copIntEn, isopen, rem, pass, cpuOff, copVars,
                   ghosts>>

StartFifoRead ==
    /\ CpuGoto("fifo_rd", "fifo_wr")
    /\ cpuReg' = iisconfig
    /\ UNCHANGED <<shared, hw, isopen, rem, pass, cpuOff, copVars, ghosts>>

StartFifoOn ==
    /\ CpuGoto("fifo_wr", "loop")
    /\ iisconfig' = [cpuReg EXCEPT !.rxfifo = TRUE]
    /\ cpuReg' = BothOff
    /\ UNCHANGED <<shared, fifo, copIntEn, isopen, rem, pass, cpuOff, copVars,
                   ghosts>>

\* The head of the while loop: int write_pos = *w_off
ReadLoop ==
    /\ pc = "loop"
    /\ IF rem > 0 THEN pc' = "pos" /\ write_pos' = w_off
                  ELSE pc' = "idle" /\ UNCHANGED write_pos
    /\ UNCHANGED <<shared, hw, isopen, rem, read_pos, len, got, cpuReg, cpuOff,
                   copVars, ghosts>>

\* mutant of Available: the end of the ring is not where the copy stops
AvailableAll(r, w) == IF r < w THEN w - r ELSE IF w < r THEN BUF_LEN - r + w ELSE 0

\* to the write position or to the end of the ring, whichever comes first
Available(r, w) == IF r < w THEN w - r ELSE IF w < r THEN BUF_LEN - r ELSE 0

AtMost(a, b) == IF a <= b THEN a ELSE b

\* int read_pos = *r_off, and how much there is; nothing makes it sleep a
\* little and come back.  write_pos is not looked at any more.
ReadPos ==
    /\ pc = "pos"
    /\ read_pos' = r_off
    /\ len' = AtMost(Available(r_off, write_pos), rem)
    /\ got' = 0
    /\ pc' = IF len' = 0 THEN "sigtest" ELSE "copy"
    /\ write_pos' = 0 /\ hit' = FALSE
    /\ UNCHANGED <<shared, hw, isopen, rem, cpuReg, cpuOff, copVars, taken, user,
                   overrun, mistaken, interrupted, overlap>>

\* memcpy, which the handler can overtake: one sample
CopyOne ==
    /\ pc = "copy"
    /\ user' = dma_buf[read_pos + got]
    /\ got' = got + 1
    /\ IF got + 1 < len THEN UNCHANGED <<pc, rem>>
                        ELSE pc' = "check" /\ rem' = rem - len
    /\ UNCHANGED <<shared, hw, isopen, write_pos, read_pos, len, cpuReg, cpuOff,
                   copVars, taken, overrun, hit, mistaken, interrupted, overlap>>

\* read_pos == *r_off, or else an overrun is reported and *r_off kept
ReadCheck ==
    /\ CpuGoto("check", IF read_pos = r_off THEN "adv_rd" ELSE "sigtest")
    /\ UNCHANGED <<shared, hw, isopen, locals, copVars, ghosts>>

\* *r_off = (*r_off + len) % BUF_LEN: the load and the store
AdvanceLoad ==
    /\ CpuGoto("adv_rd", "adv_wr")
    /\ cpuOff' = r_off
    /\ UNCHANGED <<shared, hw, isopen, rem, pass, cpuReg, copVars, ghosts>>

\* mutant of AdvanceStore: the offset moves by one sample too few
AdvanceStoreShort ==
    /\ CpuGoto("adv_wr", "sigtest")
    /\ r_off' = (cpuOff + len - 1) % BUF_LEN
    /\ cpuOff' = 0
    /\ UNCHANGED <<w_off, dma_active, dma_buf, handler, hw, isopen,
                   rem, pass, cpuReg, copVars, ghosts>>

AdvanceStore ==
    /\ CpuGoto("adv_wr", "sigtest")
    /\ r_off' = (cpuOff + len) % BUF_LEN
    /\ cpuOff' = 0
    /\ UNCHANGED <<w_off, dma_active, dma_buf, handler, hw, isopen,
                   rem, pass, cpuReg, copVars, ghosts>>

\* write_pos, read_pos and len are declared inside the loop; which sample
\* came last does not matter any more once the ring has run over.
EndPass ==
    /\ write_pos' = 0 /\ read_pos' = 0 /\ len' = 0 /\ got' = 0 /\ hit' = FALSE
    /\ user' = IF overrun THEN 0 ELSE user

NoSignal ==
    /\ CpuGoto("sigtest", "loop")
    /\ EndPass
    /\ UNCHANGED <<shared, hw, isopen, rem, cpuReg, cpuOff, copVars, taken, overrun,
                   mistaken, interrupted, overlap>>

ReadSignal ==
    /\ CpuGoto("sigtest", "idle")
    /\ EndPass
    /\ UNCHANGED <<shared, hw, isopen, rem, cpuReg, cpuOff, copVars, taken, overrun,
                   mistaken, interrupted, overlap>>

-----------------------------------------------------------------------------
(* CPU: close, which asks a running recording to end and waits for it *)

CloseBegin ==
    /\ pc = "idle" /\ isopen
    /\ pc' = IF dma_active # 0 THEN "close_tell" ELSE "close_handler"
    /\ UNCHANGED <<shared, hw, isopen, locals, copVars, ghosts>>

CloseTell ==
    /\ CpuGoto("close_tell", "close_wait")
    /\ dma_active' = 2
    /\ UNCHANGED <<r_off, w_off, dma_buf, handler, hw, isopen, locals,
                   copVars, ghosts>>

\* mutant of CloseDone: close does not wait
CloseDoneAtOnce ==
    /\ CpuGoto("close_wait", "close_handler")
    /\ UNCHANGED <<shared, hw, isopen, locals, copVars, ghosts>>

CloseDone ==
    /\ CpuGoto("close_wait", "close_handler") /\ dma_active = 3
    /\ UNCHANGED <<shared, hw, isopen, locals, copVars, ghosts>>

CloseSignal ==
    /\ CpuGoto("close_wait", "close_handler") /\ dma_active # 3
    /\ interrupted' = TRUE
    /\ UNCHANGED <<shared, hw, isopen, locals, copVars, progress, overlap>>

CloseHandler ==
    /\ CpuGoto("close_handler", "idle")
    /\ handler' = "none"
    /\ isopen' = FALSE /\ rem' = 0
    /\ Renumber(cop # "idle")
    /\ UNCHANGED <<r_off, w_off, dma_active, hw, pass, cpuReg, cpuOff, copVars,
                   interrupted, overlap>>

-----------------------------------------------------------------------------
(* Coprocessor: cop_fiq, sansa_handle_dma and i2s_pp5020_rec_dma *)

CopGoto(from, to) ==
    /\ cop = from /\ cop' = to
    /\ UNCHANGED <<pc, isopen, locals, interrupted, overlap>>

\* Mono or stereo is what the application last asked for, at any time.
FiqEntry ==
    /\ CopGoto("idle", "irqoff")
    /\ copIntEn /\ iisconfig.irqrx /\ fifo >= RX_LEVEL
    /\ handler = "rec_dma"
    /\ copStereo' \in BOOLEAN
    /\ copReg' = iisconfig
    /\ UNCHANGED <<shared, hw, copOff, progress>>

FiqIrqOff ==
    /\ CopGoto("irqoff", "loop")
    /\ iisconfig' = [copReg EXCEPT !.irqrx = FALSE]
    /\ copReg' = BothOff
    /\ UNCHANGED <<shared, fifo, copIntEn, copStereo, copOff, progress>>

\* while (*dma_active != 2); leaving the loop reads IISCONFIG, and the local
\* `stereo` does not matter any more
FiqLoop ==
    /\ CopGoto("loop", IF dma_active # 2 THEN "count" ELSE "fifooff")
    /\ IF dma_active # 2 THEN UNCHANGED <<copReg, copStereo>>
                         ELSE copReg' = iisconfig /\ copStereo' = FALSE
    /\ UNCHANGED <<shared, hw, copOff, progress>>

\* full_count < 2: enable the interrupt and return
FiqEmpty ==
    /\ CopGoto("count", "irqon")
    /\ fifo < 2
    /\ copReg' = iisconfig /\ copStereo' = FALSE
    /\ UNCHANGED <<shared, hw, copOff, progress>>

\* mutant of FiqReturn: the interrupt stays off
FiqReturnOff ==
    /\ CopGoto("irqon", "idle")
    /\ UNCHANGED <<shared, hw, copStereo, copReg, copOff, progress>>

FiqReturn ==
    /\ CopGoto("irqon", "idle")
    /\ iisconfig' = [copReg EXCEPT !.irqrx = TRUE]
    /\ copReg' = BothOff
    /\ UNCHANGED <<shared, fifo, copIntEn, copStereo, copOff, progress>>

\* mutant of FiqStore: the offset moves on before the sample is stored
FiqStoreNext ==
    /\ CopGoto("count", "advance")
    /\ fifo >= 2
    /\ taken' = (taken + 1) % NumIds
    /\ dma_buf' = [dma_buf EXCEPT ![Next1(w_off)] = taken']
    /\ fifo' = fifo - (IF copStereo THEN 1 ELSE 2)
    /\ UNCHANGED <<r_off, w_off, dma_active, handler, iisconfig,
                   copIntEn, copStereo, copReg, copOff, user, overrun, hit, mistaken>>

\* A sample goes to the ring; of a mono one the FIFO holds two.
FiqStore ==
    /\ CopGoto("count", "advance")
    /\ fifo >= 2
    /\ taken' = IF mistaken THEN taken ELSE (taken + 1) % NumIds
    /\ dma_buf' = [dma_buf EXCEPT ![w_off] = IF mistaken THEN Old ELSE taken']
    /\ fifo' = fifo - (IF copStereo THEN 1 ELSE 2)
    /\ UNCHANGED <<r_off, w_off, dma_active, handler, iisconfig,
                   copIntEn, copStereo, copReg, copOff, user, overrun, hit, mistaken>>

FiqAdvance ==
    /\ CopGoto("advance", "test")
    /\ w_off' = Next1(w_off)
    /\ UNCHANGED <<r_off, dma_active, dma_buf, handler, hw, copStereo,
                   copReg, copOff, progress>>

\* "check for buffer over run".  From a mistaken one on, samples are not
\* told apart.
FiqTest ==
    /\ CopGoto("test", IF r_off = w_off THEN "over_rd" ELSE "loop")
    /\ overrun' = (overrun \/ r_off = w_off)
    /\ mistaken' = (mistaken \/ (~overrun /\ r_off = w_off /\ user = taken))
    /\ dma_buf' = IF mistaken' THEN [i \in Slots |-> Old] ELSE dma_buf
    /\ taken' = IF mistaken' THEN 0 ELSE taken
    /\ user' = IF mistaken' THEN 0 ELSE user
    /\ UNCHANGED <<r_off, w_off, dma_active, handler, hw, copStereo, copReg,
                   copOff, hit>>

\* *r_off = (*r_off + 1) % BUF_LEN: the load and the store
FiqOverLoad ==
    /\ CopGoto("over_rd", "over_wr")
    /\ copOff' = r_off
    /\ UNCHANGED <<shared, hw, copStereo, copReg, progress>>

FiqOverStore ==
    /\ CopGoto("over_wr", "loop")
    /\ r_off' = Next1(copOff)
    /\ copOff' = 0
    /\ hit' = TRUE
    /\ UNCHANGED <<w_off, dma_active, dma_buf, handler, hw, copStereo,
                   copReg, taken, user, overrun, mistaken>>

FiqFifoOff ==
    /\ CopGoto("fifooff", "inactive")
    /\ iisconfig' = [copReg EXCEPT !.rxfifo = FALSE]
    /\ copReg' = BothOff
    /\ UNCHANGED <<shared, fifo, copIntEn, copStereo, copOff, progress>>

\* "tell the cpu we are no longer active"
FiqInactive ==
    /\ CopGoto("inactive", "idle")
    /\ dma_active' = 3
    /\ UNCHANGED <<r_off, w_off, dma_buf, handler, hw, copStereo,
                   copReg, copOff, progress>>

\* The receiver shifts a sample in while its FIFO is enabled; into a full
\* FIFO it goes nowhere.
Receive ==
    /\ iisconfig.rxfifo /\ fifo < FIFO_LEN
    /\ fifo' = fifo + 1
    /\ UNCHANGED <<shared, iisconfig, copIntEn, pc, isopen, locals, copVars,
                   ghosts>>

-----------------------------------------------------------------------------
Request ==
    \/ OpenReadOff
    \/ \E n \in 0 .. MaxCount : ReadBegin(n)
    \/ CloseBegin

Signal == ReadSignal \/ CloseSignal

Open  == OpenWriteOff \/ OpenActive \/ OpenReset
Start ==
    \/ StartActive \/ StartReadOff \/ StartWriteOff \/ StartHandler
    \/ StartFiq \/ StartIrqOn \/ StartFifoRead \/ StartFifoOn
Read ==
    \/ ReadLoop \/ ReadPos \/ CopyOne \/ ReadCheck \/ AdvanceLoad
    \/ AdvanceStore \/ NoSignal
Close == CloseTell \/ CloseDone \/ CloseHandler

CpuStep == Open \/ Start \/ Read \/ Close

CopStep ==
    \/ FiqEntry \/ FiqIrqOff \/ FiqLoop \/ FiqEmpty \/ FiqReturn \/ FiqStore
    \/ FiqAdvance \/ FiqTest \/ FiqOverLoad \/ FiqOverStore \/ FiqFifoOff
    \/ FiqInactive

Next == Request \/ Signal \/ CpuStep \/ CopStep \/ Receive

Spec == Init /\ [][Next]_vars

\* as in SansaPlayback
Fairness ==
    /\ WF_vars(CpuStep)
    /\ WF_vars(CopStep)
    /\ WF_vars(Receive)

LiveSpec == Spec /\ Fairness
-----------------------------------------------------------------------------
(* What a recording promises *)

\* slot i lies in the part of the ring from r up to w
InPart(i, r, w) == IF r <= w THEN r <= i /\ i < w ELSE i >= r \/ i < w

\* between a close and the end of the next one's resetting of the offsets
Resetting == ~isopen \/ pc \in {"open_w", "start_w"}

\* "check for buffer over run": when the handler first finds that the ring
\* has run over, there are samples in it that the application has not got.
OverrunIsReal == isopen /\ ~overlap => ~mistaken

\* What the offsets say is in the ring is the last samples stored, in order
\* and without a gap, even while the ring runs over and both processors
\* write *r_off (audio.c:443-452, 719-722), unless the handler took an
\* emptied ring for a full one.
RingContents ==
    ~overlap /\ ~mistaken /\ ~Resetting =>
        \A i \in Slots : InPart(i, r_off, w_off) =>
            dma_buf[i] = (taken - Used(i, w_off) + (IF cop = "advance" THEN 0 ELSE 1))
                            % NumIds

\* The application gets every sample once and in order, over any number of
\* reads, until the ring runs over; and even then what one pass of read
\* copies is a run of consecutive samples, unless the handler moves the
\* offset meanwhile.
SamplesInOrder ==
    [][/\ CopyOne /\ ~overlap
       /\ ~overrun \/ (got > 0 /\ ~hit /\ ~mistaken)
       => user' = (user + 1) % NumIds]_vars

\* A close that no signal cuts short leaves nothing running: the handler
\* does nothing after it has told the CPU so, and an open does not meet it
\* (audio.c:461-465, 543-560).
QuietAfterClose ==
    ~interrupted =>
        /\ ~isopen => cop = "idle" /\ iisconfig = BothOff
        /\ ~overlap

\* A read gets its samples, as long as the ring does not run over and no
\* signal has cut short a close that no open made good since.  (When the
\* ring runs over, nothing but luck keeps a reader that polls from looking
\* each time in the few steps in which the handler has the two offsets
\* level.  After an interrupted close a read can wait for ever: the handler
\* left over tells the CPU it is done after open has stored 0, so that read
\* starts nothing, audio.c:464, 480, 674; or read's own read-modify-write of
\* IISCONFIG takes back the handler's enabling of the interrupt, audio.c:442,
\* 691.)  A close hears from the coprocessor.
CallsReturn ==
    []<>(\/ pc = "idle"
         \/ overrun /\ pc \notin {"close_tell", "close_wait", "close_handler"}
         \/ interrupted)
=============================================================================
