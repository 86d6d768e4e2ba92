--------------------------- MODULE SansaPlayback ---------------------------
(***************************************************************************)
(* The playback half of the Sansa sound driver (mach-sansa/audio.c).       *)
(*                                                                         *)
(* Two processors share a ring of half-word samples and three words in on- *)
(* chip RAM: r_off, w_off and dma_active.  The CPU runs the file           *)
(* operations of /dev/dsp (open, write, ioctl SYNC, close) and fills the   *)
(* ring; the second core (COP) runs i2s_pp5020_pb_dma as a fast interrupt  *)
(* handler and moves samples into the FIFO of the I2S transmitter.  There  *)
(* is no lock between them: each step below is one access to a shared word *)
(* or register, and the two processors interleave freely.                  *)
(*                                                                         *)
(* Samples are numbered from 1 in the order in which the application       *)
(* supplies them, so what the ring holds and what the handler pushes tells *)
(* which samples were lost, repeated or played out of order.               *)
(*                                                                         *)
(* A local of the code that is not read again before it is assigned goes   *)
(* back to its initial value, so that states differ only where the code's  *)
(* future does.                                                            *)
(***************************************************************************)
EXTENDS Integers

CONSTANTS
    BUF_LEN,      \* slots of the ring
    FIFO_LEN,     \* slots of the transmit FIFO
    TX_LEVEL,     \* free FIFO slots at which the transmitter interrupts
    MaxSamples,   \* bound: samples the application supplies in all
    MaxCount,     \* bound: samples in one write
    MaxOpens      \* bound: how many times the device is opened

ASSUME PlaybackAssumption ==
    /\ BUF_LEN \in Nat \ {0, 1}
    /\ FIFO_LEN \in Nat \ {0, 1}
    /\ TX_LEVEL \in 2..FIFO_LEN
    /\ MaxSamples \in Nat /\ MaxCount \in Nat /\ MaxOpens \in Nat

VARIABLES
    \* words of on-chip RAM both processors access
    r_off, w_off, dma_active, dma_buf, stereo, handler,
    \* the I2S transmitter: two bits of IISCONFIG, the FIFO's fill, the
    \* coprocessor's interrupt enable bit
    iisconfig, fifo, copIntEn,
    \* the CPU: what it executes and the locals of the file operations
    pc, isopen, rem, write_off_current, read_off_current, bufsp, cpuReg,
    \* the coprocessor: what it executes and the handler's locals
    cop, copStereo, copReg,
    \* ghosts: samples made visible by *w_off, last sample pushed to the
    \* FIFO, whether an open met a running handler, number of opens
    published, pushed, overlap, opens

ram    == <<r_off, w_off, dma_active, dma_buf, stereo, handler>>
hw     == <<iisconfig, fifo, copIntEn>>
locals == <<rem, write_off_current, read_off_current, bufsp>>
copVars == <<cop, copStereo, copReg>>
ghosts == <<published, pushed, overlap, opens>>
vars == <<ram, hw, pc, isopen, locals, cpuReg, copVars, ghosts>>

Slots     == 0 .. BUF_LEN - 1
IISConfig == [irqtx : BOOLEAN, txfifo : BOOLEAN]
BothOff   == [irqtx |-> FALSE, txfifo |-> FALSE]
Next1(i)  == (i + 1) % BUF_LEN

CpuPcs == {"idle", "open_w", "open_active", "open_reset", "open_handler",
           "loop", "end_copy", "start_copy", "publish", "test", "activate",
           "irq_wr", "fifo_rd", "fifo_wr",
           "sync_test", "sync_loop", "close_test", "close_loop",
           "close_mask", "close_handler"}
CopPcs == {"idle", "irqoff", "loop", "free", "irqon", "fifoon", "advance",
           "empty", "fifooff", "irq2_rd", "irq2_wr", "inactive"}

TypeOK ==
    /\ r_off \in Slots /\ w_off \in Slots
    /\ dma_active \in {0, 1}
    /\ dma_buf \in [Slots -> Nat]
    /\ stereo \in BOOLEAN
    /\ handler \in {"none", "pb_dma"}
    /\ iisconfig \in IISConfig
    /\ fifo \in 0 .. FIFO_LEN
    /\ copIntEn \in BOOLEAN
    /\ pc \in CpuPcs
    /\ isopen \in BOOLEAN
    /\ rem \in Nat /\ bufsp \in Nat
    /\ write_off_current \in Slots /\ read_off_current \in Slots
    /\ cpuReg \in IISConfig
    /\ cop \in CopPcs
    /\ copStereo \in BOOLEAN
    /\ copReg \in IISConfig
    /\ published \in Nat /\ pushed \in Nat
    /\ overlap \in BOOLEAN
    /\ opens \in Nat

Init ==
    /\ r_off = 0 /\ w_off = 0 /\ dma_active = 0
    /\ dma_buf = [i \in Slots |-> 0]
    /\ stereo = FALSE /\ handler = "none"
    /\ iisconfig = BothOff
    /\ fifo = 0 /\ copIntEn = FALSE
    /\ pc = "idle" /\ isopen = FALSE
    /\ rem = 0 /\ bufsp = 0
    /\ write_off_current = 0 /\ read_off_current = 0
    /\ cpuReg = BothOff
    /\ cop = "idle" /\ copStereo = FALSE
    /\ copReg = BothOff
    /\ published = 0 /\ pushed = 0 /\ overlap = FALSE /\ opens = 0

-----------------------------------------------------------------------------
(* CPU: open for writing *)

\* Only one opener at a time (EBUSY otherwise); the first of the three
\* stores that "initialise shared variables".
OpenReadOff ==
    /\ pc = "idle" /\ ~isopen /\ opens < MaxOpens
    /\ pc' = "open_w"
    /\ isopen' = TRUE
    /\ opens' = opens + 1
    /\ r_off' = 0
    /\ overlap' = (cop # "idle")
    /\ pushed' = bufsp
    /\ UNCHANGED <<w_off, dma_active, dma_buf, stereo, handler, hw, locals,
                   cpuReg, copVars, published>>

OpenWriteOff ==
    /\ pc = "open_w" /\ pc' = "open_active"
    /\ w_off' = 0
    /\ UNCHANGED <<r_off, dma_active, dma_buf, stereo, handler, hw, isopen,
                   locals, cpuReg, copVars, ghosts>>

\* *sansaaudio_stereo = 0 comes with the last store: nobody else writes it.
OpenActive ==
    /\ pc = "open_active" /\ pc' = "open_reset"
    /\ dma_active' = 0
    /\ stereo' = FALSE
    /\ UNCHANGED <<r_off, w_off, dma_buf, handler, hw, isopen, locals,
                   cpuReg, copVars, ghosts>>

\* i2s_reset, which open and codec_init_pb both call: the FIFO is cleared
\* and the configuration register rewritten.  Whether the soft reset also
\* clears the two bits followed here is the hardware's choice.
OpenReset ==
    /\ pc = "open_reset" /\ pc' = "open_handler"
    /\ fifo' = 0
    /\ iisconfig' \in {iisconfig, BothOff}
    /\ UNCHANGED <<ram, copIntEn, isopen, locals, cpuReg, copVars, ghosts>>

\* The enable register sets the bits written as one and keeps the others
\* (irq.c unmasks one interrupt by writing just its bit).
EnableWrite(enabled, written) == enabled \/ written

OpenHandler ==
    /\ pc = "open_handler" /\ pc' = "idle"
    /\ handler' = "pb_dma"
    /\ copIntEn' = EnableWrite(copIntEn, TRUE)
    /\ UNCHANGED <<r_off, w_off, dma_active, dma_buf, stereo, iisconfig, fifo,
                   isopen, locals, cpuReg, copVars, ghosts>>

\* ioctl SNDCTL_DSP_STEREO / SNDCTL_DSP_CHANNELS
SetStereo(on) ==
    /\ pc = "idle" /\ isopen
    /\ stereo' = on
    /\ UNCHANGED <<r_off, w_off, dma_active, dma_buf, handler, hw, pc, isopen,
                   locals, cpuReg, copVars, ghosts>>

-----------------------------------------------------------------------------
(* CPU: write *)

\* Bound: a device that an open has reset under a running handler is only
\* closed; nothing is promised of it.
WriteBegin(n) ==
    /\ pc = "idle" /\ isopen
    /\ bufsp + n <= MaxSamples /\ ~overlap
    /\ pc' = "loop"
    /\ rem' = n
    /\ write_off_current' = w_off
    /\ UNCHANGED <<ram, hw, isopen, read_off_current, bufsp, cpuReg, copVars,
                   ghosts>>

\* The head of the while loop.  A full ring makes the writer sleep a
\* little; it then goes on with the same read_off_current, which leaves no
\* room, and comes back here.
WriteLoop ==
    /\ pc = "loop"
    /\ IF rem > 0
       THEN /\ read_off_current' = r_off
            /\ pc' = "end_copy"
            /\ UNCHANGED write_off_current
       ELSE /\ pc' = "idle"
            /\ write_off_current' = 0
            /\ UNCHANGED read_off_current
    /\ UNCHANGED <<ram, hw, isopen, rem, bufsp, cpuReg, copVars, ghosts>>

AtMost(a, b) == IF a <= b THEN a ELSE b

\* mutant of EndRoom: the reader ahead is forgotten
EndRoomNoReader(r, w) == IF r <= w /\ r = 0 THEN BUF_LEN - 1 - w ELSE BUF_LEN - w

\* Samples the first memcpy moves: to the end of the ring when the reader
\* is behind or level, else up to the slot before the reader.
EndRoom(r, w) ==
    IF r <= w THEN (IF r > 0 THEN BUF_LEN - w ELSE BUF_LEN - 1 - w)
              ELSE r - 1 - w

\* mutant of StartRoom: no slot kept free before the reader
StartRoomNoGap(r, left) == IF left >= r THEN r ELSE left

\* Samples the second memcpy moves, to the start of the ring.
StartRoom(r, left) == IF left >= r THEN r - 1 ELSE left

\* memcpy of n consecutive samples to the slots from w on
Filled(buf, w, n, first) ==
    [i \in Slots |-> IF i >= w /\ i < w + n THEN first + (i - w) ELSE buf[i]]

CopyEnd ==
    /\ pc = "end_copy"
    /\ LET n == AtMost(EndRoom(read_off_current, write_off_current), rem)
       IN  /\ dma_buf' = Filled(dma_buf, write_off_current, n, bufsp + 1)
           /\ rem' = rem - n
           /\ bufsp' = bufsp + n
           /\ write_off_current' = (write_off_current + n) % BUF_LEN
           /\ pc' = IF /\ read_off_current <= write_off_current
                       /\ read_off_current > 0
                       /\ rem - n > 0
                    THEN "start_copy" ELSE "publish"
    /\ UNCHANGED <<r_off, w_off, dma_active, stereo, handler, hw, isopen,
                   read_off_current, cpuReg, copVars, ghosts>>

CopyStart ==
    /\ pc = "start_copy" /\ pc' = "publish"
    /\ LET n == StartRoom(read_off_current, rem)
       IN  /\ dma_buf' = Filled(dma_buf, 0, n, bufsp + 1)
           /\ rem' = rem - n
           /\ bufsp' = bufsp + n
           /\ write_off_current' = n
    /\ UNCHANGED <<r_off, w_off, dma_active, stereo, handler, hw, isopen,
                   read_off_current, cpuReg, copVars, ghosts>>

WritePublish ==
    /\ pc = "publish" /\ pc' = "test"
    /\ w_off' = write_off_current
    /\ published' = bufsp
    /\ read_off_current' = 0
    /\ UNCHANGED <<r_off, dma_active, dma_buf, stereo, handler, hw, isopen,
                   rem, write_off_current, bufsp, cpuReg, copVars, pushed,
                   overlap, opens>>

\* mutant of WriteTest: the handler is never started again
WriteTestNever ==
    /\ pc = "test" /\ pc' = "loop"
    /\ UNCHANGED <<ram, hw, isopen, locals, cpuReg, copVars, ghosts>>

\* if (!*dma_active)
WriteTest ==
    /\ pc = "test"
    /\ pc' = IF dma_active = 0 THEN "activate" ELSE "loop"
    /\ UNCHANGED <<ram, hw, isopen, locals, cpuReg, copVars, ghosts>>

\* *dma_active = 1, then the inl of the first read-modify-write of IISCONFIG
WriteActivate ==
    /\ pc = "activate" /\ pc' = "irq_wr"
    /\ dma_active' = 1
    /\ cpuReg' = iisconfig
    /\ UNCHANGED <<r_off, w_off, dma_buf, stereo, handler, hw, isopen, locals,
                   copVars, ghosts>>

WriteIrqOn ==
    /\ pc = "irq_wr" /\ pc' = "fifo_rd"
    /\ iisconfig' = [cpuReg EXCEPT !.irqtx = TRUE]
    /\ cpuReg' = BothOff
    /\ UNCHANGED <<ram, fifo, copIntEn, isopen, locals, copVars, ghosts>>

WriteFifoRead ==
    /\ pc = "fifo_rd" /\ pc' = "fifo_wr"
    /\ cpuReg' = iisconfig
    /\ UNCHANGED <<ram, hw, isopen, locals, copVars, ghosts>>

WriteFifoOn ==
    /\ pc = "fifo_wr" /\ pc' = "loop"
    /\ iisconfig' = [cpuReg EXCEPT !.txfifo = TRUE]
    /\ cpuReg' = BothOff
    /\ UNCHANGED <<ram, fifo, copIntEn, isopen, locals, copVars, ghosts>>

-----------------------------------------------------------------------------
(* CPU: ioctl SNDCTL_DSP_SYNC and close, which both drain the ring *)

Goto(from, to) ==
    /\ pc = from /\ pc' = to
    /\ UNCHANGED <<ram, hw, isopen, locals, cpuReg, copVars, ghosts>>

SyncBegin  == isopen /\ Goto("idle", "sync_test")
CloseBegin == isopen /\ Goto("idle", "close_test")

\* sansaaudio_txdrain: nothing to wait for when dma is not active
DrainTest(test, loop, done) ==
    Goto(test, IF dma_active = 0 THEN done ELSE loop)

\* ... else sleep until the handler has caught up or a signal is pending
DrainDone(loop, done) ==
    /\ r_off = w_off
    /\ Goto(loop, done)

DrainSignal(loop, done) ==
    /\ r_off # w_off
    /\ Goto(loop, done)

Drain ==
    \/ DrainTest("sync_test", "sync_loop", "idle")
    \/ DrainDone("sync_loop", "idle")
    \/ DrainTest("close_test", "close_loop", "close_mask")
    \/ DrainDone("close_loop", "close_mask")

Signal ==
    \/ DrainSignal("sync_loop", "idle")
    \/ DrainSignal("close_loop", "close_mask")

\* "mask the interrupt": the enable register is read and written back
\* without the I2S bit
CloseMask ==
    /\ pc = "close_mask" /\ pc' = "close_handler"
    /\ copIntEn' = EnableWrite(copIntEn, FALSE)
    /\ UNCHANGED <<ram, iisconfig, fifo, isopen, locals, cpuReg, copVars,
                   ghosts>>

CloseHandler ==
    /\ pc = "close_handler" /\ pc' = "idle"
    /\ handler' = "none"
    /\ isopen' = FALSE
    /\ UNCHANGED <<r_off, w_off, dma_active, dma_buf, stereo, hw, locals,
                   cpuReg, copVars, ghosts>>

-----------------------------------------------------------------------------
(* Coprocessor: cop_fiq, sansa_handle_dma and i2s_pp5020_pb_dma.  Each     *)
(* read-modify-write of IISCONFIG is two steps, as it is for the CPU.      *)

CopGoto(from, to) == cop = from /\ cop' = to

FifoFree == FIFO_LEN - fifo

\* mutants of CopFreeCount: one too many; the wrong bits of IISFIFO_CFG
CopFreeCountOver == FifoFree + 1
CopFreeCountFull == fifo

\* (inl(0x7000280c) & 0x3f0000) >> 16
CopFreeCount == FifoFree

\* The interrupt is taken when it is enabled on both sides and the FIFO has
\* run down to its attention level; with no handler set it does nothing.
FiqEntry ==
    /\ CopGoto("idle", "irqoff")
    /\ copIntEn /\ iisconfig.irqtx /\ FifoFree >= TX_LEVEL
    /\ handler = "pb_dma"
    /\ copStereo' = stereo
    /\ copReg' = iisconfig
    /\ UNCHANGED <<ram, hw, pc, isopen, locals, cpuReg, ghosts>>

FiqIrqOff ==
    /\ CopGoto("irqoff", "loop")
    /\ iisconfig' = [copReg EXCEPT !.irqtx = FALSE]
    /\ copReg' = BothOff
    /\ UNCHANGED <<ram, fifo, copIntEn, pc, isopen, locals, cpuReg, copStereo,
                   ghosts>>

\* while (*r_off != *w_off)
FiqLoop ==
    /\ CopGoto("loop", IF r_off # w_off THEN "free" ELSE "empty")
    /\ UNCHANGED <<ram, hw, pc, isopen, locals, cpuReg, copStereo, copReg,
                   ghosts>>

\* free_count < 2: read IISCONFIG, to enable the interrupt and return
FiqFull ==
    /\ CopGoto("free", "irqon")
    /\ CopFreeCount < 2
    /\ copReg' = iisconfig
    /\ UNCHANGED <<ram, hw, pc, isopen, locals, cpuReg, copStereo, ghosts>>

FiqReturn ==
    /\ CopGoto("irqon", "idle")
    /\ iisconfig' = [copReg EXCEPT !.irqtx = TRUE]
    /\ copReg' = BothOff /\ copStereo' = FALSE
    /\ UNCHANGED <<ram, fifo, copIntEn, pc, isopen, locals, cpuReg, ghosts>>

\* One sample to the FIFO, twice when it is mono, and the inl that follows
FiqPush ==
    /\ CopGoto("free", "fifoon")
    /\ CopFreeCount >= 2
    /\ fifo' = fifo + (IF copStereo THEN 1 ELSE 2)
    /\ pushed' = dma_buf[r_off]
    /\ copReg' = iisconfig
    /\ UNCHANGED <<ram, iisconfig, copIntEn, pc, isopen, locals, cpuReg,
                   copStereo, published, overlap, opens>>

FiqFifoOn ==
    /\ CopGoto("fifoon", "advance")
    /\ iisconfig' = [copReg EXCEPT !.txfifo = TRUE]
    /\ copReg' = BothOff
    /\ UNCHANGED <<ram, fifo, copIntEn, pc, isopen, locals, cpuReg, copStereo,
                   ghosts>>

FiqAdvance ==
    /\ CopGoto("advance", "loop")
    /\ r_off' = Next1(r_off)
    /\ UNCHANGED <<w_off, dma_active, dma_buf, stereo, handler, hw, pc, isopen,
                   locals, cpuReg, copStereo, copReg, ghosts>>

\* The wait for the FIFO to empty goes back to the loop when there is more
\* data; once the FIFO is seen empty the ring is not looked at again.
FiqMore ==
    /\ CopGoto("empty", "loop")
    /\ fifo > 0 /\ r_off # w_off
    /\ UNCHANGED <<ram, hw, pc, isopen, locals, cpuReg, copStereo, copReg,
                   ghosts>>

FiqEmpty ==
    /\ CopGoto("empty", "fifooff")
    /\ fifo = 0
    /\ copReg' = iisconfig
    /\ UNCHANGED <<ram, hw, pc, isopen, locals, cpuReg, copStereo, ghosts>>

FiqFifoOff ==
    /\ CopGoto("fifooff", "irq2_rd")
    /\ iisconfig' = [copReg EXCEPT !.txfifo = FALSE]
    /\ copReg' = BothOff
    /\ UNCHANGED <<ram, fifo, copIntEn, pc, isopen, locals, cpuReg, copStereo,
                   ghosts>>

FiqIrqRead ==
    /\ CopGoto("irq2_rd", "irq2_wr")
    /\ copReg' = iisconfig
    /\ UNCHANGED <<ram, hw, pc, isopen, locals, cpuReg, copStereo, ghosts>>

FiqIrqWrite ==
    /\ CopGoto("irq2_wr", "inactive")
    /\ iisconfig' = [copReg EXCEPT !.irqtx = FALSE]
    /\ copReg' = BothOff
    /\ UNCHANGED <<ram, fifo, copIntEn, pc, isopen, locals, cpuReg, copStereo,
                   ghosts>>

FiqInactive ==
    /\ CopGoto("inactive", "idle")
    /\ dma_active' = 0
    /\ copStereo' = FALSE
    /\ UNCHANGED <<r_off, w_off, dma_buf, stereo, handler, hw, pc, isopen,
                   locals, cpuReg, copReg, ghosts>>

\* The transmitter shifts a sample out while its FIFO is enabled.
Transmit ==
    /\ iisconfig.txfifo /\ fifo > 0
    /\ fifo' = fifo - 1
    /\ UNCHANGED <<ram, iisconfig, copIntEn, pc, isopen, locals, cpuReg,
                   copVars, ghosts>>

-----------------------------------------------------------------------------
Write ==
    \/ WriteLoop \/ CopyEnd \/ CopyStart \/ WritePublish \/ WriteTest
    \/ WriteActivate \/ WriteIrqOn \/ WriteFifoRead \/ WriteFifoOn

Open  == OpenWriteOff \/ OpenActive \/ OpenReset \/ OpenHandler
Close == CloseMask \/ CloseHandler

\* what an application may ask of the driver
Request ==
    \/ OpenReadOff
    \/ \E on \in BOOLEAN : SetStereo(on)
    \/ \E n \in 1 .. MaxCount : WriteBegin(n)
    \/ SyncBegin
    \/ CloseBegin

CpuStep == Open \/ Write \/ Drain \/ Close

CopStep ==
    \/ FiqEntry \/ FiqIrqOff \/ FiqLoop \/ FiqFull \/ FiqReturn \/ FiqPush
    \/ FiqFifoOn \/ FiqAdvance \/ FiqMore \/ FiqEmpty \/ FiqFifoOff
    \/ FiqIrqRead \/ FiqIrqWrite \/ FiqInactive

Next == Request \/ Signal \/ CpuStep \/ CopStep \/ Transmit

Spec == Init /\ [][Next]_vars

\* A processor that can take a step takes it, and an enabled transmitter
\* runs on its clock.  Applications and signals promise nothing.
Fairness ==
    /\ WF_vars(CpuStep)
    /\ WF_vars(CopStep)
    /\ WF_vars(Transmit)

LiveSpec == Spec /\ Fairness
-----------------------------------------------------------------------------
(* What the ring promises *)

\* samples from slot r up to, not including, slot w
Used(r, w) == IF r <= w THEN w - r ELSE w - r + BUF_LEN

\* slot i lies in the part of the ring from r up to w
InPart(i, r, w) == IF r <= w THEN r <= i /\ i < w ELSE i >= r \/ i < w

\* mutant of GetSpace: the slot that stays free is counted
GetSpaceOver(r, w) ==
    IF r = w THEN BUF_LEN - 1
    ELSE IF r < w THEN BUF_LEN - 1 - (w - r)
    ELSE r - w

\* sansaaudio_getspace_ioctl, in samples
GetSpace(r, w) ==
    IF r = w THEN BUF_LEN - 1
    ELSE IF r < w THEN BUF_LEN - 1 - (w - r)
    ELSE r - Next1(w)

\* The handler holds a sample it has pushed and not yet released.
Pushing == cop \in {"fifoon", "advance"}

\* Every slot between the reader and the published write offset holds the
\* sample the application supplied for it, in order and without a gap, as
\* long as no open met a handler still running (audio.c:384-402, 591-652).
RingContents ==
    ~overlap /\ pc # "open_w" =>
        \A i \in Slots : InPart(i, r_off, w_off) =>
                            dma_buf[i] = published - Used(i, w_off) + 1

\* Nothing is lost or repeated: the samples published and not yet pushed
\* are exactly the ones the offsets say are in the ring.
NothingLost ==
    ~overlap /\ pc # "open_w" =>
        pushed + Used(r_off, w_off) = published + (IF Pushing THEN 1 ELSE 0)

\* What the offsets say is in the ring is what is in it, and all of it.
RingHolds == RingContents /\ NothingLost

\* The slots a memcpy is about to overwrite hold no sample the handler has
\* still to read, although the writer works with an old value of *r_off.
CopyLeavesUnread ==
    ~overlap =>
        /\ pc = "end_copy" =>
              \A i \in Slots :
                 /\ i >= write_off_current
                 /\ i < write_off_current
                         + AtMost(EndRoom(read_off_current, write_off_current), rem)
                 => ~InPart(i, r_off, w_off)
        /\ pc = "start_copy" =>
              \A i \in Slots : i < StartRoom(read_off_current, rem)
                                 => ~InPart(i, r_off, w_off)

\* What GETOSPACE reports is what one pass of the write loop can take: the
\* two copies together move that many samples, or all there are.
SpaceIsRoom ==
    pc = "end_copy" =>
        LET n == AtMost(EndRoom(read_off_current, write_off_current), rem)
            m == IF read_off_current <= write_off_current /\ read_off_current > 0
                 THEN AtMost(rem - n, StartRoom(read_off_current, rem - n))
                 ELSE 0
        IN  n + m = AtMost(rem, GetSpace(read_off_current, write_off_current))

\* Within one open, the handler pushes the samples in order, each once.
PushInOrder ==
    [][pushed' # pushed /\ opens' = opens /\ ~overlap
          => pushed' = pushed + 1]_vars

\* The inductive invariant behind the four properties above.
\* An open device has its handler set once open has returned, and only then.
OpenInv ==
    /\ pc # "idle" => isopen
    /\ ~isopen \/ pc \in {"open_w", "open_active", "open_reset", "open_handler"}
          => handler = "none"
    /\ ~overlap /\ pc \in {"open_w", "open_active", "open_reset", "open_handler"}
          => cop = "idle"
    /\ ~overlap /\ pc = "open_w" => pushed = bufsp /\ r_off = 0

\* Samples copied but not published exist only between the copies and the
\* store to *w_off; write_off_current is then ahead of *w_off.
WriterInv ==
    /\ pc \in {"loop", "end_copy", "test", "activate", "irq_wr", "fifo_rd",
               "fifo_wr"} => write_off_current = w_off
    /\ pc \in {"start_copy", "publish"} =>
          /\ bufsp = published + Used(w_off, write_off_current)
          /\ Used(read_off_current, w_off) + Used(w_off, write_off_current)
                <= BUF_LEN - 1
    /\ pc \notin {"start_copy", "publish"} => bufsp = published
    /\ pc = "start_copy" =>
          /\ write_off_current = 0
          /\ 0 < read_off_current /\ read_off_current <= w_off

\* The copied samples are in place, and the handler is somewhere between
\* the old read offset the writer works with and *w_off.
CopyInv ==
    /\ pc \in {"end_copy", "start_copy", "publish"} =>
          Used(read_off_current, w_off)
             = Used(read_off_current, r_off) + Used(r_off, w_off)
    /\ pc \in {"start_copy", "publish"} =>
          \A i \in Slots : InPart(i, w_off, write_off_current) =>
                dma_buf[i] = bufsp - Used(i, write_off_current) + 1

\* The handler has seen a sample to push and nobody takes it away.
HandlerInv == cop \in {"free", "fifoon", "advance"} => r_off # w_off

RingInv ==
    /\ OpenInv
    /\ WriterInv
    /\ ~overlap /\ pc # "open_w" => CopyInv /\ HandlerInv
    /\ RingContents
    /\ NothingLost

\* Playback that nothing will resume: dma_active says the handler comes
\* back, but the interrupt is off, or the transmitter is off with its FIFO
\* too full to interrupt.  The processors' read-modify-writes of IISCONFIG
\* (audio.c:381-415, 656-657) can undo each other and leave it so.
Stalled ==
    /\ cop = "idle" /\ dma_active = 1
    /\ pc \notin {"irq_wr", "fifo_rd", "fifo_wr"}
    /\ \/ ~iisconfig.irqtx
       \/ ~iisconfig.txfifo /\ FifoFree < TX_LEVEL

\* Data in the ring that nothing will play before the next write.
Stranded == isopen /\ r_off # w_off /\ dma_active = 0

\* A write always returns, however full the ring is, unless playback
\* stalled: the handler frees a slot, or the writer starts it again.
WriteReturns ==
    pc = "loop" ~> (pc = "idle" \/ Stalled \/ overlap)

\* What is in the ring gets played once the application stops writing,
\* unless it was stranded, playback stalled or the device was closed.
RingDrains ==
    r_off # w_off ~>
        (r_off = w_off \/ Stranded \/ Stalled \/ overlap \/ ~isopen)

\* txdrain takes an inactive dma for an error ("dma not active"): when it
\* is asked to drain samples, dma is active.
DmaActiveAtDrain ==
    pc \in {"sync_test", "close_test"} /\ r_off # w_off => dma_active = 1

\* As long as no open meets a handler still running, every step of the two
\* processors is a step of a bounded pipe that drops, repeats and reorders
\* nothing, or leaves the pipe alone.
Pipe == INSTANCE AudioPipe WITH Capacity <- BUF_LEN - 1,
                                sent <- published, played <- pushed
PipeSpec ==
    /\ Pipe!Init
    /\ [][~overlap' => [Pipe!Next]_<<published, pushed>>]_vars
=============================================================================
