------------------------------ MODULE SansaSD ------------------------------
(***************************************************************************)
(* The block driver of the Sansa's internal flash (mach-sansa/sd.c).       *)
(*                                                                         *)
(* The flash answers the SD protocol and is addressed in banks: a vendor   *)
(* command selects the bank, the driver caches which one is selected, and  *)
(* a read or write gives an address inside it.  Every command and every    *)
(* transfer of a chunk may time out or be answered with an error; the      *)
(* driver then initialises the card again and retries.  A request is one   *)
(* contiguous piece of a block request; sd_request busy-waits for it, so   *)
(* requests come one after the other.                                      *)
(***************************************************************************)
EXTENDS Integers

CONSTANTS
    NumBlocks,         \* blocks of the card
    BLOCKS_PER_BANK,
    Minors,            \* minor device numbers; 0 is the whole card
    Parts,             \* the partition table found on the card
    RetryMax,          \* sd_status[0].retry_max (1)
    Data,              \* contents of a block
    MaxCount,          \* bound: blocks of one request
    MaxFaults          \* bound: errors of the card

ASSUME SDAssumption ==
    /\ NumBlocks \in Nat \ {0} /\ BLOCKS_PER_BANK \in Nat \ {0}
    /\ 0 \in Minors
    /\ Parts \in [Minors -> [start_sect : Nat, nr_sects : Nat]]
    /\ \A m \in Minors : Parts[m].start_sect + Parts[m].nr_sects <= NumBlocks
    /\ RetryMax \in Nat \ {0} /\ Data # {} /\ MaxCount \in Nat \ {0} /\ MaxFaults \in Nat

\* the loop of sd_revalidate counts them down
ASSUME MinorsAssumption == Minors \subseteq Nat

VARIABLES
    \* the card: its blocks, the bank it has selected
    flash, cardBank,
    \* currcard and sd_status[0]
    initialized, current_bank, retry,
    \* the partition table of the driver
    hd,
    \* sd_request and sd_read_sectors or sd_write_sectors: where they are,
    \* the request, its first block inside the bank, the bank, blocks moved,
    \* the buffer a read fills, outcome of the last request
    pc, req, start, bank, moved, buf, code,
    \* ghosts: attempts made at the request (counted up to RetryMax + 2),
    \* errors of the card so far
    attempts, faults

card   == <<flash, cardBank>>
driver == <<initialized, current_bank, retry>>
vars == <<card, driver, hd, pc, req, start, bank, moved, buf, code, attempts, faults>>

Blocks  == 0 .. NumBlocks - 1
Nowhere == [start_sect |-> 0, nr_sects |-> 0]
NoPart  == [m \in Minors |-> Nowhere]
Whole   == [NoPart EXCEPT ![0] = Parts[0]]
Tables  == {t \in [Minors -> {Nowhere} \union {Parts[m] : m \in Minors}] :
               \A m \in Minors : t[m] \in {Nowhere, Parts[m]}}
Index   == 0 .. MaxCount - 1
Request == [cmd : {"READ", "WRITE"}, minor : Minors, first : Nat,
            count : 1 .. MaxCount, data : [Index -> Data]]

TypeOK ==
    /\ flash \in [Blocks -> Data] /\ cardBank \in Nat
    /\ initialized \in {-1, 0, 1} /\ current_bank \in Nat /\ retry \in 0 .. RetryMax
    /\ hd \in Tables
    /\ pc \in {"off", "idle", "select", "init", "bank", "switch",
               "command", "transfer", "stop", "error"}
    /\ req \in Request /\ start \in Nat /\ bank \in Nat
    /\ moved \in 0 .. MaxCount /\ buf \in [Index -> Data] /\ code \in {0, 1}
    /\ attempts \in Nat /\ faults \in Nat

Init ==
    /\ flash \in [Blocks -> Data] /\ cardBank = 0
    /\ initialized = 0 /\ current_bank = 0 /\ retry = 0
    /\ hd = NoPart
    /\ pc = "off"
    /\ \E d \in Data :
          /\ req = [cmd |-> "READ", minor |-> 0, first |-> 0, count |-> 1,
                    data |-> [i \in Index |-> d]]
          /\ buf = req.data
    /\ start = 0 /\ bank = 0 /\ moved = 0 /\ code = 1
    /\ attempts = 0 /\ faults = 0

-----------------------------------------------------------------------------
(* The card: GO_IDLE_STATE and the commands after it *)

Fault == faults < MaxFaults /\ faults' = faults + 1

\* sd_init_device: currcard is cleared, the card reset (bank 0), identified
\* and its bank switching enabled
CardUp ==
    /\ initialized' = 1 /\ current_bank' = 0 /\ cardBank' = 0
    /\ UNCHANGED <<flash, retry, faults>>

\* one of the commands fails, the reset included
CardDown ==
    /\ Fault
    /\ initialized' = -1 /\ current_bank' = 0
    /\ cardBank' \in {cardBank, 0}
    /\ UNCHANGED <<flash, retry>>

\* sd_driver_init: sd_HwInit initialises the card; its result is ignored and
\* sd_initDisk takes the size found, which a card that failed late has too.
DriverInit ==
    /\ pc = "off" /\ pc' = "idle"
    /\ \/ CardUp /\ hd' = Parts
       \/ CardDown /\ hd' \in {NoPart, Whole, Parts}
    /\ UNCHANGED <<req, start, bank, moved, buf, code, attempts>>

\* ioctl BLKRRPART, sd_revalidate: the table is cleared from its end.  Each
\* entry may have to wait for buffers to be written (invalidate_device), and
\* the requests of others meet what is there.
Revalidate(m) ==
    /\ pc = "idle"
    /\ \A n \in Minors : n > m => hd[n] = Nowhere
    /\ hd' = [hd EXCEPT ![m] = Nowhere]
    /\ UNCHANGED <<card, driver, pc, req, start, bank, moved, buf, code, attempts, faults>>

\* grok_partitions: the whole card, so that its table can be read
Regrok ==
    /\ pc = "idle" /\ hd = NoPart
    /\ hd' = Whole
    /\ UNCHANGED <<card, driver, pc, req, start, bank, moved, buf, code, attempts, faults>>

\* then the partitions, unless the read of the table, a request like any
\* other, has failed
ReadTable ==
    /\ pc = "idle" /\ hd = Whole
    /\ hd' = Parts
    /\ UNCHANGED <<card, driver, pc, req, start, bank, moved, buf, code, attempts, faults>>

-----------------------------------------------------------------------------
(* sd_request *)

\* mutant of InDevice: the end of the request is not tested
InDeviceFirst(m, sector, n) == sector < hd[m].nr_sects

\* the request lies inside its minor device
InDevice(m, sector, n) ==
    sector < hd[m].nr_sects /\ sector + n <= hd[m].nr_sects

\* A request is taken from the queue, and rejected or handed on.
Submit(cmd, m, sector, n, data) ==
    /\ pc = "idle"
    /\ req' = [cmd |-> cmd, minor |-> m, first |-> sector + hd[m].start_sect,
               count |-> n, data |-> data]
    /\ IF InDevice(m, sector, n)
       THEN /\ pc' = "select" /\ start' = req'.first
            /\ attempts' = 1 /\ UNCHANGED code
       ELSE /\ pc' = "idle" /\ code' = 0 /\ attempts' = 0
            /\ UNCHANGED start
    /\ moved' = 0 /\ buf' = data
    /\ UNCHANGED <<card, driver, hd, bank, faults>>

\* sd_select_device(0): "Main card always gets a chance"
Select ==
    /\ pc = "select"
    /\ retry' = 0
    /\ pc' = CASE initialized > 0 -> "bank"
               [] initialized = 0 -> "init"
               [] OTHER -> "error"
    /\ UNCHANGED <<card, initialized, current_bank, hd, req, start, bank, moved,
                   buf, code, attempts, faults>>

InitDevice ==
    /\ pc = "init"
    /\ \/ CardUp /\ pc' = "bank"
       \/ CardDown /\ pc' = "error"
    /\ UNCHANGED <<hd, req, start, bank, moved, buf, code, attempts>>

\* mutant of InBank: banks are counted from one
InBankNext(s, b) == s - (b + 1) * BLOCKS_PER_BANK

InBank(s, b) == s - b * BLOCKS_PER_BANK

\* bank = start / BLOCKS_PER_BANK; start is made relative to the bank, in
\* place, at once or after the switch
Bank ==
    /\ pc = "bank"
    /\ bank' = start \div BLOCKS_PER_BANK
    /\ IF current_bank # bank'
       THEN pc' = "switch" /\ UNCHANGED start
       ELSE pc' = "command" /\ start' = InBank(start, bank')
    /\ UNCHANGED <<card, driver, hd, req, moved, buf, code, attempts, faults>>

\* mutant of SwitchBank: the card is taken to have switched when it answers
\* the command, before it is done
SwitchBankEarly ==
    /\ pc = "switch" /\ pc' = "command"
    /\ current_bank' = bank
    /\ cardBank' \in {cardBank, bank}
    /\ start' = InBank(start, bank)
    /\ UNCHANGED <<flash, initialized, retry, hd, req, bank, moved, buf, code,
                   attempts, faults>>

\* sd_select_bank
SwitchBank ==
    /\ pc = "switch" /\ pc' = "command"
    /\ current_bank' = bank /\ cardBank' = bank
    /\ start' = InBank(start, bank)
    /\ UNCHANGED <<flash, initialized, retry, hd, req, bank, moved, buf, code,
                   attempts, faults>>

SwitchFails ==
    /\ pc = "switch" /\ pc' = "error"
    /\ Fault
    /\ cardBank' \in {cardBank, bank}
    /\ UNCHANGED <<flash, driver, hd, req, start, bank, moved, buf, code, attempts>>

\* The card waits in TRAN and takes the read or write command.
Command ==
    /\ pc = "command" /\ pc' = "transfer"
    /\ moved' = 0
    /\ UNCHANGED <<card, driver, hd, req, start, bank, buf, code, attempts, faults>>

\* A block inside the bank is one block of the card.  Nothing switches the
\* bank in the middle ("TODO: Switch bank if necessary"): beyond its end the
\* card may go on or start again at the bank's first block.
Addressed ==
    LET base == cardBank * BLOCKS_PER_BANK
        at   == start + moved
    IN  ({base + at} \cup (IF at < BLOCKS_PER_BANK THEN {}
                           ELSE {base + (at % BLOCKS_PER_BANK)})) \cap Blocks

\* one more block is transferred
Move(cmd) ==
    /\ pc = "transfer" /\ req.cmd = cmd /\ moved < req.count
    /\ moved' = moved + 1
    /\ UNCHANGED <<cardBank, driver, hd, pc, req, start, bank, code, attempts, faults>>

\* mutant of ReadBlock: the buffer pointer is not advanced
ReadBlockInPlace ==
    /\ Move("READ")
    /\ \E b \in Addressed : buf' = [buf EXCEPT ![0] = flash[b]]
    /\ UNCHANGED flash

ReadBlock ==
    /\ Move("READ")
    /\ \E b \in Addressed : buf' = [buf EXCEPT ![moved] = flash[b]]
    /\ UNCHANGED flash

WriteBlock ==
    /\ Move("WRITE")
    /\ \E b \in Addressed : flash' = [flash EXCEPT ![b] = req.data[moved]]
    /\ UNCHANGED buf

\* STOP_TRANSMISSION, TRAN again, end_request(1)
Stop ==
    /\ pc = "transfer" /\ moved = req.count
    /\ pc' = "idle" /\ code' = 1
    /\ UNCHANGED <<card, driver, hd, req, start, bank, moved, buf, attempts, faults>>

\* A command, the wait for a chunk, or the end of the transfer fails.
TransferFails ==
    /\ pc \in {"command", "transfer"} /\ pc' = "error"
    /\ Fault
    /\ UNCHANGED <<card, driver, hd, req, start, bank, moved, buf, code, attempts>>

\* the test of the error path
MayRetry == retry < RetryMax

\* mutant of Reinit: the card is not initialised again
ReinitNot == initialized' = initialized

Reinit == initialized' = 0

\* ata_read_error, ata_write_error: retry from the start, or report failure.
\* start keeps the value Bank gave it.
Fail ==
    /\ pc = "error"
    /\ IF MayRetry
       THEN /\ retry' = retry + 1
            /\ attempts' = IF attempts > RetryMax + 1 THEN attempts ELSE attempts + 1
            /\ Reinit
            /\ pc' = "select" /\ UNCHANGED code
       ELSE /\ pc' = "idle" /\ code' = 0
            /\ UNCHANGED <<retry, attempts, initialized>>
    /\ UNCHANGED <<card, current_bank, hd, req, start, bank, moved, buf, faults>>

-----------------------------------------------------------------------------
\* what the n blocks of a request's buffer hold; before a read it does not
\* matter what
Buffers(cmd, n) ==
    IF cmd = "WRITE" THEN [0 .. n - 1 -> Data]
                     ELSE {[i \in 0 .. n - 1 |-> CHOOSE d \in Data : TRUE]}

Requests ==
    \E cmd \in {"READ", "WRITE"}, m \in Minors, n \in 1 .. MaxCount :
        \E sector \in 0 .. NumBlocks, data \in Buffers(cmd, n) :
            Submit(cmd, m, sector, n,
                   [i \in Index |-> IF i < n THEN data[i] ELSE data[0]])

Step ==
    \/ DriverInit \/ Select \/ InitDevice \/ Bank \/ SwitchBank
    \/ SwitchFails \/ Command \/ ReadBlock \/ WriteBlock \/ Stop \/ TransferFails
    \/ Fail

Table == (\E m \in Minors : Revalidate(m)) \/ Regrok \/ ReadTable

Next == Requests \/ Table \/ Step

Spec == Init /\ [][Next]_vars

\* The driver busy-waits: it takes its next step.
LiveSpec == Spec /\ WF_vars(Step)
-----------------------------------------------------------------------------
(* What the block layer relies on *)

\* The request's blocks do not all lie in one bank.
Crosses == req.first \div BLOCKS_PER_BANK # (req.first + req.count - 1) \div BLOCKS_PER_BANK

\* The request is outside bank 0 and was tried more than once.
Relocated == attempts > 1 /\ req.first >= BLOCKS_PER_BANK

Served == pc = "idle" /\ attempts > 0 /\ code = 1

\* The bank the driver takes for selected is the one the card uses whenever
\* it gives an address, whatever errors and retries came before
\* (sd.c:507-552, 861-874).
BankAgrees == pc \in {"command", "transfer"} => cardBank = bank /\ current_bank = bank

\* A request that succeeds moved the blocks it names: a read returned what
\* they hold, a write left its data in them.
RequestServed ==
    Served /\ ~Crosses /\ ~Relocated =>
        \A i \in 0 .. req.count - 1 :
            flash[req.first + i] = IF req.cmd = "READ" THEN buf[i] ELSE req.data[i]

\* A block a write changes.
Changed(b) == flash'[b] # flash[b]

\* Failing or not, only a write changes blocks, and only blocks of its
\* request and of its partition, even while the partition table is cleared
\* and read again.
WritesStayInside ==
    [][\A b \in Blocks :
         Changed(b) /\ ~Crosses /\ ~Relocated =>
            /\ req.cmd = "WRITE" /\ b \in req.first .. req.first + req.count - 1
            /\ b >= Parts[req.minor].start_sect
            /\ b < Parts[req.minor].start_sect + Parts[req.minor].nr_sects]_vars

\* The inductive invariant behind the properties above.
\* A request being served passed the bounds test, so it lies in its
\* partition, whatever happens to the table later.
Busy == {"select", "init", "bank", "switch", "command", "transfer", "error"}

RequestInv ==
    pc \in Busy =>
        /\ attempts > 0
        /\ Parts[req.minor].start_sect <= req.first
        /\ req.first + req.count
              <= Parts[req.minor].start_sect + Parts[req.minor].nr_sects

\* The cached bank is the card's unless an error is being dealt with; a
\* card in error is always initialised again before it is used.
CacheInv ==
    /\ pc # "error" /\ initialized = 1 => cardBank = current_bank
    /\ pc \in {"bank", "switch", "command", "transfer"} => initialized = 1
    /\ pc \in Busy \ {"select"} => retry = 0

\* Up to the bank's selection start is the request's first block, then its
\* place in the bank; a retry keeps the latter, which does no harm in bank 0.
StartInv ==
    /\ pc \in {"select", "init", "bank", "switch"} /\ ~Relocated => start = req.first
    /\ pc = "switch" => bank = start \div BLOCKS_PER_BANK
    /\ pc \in {"command", "transfer"} => cardBank = bank /\ current_bank = bank
    /\ pc \in {"command", "transfer"} /\ ~Relocated =>
          /\ bank = req.first \div BLOCKS_PER_BANK
          /\ start = InBank(req.first, bank)
    /\ pc = "error" /\ req.first < BLOCKS_PER_BANK => start = req.first

\* The blocks moved so far, n of them, are the request's.
MovedRight(n) ==
    ~Crosses /\ ~Relocated =>
        \A i \in 0 .. n - 1 :
            flash[req.first + i] = IF req.cmd = "READ" THEN buf[i] ELSE req.data[i]

DataInv ==
    /\ pc = "off" => attempts = 0
    /\ pc = "transfer" => moved <= req.count /\ MovedRight(moved)
    /\ pc = "idle" /\ attempts > 0 /\ code = 1 => MovedRight(req.count)

FlashInv == RequestInv /\ CacheInv /\ StartInv /\ DataInv

\* As long as the card fails only finitely often, every request is answered.
RequestAnswered == pc = "select" ~> pc = "idle"

\* Bank switching serves cards of more than one bank: a request in a
\* higher bank changes blocks of that bank only, retried or not.
BankKept ==
    [][\A b \in Blocks :
         Changed(b) /\ ~Crosses =>
            b \div BLOCKS_PER_BANK = req.first \div BLOCKS_PER_BANK]_vars
=============================================================================
