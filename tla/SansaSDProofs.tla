--------------------------- MODULE SansaSDProofs ---------------------------
(* Theorems about SansaSD, for every card, partition table and request     *)
(* size and without a bound on the errors: SDAssumption says of MaxFaults  *)
(* only that it is a number.                                               *)
EXTENDS SansaSD, TLAPS

USE DEF SDAssumption

LEMMA DivLemma ==
    ASSUME NEW s \in Nat
    PROVE  /\ s \div BLOCKS_PER_BANK \in Nat
           /\ (s \div BLOCKS_PER_BANK) * BLOCKS_PER_BANK <= s
           /\ s < (s \div BLOCKS_PER_BANK) * BLOCKS_PER_BANK + BLOCKS_PER_BANK
  BY SDAssumption

\* A block's place in its bank (sd.c:861, 873).
LEMMA InBankLemma ==
    ASSUME NEW s \in Nat
    PROVE  /\ InBank(s, s \div BLOCKS_PER_BANK) \in Nat
           /\ (s \div BLOCKS_PER_BANK) * BLOCKS_PER_BANK
                 + InBank(s, s \div BLOCKS_PER_BANK) = s
           /\ s < BLOCKS_PER_BANK =>
                 s \div BLOCKS_PER_BANK = 0 /\ InBank(s, s \div BLOCKS_PER_BANK) = s
  BY SDAssumption, DivLemma DEF InBank

LEMMA RequestLemma ==
    ASSUME NEW r \in Request
    PROVE  /\ r.cmd \in {"READ", "WRITE"} /\ r.minor \in Minors /\ r.first \in Nat
           /\ r.count \in 1 .. MaxCount /\ r.data \in [Index -> Data]
  BY DEF Request

LEMMA PartsLemma ==
    ASSUME NEW m \in Minors
    PROVE  /\ Parts[m].start_sect \in Nat /\ Parts[m].nr_sects \in Nat
           /\ Parts[m].start_sect + Parts[m].nr_sects <= NumBlocks
  BY SDAssumption

\* What is made of the table: cleared, partly or whole, and read again.
LEMMA TablesLemma ==
    /\ NoPart \in Tables /\ Whole \in Tables /\ Parts \in Tables
    /\ \A t \in Tables, m \in Minors : [t EXCEPT ![m] = Nowhere] \in Tables
  <1> DEFINE entries == {Nowhere} \union {Parts[m] : m \in Minors}
  <1>1. NoPart \in [Minors -> entries] /\ Parts \in [Minors -> entries]
    BY SDAssumption DEF NoPart
  <1>2. Whole \in [Minors -> entries]
    BY <1>1, SDAssumption DEF Whole
  <1>3. \A m \in Minors : NoPart[m] = Nowhere /\ Whole[m] \in {Nowhere, Parts[m]}
    BY <1>1, SDAssumption DEF NoPart, Whole
  <1>4. ASSUME NEW t \in Tables, NEW m \in Minors
        PROVE  [t EXCEPT ![m] = Nowhere] \in Tables
    <2>1. t \in [Minors -> entries]
      BY DEF Tables
    <2>2. [t EXCEPT ![m] = Nowhere] \in [Minors -> entries]
      BY <2>1
    <2> HIDE DEF entries
    <2>3. \A n \in Minors : [t EXCEPT ![m] = Nowhere][n] = IF n = m THEN Nowhere ELSE t[n]
      BY <2>1
    <2> QED
      BY <2>2, <2>3 DEF Tables, entries
  <1> QED
    BY <1>1, <1>2, <1>3, <1>4 DEF Tables

\* An entry of a table is what was found on the card, or nothing.
LEMMA EntryLemma ==
    ASSUME NEW t \in Tables, NEW m \in Minors
    PROVE  \/ t[m] = Parts[m]
           \/ t[m].start_sect = 0 /\ t[m].nr_sects = 0
  BY DEF Tables, Nowhere

LEMMA BuffersLemma ==
    ASSUME NEW cmd, NEW n
    PROVE  Buffers(cmd, n) \subseteq [0 .. n - 1 -> Data]
  <1>1. (CHOOSE d \in Data : TRUE) \in Data
    BY SDAssumption
  <1> QED
    BY <1>1 DEF Buffers

\* A request that does not cross banks addresses the block it should.
LEMMA AddressLemma ==
    ASSUME TypeOK, StartInv, RequestInv, ~Crosses, ~Relocated,
           pc = "transfer", moved < req.count
    PROVE  /\ req.first + moved \in Blocks
           /\ Addressed = {req.first + moved}
  <1> DEFINE q == req.first \div BLOCKS_PER_BANK
             l == req.first + req.count - 1
  <1>1. /\ req.first \in Nat /\ req.count \in 1 .. MaxCount /\ moved \in Nat
        /\ req.minor \in Minors
    BY RequestLemma, SDAssumption DEF TypeOK
  <1>2. /\ cardBank = q /\ start = InBank(req.first, q)
    BY DEF StartInv
  <1>3. /\ q \in Nat /\ start \in Nat
        /\ q * BLOCKS_PER_BANK + start = req.first
    BY <1>1, <1>2, InBankLemma, DivLemma
  <1>4. l \in Nat /\ l \div BLOCKS_PER_BANK = q
    BY <1>1, SDAssumption DEF Crosses
  <1>5. l < q * BLOCKS_PER_BANK + BLOCKS_PER_BANK
    BY <1>4, DivLemma
  <1>6. q * BLOCKS_PER_BANK \in Nat
    BY <1>3, SDAssumption
  <1> HIDE DEF q
  <1>7. start + moved < BLOCKS_PER_BANK
    BY <1>1, <1>3, <1>5, <1>6, SDAssumption
  <1>8. req.first + moved \in Blocks
    BY <1>1, PartsLemma, SDAssumption DEF RequestInv, Busy, Blocks
  <1>9. Addressed = {cardBank * BLOCKS_PER_BANK + (start + moved)} \cap Blocks
    BY <1>7 DEF Addressed
  <1> QED
    BY <1>1, <1>2, <1>3, <1>6, <1>8, <1>9

-----------------------------------------------------------------------------
\* Alone TypeOK is not inductive: start stays a number when it is made
\* relative to its bank because the bank was computed from it (sd.c:861-873).
TypeInv == TypeOK /\ (pc = "switch" => bank = start \div BLOCKS_PER_BANK)

LEMMA HdLemma ==
    ASSUME TypeOK, NEW m \in Minors
    PROVE  hd[m].start_sect \in Nat /\ hd[m].nr_sects \in Nat
  BY PartsLemma, EntryLemma DEF TypeOK

\* What Requests chooses is a request.
LEMMA SubmitLemma ==
    ASSUME TypeOK, NEW cmd \in {"READ", "WRITE"}, NEW m \in Minors,
           NEW n \in 1 .. MaxCount, NEW sector \in 0 .. NumBlocks,
           NEW data \in Buffers(cmd, n),
           Submit(cmd, m, sector, n,
                  [i \in Index |-> IF i < n THEN data[i] ELSE data[0]])
    PROVE  /\ req' \in Request
           /\ buf' \in [Index -> Data]
           /\ req'.cmd = cmd /\ req'.minor = m /\ req'.count = n
           /\ req'.first = sector + hd[m].start_sect /\ req'.first \in Nat
  <1> DEFINE d == [i \in Index |-> IF i < n THEN data[i] ELSE data[0]]
  <1>1. d \in [Index -> Data]
    <2>1. data \in [0 .. n - 1 -> Data]
      BY BuffersLemma
    <2> QED
      BY <2>1, SDAssumption DEF Index
  <1>2. sector + hd[m].start_sect \in Nat
    BY HdLemma, SDAssumption
  <1> HIDE DEF d
  <1>3. req' = [cmd |-> cmd, minor |-> m, first |-> sector + hd[m].start_sect,
                count |-> n, data |-> d]
    BY DEF Submit, d
  <1>4. buf' = d
    BY DEF Submit, d
  <1> QED
    BY <1>1, <1>2, <1>3, <1>4, Zenon DEF Request

\* Type correctness, for every card, table and number of errors.
THEOREM TypeInvariance == Spec => []TypeInv
  <1>1. Init => TypeInv
    <2> SUFFICES ASSUME Init PROVE TypeInv
      OBVIOUS
    <2>1. PICK d \in Data :
            /\ req = [cmd |-> "READ", minor |-> 0, first |-> 0, count |-> 1,
                      data |-> [i \in Index |-> d]]
            /\ buf = req.data
      BY DEF Init
    <2>2. [i \in Index |-> d] \in [Index -> Data] /\ 1 \in 1 .. MaxCount /\ 0 \in Minors
      BY SDAssumption
    <2>3. req \in Request /\ buf \in [Index -> Data]
      BY <2>1, <2>2, Zenon DEF Request
    <2> QED
      BY <2>3, TablesLemma, SDAssumption DEF Init, TypeInv, TypeOK
  <1>2. TypeInv /\ [Next]_vars => TypeInv'
    <2> SUFFICES ASSUME TypeInv, [Next]_vars PROVE TypeInv'
      OBVIOUS
    <2> USE DEF TypeInv, TypeOK, card, driver
    <2>1. ASSUME NEW cmd \in {"READ", "WRITE"}, NEW m \in Minors,
                 NEW n \in 1 .. MaxCount, NEW sector \in 0 .. NumBlocks,
                 NEW data \in Buffers(cmd, n),
                 Submit(cmd, m, sector, n,
                        [i \in Index |-> IF i < n THEN data[i] ELSE data[0]])
          PROVE  TypeInv'
      <3>1. req' \in Request /\ req'.first \in Nat /\ buf' \in [Index -> Data]
        BY <2>1, SubmitLemma
      <3> QED
        BY <2>1, <3>1, SDAssumption DEF Submit
    <2>2. CASE DriverInit
      BY <2>2, TablesLemma DEF DriverInit, CardUp, CardDown, Fault
    <2>3. CASE Table
      BY <2>3, TablesLemma DEF Table, Revalidate, Regrok, ReadTable
    <2>4. CASE Select
      BY <2>4, SDAssumption DEF Select
    <2>5. CASE InitDevice
      BY <2>5 DEF InitDevice, CardUp, CardDown, Fault
    <2>6. CASE Bank
      BY <2>6, InBankLemma, DivLemma DEF Bank
    <2>7. CASE SwitchBank
      BY <2>7, InBankLemma DEF SwitchBank
    <2>8. CASE SwitchFails
      BY <2>8 DEF SwitchFails, Fault
    <2>9. CASE Command
      BY <2>9, SDAssumption DEF Command
    <2>10. CASE ReadBlock \/ WriteBlock
      <3>1. /\ req.count \in 1 .. MaxCount /\ req.cmd \in {"READ", "WRITE"}
            /\ req.data \in [Index -> Data]
        BY RequestLemma
      <3>2. ASSUME NEW c, Move(c)
            PROVE  /\ moved \in Index /\ moved + 1 \in 0 .. MaxCount
                   /\ pc = "transfer" /\ moved' = moved + 1
                   /\ UNCHANGED <<cardBank, driver, hd, pc, req, start, bank, code,
                                  attempts, faults>>
        <4>1. /\ moved < req.count /\ pc = "transfer" /\ moved' = moved + 1
              /\ UNCHANGED <<cardBank, driver, hd, pc, req, start, bank, code,
                             attempts, faults>>
          BY <3>2 DEF Move
        <4>2. moved \in 0 .. MaxCount
          OBVIOUS
        <4>3. moved \in Index /\ moved + 1 \in 0 .. MaxCount
          <5>1. req.count \in 1 .. MaxCount /\ moved < req.count
            BY <3>1, <4>1
          <5> HIDE DEF TypeInv, TypeOK
          <5> QED
            BY <4>2, <5>1, SDAssumption DEF Index
        <4> QED
          BY <4>1, <4>3
      <3>3. CASE ReadBlock
        <4>1. buf' \in [Index -> Data] /\ flash' = flash
          BY <3>3 DEF ReadBlock, Addressed
        <4> QED
          BY <3>2, <3>3, <4>1 DEF ReadBlock
      <3>4. CASE WriteBlock
        <4>1. flash' \in [Blocks -> Data] /\ buf' = buf
          BY <3>1, <3>2, <3>4 DEF WriteBlock, Addressed
        <4> QED
          BY <3>2, <3>4, <4>1 DEF WriteBlock
      <3> QED
        BY <2>10, <3>3, <3>4
    <2>11. CASE Stop
      BY <2>11 DEF Stop
    <2>12. CASE TransferFails
      BY <2>12 DEF TransferFails, Fault
    <2>13. CASE Fail
      BY <2>13, SDAssumption DEF Fail, MayRetry, Reinit
    <2>14. CASE UNCHANGED vars
      BY <2>14 DEF vars
    <2> QED
      BY <2>1, <2>2, <2>3, <2>4, <2>5, <2>6, <2>7, <2>8, <2>9, <2>10, <2>11,
         <2>12, <2>13, <2>14
      DEF Next, Requests, Step
  <1> QED
    BY <1>1, <1>2, PTL DEF Spec

\* The variables keep their types.
THEOREM TypeCorrect == Spec => []TypeOK
  BY TypeInvariance, PTL DEF TypeInv

-----------------------------------------------------------------------------
\* A request accepted lies in its partition of the table found on the card;
\* of an entry that is cleared nothing is accepted (sd.c:1311-1317, 1352).
LEMMA AcceptLemma ==
    ASSUME TypeOK, NEW m \in Minors, NEW n \in 1 .. MaxCount, NEW sector \in Nat,
           InDevice(m, sector, n)
    PROVE  /\ Parts[m].start_sect <= sector + hd[m].start_sect
           /\ sector + hd[m].start_sect + n <= Parts[m].start_sect + Parts[m].nr_sects
  <1>1. CASE hd[m].start_sect = 0 /\ hd[m].nr_sects = 0
    BY <1>1 DEF InDevice
  <1>2. CASE hd[m] = Parts[m]
    BY <1>2, PartsLemma DEF InDevice
  <1> QED
    BY <1>1, <1>2, EntryLemma DEF TypeOK

\* The bookkeeping of request and retries: all but the contents of blocks.
ControlInv == RequestInv /\ CacheInv /\ StartInv

LEMMA ControlStep == TypeInv /\ ControlInv /\ [Next]_vars => ControlInv'
  <1> SUFFICES ASSUME TypeInv, ControlInv, [Next]_vars PROVE ControlInv'
    OBVIOUS
  <1> USE DEF ControlInv, card, driver
  <1>1. /\ req.first \in Nat /\ start \in Nat /\ bank \in Nat /\ attempts \in Nat
        /\ initialized \in {-1, 0, 1} /\ retry \in 0 .. RetryMax
        /\ cardBank \in Nat /\ current_bank \in Nat
    BY RequestLemma DEF TypeInv, TypeOK
  <1>2. ASSUME NEW cmd \in {"READ", "WRITE"}, NEW m \in Minors,
               NEW n \in 1 .. MaxCount, NEW sector \in 0 .. NumBlocks,
               NEW data \in Buffers(cmd, n),
               Submit(cmd, m, sector, n,
                      [i \in Index |-> IF i < n THEN data[i] ELSE data[0]])
        PROVE  ControlInv'
    <2>1. /\ req'.minor = m /\ req'.count = n
          /\ req'.first = sector + hd[m].start_sect /\ req'.first \in Nat
      BY <1>2, SubmitLemma DEF TypeInv
    <2>2. InDevice(m, sector, n) =>
             /\ Parts[m].start_sect <= req'.first
             /\ req'.first + n <= Parts[m].start_sect + Parts[m].nr_sects
      BY <2>1, AcceptLemma, SDAssumption DEF TypeInv
    <2>3. RequestInv'
      BY <1>2, <2>1, <2>2 DEF Submit, RequestInv, Busy
    <2>4. CacheInv' /\ StartInv'
      BY <1>1, <1>2 DEF Submit, CacheInv, StartInv, Busy, Relocated
    <2> QED
      BY <2>3, <2>4
  <1>3. CASE DriverInit
    BY <1>3 DEF DriverInit, CardUp, CardDown, RequestInv, CacheInv, StartInv, Busy
  <1>4. CASE Table
    BY <1>4 DEF Table, Revalidate, Regrok, ReadTable, RequestInv, CacheInv, StartInv, Busy
  <1>5. CASE Select
    <2>1. /\ retry' = 0 /\ pc = "select"
          /\ (pc' = "bank" /\ initialized = 1) \/ pc' = "init" \/ pc' = "error"
          /\ UNCHANGED <<card, initialized, current_bank, hd, req, start, bank, attempts>>
      BY <1>1, <1>5 DEF Select
    <2>2. req.first < BLOCKS_PER_BANK => start = req.first
      BY <1>1, <2>1, SDAssumption DEF StartInv, Relocated
    <2> QED
      BY <2>1, <2>2 DEF RequestInv, CacheInv, StartInv, Busy, Relocated
  <1>6. CASE InitDevice
    BY <1>1, <1>6, SDAssumption
    DEF InitDevice, CardUp, CardDown, RequestInv, CacheInv, StartInv, Busy, Relocated
  <1>7. CASE Bank
    <2>1. RequestInv' /\ CacheInv'
      BY <1>7 DEF Bank, RequestInv, CacheInv, Busy
    <2>2. StartInv'
      BY <1>1, <1>7 DEF Bank, CacheInv, StartInv, Relocated
    <2> QED
      BY <2>1, <2>2
  <1>8. CASE SwitchBank
    BY <1>1, <1>8 DEF SwitchBank, RequestInv, CacheInv, StartInv, Busy, Relocated
  <1>9. CASE SwitchFails
    BY <1>1, <1>9, SDAssumption
    DEF SwitchFails, RequestInv, CacheInv, StartInv, Busy, Relocated
  <1>10. CASE Command
    BY <1>10 DEF Command, RequestInv, CacheInv, StartInv, Busy, Relocated
  <1>11. CASE ReadBlock \/ WriteBlock
    <2>1. UNCHANGED <<cardBank, driver, hd, pc, req, start, bank, code, attempts, faults>>
      BY <1>11 DEF ReadBlock, WriteBlock, Move
    <2> QED
      BY <2>1 DEF RequestInv, CacheInv, StartInv, Relocated
  <1>12. CASE Stop
    BY <1>12 DEF Stop, RequestInv, CacheInv, StartInv, Busy
  <1>13. CASE TransferFails
    <2>1. ASSUME req.first < BLOCKS_PER_BANK PROVE start = req.first
      <3>1. ~Relocated
        BY <1>1, <2>1, SDAssumption DEF Relocated
      <3>2. start = InBank(req.first, req.first \div BLOCKS_PER_BANK)
        BY <1>13, <3>1 DEF TransferFails, StartInv
      <3> QED
        BY <1>1, <2>1, <3>2, InBankLemma
    <2> QED
      BY <1>13, <2>1 DEF TransferFails, RequestInv, CacheInv, StartInv, Busy
  <1>14. CASE Fail
    <2>1. retry = 0 /\ MayRetry /\ attempts > 0
      BY <1>14, SDAssumption DEF Fail, CacheInv, RequestInv, Busy, MayRetry
    <2>2. /\ pc' = "select" /\ initialized' = 0 /\ attempts' \in Nat /\ attempts' > 1
          /\ UNCHANGED <<card, current_bank, hd, req, start, bank>>
      BY <1>1, <1>14, <2>1, SDAssumption DEF Fail, Reinit
    <2>3. ~Relocated' => start' = req'.first
      BY <1>1, <1>14, <2>2, SDAssumption DEF Fail, StartInv, Relocated
    <2>4. RequestInv'
      BY <1>14, <2>2 DEF Fail, RequestInv, Busy
    <2>5. CacheInv'
      BY <2>2 DEF CacheInv, Busy
    <2>6. StartInv'
      BY <2>2, <2>3 DEF StartInv
    <2> QED
      BY <2>4, <2>5, <2>6
  <1>15. CASE UNCHANGED vars
    BY <1>15 DEF vars, RequestInv, CacheInv, StartInv, Relocated
  <1> QED
    BY <1>2, <1>3, <1>4, <1>5, <1>6, <1>7, <1>8, <1>9, <1>10, <1>11, <1>12,
       <1>13, <1>14, <1>15
    DEF Next, Requests, Step

LEMMA DataStep == TypeInv /\ FlashInv /\ [Next]_vars => DataInv'
  <1> SUFFICES ASSUME TypeInv, FlashInv, [Next]_vars PROVE DataInv'
    OBVIOUS
  <1> USE DEF FlashInv, card, driver
  <1>1. /\ req.first \in Nat /\ req.count \in 1 .. MaxCount /\ moved \in 0 .. MaxCount
        /\ req.cmd \in {"READ", "WRITE"} /\ req.data \in [Index -> Data]
        /\ flash \in [Blocks -> Data] /\ buf \in [Index -> Data]
    BY RequestLemma DEF TypeInv, TypeOK
  <1>2. CASE ReadBlock
    <2>1. /\ pc = "transfer" /\ pc' = pc /\ moved < req.count /\ moved' = moved + 1
          /\ req.cmd = "READ" /\ req' = req /\ flash' = flash /\ attempts' = attempts
      BY <1>2 DEF ReadBlock, Move
    <2>2. ~Crosses /\ ~Relocated => buf' = [buf EXCEPT ![moved] = flash[req.first + moved]]
      BY <1>2, <2>1, AddressLemma DEF ReadBlock, TypeInv
    <2>3. moved \in Index
      BY <1>1, <2>1, SDAssumption DEF Index
    <2>4. MovedRight(moved)'
      <3> SUFFICES ASSUME ~Crosses, ~Relocated, NEW i \in 0 .. moved
                   PROVE  flash[req.first + i] = buf'[i]
        BY <1>1, <2>1 DEF MovedRight, Crosses, Relocated
      <3>1. CASE i = moved
        BY <1>1, <2>2, <2>3, <3>1
      <3>2. CASE i # moved
        <4>1. i \in 0 .. moved - 1
          BY <1>1, <3>2
        <4>2. flash[req.first + i] = buf[i]
          BY <2>1, <4>1 DEF DataInv, MovedRight
        <4>3. i \in Index
          BY <1>1, <2>3, SDAssumption DEF Index
        <4> QED
          BY <1>1, <2>2, <3>2, <4>2, <4>3
      <3> QED
        BY <3>1, <3>2
    <2> QED
      BY <1>1, <2>1, <2>4 DEF DataInv
  <1>3. CASE WriteBlock
    <2>1. /\ pc = "transfer" /\ pc' = pc /\ moved < req.count /\ moved' = moved + 1
          /\ req.cmd = "WRITE" /\ req' = req /\ buf' = buf /\ attempts' = attempts
      BY <1>3 DEF WriteBlock, Move
    <2>2. ~Crosses /\ ~Relocated =>
             /\ req.first + moved \in Blocks
             /\ flash' = [flash EXCEPT ![req.first + moved] = req.data[moved]]
      BY <1>3, <2>1, AddressLemma DEF WriteBlock, TypeInv
    <2>3. MovedRight(moved)'
      <3> SUFFICES ASSUME ~Crosses, ~Relocated, NEW i \in 0 .. moved
                   PROVE  flash'[req.first + i] = req.data[i]
        BY <1>1, <2>1 DEF MovedRight, Crosses, Relocated
      <3>1. CASE i = moved
        BY <1>1, <2>2, <3>1
      <3>2. CASE i # moved
        <4>1. i \in 0 .. moved - 1
          BY <1>1, <3>2
        <4>2. flash[req.first + i] = req.data[i]
          BY <2>1, <4>1 DEF DataInv, MovedRight
        <4>3. req.first + i # req.first + moved
          BY <1>1, <3>2
        <4>4. req.first + i \in Blocks
          BY <1>1, <2>2, <4>1, SDAssumption, SMTT(30) DEF Blocks
        <4> QED
          BY <1>1, <2>2, <4>2, <4>3, <4>4
      <3> QED
        BY <3>1, <3>2
    <2> QED
      BY <1>1, <2>1, <2>3 DEF DataInv
  <1>4. CASE Command
    BY <1>1, <1>4 DEF Command, DataInv, MovedRight
  <1>5. CASE Stop
    BY <1>5 DEF Stop, DataInv, MovedRight, Crosses, Relocated
  <1>6. CASE Table
    BY <1>6 DEF Table, Revalidate, Regrok, ReadTable, DataInv, MovedRight, Crosses, Relocated
  <1>7. ASSUME NEW cmd \in {"READ", "WRITE"}, NEW m \in Minors,
               NEW n \in 1 .. MaxCount, NEW sector \in 0 .. NumBlocks,
               NEW data \in Buffers(cmd, n),
               Submit(cmd, m, sector, n,
                      [i \in Index |-> IF i < n THEN data[i] ELSE data[0]])
        PROVE  DataInv'
    BY <1>7 DEF Submit, DataInv
  <1>8. CASE DriverInit
    BY <1>8 DEF DriverInit, DataInv, MovedRight
  <1>9. CASE Select \/ InitDevice \/ Bank \/ SwitchBank \/ SwitchFails \/ TransferFails
    BY <1>9 DEF Select, InitDevice, Bank, SwitchBank, SwitchFails, TransferFails, DataInv
  <1>10. CASE Fail
    BY <1>10 DEF Fail, DataInv
  <1>11. CASE UNCHANGED vars
    BY <1>11 DEF vars, DataInv, MovedRight, Crosses, Relocated
  <1> QED
    BY <1>2, <1>3, <1>4, <1>5, <1>6, <1>7, <1>8, <1>9, <1>10, <1>11
    DEF Next, Requests, Step

\* The inductive invariant of the flash driver.
THEOREM FlashInvariance == Spec => []FlashInv
  <1>1. Init => FlashInv
    BY DEF Init, FlashInv, RequestInv, CacheInv, StartInv, DataInv, Busy
  <1>2. TypeInv /\ FlashInv /\ [Next]_vars => FlashInv'
    BY ControlStep, DataStep DEF FlashInv, ControlInv
  <1> QED
    BY <1>1, <1>2, TypeInvariance, PTL DEF Spec

\* The bank the driver takes for selected is the one the card uses whenever
\* an address is given, after any errors and retries (sd.c:861-874).
THEOREM BankAgreement == Spec => []BankAgrees
  <1>1. FlashInv => BankAgrees
    BY DEF FlashInv, StartInv, BankAgrees
  <1> QED
    BY <1>1, FlashInvariance, PTL

\* A request that succeeds moved the blocks it names, in either direction,
\* if it stayed in one bank and was not retried outside bank 0.
THEOREM ServedRight == Spec => []RequestServed
  <1>1. TypeInv /\ FlashInv => RequestServed
    BY DEF FlashInv, DataInv, MovedRight, Served, RequestServed
  <1> QED
    BY <1>1, TypeInvariance, FlashInvariance, PTL

-----------------------------------------------------------------------------
\* Only the transfer of a block of a write changes the card, and in a
\* request of one bank that is the block whose turn it is.
LEMMA ChangeLemma ==
    ASSUME TypeInv, FlashInv, [Next]_vars, ~Crosses, ~Relocated,
           NEW b \in Blocks, Changed(b)
    PROVE  /\ pc = "transfer" /\ req.cmd = "WRITE" /\ moved < req.count
           /\ b = req.first + moved
  <1> USE DEF card, driver
  <1>1. WriteBlock
    <2>1. flash' # flash
      BY DEF Changed
    <2>2. ~CardUp /\ ~CardDown
      BY <2>1 DEF CardUp, CardDown
    <2>3. ~(\E c \in {"READ", "WRITE"}, m \in Minors, n \in 1 .. MaxCount :
              \E sector \in 0 .. NumBlocks, data \in Buffers(c, n) :
                 Submit(c, m, sector, n,
                        [i \in Index |-> IF i < n THEN data[i] ELSE data[0]]))
      BY <2>1 DEF Submit
    <2> QED
      BY <2>1, <2>2, <2>3
      DEF Next, Requests, Step, vars, Table, Revalidate, Regrok, ReadTable, DriverInit, Select,
          InitDevice, Bank, SwitchBank, SwitchFails, Command, ReadBlock, Stop,
          TransferFails, Fail
  <1>2. pc = "transfer" /\ req.cmd = "WRITE" /\ moved < req.count
    BY <1>1 DEF WriteBlock, Move
  <1>3. Addressed = {req.first + moved}
    BY <1>2, AddressLemma DEF TypeInv, FlashInv
  <1>4. flash' = [flash EXCEPT ![req.first + moved] = req.data[moved]]
    BY <1>1, <1>3 DEF WriteBlock
  <1>5. flash \in [Blocks -> Data]
    BY DEF TypeInv, TypeOK
  <1> QED
    BY <1>2, <1>4, <1>5 DEF Changed

\* Failing or not, only a write changes blocks, and only blocks of its
\* request, which lie in its partition even when the table is cleared and
\* read again around it (sd.c:940-1057, 1311-1317, 1339-1359).
THEOREM WritesStayInRequest == Spec => WritesStayInside
  <1>1. ASSUME TypeInv, FlashInv, [Next]_vars, NEW b \in Blocks, Changed(b),
               ~Crosses, ~Relocated
        PROVE  /\ req.cmd = "WRITE" /\ b \in req.first .. req.first + req.count - 1
               /\ b >= Parts[req.minor].start_sect
               /\ b < Parts[req.minor].start_sect + Parts[req.minor].nr_sects
    <2>1. /\ req.first \in Nat /\ req.count \in 1 .. MaxCount /\ moved \in 0 .. MaxCount
          /\ req.minor \in Minors
      BY <1>1, RequestLemma DEF TypeInv, TypeOK
    <2>2. /\ pc = "transfer" /\ req.cmd = "WRITE" /\ moved < req.count
          /\ b = req.first + moved
      BY <1>1, ChangeLemma
    <2>3. /\ Parts[req.minor].start_sect <= req.first
          /\ req.first + req.count
                <= Parts[req.minor].start_sect + Parts[req.minor].nr_sects
      BY <1>1, <2>2 DEF FlashInv, RequestInv, Busy
    <2>4. b \in req.first .. req.first + req.count - 1
      BY <2>1, <2>2, SDAssumption
    <2> QED
      BY <2>1, <2>2, <2>3, <2>4, PartsLemma, SDAssumption
  <1>2. TypeInv /\ FlashInv /\ [Next]_vars =>
          [\A b \in Blocks :
             Changed(b) /\ ~Crosses /\ ~Relocated =>
                /\ req.cmd = "WRITE" /\ b \in req.first .. req.first + req.count - 1
                /\ b >= Parts[req.minor].start_sect
                /\ b < Parts[req.minor].start_sect + Parts[req.minor].nr_sects]_vars
    BY <1>1
  <1> QED
    BY <1>2, TypeInvariance, FlashInvariance, PTL DEF Spec, WritesStayInside
=============================================================================
