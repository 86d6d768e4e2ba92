-------------------------- MODULE SansaClockProofs --------------------------
(* Proofs about SansaClock, for any size of a byte and any length of a     *)
(* day: what four bytes of a running counter make, the date of every       *)
(* second that the counter can show, and the battery's percentage.         *)
EXTENDS SansaClock, WellFoundedInduction, TLAPS

LEMMA DivLemma ==
    ASSUME NEW a \in Nat, NEW b \in Nat \ {0}
    PROVE  \E q \in Nat, r \in 0 .. b - 1 :
               q = a \div b /\ r = a % b /\ a = q * b + r
  <1> DEFINE q == a \div b
             r == a % b
  <1>1. q \in Nat /\ r \in 0 .. b - 1 /\ q = a \div b /\ r = a % b
    OBVIOUS
  <1> HIDE DEF q, r
  <1>2. a = q * b + r
    BY <1>1
  <1> QED
    BY <1>1, <1>2

\* A quotient is the only one.
LEMMA DivUnique ==
    ASSUME NEW b \in Nat \ {0}, NEW q \in Int, NEW r \in 0 .. b - 1
    PROVE  (q * b + r) \div b = q
  OBVIOUS

LEMMA MulMono ==
    ASSUME NEW x \in Int, NEW y \in Int, NEW b \in Nat, x <= y
    PROVE  x * b <= y * b
  OBVIOUS

LEMMA DivMono ==
    ASSUME NEW a \in Nat, NEW b \in Nat \ {0}
    PROVE  a \div b <= (a + 1) \div b
  OBVIOUS

LEMMA DivDiv ==
    ASSUME NEW a \in Nat, NEW b \in Nat \ {0}, NEW c \in Nat \ {0}
    PROVE  a \div (b * c) = (a \div b) \div c
  <1>1. PICK q \in Nat, z \in 0 .. b - 1 : q = a \div b /\ a = q * b + z
    BY DivLemma
  <1>2. PICK p \in Nat, y \in 0 .. c - 1 : p = q \div c /\ q = p * c + y
    <2>1. q \in Nat
      OBVIOUS
    <2> QED
      BY <2>1, DivLemma
  <1>3. a = q * b + z /\ q = p * c + y
    BY <1>1, <1>2
  <1> DEFINE r == y * b + z
             d == b * c
  <1>4. a = p * d + r
    <2>1. q * b = p * (b * c) + y * b
      BY <1>3
    <2> QED
      BY <1>3, <2>1
  <1>5. r \in 0 .. d - 1 /\ d \in Nat \ {0}
    <2>1. y * b <= (c - 1) * b
      BY MulMono
    <2>2. y * b >= 0 /\ d > 0
      OBVIOUS
    <2> QED
      BY <2>1, <2>2
  <1>6. (p * d + r) \div d = p
    <2> HIDE DEF d, r
    <2> QED
      BY <1>5, DivUnique
  <1>7. a \div d = p
    BY <1>4, <1>6, Zenon
  <1> QED
    BY <1>1, <1>2, <1>7, Zenon
-----------------------------------------------------------------------------
(* Battery *)

LEMMA TableLemma == \A n \in 0 .. 10 : table[n] = 3300 + 90 * n
  BY DEF table

\* The table of voltages is a straight line, so the percentage is one.
LEMMA PercentLemma ==
    ASSUME NEW v \in Nat
    PROVE  /\ voltage_to_percent(v) = IF v <= 3300 THEN 0 ELSE IF v >= 4200 THEN 100
                                      ELSE (v - 3300) \div 9
           /\ voltage_to_percent(v) \in 0 .. 100
  <1>1. table[0] = 3300 /\ table[10] = 4200
    BY TableLemma
  <1>2. CASE v <= 3300 \/ v >= 4200
    BY <1>1, <1>2 DEF voltage_to_percent
  <1>3. CASE 3300 < v /\ v < 4200
    <2> DEFINE P(n) == /\ n < 10 => ~Above(n, v)
                       /\ \A m \in 0 .. n - 1 : Above(m, v)
               k == (v - 3301) \div 90
    <2>1. \A m \in 0 .. 9 : Above(m, v) <=> 3390 + 90 * m < v
      BY TableLemma DEF Above
    <2>2. k \in 0 .. 9 /\ P(k)
      <3>1. k \in 0 .. 9 /\ 90 * k <= v - 3301 /\ v - 3301 < 90 * k + 90
        BY <1>3
      <3> HIDE DEF k
      <3> QED
        BY <2>1, <3>1
    <2> DEFINE n == Nearest(v)
    <2>3. n \in 0 .. 10 /\ P(n)
      <3>1. \E m \in 0 .. 10 : P(m)
        BY <2>2
      <3>2. n = CHOOSE m \in 0 .. 10 : P(m)
        BY DEF Nearest
      <3> HIDE DEF P, n
      <3> QED
        BY <3>1, <3>2
    <2>4. n \in 0 .. 9
      <3>1. n = 10 => Above(9, v)
        BY <2>3
      <3> QED
        BY <1>3, <2>1, <2>3, <3>1
    <2>5. v <= 3390 + 90 * n /\ (n > 0 => 3300 + 90 * n < v)
      <3>1. ~Above(n, v) /\ (n > 0 => Above(n - 1, v))
        BY <2>3, <2>4
      <3> HIDE DEF n
      <3> QED
        BY <2>1, <2>4, <3>1
    <2>6. voltage_to_percent(v) = n * 10 + Ones(n, v)
      BY <1>1, <1>3 DEF voltage_to_percent
    <2> HIDE DEF n
    <2>7. Ones(n, v) = ((v - (3300 + 90 * n)) * 10) \div 90
      <3>1. table[n] = 3300 + 90 * n /\ table[n + 1] = 3390 + 90 * n
        BY <2>4, TableLemma
      <3>2. table[n + 1] - table[n] = 90
        BY <2>4, <3>1
      <3> QED
        BY <3>1, <3>2 DEF Ones
    <2>8. n * 10 + ((v - (3300 + 90 * n)) * 10) \div 90 = (v - 3300) \div 9
      BY <1>3, <2>4, <2>5
    <2>9. (v - 3300) \div 9 \in 0 .. 100
      BY <1>3
    <2> QED
      BY <1>3, <2>6, <2>7, <2>8, <2>9
  <1> QED
    BY <1>2, <1>3

LEMMA VoltageLemma ==
    ASSUME NEW r \in 0 .. 1023
    PROVE  battery_adc_voltage(r) \in Nat
  BY DEF battery_adc_voltage
-----------------------------------------------------------------------------
(* Clock *)

\* what the bytes not read yet stand for
High(n) == (counter \div Weight(n)) * Weight(n)

ClockInv ==
    /\ counter < Weight(4)
    /\ pc \in {"closed", "open"} => i = 0 /\ tmp = [n \in 0 .. 3 |-> 0]
    /\ pc = "reading" => /\ \A n \in 0 .. 3 : n >= i => tmp[n] = 0
                         /\ began <= Seconds + High(i)
    /\ pc = "answered" => NotBehind

IInv == TypeOK /\ ClockInv /\ BatteryRight

LEMMA WeightLemma ==
    /\ \A n \in 0 .. 4 : Weight(n) \in Nat \ {0}
    /\ \A n \in 0 .. 3 : Weight(n + 1) = Weight(n) * BYTE
    /\ Weight(0) = 1
    /\ Weight(4) = BYTE * BYTE * BYTE * BYTE
  <1>1. BYTE \in Nat \ {0}
    BY ClockAssumption DEF ClockAssumption
  <1>2. /\ Weight(0) = 1 /\ Weight(1) = BYTE /\ Weight(2) = BYTE * BYTE
        /\ Weight(3) = BYTE * BYTE * BYTE /\ Weight(4) = BYTE * BYTE * BYTE * BYTE
    BY DEF Weight
  <1>3. /\ BYTE * BYTE \in Nat \ {0} /\ BYTE * BYTE * BYTE \in Nat \ {0}
        /\ BYTE * BYTE * BYTE * BYTE \in Nat \ {0}
    <2>1. \A x, y \in Nat \ {0} : x * y \in Nat \ {0}
      OBVIOUS
    <2>2. BYTE * BYTE \in Nat \ {0}
      BY <1>1, <2>1
    <2>3. BYTE * BYTE * BYTE \in Nat \ {0}
      BY <1>1, <2>1, <2>2
    <2> QED
      BY <1>1, <2>1, <2>2, <2>3
  <1>4. \A n \in 0 .. 4 : n = 0 \/ n = 1 \/ n = 2 \/ n = 3 \/ n = 4
    OBVIOUS
  <1>5. \A n \in 0 .. 4 : Weight(n) \in Nat \ {0}
    BY <1>1, <1>2, <1>3, <1>4
  <1>6. \A n \in 0 .. 3 : Weight(n + 1) = Weight(n) * BYTE
    <2> SUFFICES ASSUME NEW n \in 0 .. 3 PROVE Weight(n + 1) = Weight(n) * BYTE
      OBVIOUS
    <2>1. CASE n = 0
      BY <1>1, <1>2, <2>1
    <2>2. CASE n = 1
      BY <1>2, <2>2
    <2>3. CASE n = 2
      BY <1>2, <2>3
    <2>4. CASE n = 3
      BY <1>2, <2>4
    <2> QED
      BY <2>1, <2>2, <2>3, <2>4
  <1> QED
    BY <1>2, <1>5, <1>6

LEMMA SecondsLemma ==
    ASSUME TypeOK
    PROVE  /\ Seconds \in Int
           /\ \A n \in 0 .. 3 : Byte(n) \in 0 .. BYTE - 1
  <1> USE DEF TypeOK
  <1>1. BYTE \in Nat \ {0}
    BY ClockAssumption DEF ClockAssumption
  <1>2. \A n \in 0 .. 3 : tmp[n] \in Int /\ Weight(n) \in Int
    BY <1>1, WeightLemma
  <1>3. \A x, y \in Int : x * y \in Int
    OBVIOUS
  <1>4. Seconds \in Int
    BY <1>2, <1>3 DEF Seconds
  <1>5. ASSUME NEW n \in 0 .. 3
        PROVE  Byte(n) \in 0 .. BYTE - 1
    <2>1. Weight(n) \in Nat \ {0}
      BY WeightLemma
    <2>2. counter \div Weight(n) \in Nat
      BY <2>1, DivLemma
    <2> QED
      BY <1>1, <2>2, DivLemma DEF Byte
  <1> QED
    BY <1>4, <1>5

\* A byte and what lies above it make what lay above the byte below.
LEMMA HighLemma ==
    ASSUME TypeOK, NEW n \in 0 .. 3
    PROVE  High(n) = Byte(n) * Weight(n) + High(n + 1)
  <1>1. /\ BYTE \in Nat \ {0} /\ Weight(n) \in Nat \ {0} /\ counter \in Nat
        /\ Weight(n + 1) = Weight(n) * BYTE
    BY WeightLemma, ClockAssumption, SMTT(30) DEF ClockAssumption, TypeOK
  <1>2. counter \div Weight(n + 1) = (counter \div Weight(n)) \div BYTE
    BY <1>1, DivDiv
  <1>3. counter \div Weight(n) \in Nat
    BY <1>1, DivLemma
  <1>4. PICK q \in Nat, r \in 0 .. BYTE - 1 :
            /\ q = (counter \div Weight(n)) \div BYTE
            /\ r = (counter \div Weight(n)) % BYTE
            /\ counter \div Weight(n) = q * BYTE + r
    <2> DEFINE h == counter \div Weight(n)
    <2>1. h \in Nat
      BY <1>3
    <2> HIDE DEF h
    <2>2. \E q \in Nat, r \in 0 .. BYTE - 1 :
              q = h \div BYTE /\ r = h % BYTE /\ h = q * BYTE + r
      BY <1>1, <2>1, DivLemma
    <2> QED
      BY <2>2 DEF h
  <1>5. High(n) = (q * BYTE + r) * Weight(n)
    BY <1>4, Zenon DEF High
  <1>6. High(n + 1) = q * (Weight(n) * BYTE) /\ Byte(n) = r
    BY <1>1, <1>2, <1>4, Zenon DEF High, Byte
  <1>7. (q * BYTE + r) * Weight(n) = r * Weight(n) + q * (Weight(n) * BYTE)
    <2> DEFINE w == Weight(n)
    <2>1. w \in Int /\ BYTE \in Int /\ q \in Int /\ r \in Int
      BY <1>1
    <2> HIDE DEF w
    <2>2. (q * BYTE + r) * w = r * w + q * (w * BYTE)
      BY <2>1
    <2> QED
      BY <2>2 DEF w
  <1> QED
    BY <1>5, <1>6, <1>7
LEMMA InitLemma == Init => IInv
  <1> SUFFICES ASSUME Init PROVE IInv
    OBVIOUS
  <1> USE DEF Init
  <1>1. BYTE \in Nat \ {0, 1}
    BY ClockAssumption DEF ClockAssumption
  <1>2. counter \in Nat /\ counter < Weight(4)
    <2>1. Weight(4) = BYTE * BYTE * BYTE * BYTE /\ Weight(4) \in Nat
      BY WeightLemma
    <2>2. counter \in 0 .. Weight(4) - 1
      BY <2>1, ClockAssumption DEF ClockAssumption
    <2> QED
      BY <2>1, <2>2
  <1>3. TypeOK
    BY <1>1, <1>2 DEF TypeOK
  <1>4. ClockInv
    BY <1>2 DEF ClockInv
  <1>5. BatteryRight
    BY DEF BatteryRight, battery_adc_voltage
  <1> QED
    BY <1>3, <1>4, <1>5 DEF IInv

LEMMA ReadByteStep ==
    ASSUME TypeOK, ClockInv, ReadByte
    PROVE  TypeOK' /\ ClockInv'
  <1>1. /\ i \in 0 .. 3 /\ pc = "reading"
        /\ tmp' = [tmp EXCEPT ![i] = Byte(i)] /\ i' = i + 1
        /\ UNCHANGED <<counter, pc, began, now, apm>>
    BY DEF ReadByte, TypeOK
  <1>2. Byte(i) \in 0 .. BYTE - 1 /\ Seconds \in Int
    BY <1>1, SecondsLemma
  <1>3. TypeOK'
    <2>1. tmp' \in [0 .. 3 -> 0 .. BYTE - 1]
      BY <1>1, <1>2 DEF TypeOK
    <2>2. i' \in 0 .. 4
      BY <1>1
    <2> QED
      BY <1>1, <2>1, <2>2 DEF TypeOK, apm
  <1>4. \A n \in 0 .. 3 : n >= i' => tmp'[n] = 0
    BY <1>1 DEF ClockInv, TypeOK
  <1>5. Seconds' = Seconds + Byte(i) * Weight(i)
    <2>1. /\ tmp[i] = 0 /\ tmp \in [0 .. 3 -> 0 .. BYTE - 1]
          /\ \A n \in 0 .. 3 : tmp'[n] = IF n = i THEN Byte(i) ELSE tmp[n]
      BY <1>1 DEF ClockInv, TypeOK
    <2>2. BYTE \in Nat /\ \A n \in 0 .. 3 : tmp[n] \in Int /\ Weight(n) \in Int
      BY <2>1, WeightLemma, ClockAssumption DEF ClockAssumption
    <2> DEFINE b == Byte(i)
    <2>3. b \in Int
      BY <1>2
    <2>4. /\ Seconds = tmp[0] * Weight(0) + tmp[1] * Weight(1) + tmp[2] * Weight(2)
                                          + tmp[3] * Weight(3)
          /\ Seconds' = tmp'[0] * Weight(0) + tmp'[1] * Weight(1) + tmp'[2] * Weight(2)
                                            + tmp'[3] * Weight(3)
      BY DEF Seconds, Weight
    <2> HIDE DEF b
    <2>5. \A x \in Int : 0 * x = 0 /\ (b * x) \in Int
      BY <2>3
    <2>6. \A n \in 0 .. 3 : tmp[n] * Weight(n) \in Int
      <3>1. \A x, y \in Int : x * y \in Int
        OBVIOUS
      <3> QED
        BY <2>2, <3>1
    <2>7. \A n \in 0 .. 3 : tmp'[n] * Weight(n) = IF n = i THEN tmp[n] * Weight(n) + b * Weight(n)
                                                          ELSE tmp[n] * Weight(n)
      BY <2>1, <2>2, <2>5 DEF b
    <2>8. \A n \in 0 .. 3 : b * Weight(n) \in Int
      BY <2>2, <2>5
    <2>9. i = 0 \/ i = 1 \/ i = 2 \/ i = 3
      BY <1>1
    <2>10. Seconds' = Seconds + b * Weight(i)
      BY <2>4, <2>6, <2>7, <2>8, <2>9
    <2> QED
      BY <2>10 DEF b
  <1>6. High(i) = Byte(i) * Weight(i) + High(i + 1)
    BY <1>1, HighLemma
  <1>7. began' <= Seconds' + High(i)'
    <2> DEFINE b == Byte(i) * Weight(i)
    <2>1. b \in Int /\ High(i + 1) \in Int
      <3>1. /\ Weight(i) \in Int /\ Weight(i + 1) \in Nat \ {0} /\ counter \in Nat
        BY <1>1, WeightLemma DEF TypeOK
      <3>2. counter \div Weight(i + 1) \in Int
        BY <3>1, DivLemma
      <3>3. \A x, y \in Int : x * y \in Int
        OBVIOUS
      <3> QED
        BY <1>2, <3>1, <3>2, <3>3 DEF High
    <2>2. /\ began <= Seconds + High(i) /\ began' = began /\ began \in Nat
          /\ High(i) = b + High(i + 1) /\ Seconds' = Seconds + b
      BY <1>1, <1>5, <1>6 DEF ClockInv, TypeOK
    <2>3. High(i)' = High(i + 1)
      BY <1>1 DEF High
    <2> HIDE DEF b
    <2> QED
      BY <1>2, <2>1, <2>2, <2>3
  <1>8. (counter < Weight(4))'
    BY <1>1 DEF ClockInv, Weight
  <1> QED
    BY <1>1, <1>3, <1>4, <1>7, <1>8 DEF ClockInv
LEMMA OtherSteps ==
    ASSUME TypeOK, ClockInv, Open \/ Close \/ Ioctl \/ Convert \/ Return
    PROVE  TypeOK' /\ ClockInv'
  <1>1. counter' = counter /\ (counter < Weight(4))'
    BY DEF Open, Close, Ioctl, Convert, Return, ClockInv, Weight
  <1>2. BYTE \in Nat \ {0, 1} /\ 0 \in 0 .. BYTE - 1
    BY ClockAssumption DEF ClockAssumption
  <1>3. CASE Open \/ Close
    BY <1>1, <1>3 DEF Open, Close, read, apm, TypeOK, ClockInv
  <1>4. CASE Ioctl
    <2>1. TypeOK'
      BY <1>4 DEF Ioctl, apm, TypeOK
    <2>2. /\ tmp' = [n \in 0 .. 3 |-> 0] /\ i' = 0 /\ began' = counter
          /\ pc' = "reading"
      BY <1>4 DEF Ioctl, ClockInv
    <2>3. Seconds' = 0
      <3>1. \A n \in 0 .. 3 : Weight(n) \in Int
        BY WeightLemma
      <3>2. Seconds' = tmp'[0] * Weight(0) + tmp'[1] * Weight(1) + tmp'[2] * Weight(2)
                                           + tmp'[3] * Weight(3)
        BY DEF Seconds, Weight
      <3>3. \A x \in Int : 0 * x = 0
        OBVIOUS
      <3> QED
        BY <2>2, <3>1, <3>2, <3>3
    <2>4. High(i)' = counter
      <3>1. High(i)' = (counter \div 1) * 1
        BY <1>1, <2>2, WeightLemma DEF High
      <3> QED
        BY <3>1 DEF TypeOK
    <2> QED
      BY <1>1, <2>1, <2>2, <2>3, <2>4 DEF ClockInv, TypeOK
  <1>5. CASE Convert
    <2>1. TypeOK'
      BY <1>5 DEF Convert, apm, TypeOK
    <2>2. High(4) = 0
      <3>1. counter \in 0 .. Weight(4) - 1 /\ Weight(4) \in Nat \ {0}
        BY WeightLemma DEF ClockInv, TypeOK
      <3> DEFINE w == Weight(4)
      <3>2. counter \div w = 0
        <4> HIDE DEF w
        <4>1. (0 * w + counter) \div w = 0
          BY <3>1, DivUnique DEF w
        <4>2. w \in Int /\ counter \in Int
          BY <3>1 DEF w
        <4>3. 0 * w + counter = counter
          BY <4>2
        <4> QED
          BY <4>1, <4>3
      <3> QED
        BY <3>1, <3>2 DEF High
    <2>3. began <= Seconds
      BY <1>5, <2>2, SecondsLemma DEF Convert, ClockInv
    <2>4. NotBehind'
      BY <1>5, <2>3 DEF Convert, NotBehind, Seconds, Weight
    <2> QED
      BY <1>1, <1>5, <2>1, <2>4 DEF Convert, ClockInv
  <1>6. CASE Return
    <2>1. tmp' \in [0 .. 3 -> 0 .. BYTE - 1]
      BY <1>2, <1>6 DEF Return
    <2>2. TypeOK'
      BY <1>6, <2>1 DEF Return, apm, TypeOK
    <2> QED
      BY <1>1, <1>6, <2>2 DEF Return, ClockInv
  <1> QED
    BY <1>3, <1>4, <1>5, <1>6

LEMMA TickStep ==
    ASSUME TypeOK, ClockInv, Tick
    PROVE  TypeOK' /\ ClockInv'
  <1>1. counter' = counter + 1 /\ pc = "reading" /\ UNCHANGED <<pc, read, apm>>
    BY DEF Tick
  <1>2. TypeOK'
    BY <1>1 DEF TypeOK, read, apm
  <1>3. (counter < Weight(4))'
    BY DEF Tick, Weight
  <1>4. High(i) <= High(i)' /\ High(i) \in Int /\ High(i)' \in Int
    <2> DEFINE w == Weight(i)
    <2>1. w \in Nat \ {0} /\ counter \in Nat /\ counter + 1 \in Nat
      BY WeightLemma DEF TypeOK
    <2>2. High(i) = (counter \div w) * w /\ High(i)' = ((counter + 1) \div w) * w
      BY <1>1 DEF High, Weight, read
    <2> HIDE DEF w
    <2>3. counter \div w <= (counter + 1) \div w
      BY <2>1, DivMono
    <2>4. counter \div w \in Int /\ (counter + 1) \div w \in Int
      BY <2>1, DivLemma
    <2> DEFINE x == counter \div w
               y == (counter + 1) \div w
    <2>5. x \in Int /\ y \in Int /\ x <= y
      BY <2>3, <2>4
    <2> HIDE DEF x, y
    <2>6. x * w <= y * w /\ x * w \in Int /\ y * w \in Int
      BY <2>1, <2>5, MulMono
    <2> QED
      BY <2>2, <2>6 DEF x, y
  <1>5. Seconds' = Seconds /\ Seconds \in Int
    BY <1>1, SecondsLemma DEF Seconds, Weight, read
  <1>6. began' <= Seconds' + High(i)'
    <2>1. began <= Seconds + High(i) /\ began' = began /\ began \in Int
      BY <1>1 DEF ClockInv, read, TypeOK
    <2> DEFINE h == High(i)
               k == High(i)'
    <2>2. h <= k /\ h \in Int /\ k \in Int /\ began <= Seconds + h
      BY <1>4, <2>1
    <2> HIDE DEF h, k
    <2>3. began <= Seconds + k
      BY <1>5, <2>1, <2>2
    <2> QED
      BY <1>5, <2>1, <2>3 DEF k
  <1> QED
    BY <1>1, <1>2, <1>3, <1>6 DEF ClockInv, read

\* The inductive invariant: bytes read so far and what lies above them in the
\* counter never make less than the counter was at the start.
THEOREM ClockInvariance == Spec => []IInv
  <1>1. IInv /\ [Next]_vars => IInv'
    <2> SUFFICES ASSUME IInv, [Next]_vars PROVE IInv'
      OBVIOUS
    <2>1. TypeOK /\ ClockInv /\ BatteryRight
      BY DEF IInv
    <2>2. CASE Open
      BY <2>1, <2>2, OtherSteps DEF IInv, Open, BatteryRight, battery_adc_voltage
    <2>3. CASE Close \/ Ioctl \/ ReadByte \/ Convert \/ Return \/ Tick
      <3>1. TypeOK' /\ ClockInv'
        BY <2>1, <2>3, OtherSteps, ReadByteStep, TickStep
      <3>2. UNCHANGED apm
        BY <2>3 DEF Close, Ioctl, ReadByte, Convert, Return, Tick
      <3> QED
        BY <2>1, <3>1, <3>2 DEF IInv, apm, BatteryRight, battery_adc_voltage
    <2>4. ASSUME NEW r \in Readings, Apm(r)
          PROVE  IInv'
      <3>1. r \in 0 .. 1023
        BY ClockAssumption DEF ClockAssumption
      <3>2. /\ reading' = r /\ UNCHANGED <<counter, pc, read>>
            /\ percentage' = voltage_to_percent(battery_adc_voltage(r))
        BY <2>4 DEF Apm
      <3> DEFINE v == battery_adc_voltage(r)
                 percent == voltage_to_percent(v)
      <3>6. /\ percent = IF v <= 3300 THEN 0 ELSE IF v >= 4200 THEN 100
                        ELSE (v - 3300) \div 9
            /\ percent \in 0 .. 100 /\ percentage' = percent
        <4>1. v \in Nat
          BY <3>1, VoltageLemma
        <4> HIDE DEF v
        <4>2. /\ percent = IF v <= 3300 THEN 0 ELSE IF v >= 4200 THEN 100
                           ELSE (v - 3300) \div 9
              /\ percent \in 0 .. 100
          BY <4>1, PercentLemma
        <4> QED
          BY <3>2, <4>2 DEF v
      <3>3. TypeOK'
        <4> HIDE DEF percent
        <4> QED
          BY <2>1, <3>1, <3>2, <3>6 DEF TypeOK, read
      <3>4. ClockInv'
        BY <2>1, <3>2 DEF ClockInv, read, NotBehind, Seconds, High, Weight
      <3>5. BatteryRight'
        <4> HIDE DEF percent
        <4> QED
          BY <3>2, <3>6 DEF BatteryRight, battery_adc_voltage
      <3> QED
        BY <3>3, <3>4, <3>5 DEF IInv
    <2>5. CASE UNCHANGED vars
      BY <2>1, <2>5 DEF IInv, vars, read, apm, TypeOK, ClockInv, NotBehind, Seconds,
                        High, Weight, BatteryRight, battery_adc_voltage
    <2> QED
      BY <2>2, <2>3, <2>4, <2>5 DEF Next
  <1> QED
    BY <1>1, InitLemma, PTL DEF Spec

\* Every variable but the date keeps its type, for bytes and days of any size
\* (rtc.c:35-63, battery.c:90-104).
THEOREM TypeCorrect == Spec => []TypeOK
  BY ClockInvariance, PTL DEF IInv

\* However many seconds pass between the four bytes, what they make is never
\* before the time the read began (rtc.c:57-63).
THEOREM NeverBehind == Spec => [](pc = "answered" => NotBehind)
  <1>1. IInv => (pc = "answered" => NotBehind)
    BY DEF IInv, ClockInv
  <1> QED
    BY <1>1, ClockInvariance, PTL

\* The percentage is the straight line from 3.3 V to 4.2 V, for every reading
\* (battery.c:53-104).
THEOREM BatteryStraight == Spec => []BatteryRight
  BY ClockInvariance, PTL DEF IInv
-----------------------------------------------------------------------------
(* Bytes *)

\* A byte read is still that of the counter, unless a byte above the lowest
\* has overflowed since the read began.
ByteInv ==
    /\ pc \in {"reading", "answered"} =>
          /\ began <= counter
          /\ \A n \in 1 .. 3 : n < i /\ began \div Weight(n) = counter \div Weight(n)
                                  => tmp[n] = Byte(n)
          /\ i > 0 /\ began \div Weight(1) = counter \div Weight(1) => tmp[0] <= Byte(0)
    /\ pc = "answered" => i = 4 /\ now = Date(Seconds)

LEMMA DivTypes ==
    ASSUME NEW x \in Nat, NEW n \in 0 .. 4
    PROVE  x \div Weight(n) \in Nat
  <1>1. Weight(n) \in Nat \ {0}
    BY WeightLemma
  <1> QED
    BY <1>1, DivLemma

\* One second more either overflows a byte or leaves it and those above alone.
LEMMA TickBytes ==
    ASSUME NEW b \in Nat, NEW c \in Nat, b <= c, NEW n \in 0 .. 4,
           b \div Weight(n) = (c + 1) \div Weight(n)
    PROVE  b \div Weight(n) = c \div Weight(n)
  <1> DEFINE w == Weight(n)
  <1>1. w \in Nat \ {0}
    BY WeightLemma
  <1> HIDE DEF w
  <1>2. c \div w <= (c + 1) \div w
    BY <1>1, DivMono
  <1>3. PICK p \in Nat, r \in 0 .. w - 1 : p = b \div w /\ b = p * w + r
    BY <1>1, DivLemma
  <1>4. PICK q \in Nat, s \in 0 .. w - 1 : q = c \div w /\ c = q * w + s
    BY <1>1, DivLemma
  <1>5. p <= q
    <2> SUFFICES ASSUME q + 1 <= p PROVE FALSE
      OBVIOUS
    <2>1. (q + 1) * w <= p * w
      BY <1>1, MulMono
    <2>2. (q + 1) * w = q * w + w /\ q * w \in Int /\ p * w \in Int
      BY <1>1
    <2> QED
      BY <1>1, <1>3, <1>4, <2>1, <2>2
  <1>6. b \div w = (c + 1) \div w
    BY DEF w
  <1>7. b \div w = c \div w
    BY <1>2, <1>3, <1>4, <1>5, <1>6
  <1> QED
    BY <1>7 DEF w

LEMMA ByteStep ==
    ASSUME IInv, ByteInv, [Next]_vars
    PROVE  ByteInv'
  <1>1. TypeOK /\ ClockInv
    BY DEF IInv
  <1>2. CASE Open \/ Close \/ Return \/ \E r \in Readings : Apm(r)
    BY <1>2 DEF Open, Close, Return, Apm, ByteInv
  <1>3. CASE Ioctl
    <2>1. pc' = "reading" /\ i' = 0 /\ began' = counter /\ counter' = counter
      BY <1>3 DEF Ioctl
    <2> QED
      BY <1>1, <2>1 DEF ByteInv, TypeOK
  <1>4. CASE ReadByte
    <2>1. /\ i \in 0 .. 3 /\ pc = "reading" /\ pc' = pc
          /\ tmp' = [tmp EXCEPT ![i] = Byte(i)] /\ i' = i + 1
          /\ UNCHANGED <<counter, began>>
      BY <1>1, <1>4 DEF ReadByte, TypeOK
    <2>2. /\ \A n \in 0 .. 3 : tmp'[n] = IF n = i THEN Byte(i) ELSE tmp[n]
          /\ \A n \in 0 .. 3 : Byte(n) \in 0 .. BYTE - 1 /\ Byte(n)' = Byte(n)
          /\ \A n \in 0 .. 4 : Weight(n)' = Weight(n)
      BY <1>1, <2>1, SecondsLemma DEF TypeOK, Byte, Weight
    <2>3. BYTE \in Nat
      BY ClockAssumption DEF ClockAssumption
    <2>4. began <= counter /\ began' <= counter'
      BY <2>1 DEF ByteInv
    <2>5. ASSUME NEW n \in 1 .. 3, n < i', began \div Weight(n) = counter \div Weight(n)
          PROVE  tmp'[n] = Byte(n)
      <3>1. n = i \/ n < i
        BY <2>1, <2>5
      <3> QED
        BY <2>1, <2>2, <2>5, <3>1 DEF ByteInv
    <2>6. ASSUME began \div Weight(1) = counter \div Weight(1)
          PROVE  tmp'[0] <= Byte(0)
      <3>1. CASE i = 0
        BY <2>2, <2>3, <3>1
      <3>2. CASE i > 0
        BY <2>1, <2>2, <2>6, <3>2 DEF ByteInv
      <3> QED
        BY <2>1, <3>1, <3>2
    <2> QED
      BY <2>1, <2>2, <2>4, <2>5, <2>6 DEF ByteInv
  <1>5. CASE Convert
    <2>1. /\ pc = "reading" /\ i = 4 /\ pc' = "answered" /\ now' = Date(Seconds)
          /\ UNCHANGED <<counter, i, tmp, began>>
      BY <1>5 DEF Convert
    <2>2. Date(Seconds)' = Date(Seconds)
      BY <2>1 DEF Seconds, Weight
    <2>3. \A n \in 0 .. 3 : Byte(n)' = Byte(n)
      BY <2>1 DEF Byte, Weight
    <2> QED
      BY <2>1, <2>2, <2>3 DEF ByteInv, Weight
  <1>6. CASE Tick
    <2>1. counter' = counter + 1 /\ pc = "reading" /\ UNCHANGED <<pc, i, tmp, began>>
      BY <1>6 DEF Tick, read
    <2>2. /\ began \in Nat /\ counter \in Nat /\ began <= counter /\ i \in 0 .. 4
          /\ tmp \in [0 .. 3 -> 0 .. BYTE - 1] /\ BYTE \in Nat \ {0}
      BY <1>1, <2>1, ClockAssumption DEF ClockAssumption, TypeOK, ByteInv
    <2>3. \A n \in 0 .. 3 : Byte(n)' = ((counter + 1) \div Weight(n)) % BYTE
      BY <2>1 DEF Byte, Weight
    <2>4. ASSUME NEW n \in 1 .. 3, n < i,
                 began \div Weight(n) = (counter + 1) \div Weight(n)
          PROVE  tmp[n] = ((counter + 1) \div Weight(n)) % BYTE
      <3>1. began \div Weight(n) = counter \div Weight(n)
        BY <2>2, <2>4, TickBytes
      <3> QED
        BY <2>1, <2>4, <3>1 DEF ByteInv, Byte
    <2>5. ASSUME i > 0, began \div Weight(1) = (counter + 1) \div Weight(1)
          PROVE  tmp[0] <= ((counter + 1) \div Weight(0)) % BYTE
      <3>1. began \div Weight(1) = counter \div Weight(1)
        BY <2>2, <2>5, TickBytes
      <3>2. tmp[0] <= (counter \div Weight(0)) % BYTE
        BY <2>1, <2>5, <3>1 DEF ByteInv, Byte
      <3>3. Weight(0) = 1 /\ Weight(1) = BYTE
        BY DEF Weight
      <3>4. counter \div BYTE = (counter + 1) \div BYTE
        BY <2>5, <3>1, <3>3
      <3>5. PICK q \in Nat, r \in 0 .. BYTE - 1 :
                q = counter \div BYTE /\ r = counter % BYTE /\ counter = q * BYTE + r
        BY <2>2, DivLemma
      <3>6. PICK p \in Nat, s \in 0 .. BYTE - 1 :
                /\ p = (counter + 1) \div BYTE /\ s = (counter + 1) % BYTE
                /\ counter + 1 = p * BYTE + s
        <4>1. counter + 1 \in Nat
          BY <2>2
        <4> QED
          BY <2>2, <4>1, DivLemma
      <3>7. s = r + 1
        <4>1. p = q /\ q * BYTE \in Int
          BY <2>2, <3>4, <3>5, <3>6
        <4> QED
          BY <2>2, <3>5, <3>6, <4>1
      <3>8. counter \div 1 = counter /\ (counter + 1) \div 1 = counter + 1
        BY <2>2
      <3> QED
        BY <2>2, <3>2, <3>3, <3>5, <3>6, <3>7, <3>8
    <2> QED
      BY <2>1, <2>2, <2>3, <2>4, <2>5 DEF ByteInv, Weight
  <1>7. CASE UNCHANGED vars
    <2>1. UNCHANGED <<pc, counter, i, tmp, began, now>>
      BY <1>7 DEF vars, read
    <2>2. Date(Seconds)' = Date(Seconds)
      BY <2>1 DEF Seconds, Weight
    <2>3. \A n \in 0 .. 3 : Byte(n)' = Byte(n)
      BY <2>1 DEF Byte, Weight
    <2> QED
      BY <2>1, <2>2, <2>3 DEF ByteInv, Weight
  <1> QED
    BY <1>2, <1>3, <1>4, <1>5, <1>6, <1>7 DEF Next

\* what the bytes below the n-th make
Low(n) == <<0, tmp[0] * Weight(0),
            tmp[0] * Weight(0) + tmp[1] * Weight(1),
            tmp[0] * Weight(0) + tmp[1] * Weight(1) + tmp[2] * Weight(2),
            Seconds>>[n + 1]

LEMMA LowLemma ==
    ASSUME TypeOK
    PROVE  /\ \A n \in 0 .. 3 : Low(n + 1) = Low(n) + tmp[n] * Weight(n)
           /\ \A n \in 0 .. 4 : Low(n) \in 0 .. Weight(n) - 1
           /\ \A n \in 0 .. 3 : tmp[n] \in 0 .. BYTE - 1 /\ tmp[n] * Weight(n) \in Nat
           /\ Low(4) = Seconds
  <1>1. BYTE \in Nat \ {0} /\ \A n \in 0 .. 3 : tmp[n] \in 0 .. BYTE - 1
    BY ClockAssumption DEF ClockAssumption, TypeOK
  <1>2. \A n \in 0 .. 3 : tmp[n] * Weight(n) \in Nat
    <2> SUFFICES ASSUME NEW n \in 0 .. 3 PROVE tmp[n] * Weight(n) \in Nat
      OBVIOUS
    <2>1. tmp[n] \in Nat /\ Weight(n) \in Nat
      BY <1>1, WeightLemma
    <2>2. \A x, y \in Nat : x * y \in Nat
      OBVIOUS
    <2> QED
      BY <2>1, <2>2
  <1>3. /\ Low(0) = 0 /\ Low(1) = tmp[0] * Weight(0)
        /\ Low(2) = tmp[0] * Weight(0) + tmp[1] * Weight(1)
        /\ Low(3) = tmp[0] * Weight(0) + tmp[1] * Weight(1) + tmp[2] * Weight(2)
        /\ Low(4) = Seconds
    BY DEF Low
  <1>4. \A n \in 0 .. 3 : Low(n + 1) = Low(n) + tmp[n] * Weight(n)
    <2> SUFFICES ASSUME NEW n \in 0 .. 3 PROVE Low(n + 1) = Low(n) + tmp[n] * Weight(n)
      OBVIOUS
    <2>1. n = 0 \/ n = 1 \/ n = 2 \/ n = 3
      OBVIOUS
    <2>2. Seconds = tmp[0] * Weight(0) + tmp[1] * Weight(1) + tmp[2] * Weight(2)
                                       + tmp[3] * Weight(3)
      BY DEF Seconds
    <2> QED
      BY <1>2, <1>3, <2>1, <2>2
  <1>5. ASSUME NEW n \in 0 .. 3, Low(n) \in 0 .. Weight(n) - 1
        PROVE  Low(n + 1) \in 0 .. Weight(n + 1) - 1
    <2> DEFINE w == Weight(n)
               t == tmp[n]
               x == Low(n)
    <2>1. /\ w \in Nat \ {0} /\ t \in 0 .. BYTE - 1 /\ x \in 0 .. w - 1
          /\ Weight(n + 1) = w * BYTE /\ Low(n + 1) = x + t * w
      BY <1>1, <1>4, <1>5, WeightLemma
    <2> HIDE DEF w, t, x
    <2>2. t * w <= (BYTE - 1) * w
      BY <1>1, <2>1, MulMono
    <2>3. (BYTE - 1) * w = w * BYTE - w /\ t * w \in Nat /\ w * BYTE \in Nat
      BY <1>1, <2>1
    <2> QED
      BY <2>1, <2>2, <2>3
  <1>6. Low(0) \in 0 .. Weight(0) - 1
    BY <1>3, WeightLemma
  <1>7. \A n \in 0 .. 4 : Low(n) \in 0 .. Weight(n) - 1
    <2>1. Low(1) \in 0 .. Weight(1) - 1
      BY <1>5, <1>6
    <2>2. Low(2) \in 0 .. Weight(2) - 1
      BY <1>5, <2>1
    <2>3. Low(3) \in 0 .. Weight(3) - 1
      BY <1>5, <2>2
    <2>4. Low(4) \in 0 .. Weight(4) - 1
      BY <1>5, <2>3
    <2>5. \A n \in 0 .. 4 : n = 0 \/ n = 1 \/ n = 2 \/ n = 3 \/ n = 4
      OBVIOUS
    <2> QED
      BY <1>6, <2>1, <2>2, <2>3, <2>4, <2>5
  <1> QED
    BY <1>1, <1>2, <1>3, <1>4, <1>7

\* Where one byte has not overflowed, none above it has.
LEMMA HigherBytes ==
    ASSUME NEW b \in Nat, NEW c \in Nat, NEW n \in 0 .. 3,
           b \div Weight(n) = c \div Weight(n)
    PROVE  b \div Weight(n + 1) = c \div Weight(n + 1)
  <1>1. /\ BYTE \in Nat \ {0} /\ Weight(n) \in Nat \ {0}
        /\ Weight(n + 1) = Weight(n) * BYTE
    BY WeightLemma, ClockAssumption, SMTT(30) DEF ClockAssumption
  <1>2. /\ b \div Weight(n + 1) = (b \div Weight(n)) \div BYTE
        /\ c \div Weight(n + 1) = (c \div Weight(n)) \div BYTE
    BY <1>1, DivDiv
  <1> QED
    BY <1>2

LEMMA HighNat ==
    ASSUME TypeOK
    PROVE  \A n \in 0 .. 4 : High(n) \in Nat /\ (n < 4 => Byte(n) * Weight(n) \in Nat)
  <1> SUFFICES ASSUME NEW n \in 0 .. 4
               PROVE  High(n) \in Nat /\ (n < 4 => Byte(n) * Weight(n) \in Nat)
    OBVIOUS
  <1>1. counter \div Weight(n) \in Nat /\ Weight(n) \in Nat
    BY DivTypes, WeightLemma DEF TypeOK
  <1>2. n < 4 => Byte(n) \in Nat
    <2>1. BYTE \in Nat
      BY ClockAssumption DEF ClockAssumption
    <2> QED
      BY <2>1, SecondsLemma
  <1>3. \A x, y \in Nat : x * y \in Nat
    OBVIOUS
  <1> QED
    BY <1>1, <1>2, <1>3 DEF High

LEMMA AnsweredBytes ==
    ASSUME IInv, ByteInv, pc = "answered"
    PROVE  /\ Seconds \in 0 .. Weight(4) - 1
           /\ began \div BYTE = counter \div BYTE => Seconds <= counter
           /\ \A n \in 1 .. 3 : began \div Weight(n) = counter \div Weight(n) =>
                                    Seconds \div Weight(n) = began \div Weight(n)
  <1>1. /\ TypeOK /\ ClockInv /\ i = 4 /\ counter \in Nat /\ began \in Nat
        /\ \A n \in 1 .. 3 : began \div Weight(n) = counter \div Weight(n) => tmp[n] = Byte(n)
        /\ began \div Weight(1) = counter \div Weight(1) => tmp[0] <= Byte(0)
    BY DEF IInv, ByteInv, TypeOK
  <1>2. Seconds \in 0 .. Weight(4) - 1
    <2>1. 4 \in 0 .. 4
      OBVIOUS
    <2> QED
      BY <1>1, <2>1, LowLemma
  <1>3. \A n \in 0 .. 4 : /\ High(n) \in Nat /\ Low(n) \in 0 .. Weight(n) - 1
                          /\ Weight(n) \in Nat \ {0} /\ Low(n) \in Nat
    <2>1. \A n \in 0 .. 4 : High(n) \in Nat
      BY <1>1, HighNat
    <2>2. \A n \in 0 .. 4 : Low(n) \in 0 .. Weight(n) - 1
      BY <1>1, LowLemma
    <2>3. \A n \in 0 .. 4 : Weight(n) \in Nat \ {0}
      BY WeightLemma
    <2> QED
      BY <2>1, <2>2, <2>3
  <1>4. High(4) = 0
    <2> DEFINE w == Weight(4)
    <2>1. counter \in 0 .. w - 1 /\ w \in Nat \ {0}
      BY <1>1, WeightLemma DEF ClockInv
    <2> HIDE DEF w
    <2>2. (0 * w + counter) \div w = 0
      BY <2>1, DivUnique
    <2>3. 0 * w + counter = counter /\ 0 * w = 0
      BY <2>1
    <2> QED
      BY <2>2, <2>3 DEF High, w
  <1>5. ASSUME NEW n \in 1 .. 3, began \div Weight(n) = counter \div Weight(n)
        PROVE  /\ Low(n + 1) + High(n + 1) = Low(n) + High(n)
               /\ n < 3 => began \div Weight(n + 1) = counter \div Weight(n + 1)
    <2>1. tmp[n] = Byte(n)
      BY <1>1, <1>5
    <2>2. Low(n + 1) = Low(n) + tmp[n] * Weight(n)
      BY <1>1, LowLemma
    <2>3. High(n) = Byte(n) * Weight(n) + High(n + 1)
      BY <1>1, HighLemma
    <2>4. Byte(n) * Weight(n) \in Nat
      BY <1>1, HighNat
    <2>5. Low(n) \in Nat /\ High(n + 1) \in Nat
      BY <1>3
    <2>6. Low(n + 1) + High(n + 1) = Low(n) + High(n)
      BY <2>1, <2>2, <2>3, <2>4, <2>5
    <2>7. n \in 0 .. 3
      OBVIOUS
    <2>8. began \div Weight(n + 1) = counter \div Weight(n + 1)
      BY <1>1, <1>5, <2>7, HigherBytes
    <2> QED
      BY <2>6, <2>8
  <1>6. ASSUME NEW n \in 1 .. 3, began \div Weight(n) = counter \div Weight(n)
        PROVE  Seconds = Low(n) + High(n)
    <2>1. Seconds = Low(4) + High(4)
      BY <1>1, <1>2, <1>3, <1>4, LowLemma
    <2>2. began \div Weight(3) = counter \div Weight(3) => Seconds = Low(3) + High(3)
      BY <1>5, <2>1
    <2>3. began \div Weight(2) = counter \div Weight(2) => Seconds = Low(2) + High(2)
      BY <1>5, <2>2
    <2>4. began \div Weight(1) = counter \div Weight(1) => Seconds = Low(1) + High(1)
      BY <1>5, <2>3
    <2>5. n = 1 \/ n = 2 \/ n = 3
      OBVIOUS
    <2> QED
      BY <1>6, <2>2, <2>3, <2>4, <2>5
  <1>7. ASSUME NEW n \in 1 .. 3, began \div Weight(n) = counter \div Weight(n)
        PROVE  Seconds \div Weight(n) = began \div Weight(n)
    <2> DEFINE q == counter \div Weight(n)
               w == Weight(n)
               x == Low(n)
    <2>1. Seconds = x + q * w
      BY <1>6, <1>7 DEF High
    <2>2. q \in Nat /\ w \in Nat \ {0} /\ x \in 0 .. w - 1
      <3>1. n \in 0 .. 4
        OBVIOUS
      <3>2. q \in Nat
        BY <1>1, <3>1, DivTypes
      <3> QED
        BY <1>3, <3>1, <3>2
    <2> HIDE DEF q, w, x
    <2>3. (q * w + x) \div w = q
      BY <2>2, DivUnique
    <2>4. Seconds = q * w + x
      <3>1. q * w \in Nat /\ x \in Nat
        BY <2>2
      <3> QED
        BY <2>1, <3>1
    <2> QED
      BY <1>7, <2>3, <2>4 DEF q, w
  <1>8. ASSUME began \div BYTE = counter \div BYTE
        PROVE  Seconds <= counter
    <2>1. Weight(1) = BYTE /\ Weight(0) = 1
      BY DEF Weight
    <2>2. Seconds = Low(1) + High(1) /\ tmp[0] <= Byte(0)
      BY <1>1, <1>6, <1>8, <2>1
    <2>3. Low(1) = tmp[0]
      <3>1. Low(1) = tmp[0] * 1 /\ tmp[0] \in 0 .. BYTE - 1 /\ BYTE \in Nat
        BY <1>1, <2>1, ClockAssumption DEF Low, TypeOK, ClockAssumption
      <3> QED
        BY <3>1
    <2>4. High(0) = Byte(0) * Weight(0) + High(1)
      <3>1. 0 \in 0 .. 3 /\ 0 + 1 = 1
        OBVIOUS
      <3> QED
        BY <1>1, <3>1, HighLemma
    <2>5. High(0) = counter
      <3>1. High(0) = (counter \div 1) * 1
        BY <2>1 DEF High
      <3> QED
        BY <1>1, <3>1
    <2>6. Byte(0) \in Nat /\ tmp[0] \in Nat
      <3>1. BYTE \in Nat
        BY ClockAssumption DEF ClockAssumption
      <3> QED
        BY <1>1, <3>1, SecondsLemma DEF TypeOK
    <2> QED
      BY <1>1, <1>3, <2>1, <2>2, <2>3, <2>4, <2>5, <2>6
  <1> QED
    BY <1>2, <1>7, <1>8
-----------------------------------------------------------------------------
(* Years *)

LEMMA Least ==
    ASSUME NEW T \in SUBSET Nat, T # {}
    PROVE  \E m \in T : \A k \in T : m <= k
  <1>1. PICK m \in T : \A k \in T : <<k, m>> \notin OpToRel(<, Nat)
    BY WFMin, NatLessThanWellFounded, Zenon
  <1>2. \A k \in T : ~(k < m)
    BY <1>1 DEF OpToRel
  <1> QED
    BY <1>2

LEMMA NatSteps ==
    ASSUME NEW S, 0 \in S, \A n \in Nat : n \in S => n + 1 \in S
    PROVE  Nat \subseteq S
  <1> SUFFICES ASSUME Nat \ S # {} PROVE FALSE
    OBVIOUS
  <1>1. PICK m \in Nat \ S : \A k \in Nat \ S : m <= k
    BY Least
  <1>2. m - 1 \in Nat /\ (m - 1) + 1 = m /\ ~(m <= m - 1)
    BY <1>1
  <1>3. m - 1 \in S
    BY <1>1, <1>2
  <1> QED
    BY <1>1, <1>2, <1>3

\* a year of the driver's calendar: its seconds, and where it starts
YearLength(year) == IF is_leapyear(year) THEN LEAP_YEAR_SECONDS ELSE YEAR_SECONDS
CodeDays(year)   == DaysBefore(year) - IF year > 100 THEN 1 ELSE 0
YearStart(year)  == CodeDays(year) * DAY

LEMMA DayLemma ==
    /\ DAY \in Nat \ {0}
    /\ YEAR_SECONDS = 365 * DAY /\ LEAP_YEAR_SECONDS = 366 * DAY
    /\ \A year : YearLength(year) \in {365 * DAY, 366 * DAY}
  BY ClockAssumption DEF ClockAssumption, YEAR_SECONDS, LEAP_YEAR_SECONDS, YearLength

LEMMA CodeDaysLemma ==
    ASSUME NEW year \in 80 .. 219
    PROVE  /\ CodeDays(year) \in Nat
           /\ CodeDays(year + 1) = CodeDays(year) + IF is_leapyear(year) THEN 366 ELSE 365
  BY DEF CodeDays, DaysBefore, is_leapyear

LEMMA YearStartLemma ==
    ASSUME NEW year \in 80 .. 219
    PROVE  /\ YearStart(year) \in Nat
           /\ YearStart(year + 1) = YearStart(year) + YearLength(year)
  <1> DEFINE d == CodeDays(year)
             k == IF is_leapyear(year) THEN 366 ELSE 365
  <1>1. d \in Nat /\ CodeDays(year + 1) = d + k
    BY CodeDaysLemma
  <1>2. k \in {365, 366} /\ YearLength(year) = k * DAY
    BY DayLemma DEF YearLength
  <1>3. DAY \in Nat
    BY DayLemma
  <1>4. YearStart(year) = d * DAY /\ YearStart(year + 1) = (d + k) * DAY
    BY <1>1 DEF YearStart
  <1> HIDE DEF d, k
  <1>5. (d + k) * DAY = d * DAY + k * DAY /\ d * DAY \in Nat
    BY <1>1, <1>2, <1>3
  <1> QED
    BY <1>2, <1>4, <1>5

\* The counter runs over before the year 220 is over.
LEMMA LastLemma ==
    /\ YearStart(80) = 0
    /\ Weight(4) <= YearStart(220) /\ YearStart(220) \in Nat
  <1>1. CodeDays(80) = 0 /\ CodeDays(220) = 140 * 365 + 33
    BY DEF CodeDays, DaysBefore
  <1>2. DAY \in Nat /\ Weight(4) \in Nat /\ Weight(4) <= 140 * 365 * DAY
    BY WeightLemma, ClockAssumption DEF ClockAssumption
  <1> QED
    BY <1>1, <1>2 DEF YearStart

\* f goes on with the years as the loop does, for up to n seconds.
Count(f, seconds) ==
    [year \in Nat |-> IF seconds < LEAP_YEAR_SECONDS THEN <<year, seconds>>
                      ELSE f[seconds - YearLength(year)][year + 1]]
Counts(f, n) == f = [seconds \in 0 .. n |-> Count(f, seconds)]

LEMMA CountsExists == \A n \in Nat : \E f : Counts(f, n)
  <1> DEFINE S == {n \in Nat : \E f : Counts(f, n)}
  <1>0. DAY \in Nat \ {0} /\ LEAP_YEAR_SECONDS = 366 * DAY
    BY DayLemma
  <1>1. 0 \in S
    <2> DEFINE g == [seconds \in 0 .. 0 |-> [year \in Nat |-> <<year, seconds>>]]
    <2>1. Count(g, 0) = [year \in Nat |-> <<year, 0>>]
      <3>1. 0 < LEAP_YEAR_SECONDS
        BY <1>0
      <3> HIDE DEF g
      <3> QED
        BY <3>1 DEF Count
    <2>2. g[0] = [year \in Nat |-> <<year, 0>>]
      OBVIOUS
    <2>3. g = [seconds \in 0 .. 0 |-> g[seconds]]
      OBVIOUS
    <2>4. Counts(g, 0)
      <3> HIDE DEF g
      <3> QED
        BY <2>1, <2>2, <2>3 DEF Counts
    <2> QED
      BY <2>4
  <1>2. \A n \in Nat : n \in S => n + 1 \in S
    <2> SUFFICES ASSUME NEW n \in Nat, NEW f, Counts(f, n)
                 PROVE  \E g : Counts(g, n + 1)
      OBVIOUS
    <2> DEFINE g == [seconds \in 0 .. n + 1 |-> Count(f, seconds)]
    <2>1. \A seconds \in 0 .. n : g[seconds] = f[seconds]
      BY DEF Counts
    <2>2. ASSUME NEW seconds \in 0 .. n + 1, NEW year \in Nat,
                 ~(seconds < LEAP_YEAR_SECONDS)
          PROVE  seconds - YearLength(year) \in 0 .. n
      <3>1. YearLength(year) \in {365 * DAY, 366 * DAY}
        BY DayLemma
      <3> QED
        BY <1>0, <2>2, <3>1
    <2>3. g = [seconds \in 0 .. n + 1 |-> Count(f, seconds)]
      OBVIOUS
    <2> HIDE DEF g
    <2>4. \A seconds \in 0 .. n + 1 : Count(f, seconds) = Count(g, seconds)
      BY <2>1, <2>2 DEF Count
    <2>5. Counts(g, n + 1)
      BY <2>3, <2>4 DEF Counts
    <2> QED
      BY <2>5
  <1>3. Nat \subseteq S
    <2> HIDE DEF S
    <2> QED
      BY <1>1, <1>2, NatSteps
  <1> QED
    BY <1>3

LEMMA YearsLemma ==
    ASSUME NEW seconds \in 0 .. Weight(4) - 1, NEW year \in Nat
    PROVE  Years[seconds][year] =
               IF seconds < LEAP_YEAR_SECONDS THEN <<year, seconds>>
               ELSE Years[seconds - YearLength(year)][year + 1]
  <1>1. Weight(4) - 1 \in Nat
    BY WeightLemma
  <1>2. Years = CHOOSE f : Counts(f, Weight(4) - 1)
    BY Zenon DEF Years, Counts, Count, YearLength
  <1>3. Counts(Years, Weight(4) - 1)
    BY <1>1, <1>2, CountsExists
  <1>4. Years[seconds] = Count(Years, seconds)
    BY <1>3 DEF Counts
  <1> QED
    BY <1>4 DEF Count

\* The loop from the year first on leaves a year and seconds that are the
\* same time, and less than a day only where a leap year went before.
Passes(seconds, first) ==
    \E year \in first .. 219, rest \in Nat :
       /\ Years[seconds][first] = <<year, rest>>
       /\ YearStart(year) + rest = YearStart(first) + seconds
       /\ rest < LEAP_YEAR_SECONDS
       /\ year = first \/ is_leapyear(year - 1) \/ rest >= DAY

\* A pass that subtracts a year
LEMMA PassYear ==
    ASSUME NEW s \in Nat, NEW y \in 80 .. 219, YearStart(y) + s < Weight(4),
           ~(s < LEAP_YEAR_SECONDS),
           NEW t \in Int, t = s - YearLength(y)
    PROVE  /\ t \in 0 .. s - 1 /\ y + 1 \in 80 .. 219
           /\ YearStart(y + 1) + t = YearStart(y) + s
           /\ Passes(t, y + 1) => Passes(s, y)
  <1>0. DAY \in Nat \ {0} /\ LEAP_YEAR_SECONDS = 366 * DAY /\ Weight(4) \in Nat
    BY DayLemma, WeightLemma
  <1>1. /\ YearLength(y) \in {365 * DAY, 366 * DAY}
        /\ YearStart(y) \in Nat
        /\ YearStart(y + 1) = YearStart(y) + YearLength(y)
    BY DayLemma, YearStartLemma
  <1>2. /\ t \in 0 .. s - 1 /\ s \in 0 .. Weight(4) - 1
        /\ YearStart(y + 1) + t = YearStart(y) + s
    BY <1>0, <1>1
  <1>3. y + 1 \in 80 .. 219
    <2>1. YearStart(y + 1) < YearStart(220)
      BY <1>0, <1>1, <1>2, LastLemma
    <2>2. CASE y = 219
      <3>1. y + 1 = 220
        BY <2>2
      <3>2. YearStart(220) < YearStart(220) /\ YearStart(220) \in Int
        BY <1>1, <1>0, <2>1, <3>1
      <3> QED
        BY <3>2
    <2> QED
      BY <2>2
  <1>4. ASSUME Passes(t, y + 1)
        PROVE  Passes(s, y)
    <2>1. PICK year \in y + 1 .. 219, rest \in Nat :
              /\ Years[t][y + 1] = <<year, rest>>
              /\ YearStart(year) + rest = YearStart(y + 1) + t
              /\ rest < LEAP_YEAR_SECONDS
              /\ year = y + 1 \/ is_leapyear(year - 1) \/ rest >= DAY
      BY <1>4, Zenon DEF Passes
    <2>2. Years[s][y] = <<year, rest>>
      <3>1. Years[s][y] = Years[t][y + 1]
        <4>1. y \in Nat
          OBVIOUS
        <4> QED
          BY <1>2, <4>1, YearsLemma
      <3> QED
        BY <2>1, <3>1
    <2>3. is_leapyear(y) \/ t >= DAY
      <3>1. ~is_leapyear(y) => YearLength(y) = 365 * DAY
        BY DayLemma DEF YearLength
      <3> QED
        BY <1>0, <3>1
    <2>4. CASE year = y + 1
      <3>1. YearStart(y + 1) \in Nat
        BY <1>3, YearStartLemma
      <3>2. year - 1 = y /\ rest = t
        BY <1>2, <2>1, <2>4, <3>1
      <3>3. is_leapyear(year - 1) \/ rest >= DAY
        BY <2>3, <3>2
      <3> QED
        BY <1>2, <2>1, <2>2, <3>3 DEF Passes
    <2>5. CASE year # y + 1
      BY <1>2, <2>1, <2>2, <2>5 DEF Passes
    <2> QED
      BY <2>4, <2>5
  <1> QED
    BY <1>2, <1>3, <1>4

LEMMA YearsRight ==
    ASSUME NEW seconds \in 0 .. Weight(4) - 1
    PROVE  Passes(seconds, 80)
  <1> DEFINE P(n) == \A s \in 0 .. n : \A y \in 80 .. 219 :
                         YearStart(y) + s < Weight(4) => Passes(s, y)
             S == {n \in Nat : P(n)}
  <1>0. DAY \in Nat \ {0} /\ LEAP_YEAR_SECONDS = 366 * DAY /\ Weight(4) \in Nat
    BY DayLemma, WeightLemma
  <1>1. ASSUME NEW s \in Nat, NEW y \in 80 .. 219, YearStart(y) + s < Weight(4),
               s < LEAP_YEAR_SECONDS
        PROVE  Passes(s, y)
    <2>1. s \in 0 .. Weight(4) - 1 /\ y \in Nat /\ y \in y .. 219
      <3>1. YearStart(y) \in Nat
        BY YearStartLemma
      <3> QED
        BY <1>0, <1>1, <3>1
    <2>2. Years[s][y] = <<y, s>>
      BY <1>1, <2>1, YearsLemma
    <2> QED
      BY <1>1, <2>1, <2>2 DEF Passes
  <1>2. P(0)
    <2>1. 0 < LEAP_YEAR_SECONDS /\ \A s \in 0 .. 0 : s = 0
      BY <1>0
    <2> QED
      BY <1>1, <2>1
  <1>3. ASSUME NEW n \in Nat, P(n)
        PROVE  P(n + 1)
    <2> SUFFICES ASSUME NEW s \in 0 .. n + 1, NEW y \in 80 .. 219,
                        YearStart(y) + s < Weight(4)
                 PROVE  Passes(s, y)
      OBVIOUS
    <2>1. CASE s < LEAP_YEAR_SECONDS
      BY <1>1, <2>1, SMTT(30)
    <2>2. CASE ~(s < LEAP_YEAR_SECONDS)
      <3> DEFINE t == s - YearLength(y)
      <3>1. s \in Nat
        OBVIOUS
      <3> HIDE DEF P
      <3>2. t \in Int /\ t = s - YearLength(y)
        <4>1. YearLength(y) \in {365 * DAY, 366 * DAY}
          BY DayLemma
        <4> QED
          BY <1>0, <4>1
      <3> HIDE DEF t
      <3>3. /\ t \in 0 .. s - 1 /\ y + 1 \in 80 .. 219
            /\ YearStart(y + 1) + t = YearStart(y) + s
            /\ Passes(t, y + 1) => Passes(s, y)
        BY <2>2, <3>1, <3>2, PassYear, ZenonT(60)
      <3>4. t \in 0 .. n /\ YearStart(y + 1) + t < Weight(4)
        BY <3>3
      <3> QED
        BY <1>3, <3>3, <3>4 DEF P
    <2> QED
      BY <2>1, <2>2
  <1>4. P(seconds)
    <2> HIDE DEF P
    <2>1. 0 \in S /\ \A n \in Nat : n \in S => n + 1 \in S
      BY <1>2, <1>3
    <2>2. seconds \in S
      <3> HIDE DEF S
      <3>1. seconds \in Nat
        BY <1>0
      <3> QED
        BY <2>1, <3>1, NatSteps
    <2> QED
      BY <2>2
  <1> QED
    <2>1. YearStart(80) + seconds < Weight(4) /\ seconds \in 0 .. seconds /\ 80 \in 80 .. 219
      BY <1>0, LastLemma
    <2> QED
      BY <1>4, <2>1
-----------------------------------------------------------------------------
(* Months *)

\* days of a year before a month, and its days
MonthFirst(leap, mon) ==
    <<0, 31, 59, 90, 120, 151, 181, 212, 243, 273, 304, 334, 365>>[mon + 1]
        + IF leap /\ mon > 1 THEN 1 ELSE 0
MonthDays(leap, mon) == days_in_month(leap)[mon + 1]

LEMMA MonthLemma ==
    ASSUME NEW leap \in BOOLEAN
    PROVE  /\ MonthFirst(leap, 0) = 0
           /\ MonthFirst(leap, 12) = IF leap THEN 366 ELSE 365
           /\ \A mon \in 0 .. 12 : MonthFirst(leap, mon) \in Nat
           /\ \A mon \in 0 .. 11 :
                 /\ MonthDays(leap, mon) \in Nat
                 /\ MonthFirst(leap, mon + 1) = MonthFirst(leap, mon) + MonthDays(leap, mon)
  <1>1. /\ MonthFirst(leap, 0) = 0
        /\ MonthFirst(leap, 12) = IF leap THEN 366 ELSE 365
        /\ \A mon \in 0 .. 12 : MonthFirst(leap, mon) \in Nat
    BY DEF MonthFirst
  <1>2. ASSUME NEW mon \in 0 .. 11
        PROVE  /\ MonthDays(leap, mon) \in Nat
               /\ MonthFirst(leap, mon + 1) = MonthFirst(leap, mon) + MonthDays(leap, mon)
    <2>1. mon \in {0, 1, 2, 3, 4, 5} \/ mon \in {6, 7, 8, 9, 10, 11}
      OBVIOUS
    <2>2. CASE mon \in {0, 1, 2, 3, 4, 5}
      BY <2>2 DEF MonthFirst, MonthDays, days_in_month
    <2>3. CASE mon \in {6, 7, 8, 9, 10, 11}
      BY <2>3 DEF MonthFirst, MonthDays, days_in_month
    <2> QED
      BY <2>1, <2>2, <2>3
  <1> QED
    BY <1>1, <1>2

\* f goes on with the months as the loop does, from 12 - n on.
MonthOn(f, leap, m) ==
    [seconds \in Nat |->
        IF m = 12 THEN <<0, seconds>>
        ELSE LET month == MonthDays(leap, m) * DAY
             IN  IF seconds < month THEN <<m, seconds>> ELSE f[m + 1][seconds - month]]
GoesOn(f, leap, n) == f = [m \in 12 - n .. 12 |-> MonthOn(f, leap, m)]

LEMMA GoesOnExists ==
    ASSUME NEW leap \in BOOLEAN
    PROVE  \A n \in 0 .. 12 : \E f : GoesOn(f, leap, n)
  <1> DEFINE S == {n \in Nat : n <= 12 => \E f : GoesOn(f, leap, n)}
  <1>1. 0 \in S
    <2> DEFINE g == [m \in 12 .. 12 |-> [seconds \in Nat |-> <<0, seconds>>]]
    <2>1. g[12] = [seconds \in Nat |-> <<0, seconds>>] /\ g = [m \in 12 .. 12 |-> g[m]]
      OBVIOUS
    <2> HIDE DEF g
    <2>2. MonthOn(g, leap, 12) = [seconds \in Nat |-> <<0, seconds>>]
      BY DEF MonthOn
    <2>3. 12 - 0 = 12 /\ \A m \in 12 .. 12 : m = 12
      OBVIOUS
    <2>4. GoesOn(g, leap, 0)
      BY <2>1, <2>2, <2>3 DEF GoesOn
    <2> QED
      BY <2>4
  <1>2. \A n \in Nat : n \in S => n + 1 \in S
    <2> SUFFICES ASSUME NEW n \in Nat, n + 1 <= 12, NEW f, GoesOn(f, leap, n)
                 PROVE  \E g : GoesOn(g, leap, n + 1)
      OBVIOUS
    <2> DEFINE g == [m \in 12 - (n + 1) .. 12 |-> MonthOn(f, leap, m)]
    <2>1. \A m \in 12 - n .. 12 : g[m] = f[m]
      BY DEF GoesOn
    <2>2. g = [m \in 12 - (n + 1) .. 12 |-> MonthOn(f, leap, m)]
      OBVIOUS
    <2> HIDE DEF g
    <2>3. ASSUME NEW m \in 12 - (n + 1) .. 12
          PROVE  MonthOn(f, leap, m) = MonthOn(g, leap, m)
      <3>1. CASE m = 12
        BY <3>1 DEF MonthOn
      <3>2. CASE m # 12
        <4>1. m + 1 \in 12 - n .. 12
          BY <3>2
        <4>2. f[m + 1] = g[m + 1]
          BY <2>1, <4>1
        <4> QED
          BY <4>2 DEF MonthOn
      <3> QED
        BY <3>1, <3>2
    <2>4. GoesOn(g, leap, n + 1)
      BY <2>2, <2>3 DEF GoesOn
    <2> QED
      BY <2>4
  <1>3. Nat \subseteq S
    <2> HIDE DEF S
    <2> QED
      BY <1>1, <1>2, NatSteps
  <1> QED
    BY <1>3

LEMMA MonthsLemma ==
    ASSUME NEW leap \in BOOLEAN
    PROVE  \E f : GoesOn(f, leap, 12) /\ Months(leap) = f[0]
  <1> DEFINE f == CHOOSE f : f = [m \in 0 .. 12 |-> MonthOn(f, leap, m)]
  <1>1. Months(leap) = f[0]
    BY Zenon DEF Months, MonthOn, MonthDays
  <1>2. GoesOn(f, leap, 12)
    <2>1. \A g : GoesOn(g, leap, 12) <=> g = [m \in 0 .. 12 |-> MonthOn(g, leap, m)]
      <3>1. 12 - 12 = 0
        OBVIOUS
      <3> QED
        BY <3>1 DEF GoesOn
    <2>2. \E g : g = [m \in 0 .. 12 |-> MonthOn(g, leap, m)]
      BY <2>1, GoesOnExists
    <2>3. f = [m \in 0 .. 12 |-> MonthOn(f, leap, m)]
      BY <2>2
    <2> QED
      BY <2>1, <2>3
  <1> QED
    BY <1>1, <1>2

\* What the loop makes of x seconds of a year when it looks at month m: a
\* month they lie in, or none and the seconds beyond the year.
Found(found, leap, x) ==
    \/ /\ x >= MonthFirst(leap, 12) * DAY
       /\ found = <<0, x - MonthFirst(leap, 12) * DAY>>
    \/ \E mon \in 0 .. 11 :
          /\ MonthFirst(leap, mon) * DAY <= x /\ x < MonthFirst(leap, mon + 1) * DAY
          /\ found = <<mon, x - MonthFirst(leap, mon) * DAY>>

LEMMA MonthsRight ==
    ASSUME NEW leap \in BOOLEAN, NEW x \in Nat
    PROVE  Found(Months(leap)[x], leap, x)
  <1>1. PICK f : GoesOn(f, leap, 12) /\ Months(leap) = f[0]
    BY MonthsLemma
  <1>2. \A m \in 0 .. 12 : f[m] = MonthOn(f, leap, m)
    <2>1. 12 - 12 = 0
      OBVIOUS
    <2> QED
      BY <1>1, <2>1 DEF GoesOn
  <1>3. DAY \in Nat \ {0}
    BY DayLemma
  <1> DEFINE P(m) == MonthFirst(leap, m) * DAY <= x
                        => Found(f[m][x - MonthFirst(leap, m) * DAY], leap, x)
             S == {n \in Nat : n <= 12 => P(12 - n)}
  <1>4. ASSUME NEW m \in 0 .. 12, MonthFirst(leap, m) * DAY <= x, NEW y,
               y = x - MonthFirst(leap, m) * DAY
        PROVE  /\ y \in Nat
               /\ f[m][y] = IF m = 12 THEN <<0, y>>
                            ELSE IF y < MonthDays(leap, m) * DAY THEN <<m, y>>
                            ELSE f[m + 1][y - MonthDays(leap, m) * DAY]
    <2>1. MonthFirst(leap, m) \in Nat
      BY MonthLemma
    <2>2. MonthFirst(leap, m) * DAY \in Nat
      BY <1>3, <2>1
    <2>3. y \in Nat
      BY <1>4, <2>2
    <2>4. f[m] = MonthOn(f, leap, m)
      BY <1>2
    <2> QED
      BY <2>3, <2>4 DEF MonthOn
  <1>5. P(12)
    <2> SUFFICES ASSUME MonthFirst(leap, 12) * DAY <= x
                 PROVE  Found(f[12][x - MonthFirst(leap, 12) * DAY], leap, x)
      OBVIOUS
    <2>1. MonthFirst(leap, 12) * DAY \in Int
      BY <1>3, MonthLemma
    <2>2. f[12][x - MonthFirst(leap, 12) * DAY] = <<0, x - MonthFirst(leap, 12) * DAY>>
      BY <1>4
    <2> QED
      BY <2>1, <2>2 DEF Found
  <1>6. ASSUME NEW m \in 0 .. 11, P(m + 1)
        PROVE  P(m)
    <2> DEFINE a == MonthFirst(leap, m) * DAY
               b == MonthFirst(leap, m + 1) * DAY
               k == MonthDays(leap, m) * DAY
               y == x - a
    <2>1. a \in Nat /\ k \in Nat /\ b = a + k
      <3> DEFINE c == MonthFirst(leap, m)
                 d == MonthDays(leap, m)
      <3>1. c \in Nat /\ d \in Nat /\ MonthFirst(leap, m + 1) = c + d
        BY MonthLemma
      <3> HIDE DEF c, d
      <3>2. c * DAY \in Nat /\ d * DAY \in Nat /\ (c + d) * DAY = c * DAY + d * DAY
        BY <1>3, <3>1
      <3> QED
        BY <3>1, <3>2 DEF c, d
    <2> SUFFICES ASSUME a <= x PROVE Found(f[m][y], leap, x)
      OBVIOUS
    <2>2. f[m][y] = IF y < k THEN <<m, y>> ELSE f[m + 1][y - k]
      BY <1>4
    <2>3. CASE y < k
      <3>1. x < b
        BY <2>1, <2>3
      <3> QED
        BY <2>2, <2>3, <3>1 DEF Found
    <2>4. CASE ~(y < k)
      <3>1. b <= x /\ y - k = x - b
        BY <2>1, <2>4
      <3>2. Found(f[m + 1][x - b], leap, x)
        BY <1>6, <3>1
      <3> QED
        BY <2>2, <2>4, <3>1, <3>2
    <2> QED
      BY <2>3, <2>4
  <1>7. P(0)
    <2> HIDE DEF P
    <2>1. 0 \in S
      BY <1>5
    <2>2. \A n \in Nat : n \in S => n + 1 \in S
      <3> SUFFICES ASSUME NEW n \in Nat, n + 1 <= 12, P(12 - n)
                   PROVE  P(12 - (n + 1))
        OBVIOUS
      <3>1. 12 - (n + 1) \in 0 .. 11 /\ (12 - (n + 1)) + 1 = 12 - n
        OBVIOUS
      <3> QED
        BY <1>6, <3>1
    <2>3. 12 \in S
      <3> HIDE DEF S
      <3> QED
        BY <2>1, <2>2, NatSteps
    <2>4. 12 - 12 = 0
      OBVIOUS
    <2> QED
      BY <2>3, <2>4
  <1> QED
    <2>1. MonthFirst(leap, 0) * DAY = 0 /\ x - 0 = x
      BY <1>3, MonthLemma
    <2> QED
      BY <1>1, <1>7, <2>1
-----------------------------------------------------------------------------
(* Dates *)

LEMMA DivBound ==
    ASSUME NEW x \in Nat, NEW b \in Nat \ {0}, NEW k \in Int, x < k * b
    PROVE  x \div b \in 0 .. k - 1
  <1>1. PICK q \in Nat, r \in 0 .. b - 1 : q = x \div b /\ x = q * b + r
    BY DivLemma
  <1>2. q < k
    <2> SUFFICES ASSUME k <= q PROVE FALSE
      OBVIOUS
    <2>1. k * b <= q * b /\ k * b \in Int /\ q * b \in Int
      BY MulMono
    <2> QED
      BY <1>1, <2>1
  <1> QED
    BY <1>1, <1>2

\* What is left of a division by b, where c divides b
LEMMA PartsLemma ==
    ASSUME NEW x \in Nat, NEW b \in Nat \ {0}, NEW c \in Nat \ {0}, b % c = 0
    PROVE  /\ x % b \in Nat /\ x % c \in 0 .. c - 1
           /\ (x % b) \div c \in 0 .. (b \div c) - 1
           /\ x % b = ((x % b) \div c) * c + (x % c)
  <1>1. PICK k \in Nat, z \in 0 .. c - 1 : k = b \div c /\ z = b % c /\ b = k * c + z
    BY DivLemma
  <1>2. b = k * c
    <2>1. k * c \in Nat
      OBVIOUS
    <2> QED
      BY <1>1, <2>1
  <1>3. PICK q \in Nat, e \in 0 .. b - 1 : q = x \div b /\ e = x % b /\ x = q * b + e
    BY DivLemma
  <1>4. PICK h \in Nat, g \in 0 .. c - 1 : h = e \div c /\ g = e % c /\ e = h * c + g
    <2>1. e \in Nat
      OBVIOUS
    <2> QED
      BY <2>1, DivLemma
  <1>5. h \in 0 .. k - 1
    <2>1. e \in Nat /\ k \in Int /\ e < k * c
      BY <1>2
    <2>2. e \div c \in 0 .. k - 1
      BY <2>1, DivBound
    <2> QED
      BY <1>4, <2>2
  <1>6. x % c = g
    <2>1. x = (q * k + h) * c + g
      <3>1. q * (k * c) + h * c = (q * k + h) * c
        OBVIOUS
      <3>2. q * b = q * (k * c)
        BY <1>2
      <3>3. q * b \in Nat /\ h * c \in Nat
        OBVIOUS
      <3> QED
        BY <1>3, <1>4, <3>1, <3>2, <3>3
    <2> DEFINE p == q * k + h
    <2>2. p \in Nat
      OBVIOUS
    <2> HIDE DEF p
    <2>3. (p * c + g) % c = g
      BY <2>2
    <2>4. x = p * c + g
      BY <2>1 DEF p
    <2> QED
      BY <2>3, <2>4
  <1>7. e \in Nat
    OBVIOUS
  <1>8. x % b = e /\ e \div c = h /\ b \div c = k /\ e = h * c + g
    BY <1>1, <1>3, <1>4
  <1> QED
    BY <1>5, <1>6, <1>7, <1>8, Zenon

\* hours, minutes and seconds
LEMMA TimeLemma ==
    ASSUME NEW x \in Nat
    PROVE  /\ x \div DAY \in Nat
           /\ (x % DAY) \div HOUR \in 0 .. (DAY \div HOUR) - 1
           /\ (x % HOUR) \div MINUTE \in 0 .. (HOUR \div MINUTE) - 1
           /\ x % MINUTE \in 0 .. MINUTE - 1
           /\ (x \div DAY) * DAY \in Nat
           /\ (x \div DAY) * DAY + ((x % DAY) \div HOUR) * HOUR
                  + ((x % HOUR) \div MINUTE) * MINUTE + (x % MINUTE) = x
  <1>1. /\ DAY \in Nat \ {0} /\ HOUR \in Nat \ {0} /\ MINUTE \in Nat \ {0}
        /\ DAY % HOUR = 0 /\ HOUR % MINUTE = 0
    BY ClockAssumption DEF ClockAssumption
  <1>2. /\ x % DAY \in Nat /\ x % HOUR \in 0 .. HOUR - 1
        /\ (x % DAY) \div HOUR \in 0 .. (DAY \div HOUR) - 1
        /\ x % DAY = ((x % DAY) \div HOUR) * HOUR + (x % HOUR)
    BY <1>1, PartsLemma
  <1>3. /\ x % HOUR \in Nat /\ x % MINUTE \in 0 .. MINUTE - 1
        /\ (x % HOUR) \div MINUTE \in 0 .. (HOUR \div MINUTE) - 1
        /\ x % HOUR = ((x % HOUR) \div MINUTE) * MINUTE + (x % MINUTE)
    BY <1>1, PartsLemma
  <1>4. x \div DAY \in Nat /\ x = (x \div DAY) * DAY + (x % DAY)
    <2>1. PICK q \in Nat, e \in 0 .. DAY - 1 :
              q = x \div DAY /\ e = x % DAY /\ x = q * DAY + e
      BY <1>1, DivLemma
    <2> QED
      BY <2>1
  <1> DEFINE d == x \div DAY
             h == (x % DAY) \div HOUR
             m == (x % HOUR) \div MINUTE
             xd == x % DAY
             xh == x % HOUR
             xm == x % MINUTE
  <1>5. /\ d \in Nat /\ h \in Nat /\ m \in Nat /\ xd \in Nat /\ xh \in Nat /\ xm \in Nat
        /\ x = d * DAY + xd /\ xd = h * HOUR + xh /\ xh = m * MINUTE + xm
    <2>1. h \in Nat /\ m \in Nat /\ xm \in Nat
      BY <1>2, <1>3
    <2> QED
      BY <1>2, <1>3, <1>4, <2>1
  <1>6. d * DAY \in Nat /\ d * DAY + h * HOUR + m * MINUTE + xm = x
    <2> HIDE DEF d, h, m, xd, xh, xm
    <2>1. d * DAY \in Nat /\ h * HOUR \in Nat /\ m * MINUTE \in Nat
      BY <1>1, <1>5
    <2> QED
      BY <1>5, <2>1
  <1> QED
    BY <1>2, <1>3, <1>4, <1>6

LEMMA LeapLemma ==
    ASSUME NEW year \in 80 .. 219
    PROVE  is_leapyear(year) = (Leap(year) /\ year # 100)
  BY DEF Leap, is_leapyear

LEMMA DateIs ==
    ASSUME NEW year \in Int, DaysBefore(year) \in Int, NEW mon \in 0 .. 11, NEW x \in Nat,
           NEW d, d = [year |-> year, mon |-> mon, mday |-> x \div DAY,
                       hour |-> (x % DAY) \div HOUR, min |-> (x % HOUR) \div MINUTE,
                       sec |-> x % MINUTE],
           x < (MonthStart(year, mon + 1) - MonthStart(year, mon)) * DAY
    PROVE  /\ ValidDate(d)
           /\ SecondsOf(d) = (DaysBefore(year) + MonthStart(year, mon)) * DAY + x
  <1>1. /\ DAY \in Nat \ {0}
        /\ MonthStart(year, mon) \in Nat /\ MonthStart(year, mon + 1) \in Nat
    BY DayLemma DEF MonthStart
  <1>2. /\ d.year = year /\ d.mon = mon /\ d.mday = x \div DAY
        /\ d.hour = (x % DAY) \div HOUR /\ d.min = (x % HOUR) \div MINUTE
        /\ d.sec = x % MINUTE
    OBVIOUS
  <1>3. d.mday \in 0 .. MonthStart(year, mon + 1) - MonthStart(year, mon) - 1
    <2> DEFINE k == MonthStart(year, mon + 1) - MonthStart(year, mon)
    <2>1. k \in Int /\ x < k * DAY
      BY <1>1
    <2> HIDE DEF k
    <2>2. x \div DAY \in 0 .. k - 1
      BY <1>1, <2>1, DivBound
    <2> QED
      BY <1>2, <2>2 DEF k
  <1>4. ValidDate(d)
    BY <1>2, <1>3, TimeLemma DEF ValidDate
  <1>5. SecondsOf(d) = (DaysBefore(year) + MonthStart(year, mon)) * DAY + x
    <2> DEFINE a == DaysBefore(year) + MonthStart(year, mon)
               q == x \div DAY
               h == ((x % DAY) \div HOUR) * HOUR
               m == ((x % HOUR) \div MINUTE) * MINUTE
               t == x % MINUTE
    <2>1. SecondsOf(d) = (a + q) * DAY + h + m + t
      BY <1>2 DEF SecondsOf
    <2>2. a \in Int /\ q \in Nat /\ q * DAY + h + m + t = x
      <3>1. a \in Int
        BY <1>1
      <3> QED
        BY <3>1, TimeLemma, Zenon
    <2>3. h \in Int /\ m \in Int /\ t \in Int
      <3>1. /\ (x % DAY) \div HOUR \in Int /\ (x % HOUR) \div MINUTE \in Int
            /\ x % MINUTE \in Int /\ HOUR \in Int /\ MINUTE \in Int
        BY TimeLemma, ClockAssumption DEF ClockAssumption
      <3>2. \A u, v \in Int : u * v \in Int
        OBVIOUS
      <3> QED
        BY <3>1, <3>2
    <2> HIDE DEF a, q, h, m, t
    <2>4. (a + q) * DAY = a * DAY + q * DAY /\ a * DAY \in Int /\ q * DAY \in Int
      BY <1>1, <2>2
    <2>5. SecondsOf(d) = a * DAY + x
      BY <2>1, <2>2, <2>3, <2>4
    <2> QED
      BY <2>5 DEF a
  <1> QED
    BY <1>4, <1>5

\* Where the calendar is when the loop has left a year and what is left of it.
Calendar(s, year, rest) ==
    /\ Ahead(s) = DaysBefore(year) * DAY + rest
                     + IF year = 100 /\ rest >= 59 * DAY THEN DAY ELSE 0
    /\ DaysBefore(year) * DAY \in Nat
    /\ Leap(year)  => DaysBefore(year + 1) * DAY = DaysBefore(year) * DAY + 366 * DAY
    /\ ~Leap(year) => DaysBefore(year + 1) * DAY = DaysBefore(year) * DAY + 365 * DAY

\* the date a day ahead from 29 February 2000 on, by year and rest
LEMMA AheadLemma ==
    ASSUME NEW year \in 80 .. 219, NEW rest \in Nat, rest < LEAP_YEAR_SECONDS
    PROVE  Calendar(YearStart(year) + rest, year, rest)
  <1> DEFINE c == CodeDays(year)
             b == DaysBefore(year)
             e == DaysBefore(100)
             n == DaysBefore(year + 1)
  <1>1. /\ DAY \in Nat \ {0} /\ LEAP_YEAR_SECONDS = 366 * DAY
        /\ c \in Nat /\ b \in Nat /\ e \in Nat
        /\ b = c + IF year > 100 THEN 1 ELSE 0
        /\ year < 100 => c + 366 <= e + 59
        /\ year > 100 => e + 59 <= c
        /\ year = 100 => c = e
        /\ Leap(year) => n = b + 366
        /\ ~Leap(year) => n = b + 365
    <2>1. e \in Nat
      BY DEF DaysBefore
    <2>2. DAY \in Nat \ {0} /\ LEAP_YEAR_SECONDS = 366 * DAY
      BY DayLemma
    <2>3. /\ b \in Nat /\ b = c + IF year > 100 THEN 1 ELSE 0
          /\ year < 100 => c + 366 <= e + 59
          /\ year > 100 => e + 59 <= c
          /\ Leap(year) => n = b + 366
          /\ ~Leap(year) => n = b + 365
      BY DEF Leap, DaysBefore, CodeDays
    <2>4. c \in Nat
      BY CodeDaysLemma
    <2> QED
      BY <2>1, <2>2, <2>3, <2>4
  <1>2. Ahead(YearStart(year) + rest) =
            c * DAY + rest + IF c * DAY + rest >= (e + 59) * DAY THEN DAY ELSE 0
    BY DEF Ahead, YearStart
  <1> HIDE DEF c, b, e, n
  <1>3. /\ Leap(year)  => n * DAY = b * DAY + 366 * DAY
        /\ ~Leap(year) => n * DAY = b * DAY + 365 * DAY
    BY <1>1
  <1>4. /\ c * DAY \in Nat /\ b * DAY \in Nat /\ e * DAY \in Nat
        /\ (e + 59) * DAY = e * DAY + 59 * DAY
        /\ (c + 366) * DAY = c * DAY + 366 * DAY
        /\ (c + 1) * DAY = c * DAY + DAY
    BY <1>1
  <1>5. CASE year < 100
    <2>1. (c + 366) * DAY <= (e + 59) * DAY
      BY <1>1, <1>5, MulMono
    <2> QED
      BY <1>1, <1>2, <1>3, <1>4, <1>5, <2>1 DEF Calendar, b, n
  <1>6. CASE year > 100
    <2>1. (e + 59) * DAY <= c * DAY
      BY <1>1, <1>6, MulMono
    <2>2. b * DAY = c * DAY + DAY
      BY <1>1, <1>4, <1>6
    <2> QED
      BY <1>1, <1>2, <1>3, <1>4, <1>6, <2>1, <2>2 DEF Calendar, b, n
  <1>7. CASE year = 100
    <2>1. b = c /\ c = e
      BY <1>1, <1>7
    <2> QED
      BY <1>1, <1>2, <1>3, <1>4, <1>7, <2>1 DEF Calendar, b, n
  <1> QED
    BY <1>5, <1>6, <1>7

LEMMA DaysMono ==
    ASSUME NEW a \in Nat, NEW b \in Nat, a >= 80, a < b
    PROVE  DaysBefore(a) < DaysBefore(b) /\ DaysBefore(a + 1) <= DaysBefore(b)
  BY DEF DaysBefore

\* A time that lies within a year, or at its start when a leap year went
\* before, is shown as it is.
LEMMA ShownAsIs ==
    ASSUME NEW s, NEW year \in 80 .. 220, NEW x \in Nat,
           Ahead(s) = DaysBefore(year) * DAY + x,
           Ahead(s) < DaysBefore(year + 1) * DAY,
           x > 0 \/ year = 80 \/ is_leapyear(year - 1)
    PROVE  Shown(s) = {Ahead(s)}
  <1>1. \A y \in Nat : DaysBefore(y) \in Int
    BY DEF DaysBefore
  <1>2. DAY \in Nat \ {0}
    BY DayLemma
  <1>3. SUFFICES ASSUME NEW y \in 80 .. LastYear, ~is_leapyear(y),
                        Ahead(s) = DaysBefore(y + 1) * DAY
                 PROVE  FALSE
    BY DEF Shown, YearBefore
  <1>4. y \in Nat /\ y >= 80
    <2>1. LastYear \in Int
      <3>1. Weight(4) \in Nat /\ YEAR_SECONDS \in Nat \ {0}
        BY <1>2, WeightLemma DEF YEAR_SECONDS
      <3>2. Weight(4) \div YEAR_SECONDS \in Nat
        BY <3>1, DivLemma
      <3> QED
        BY <3>2 DEF LastYear
    <2> QED
      BY <2>1
  <1> DEFINE a == DaysBefore(y + 1)
             b == DaysBefore(year)
             c == DaysBefore(year + 1)
  <1>5. a \in Int /\ b \in Int /\ c \in Int
    BY <1>1, <1>4
  <1>6. CASE y + 1 = year
    <2>1. x = 0
      <3>1. a = b
        BY <1>6
      <3>2. a * DAY = b * DAY + x
        BY <1>3
      <3> HIDE DEF a, b
      <3> QED
        BY <1>2, <1>5, <3>1, <3>2
    <2>2. year - 1 = y
      BY <1>4, <1>6
    <2> QED
      BY <1>3, <1>4, <1>6, <2>1, <2>2
  <1>7. CASE y + 1 < year
    <2>1. a + 1 <= b
      BY <1>4, <1>5, <1>7, DaysMono
    <2>2. a * DAY = b * DAY + x
      BY <1>3
    <2> HIDE DEF a, b
    <2>3. (a + 1) * DAY <= b * DAY /\ (a + 1) * DAY = a * DAY + DAY /\ a * DAY \in Int
      BY <1>2, <1>5, <2>1, MulMono
    <2> QED
      BY <1>2, <1>5, <2>2, <2>3
  <1>8. CASE y + 1 > year
    <2>1. c <= a
      BY <1>4, <1>8, DaysMono
    <2>2. a * DAY < c * DAY
      BY <1>3
    <2> HIDE DEF a, c
    <2>3. c * DAY <= a * DAY /\ a * DAY \in Int /\ c * DAY \in Int
      BY <1>2, <1>5, <2>1, MulMono
    <2> QED
      BY <2>2, <2>3
  <1> QED
    BY <1>4, <1>6, <1>7, <1>8

\* A second that ends 365 days of a year that is not a leap year is shown as
\* the start of that year.
LEMMA ShownAsYearBefore ==
    ASSUME NEW s \in 0 .. Weight(4) - 1, NEW year \in 80 .. 219, ~is_leapyear(year),
           Ahead(s) = DaysBefore(year + 1) * DAY,
           YearStart(year) <= s
    PROVE  DaysBefore(year) * DAY \in Shown(s)
  <1>1. /\ DAY \in Nat \ {0} /\ YEAR_SECONDS = 365 * DAY /\ Weight(4) \in Nat
        /\ YEAR_SECONDS \in Nat \ {0}
    BY DayLemma, WeightLemma
  <1>2. PICK q \in Nat, e \in 0 .. YEAR_SECONDS - 1 :
            q = Weight(4) \div YEAR_SECONDS /\ Weight(4) = q * YEAR_SECONDS + e
    <2> DEFINE w == Weight(4)
               k == YEAR_SECONDS
    <2>1. w \in Nat /\ k \in Nat \ {0}
      BY <1>1
    <2> HIDE DEF w, k
    <2>2. \E q \in Nat, e \in 0 .. k - 1 : q = w \div k /\ e = w % k /\ w = q * k + e
      BY <2>1, DivLemma
    <2> QED
      BY <2>2 DEF w, k
  <1>3. year <= 81 + q
    <2> SUFFICES ASSUME q + 1 <= year - 80 PROVE FALSE
      OBVIOUS
    <2> DEFINE c == CodeDays(year)
               k == year - 80
               w == Weight(4)
    <2>1. c \in Nat /\ 365 * k <= c /\ k \in Nat /\ q + 1 <= k
      BY DEF CodeDays, DaysBefore
    <2>2. c * DAY < w /\ w = q * (365 * DAY) + e
      <3>1. c * DAY <= s
        BY DEF YearStart
      <3>2. c * DAY \in Int /\ s \in 0 .. w - 1 /\ w \in Nat
        BY <1>1, <2>1
      <3> HIDE DEF c, w
      <3>3. c * DAY < w
        BY <3>1, <3>2
      <3> QED
        BY <1>1, <1>2, <3>3, Zenon DEF w
    <2> HIDE DEF c, k, w
    <2>3. (365 * k) * DAY <= c * DAY /\ (q + 1) * (365 * DAY) <= k * (365 * DAY)
      BY <1>1, <2>1, MulMono
    <2>4. /\ (365 * k) * DAY = k * (365 * DAY)
          /\ (q + 1) * (365 * DAY) = q * (365 * DAY) + 365 * DAY
          /\ c * DAY \in Int /\ k * (365 * DAY) \in Int /\ q * (365 * DAY) \in Int
      BY <1>1, <2>1
    <2>5. e < 365 * DAY /\ e \in Nat
      BY <1>1
    <2> QED
      BY <1>1, <2>2, <2>3, <2>4, <2>5
  <1>4. year \in 80 .. LastYear
    BY <1>2, <1>3 DEF LastYear
  <1>5. year \in YearBefore(s)
    BY <1>4 DEF YearBefore
  <1> QED
    BY <1>5 DEF Shown

\* the record of a date whose month started x seconds ago
DateOf(year, mon, x) ==
    [year |-> year, mon |-> mon, mday |-> x \div DAY,
     hour |-> (x % DAY) \div HOUR, min |-> (x % HOUR) \div MINUTE, sec |-> x % MINUTE]

\* what the loop over the years leaves of s
Leaves(s, year, rest) ==
    /\ Years[s][80] = <<year, rest>>
    /\ YearStart(year) + rest = s
    /\ rest < LEAP_YEAR_SECONDS
    /\ year = 80 \/ is_leapyear(year - 1) \/ rest >= DAY

LEMMA DateWithin ==
    ASSUME NEW s, NEW year \in 80 .. 219, NEW rest \in Nat, Leaves(s, year, rest),
           NEW mon, NEW x, ~AfterYear(is_leapyear(year), rest),
           Months(is_leapyear(year))[rest] = <<mon, x>>
    PROVE  Date(s) = DateOf(year, mon, x)
  BY DEF Leaves, Date, DateOf

LEMMA DateAfter ==
    ASSUME NEW s, NEW year \in 80 .. 219, NEW rest \in Nat, Leaves(s, year, rest),
           NEW mon, NEW x, AfterYear(is_leapyear(year), rest),
           Months(is_leapyear(year))[rest - YEAR_SECONDS] = <<mon, x>>
    PROVE  Date(s) = DateOf(year + 1, mon, x)
  BY DEF Leaves, Date, DateOf

\* In the first month the seconds of a day are found in that month.
LEMMA FirstDay ==
    ASSUME NEW x \in Nat, x < DAY
    PROVE  Months(FALSE)[x] = <<0, x>>
  <1>1. DAY \in Nat \ {0} /\ FALSE \in BOOLEAN
    BY DayLemma
  <1>2. Found(Months(FALSE)[x], FALSE, x)
    BY <1>1, MonthsRight
  <1>3. MonthFirst(FALSE, 12) = 365 /\ MonthFirst(FALSE, 0) = 0
    BY <1>1, MonthLemma
  <1>4. PICK mon \in 0 .. 11 :
            /\ MonthFirst(FALSE, mon) * DAY <= x
            /\ Months(FALSE)[x] = <<mon, x - MonthFirst(FALSE, mon) * DAY>>
    <2>1. ~(x >= 365 * DAY)
      BY <1>1
    <2> QED
      BY <1>2, <1>3, <2>1 DEF Found
  <1>5. mon = 0
    <2> SUFFICES ASSUME mon # 0 PROVE FALSE
      OBVIOUS
    <2> DEFINE c == MonthFirst(FALSE, mon)
    <2>1. c \in Nat /\ 1 <= c
      BY DEF MonthFirst
    <2>2. c * DAY <= x
      BY <1>4
    <2> HIDE DEF c
    <2>3. 1 * DAY <= c * DAY /\ c * DAY \in Nat
      BY <1>1, <2>1, MulMono
    <2> QED
      BY <1>1, <2>2, <2>3
  <1> DEFINE c == x - MonthFirst(FALSE, 0) * DAY
  <1>6. c = x
    <2>1. 0 * DAY = 0 /\ x - 0 = x
      BY <1>1
    <2> QED
      BY <1>3, <2>1
  <1>7. Months(FALSE)[x] = <<0, c>>
    BY <1>4, <1>5, Zenon
  <1> HIDE DEF c
  <1> QED
    BY <1>6, <1>7, Zenon

LEMMA MonthStarts ==
    ASSUME NEW year
    PROVE  /\ MonthStart(year, 0) = 0 /\ MonthStart(year, 1) = 31
           /\ \A mon \in 0 .. 12 : MonthStart(year, mon) = MonthFirst(Leap(year), mon)
  BY DEF MonthStart, MonthFirst

LEMMA AheadOf ==
    ASSUME NEW s, NEW year \in 80 .. 219, NEW rest \in Nat, Leaves(s, year, rest)
    PROVE  Calendar(s, year, rest)
  <1>1. YearStart(year) + rest = s /\ rest < LEAP_YEAR_SECONDS
    BY Zenon DEF Leaves
  <1>2. Calendar(YearStart(year) + rest, year, rest)
    BY <1>1, AheadLemma, Zenon
  <1> QED
    BY <1>1, <1>2, Zenon

\* What is left beyond 365 days is the first day of the next year.
LEMMA AfterRight ==
    ASSUME NEW s, NEW year \in 80 .. 219, NEW rest \in Nat, Leaves(s, year, rest),
           AfterYear(is_leapyear(year), rest)
    PROVE  ValidDate(Date(s)) /\ SecondsOf(Date(s)) \in Shown(s)
  <1> DEFINE x == rest - YEAR_SECONDS
  <1>1. /\ DAY \in Nat \ {0} /\ YEAR_SECONDS = 365 * DAY
        /\ is_leapyear(year) = FALSE /\ rest > 365 * DAY /\ rest < 366 * DAY
    BY DayLemma DEF AfterYear, Leaves, is_leapyear
  <1>2. x \in Nat /\ x > 0 /\ x < DAY /\ rest = x + 365 * DAY
    BY <1>1
  <1> HIDE DEF x
  <1>3. Date(s) = DateOf(year + 1, 0, x)
    <2>1. Months(is_leapyear(year))[rest - YEAR_SECONDS] = <<0, x>>
      BY <1>1, <1>2, FirstDay, ZenonT(60) DEF x
    <2> QED
      BY <2>1, DateAfter
  <1> DEFINE b == DaysBefore(year + 1)
             c == DaysBefore((year + 1) + 1)
  <1>4. b \in Int /\ c \in Int /\ b + 1 <= c
    BY DEF DaysBefore
  <1>5. Ahead(s) = b * DAY + x
    <2>0. Calendar(s, year, rest)
      BY AheadOf, Zenon
    <2>1. /\ Ahead(s) = DaysBefore(year) * DAY + rest
                            + IF year = 100 /\ rest >= 59 * DAY THEN DAY ELSE 0
          /\ DaysBefore(year) * DAY \in Nat
          /\ Leap(year)  => b * DAY = DaysBefore(year) * DAY + 366 * DAY
          /\ ~Leap(year) => b * DAY = DaysBefore(year) * DAY + 365 * DAY
      BY <2>0, Zenon DEF Calendar
    <2>2. year = 100 \/ ~Leap(year)
      BY <1>1, LeapLemma
    <2>3. year = 100 => Leap(year)
      BY DEF Leap
    <2> HIDE DEF b
    <2> QED
      BY <1>1, <1>2, <2>1, <2>2, <2>3
  <1>6. b * DAY + x < c * DAY
    <2> HIDE DEF b, c
    <2>1. (b + 1) * DAY <= c * DAY /\ (b + 1) * DAY = b * DAY + DAY
          /\ b * DAY \in Int /\ c * DAY \in Int
      BY <1>1, <1>4, MulMono
    <2> QED
      BY <1>1, <1>2, <2>1
  <1>7. Shown(s) = {Ahead(s)}
    <2>1. year + 1 \in 80 .. 220
      OBVIOUS
    <2> QED
      BY <1>2, <1>5, <1>6, <2>1, ShownAsIs
  <1>8. ValidDate(Date(s)) /\ SecondsOf(Date(s)) = (b + MonthStart(year + 1, 0)) * DAY + x
    <2>1. x < (MonthStart(year + 1, 0 + 1) - MonthStart(year + 1, 0)) * DAY
      <3>1. MonthStart(year + 1, 0 + 1) = 31 /\ MonthStart(year + 1, 0) = 0
        BY MonthStarts
      <3> QED
        BY <1>1, <1>2, <3>1
    <2>2. year + 1 \in Int /\ 0 \in 0 .. 11
      OBVIOUS
    <2> QED
      BY <1>2, <1>3, <1>4, <2>1, <2>2, DateIs DEF DateOf
  <1>9. (b + MonthStart(year + 1, 0)) * DAY = b * DAY
    <2>1. MonthStart(year + 1, 0) = 0
      BY MonthStarts
    <2> QED
      BY <1>4, <2>1
  <1> QED
    BY <1>5, <1>7, <1>8, <1>9

\* After exactly 365 days no month is found.
LEMMA LastSecondRight ==
    ASSUME NEW s \in 0 .. Weight(4) - 1, NEW year \in 80 .. 219, NEW rest \in Nat,
           Leaves(s, year, rest), ~is_leapyear(year), rest = 365 * DAY
    PROVE  ValidDate(Date(s)) /\ SecondsOf(Date(s)) \in Shown(s)
  <1>1. /\ DAY \in Nat \ {0} /\ YEAR_SECONDS = 365 * DAY
        /\ is_leapyear(year) = FALSE /\ FALSE \in BOOLEAN
        /\ ~AfterYear(is_leapyear(year), rest)
    BY DayLemma DEF AfterYear, is_leapyear
  <1>2. Months(FALSE)[rest] = <<0, 0>>
    <2>1. Found(Months(FALSE)[rest], FALSE, rest)
      BY <1>1, MonthsRight
    <2>2. MonthFirst(FALSE, 12) = 365
      BY <1>1, MonthLemma
    <2>3. ASSUME NEW mon \in 0 .. 11
          PROVE  ~(rest < MonthFirst(FALSE, mon + 1) * DAY)
      <3> DEFINE c == MonthFirst(FALSE, mon + 1)
      <3>1. c \in Nat /\ c <= 365
        BY DEF MonthFirst
      <3> HIDE DEF c
      <3>2. c * DAY <= 365 * DAY /\ c * DAY \in Nat
        BY <1>1, <3>1, MulMono
      <3>3. ~(rest < c * DAY)
        BY <1>1, <3>2
      <3> QED
        BY <3>3 DEF c
    <2>4. Months(FALSE)[rest] = <<0, rest - MonthFirst(FALSE, 12) * DAY>>
      BY <2>1, <2>3, Zenon DEF Found
    <2> DEFINE c == rest - MonthFirst(FALSE, 12) * DAY
    <2>5. c = 0
      <3>1. 365 * DAY - 365 * DAY = 0
        BY <1>1
      <3>2. c = rest - 365 * DAY
        BY <2>2, Zenon
      <3> HIDE DEF c
      <3> QED
        BY <3>1, <3>2, Zenon
    <2>6. Months(FALSE)[rest] = <<0, c>>
      BY <2>4
    <2> HIDE DEF c
    <2> QED
      BY <2>5, <2>6, Zenon
  <1>3. Date(s) = DateOf(year, 0, 0)
    BY <1>1, <1>2, DateWithin
  <1> DEFINE b == DaysBefore(year)
  <1>4. b \in Int /\ b * DAY \in Nat
    BY <1>1 DEF DaysBefore
  <1>5. Ahead(s) = DaysBefore(year + 1) * DAY
    <2>0. Calendar(s, year, rest)
      BY AheadOf, Zenon
    <2>1. /\ Ahead(s) = b * DAY + rest
                            + IF year = 100 /\ rest >= 59 * DAY THEN DAY ELSE 0
          /\ Leap(year)  => DaysBefore(year + 1) * DAY = b * DAY + 366 * DAY
          /\ ~Leap(year) => DaysBefore(year + 1) * DAY = b * DAY + 365 * DAY
      BY <2>0, Zenon DEF Calendar
    <2>2. year = 100 \/ ~Leap(year)
      BY <1>1, LeapLemma
    <2>3. year = 100 => Leap(year)
      BY DEF Leap
    <2> HIDE DEF b
    <2> QED
      BY <1>1, <1>4, <2>1, <2>2, <2>3
  <1>6. b * DAY \in Shown(s)
    <2>1. YearStart(year) <= s
      <3>1. YearStart(year) \in Nat /\ YearStart(year) + rest = s
        BY YearStartLemma DEF Leaves
      <3> QED
        BY <3>1
    <2> QED
      BY <1>5, <2>1, ShownAsYearBefore
  <1>7. ValidDate(Date(s)) /\ SecondsOf(Date(s)) = (b + MonthStart(year, 0)) * DAY + 0
    <2>1. 0 < (MonthStart(year, 0 + 1) - MonthStart(year, 0)) * DAY
      <3>1. MonthStart(year, 0 + 1) = 31 /\ MonthStart(year, 0) = 0
        BY MonthStarts
      <3> QED
        BY <1>1, <3>1
    <2>2. year \in Int /\ 0 \in 0 .. 11 /\ 0 \in Nat
      OBVIOUS
    <2> QED
      BY <1>3, <1>4, <2>1, <2>2, DateIs DEF DateOf
  <1>8. (b + MonthStart(year, 0)) * DAY + 0 = b * DAY
    <2>1. MonthStart(year, 0) = 0
      BY MonthStarts
    <2> QED
      BY <1>1, <1>4, <2>1
  <1> QED
    BY <1>6, <1>7, <1>8

\* What is left of a year lies within it.
LEMMA WithinRight ==
    ASSUME NEW s, NEW year \in 80 .. 219, NEW rest \in Nat, Leaves(s, year, rest),
           is_leapyear(year) \/ rest < 365 * DAY
    PROVE  ValidDate(Date(s)) /\ SecondsOf(Date(s)) \in Shown(s)
  <1> DEFINE leap == is_leapyear(year)
             b == DaysBefore(year)
  <1>1. /\ DAY \in Nat \ {0} /\ YEAR_SECONDS = 365 * DAY /\ leap \in BOOLEAN
        /\ rest < 366 * DAY /\ b \in Int
    BY DayLemma DEF Leaves, is_leapyear, DaysBefore
  <1>2. ~AfterYear(is_leapyear(year), rest)
    BY <1>1 DEF AfterYear
  <1>3. leap = (Leap(year) /\ year # 100)
    BY LeapLemma
  <1>4. PICK mon \in 0 .. 11 :
            /\ MonthFirst(leap, mon) * DAY <= rest
            /\ rest < MonthFirst(leap, mon + 1) * DAY
            /\ Months(leap)[rest] = <<mon, rest - MonthFirst(leap, mon) * DAY>>
    <2>1. Found(Months(leap)[rest], leap, rest)
      BY <1>1, MonthsRight
    <2>2. MonthFirst(leap, 12) = IF leap THEN 366 ELSE 365
      BY <1>1, MonthLemma
    <2>3. ~(rest >= MonthFirst(leap, 12) * DAY)
      <3> HIDE DEF leap
      <3>1. CASE leap
        <4>1. MonthFirst(leap, 12) = 366
          BY <2>2, <3>1
        <4> QED
          BY <1>1, <4>1
      <3>2. CASE ~leap
        <4>1. MonthFirst(leap, 12) = 365
          BY <2>2, <3>2
        <4>2. rest < 365 * DAY
          BY <3>2 DEF leap
        <4> QED
          BY <1>1, <4>1, <4>2
      <3> QED
        BY <3>1, <3>2
    <2> QED
      BY <2>1, <2>3, Zenon DEF Found
  <1> DEFINE f == MonthFirst(leap, mon)
             g == MonthFirst(leap, mon + 1)
             m == MonthStart(year, mon)
             n == MonthStart(year, mon + 1)
             x == rest - f * DAY
             late == year = 100 /\ mon > 1
  <1>5. /\ f \in Nat /\ g \in Nat /\ m \in Nat /\ n \in Nat
        /\ m = f + IF late THEN 1 ELSE 0
        /\ g - f <= n - m
        /\ year = 100 => (mon > 1 <=> f >= 59) /\ (mon > 1 <=> ~(g <= 59))
    <2>1. f \in Nat /\ g \in Nat
      BY <1>1, MonthLemma
    <2>2. CASE year # 100
      <3>1. leap = Leap(year)
        BY <1>3, <2>2 DEF Leap
      <3>2. mon \in 0 .. 12 /\ mon + 1 \in 0 .. 12
        OBVIOUS
      <3>3. m = f /\ n = g
        BY <3>1, <3>2, MonthStarts, Zenon
      <3> QED
        BY <2>1, <2>2, <3>3
    <2>3. CASE year = 100
      <3>1. Leap(year)
        BY <2>3 DEF Leap
      <3>2. ~leap
        BY <1>3, <2>3
      <3>3. leap = FALSE
        BY <1>1, <3>2
      <3>4. f = MonthFirst(FALSE, mon) /\ g = MonthFirst(FALSE, mon + 1)
        BY <3>3
      <3> HIDE DEF leap, f, g
      <3> QED
        BY <2>3, <3>1, <3>4 DEF MonthStart, MonthFirst
    <2> QED
      BY <2>2, <2>3
  <1>6. /\ f * DAY <= rest /\ rest < g * DAY /\ f * DAY \in Nat
        /\ x \in Nat /\ x < (n - m) * DAY
        /\ (b + m) * DAY + x = b * DAY + rest + IF late THEN DAY ELSE 0
    <2>1. f * DAY <= rest /\ rest < g * DAY
      BY <1>4
    <2> HIDE DEF leap, f, g, m, n, b, late
    <2>2. f * DAY \in Nat /\ g * DAY \in Nat
      BY <1>1, <1>5
    <2>3. x \in Nat /\ x < g * DAY - f * DAY
      BY <2>1, <2>2
    <2>4. (g - f) * DAY <= (n - m) * DAY /\ (g - f) * DAY = g * DAY - f * DAY
          /\ (n - m) * DAY \in Int
      BY <1>1, <1>5, MulMono
    <2>5. (b + m) * DAY = b * DAY + f * DAY + IF late THEN DAY ELSE 0
      BY <1>1, <1>5
    <2>6. b * DAY \in Int /\ (b + m) * DAY \in Int
      BY <1>1, <1>5
    <2>7. x < (n - m) * DAY
      BY <2>2, <2>3, <2>4
    <2>8. (b + m) * DAY + x = b * DAY + rest + IF late THEN DAY ELSE 0
      <3> DEFINE p == b * DAY
                 q == f * DAY
                 r == (b + m) * DAY
                 u == IF late THEN DAY ELSE 0
      <3>1. x + q = rest /\ p \in Int /\ q \in Int /\ r \in Int /\ u \in Int
        BY <1>1, <2>2, <2>6
      <3>2. r = p + q + u
        BY <2>5
      <3> HIDE DEF x, p, q, r, u
      <3>3. r + x = p + rest + u
        BY <2>3, <3>1, <3>2
      <3> QED
        BY <3>3 DEF p, r, u
    <2> HIDE DEF x
    <2> QED
      BY <2>1, <2>2, <2>3, <2>7, <2>8
  <1>7. Date(s) = DateOf(year, mon, x)
    BY <1>2, <1>4, DateWithin
  <1>8. /\ Ahead(s) = b * DAY + rest + IF late THEN DAY ELSE 0
        /\ Ahead(s) < DaysBefore(year + 1) * DAY
        /\ b * DAY \in Nat
    <2>0. Calendar(s, year, rest)
      BY AheadOf, Zenon
    <2>1. /\ Ahead(s) = b * DAY + rest
                            + IF year = 100 /\ rest >= 59 * DAY THEN DAY ELSE 0
          /\ b * DAY \in Nat
          /\ Leap(year)  => DaysBefore(year + 1) * DAY = b * DAY + 366 * DAY
          /\ ~Leap(year) => DaysBefore(year + 1) * DAY = b * DAY + 365 * DAY
      BY <2>0, Zenon DEF Calendar
    <2>2. year = 100 => (mon > 1 <=> rest >= 59 * DAY)
      <3> HIDE DEF leap, f, g, m, n, b, late, x
      <3>1. f >= 59 => 59 * DAY <= f * DAY
        BY <1>1, <1>5, MulMono
      <3>2. g <= 59 => g * DAY <= 59 * DAY
        BY <1>1, <1>5, MulMono
      <3>3. g * DAY \in Nat
        BY <1>1, <1>5
      <3> QED
        BY <1>1, <1>5, <1>6, <3>1, <3>2, <3>3
    <2>3. (year = 100 /\ rest >= 59 * DAY) = late
      BY <2>2
    <2>4. year = 100 => Leap(year)
      BY DEF Leap
    <2>5. ~Leap(year) \/ year = 100 => ~leap
      BY <1>3
    <2>6. leap \/ rest < 365 * DAY
      OBVIOUS
    <2> HIDE DEF b, leap
    <2> QED
      BY <1>1, <2>1, <2>3, <2>4, <2>5, <2>6
  <1>9. ValidDate(Date(s)) /\ SecondsOf(Date(s)) = Ahead(s)
    <2>1. ValidDate(Date(s)) /\ SecondsOf(Date(s)) = (b + m) * DAY + x
      <3>1. year \in Int
        OBVIOUS
      <3> HIDE DEF x
      <3> QED
        BY <1>1, <1>6, <1>7, <3>1, DateIs DEF DateOf
    <2> QED
      BY <1>6, <1>8, <2>1, Zenon
  <1>10. Shown(s) = {Ahead(s)}
    <2> DEFINE y == rest + IF late THEN DAY ELSE 0
    <2>1. y \in Nat /\ Ahead(s) = b * DAY + y
      BY <1>1, <1>8
    <2>2. y > 0 \/ year = 80 \/ is_leapyear(year - 1)
      BY <1>1 DEF Leaves
    <2>3. year \in 80 .. 220
      OBVIOUS
    <2> HIDE DEF y
    <2> QED
      BY <1>8, <2>1, <2>2, <2>3, ShownAsIs
  <1> QED
    BY <1>9, <1>10

LEMMA DateRight ==
    ASSUME NEW s \in 0 .. Weight(4) - 1
    PROVE  ValidDate(Date(s)) /\ SecondsOf(Date(s)) \in Shown(s)
  <1>1. PICK year \in 80 .. 219, rest \in Nat : Leaves(s, year, rest)
    <2>1. PICK year \in 80 .. 219, rest \in Nat :
              /\ Years[s][80] = <<year, rest>>
              /\ YearStart(year) + rest = YearStart(80) + s
              /\ rest < LEAP_YEAR_SECONDS
              /\ year = 80 \/ is_leapyear(year - 1) \/ rest >= DAY
      BY YearsRight, Zenon DEF Passes
    <2>2. YearStart(80) + s = s
      <3>1. Weight(4) \in Nat
        BY WeightLemma
      <3> QED
        BY <3>1, LastLemma
    <2> QED
      BY <2>1, <2>2 DEF Leaves
  <1>2. CASE AfterYear(is_leapyear(year), rest)
    BY <1>1, <1>2, AfterRight
  <1>3. CASE is_leapyear(year) \/ rest < 365 * DAY
    BY <1>1, <1>3, WithinRight
  <1>4. CASE ~is_leapyear(year) /\ rest = 365 * DAY
    BY <1>1, <1>4, LastSecondRight
  <1> QED
    <2>1. DAY \in Nat /\ YEAR_SECONDS = 365 * DAY
      BY DayLemma
    <2> QED
      BY <1>2, <1>3, <1>4, <2>1 DEF AfterYear
-----------------------------------------------------------------------------
(* The time *)

LEMMA ByteInvariance == Spec => []ByteInv
  <1>1. Init => ByteInv
    BY DEF Init, ByteInv
  <1> QED
    BY <1>1, ByteStep, ClockInvariance, PTL DEF Spec

\* However many seconds pass while the four bytes are read, they are a time no
\* earlier than the read began, off by no more than what overflowed, and the
\* answer is the date of that time, a day ahead from 29 February 2000 on, but
\* for the first second of the years that follow 365 days (rtc.c:50-116).
THEOREM TimeIsRight == Spec => []TimeRight
  <1>1. IInv /\ ByteInv => TimeRight
    <2> SUFFICES ASSUME IInv, ByteInv, pc = "answered"
                 PROVE  /\ NotBehind
                        /\ began \div BYTE = counter \div BYTE => Seconds <= counter
                        /\ \A n \in 1 .. 3 :
                               began \div Weight(n) = counter \div Weight(n) =>
                                   Seconds \div Weight(n) = began \div Weight(n)
                        /\ ValidDate(now) /\ SecondsOf(now) \in Shown(Seconds)
      BY Zenon DEF TimeRight
    <2>1. NotBehind
      BY DEF IInv, ClockInv
    <2>2. /\ Seconds \in 0 .. Weight(4) - 1
          /\ began \div BYTE = counter \div BYTE => Seconds <= counter
          /\ \A n \in 1 .. 3 : began \div Weight(n) = counter \div Weight(n) =>
                                   Seconds \div Weight(n) = began \div Weight(n)
      BY AnsweredBytes
    <2>3. now = Date(Seconds)
      BY Zenon DEF ByteInv
    <2>4. ValidDate(Date(Seconds)) /\ SecondsOf(Date(Seconds)) \in Shown(Seconds)
      BY <2>2, DateRight, Zenon
    <2> QED
      BY <2>1, <2>2, <2>3, <2>4, Zenon
  <1> QED
    BY <1>1, ClockInvariance, ByteInvariance, PTL
=============================================================================
