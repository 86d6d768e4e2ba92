--------------------------- MODULE PodReadProofs ---------------------------
(* Proofs about PodRead, for every text, font, screen and number of steps: *)
(* the text is not scrolled away; and its lines follow one another, keep   *)
(* every newline and are narrow enough, as long as the array of their ends *)
(* has had room for them.                                                  *)
EXTENDS PodRead, FiniteSetTheorems, WellFoundedInduction, TLAPS

Kinds == Chars \union {"tab", "nl"}

\* xpos after the first character of a line
FirstWidths == {TAB - 1} \union {Width[c] : c \in Chars}

\* The wrapping may not break a line before it has moved on: at the end of
\* the last line xpos is 0, one character later at most that character's.
Moving ==
    /\ LastEnd <= cpos /\ LastEnd <= bufsize
    /\ cpos = LastEnd => xpos = 0
    /\ cpos = LastEnd + 1 => xpos \in {0} \union FirstWidths

\* The array has had room for every line, and has not been moved.
Within == Len(ends) <= FirstRoom

Lines ==
    pc = "wrapping" =>
        /\ Moving
        /\ Within => ~astray /\ LinesInOrder /\ NewlinesEndLines

IInv == TypeOK /\ text \in Texts /\ Lines /\ ScrollInText

LEMMA TextsLemma ==
    ASSUME NEW t \in Texts
    PROVE  /\ Cardinality(DOMAIN t) \in Nat
           /\ \A p \in 0 .. Cardinality(DOMAIN t) - 1 : t[p] \in Kinds
  <1>1. PICK n \in 0 .. MaxText : t \in [0 .. n - 1 -> Kinds]
    BY DEF Texts, Kinds
  <1>2. n \in Nat
    BY PodReadAssumption DEF PodReadAssumption
  <1>3. Cardinality(0 .. n - 1) = n
    BY <1>2, FS_Interval
  <1> QED
    BY <1>1, <1>2, <1>3

LEMMA TextLemma ==
    ASSUME text \in Texts
    PROVE  /\ bufsize \in Nat /\ FirstRoom \in Nat
           /\ \A p \in 0 .. bufsize - 1 : text[p] \in Kinds
  <1>1. bufsize \in Nat
    BY TextsLemma DEF bufsize
  <1>2. FirstRoom \in Nat
    BY <1>1, PodReadAssumption DEF PodReadAssumption, FirstRoom
  <1> QED
    BY <1>1, <1>2, TextsLemma DEF bufsize

LEMMA EmptyLemma == Empty \in Texts
  <1>1. 0 \in 0 .. MaxText /\ 0 .. 0 - 1 = {}
    BY PodReadAssumption DEF PodReadAssumption
  <1>2. Empty \in [0 .. 0 - 1 -> Chars \union {"tab", "nl"}]
    BY <1>1 DEF Empty
  <1> QED
    BY <1>1, <1>2 DEF Texts

LEMMA TabLemma ==
    ASSUME NEW x \in Nat
    PROVE  /\ (x + TAB - 1) % TAB \in 0 .. TAB - 1
           /\ x = 0 => (x + TAB - 1) % TAB = TAB - 1
  <1>1. TAB \in Nat /\ TAB > 0
    BY PodReadAssumption DEF PodReadAssumption
  <1>2. \A y \in Nat : y % TAB \in 0 .. TAB - 1
    BY <1>1
  <1>3. x + TAB - 1 \in Nat
    BY <1>1
  <1>4. (TAB - 1) % TAB = TAB - 1
    BY <1>1
  <1>5. x = 0 => x + TAB - 1 = TAB - 1
    BY <1>1
  <1> QED
    BY <1>2, <1>3, <1>4, <1>5

\* What one more character does to xpos; a first character and the one after
\* it always fit.
LEMMA MeasuredLemma ==
    ASSUME TypeOK, text \in Texts, cpos < bufsize, text[cpos] # "nl"
    PROVE  /\ Measured \in Nat
           /\ xpos = 0 => Measured <= wid /\ Measured \in FirstWidths
           /\ xpos \in FirstWidths => Measured <= wid
  <1> USE PodReadAssumption DEF PodReadAssumption, TypeOK
  <1>1. text[cpos] \in Chars \union {"tab"}
    BY TextLemma DEF Kinds
  <1>2. CASE text[cpos] = "tab"
    <2>1. /\ Measured \in 0 .. TAB - 1
          /\ xpos = 0 => Measured = TAB - 1
      <3>1. Measured = (xpos + TAB - 1) % TAB
        BY <1>2, Zenon DEF Measured
      <3> QED
        BY <3>1, TabLemma
    <2> QED
      BY <2>1 DEF FirstWidths
  <1>3. CASE text[cpos] \in Chars
    <2>1. Measured = xpos + Width[text[cpos]]
      BY <1>3 DEF Measured
    <2>2. /\ Width[text[cpos]] \in Nat
          /\ 2 * Width[text[cpos]] <= wid
          /\ TAB - 1 + Width[text[cpos]] <= wid
      BY <1>3
    <2>3. \A c \in Chars : Width[c] \in Nat /\ 2 * Width[c] <= wid
      OBVIOUS
    <2>4. xpos = 0 => Measured \in FirstWidths
      BY <1>3, <2>1, <2>2 DEF FirstWidths
    <2>5. ASSUME NEW w \in FirstWidths
          PROVE  w \in Nat /\ w + Width[text[cpos]] <= wid
      <3>1. CASE w = TAB - 1
        BY <2>2, <3>1
      <3>2. CASE \E c \in Chars : w = Width[c]
        BY <2>2, <2>3, <3>2, SMTT(30)
      <3> QED
        BY <3>1, <3>2 DEF FirstWidths
    <2>6. Measured \in Nat /\ (xpos = 0 => Measured <= wid)
      BY <2>1, <2>2, SMTT(30)
    <2> QED
      BY <2>1, <2>4, <2>5, <2>6
  <1> QED
    BY <1>1, <1>2, <1>3

LEMMA LastEndLemma ==
    ASSUME TypeOK
    PROVE  LastEnd \in Nat
  BY DEF TypeOK, LastEnd

\* A word is broken up after two of its characters at least.
LEMMA BigWordLemma ==
    ASSUME TypeOK, text \in Texts, Lines, pc = "wrapping", WrapBigWord
    PROVE  cpos > LastEnd + 1
  <1>1. Moving /\ cpos < bufsize /\ text[cpos] # "nl" /\ Measured > wid
    BY DEF Lines, WrapBigWord, Pass
  <1>2. cpos \in Nat /\ LastEnd \in Nat /\ wid \in Nat
    BY LastEndLemma, PodReadAssumption DEF TypeOK, PodReadAssumption
  <1>3. Measured \in Nat /\ (xpos \in {0} \union FirstWidths => Measured <= wid)
    BY <1>1, MeasuredLemma
  <1>4. xpos # 0 /\ xpos \notin FirstWidths
    BY <1>1, <1>2, <1>3
  <1> QED
    BY <1>1, <1>2, <1>4 DEF Moving

\* One line more
LEMMA AppendLemma ==
    ASSUME TypeOK, NEW e \in Nat, ends' = Append(ends, e),
           LinesInOrder, LastEnd < e, e <= bufsize, text' = text
    PROVE  /\ ends' \in Seq(Nat)
           /\ LastEnd' = e
           /\ LinesInOrder'
           /\ \A p \in Int : (\E i \in 1 .. Len(ends) : ends[i] \in {p, p + 1})
                   => \E i \in 1 .. Len(ends') : ends'[i] \in {p, p + 1}
           /\ Len(ends') \in Nat /\ Len(ends') > 0 /\ ends'[Len(ends')] = e
  <1>1. /\ ends' \in Seq(Nat)
        /\ Len(ends') = Len(ends) + 1
        /\ Len(ends) \in Nat
        /\ \A i \in 1 .. Len(ends) : ends'[i] = ends[i]
        /\ ends'[Len(ends) + 1] = e
    BY DEF TypeOK
  <1>2. LastEnd' = e
    BY <1>1 DEF LastEnd
  <1>3. LinesInOrder'
    <2> SUFFICES ASSUME NEW i \in 1 .. Len(ends) + 1
                 PROVE  LineStart(i)' < ends'[i] /\ ends'[i] <= bufsize
      BY <1>1 DEF LinesInOrder, bufsize
    <2>1. CASE i \in 1 .. Len(ends)
      <3>1. LineStart(i)' = LineStart(i)
        BY <1>1, <2>1 DEF LineStart
      <3> QED
        BY <1>1, <2>1, <3>1 DEF LinesInOrder
    <2>2. CASE i = Len(ends) + 1
      <3>1. LineStart(i)' = LastEnd
        BY <1>1, <2>2 DEF LineStart, LastEnd, TypeOK
      <3> QED
        BY <1>1, <2>2, <3>1
    <2> QED
      BY <1>1, <2>1, <2>2
  <1> QED
    BY <1>1, <1>2, <1>3

LEMMA StepsLemma ==
    ASSUME NEW sofar \in Int, NEW dir \in Int
    PROVE  Steps(sofar, dir) \in Int /\ Left(sofar, dir) \in Int
  BY PodReadAssumption DEF PodReadAssumption, Steps, Left, Quotient

-----------------------------------------------------------------------------
(* Types *)

\* What is said of a text being wrapped does not speak of the reader.
WrapTypes ==
    /\ pc \in {"closed", "wrapping", "reading"}
    /\ cpos \in Nat /\ xpos \in Nat /\ ends \in Seq(Nat)
    /\ lastreallock \in Nat /\ astray \in BOOLEAN
    /\ text \in Texts

ReaderTypes ==
    /\ linecount \in Nat /\ scroll \in Int
    /\ mode \in 0 .. 3
    /\ autoscroller \in -SPEED .. SPEED
    /\ curautoscroller \in Int
    /\ sofarWheel \in Int /\ sofarTimer \in Int
    /\ saved \in Int
    /\ acts \in 0 .. MaxActs

LEMMA TypesLemma == WrapTypes /\ ReaderTypes <=> TypeOK /\ text \in Texts
  BY DEF WrapTypes, ReaderTypes, TypeOK

LEMMA ReaderUnchanged ==
    ASSUME ReaderTypes, UNCHANGED <<reader, acts>>
    PROVE  ReaderTypes'
  BY DEF ReaderTypes, reader, auto

LEMMA BoundsLemma ==
    ASSUME NEW s \in Int, linecount \in Nat
    PROVE  /\ LastTop \in Int
           /\ ByUser(s) \in Int /\ ByTimer(s) \in Int
           /\ LastTop >= 0 => ByUser(s) \in 0 .. LastTop /\ ByTimer(s) \in 0 .. LastTop
           /\ LastTop < 0  => ByUser(s) = LastTop /\ ByTimer(s) = 0
  BY PodReadAssumption DEF PodReadAssumption, LastTop, ByUser, ByTimer, AtLeast, AtMost

\* Every action of the user or the timer keeps the types and leaves the
\* wrapping alone or starts it.
LEMMA ReaderStep ==
    ASSUME WrapTypes, ReaderTypes, User \/ Timer
    PROVE  ReaderTypes'
  <1> USE PodReadAssumption DEF PodReadAssumption, ReaderTypes
  <1>1. CASE Open
    BY <1>1 DEF Open
  <1>2. ASSUME NEW dir \in Turns, Wheel(dir)
        PROVE  ReaderTypes'
    <2>1. dir \in Int
      OBVIOUS
    <2> DEFINE n == Steps(sofarWheel, dir)
               k == IF mode = 0 THEN 1 ELSE screenlines
    <2>2. n \in Int /\ Left(sofarWheel, dir) \in Int
      BY <2>1, StepsLemma
    <2>3. n * k \in Int
      BY <2>2
    <2>4. /\ sofarWheel' = Left(sofarWheel, dir)
          /\ scroll' \in {scroll, ByUser(scroll + n * k)}
          /\ UNCHANGED <<linecount, mode, curautoscroller, sofarTimer, saved>>
          /\ acts < MaxActs /\ acts' = acts + 1
      BY <1>2 DEF Wheel, Act
    <2>5. autoscroller' \in {AtLeast(autoscroller - 1, -SPEED),
                             AtMost(autoscroller + 1, SPEED), autoscroller}
      BY <1>2 DEF Wheel
    <2>6. autoscroller' \in -SPEED .. SPEED
      BY <2>5 DEF AtLeast, AtMost
    <2> HIDE DEF n, k
    <2>7. scroll + n * k \in Int
      BY <2>3
    <2>8. scroll' \in Int
      BY <2>4, <2>7, BoundsLemma
    <2> QED
      BY <2>2, <2>4, <2>6, <2>8
  <1>3. CASE ActionButton
    BY <1>3 DEF ActionButton, Act, NextMode, auto
  <1>4. CASE NextButton \/ PreviousButton \/ PlayButton \/ Quit
    BY <1>4 DEF NextButton, PreviousButton, PlayButton, Quit, Act, LastTop
  <1>5. ASSUME NEW m \in 0 .. 3, MenuMode(m)
        PROVE  ReaderTypes'
    BY <1>5 DEF MenuMode, Act, auto
  <1>6. CASE SaveLine
    BY <1>6 DEF SaveLine, Act, auto
  <1>7. CASE LoadLine
    <2>1. PICK n \in IF saved = -1 THEN 0 .. MaxSaved ELSE {saved} : scroll' = ByTimer(n)
      BY <1>7 DEF LoadLine
    <2>2. n \in Int
      OBVIOUS
    <2>3. scroll' \in Int
      BY <2>1, <2>2, BoundsLemma
    <2> QED
      BY <1>7, <2>3 DEF LoadLine, Act, auto
  <1>8. CASE Timer
    <2> DEFINE c   == curautoscroller + 1
               dir == IF autoscroller > 0 /\ Due(c) THEN 1
                      ELSE IF autoscroller < 0 /\ c <= -SPEED THEN -1
                      ELSE 0
    <2>1. dir \in Int
      OBVIOUS
    <2>2. Steps(sofarTimer, dir) \in Int /\ Left(sofarTimer, dir) \in Int
      BY <2>1, StepsLemma
    <2>3. ByTimer(scroll + Steps(sofarTimer, dir)) \in Int
      BY <2>2, BoundsLemma
    <2>4. /\ curautoscroller' \in {c + autoscroller, 0}
          /\ sofarTimer' \in {sofarTimer, Left(sofarTimer, dir)}
          /\ scroll' \in {scroll, ByTimer(scroll + Steps(sofarTimer, dir))}
          /\ UNCHANGED <<linecount, mode, autoscroller, sofarWheel, saved, acts>>
      BY <1>8 DEF Timer
    <2>5. autoscroller \in Int /\ c + autoscroller \in Int
      OBVIOUS
    <2> HIDE DEF dir, c
    <2> QED
      BY <2>2, <2>3, <2>4, <2>5
  <1> QED
    BY <1>1, <1>2, <1>3, <1>4, <1>5, <1>6, <1>7, <1>8 DEF User

\* What is divided up is a natural number.
LEMMA ShareLemma ==
    ASSUME NEW n \in Nat, NEW d \in Nat \ {0}
    PROVE  n \div d \in Nat
  BY Z3

\* The timer and the user leave the wrapping alone, or begin it anew.
LEMMA ReaderKeepsText ==
    ASSUME WrapTypes, User \/ Timer
    PROVE  /\ WrapTypes'
           /\ \/ pc' = "wrapping" /\ cpos' = 0 /\ xpos' = 0 /\ ends' = <<>> /\ ~astray'
              \/ pc' # "wrapping"
  <1>1. CASE Open
    <2>1. /\ pc' = "wrapping" /\ cpos' = 0 /\ xpos' = 0 /\ ends' = <<>>
          /\ lastreallock' = FirstRoom' /\ astray' = FALSE /\ text' \in Texts
      BY <1>1 DEF Open
    <2>2. bufsize' \in Nat
      BY <2>1, TextsLemma DEF bufsize
    <2>3. FirstRoom' \in Nat
      <3>1. PER_LINE \in Nat \ {0}
        BY PodReadAssumption DEF PodReadAssumption
      <3>2. bufsize' \div PER_LINE \in Nat
        BY <2>2, <3>1, ShareLemma
      <3> QED
        BY <3>2 DEF FirstRoom
    <2>4. cpos' \in Nat /\ xpos' \in Nat /\ ends' \in Seq(Nat) /\ lastreallock' \in Nat
      BY <2>1, <2>3
    <2>5. astray' \in BOOLEAN /\ ~astray'
      BY <2>1
    <2> QED
      BY <2>1, <2>4, <2>5, Zenon DEF WrapTypes
  <1>2. CASE ~Open
    <2>1. UNCHANGED wrapping /\ pc = "reading" /\ pc' \in {"reading", "closed"}
      BY <1>2 DEF User, Wheel, ActionButton, NextButton, PreviousButton, PlayButton,
                  MenuMode, SaveLine, LoadLine, Quit, Timer, Act
    <2> QED
      BY <2>1 DEF WrapTypes, wrapping, array
  <1> QED
    BY <1>1, <1>2

-----------------------------------------------------------------------------
(* Lines *)

\* One pass of the loop moves on, wherever it finds the end before.
LEMMA WrapMoves ==
    ASSUME TypeOK, text \in Texts, Lines,
           WrapNewline \/ WrapFits \/ WrapAtSpace \/ WrapBigWord
    PROVE  WrapTypes' /\ Moving' /\ FirstRoom' = FirstRoom /\ (Within' => Within)
  <1>1. /\ pc = "wrapping" /\ pc' = pc /\ text' = text /\ cpos < bufsize
        /\ UNCHANGED array
    BY DEF WrapNewline, WrapFits, WrapAtSpace, WrapBigWord, Pass
  <1>2. /\ Moving /\ cpos \in Nat /\ xpos \in Nat /\ bufsize \in Nat /\ LastEnd \in Nat
        /\ ends \in Seq(Nat) /\ FirstRoom \in Nat
        /\ bufsize' = bufsize /\ FirstRoom' = FirstRoom
    BY <1>1, TextLemma, LastEndLemma DEF Lines, TypeOK, bufsize, FirstRoom
  <1>3. SUFFICES /\ cpos' \in Nat /\ xpos' \in Nat /\ ends' \in Seq(Nat)
                 /\ Moving' /\ Len(ends) <= Len(ends')
    BY <1>1, <1>2 DEF WrapTypes, TypeOK, array, Within
  <1>4. ASSUME NEW e \in Nat, ends' = Append(ends, e), e <= bufsize,
               xpos' = 0, cpos' \in Nat, e <= cpos'
        PROVE  /\ cpos' \in Nat /\ xpos' \in Nat /\ ends' \in Seq(Nat)
               /\ Moving' /\ Len(ends) <= Len(ends')
    <2>1. /\ ends' \in Seq(Nat) /\ Len(ends') = Len(ends) + 1 /\ LastEnd' = e
          /\ Len(ends) \in Nat
      BY <1>2, <1>4 DEF LastEnd
    <2> QED
      BY <1>2, <1>4, <2>1 DEF Moving
  <1>5. CASE WrapNewline
    BY <1>1, <1>2, <1>4, <1>5 DEF WrapNewline
  <1>6. CASE WrapFits
    <2>1. /\ xpos' = Measured /\ cpos' = cpos + 1 /\ ends' = ends
          /\ text[cpos] # "nl"
      BY <1>6 DEF WrapFits
    <2>2. /\ Measured \in Nat
          /\ xpos = 0 => Measured \in FirstWidths
      BY <1>1, <2>1, MeasuredLemma
    <2>3. LastEnd' = LastEnd
      BY <2>1 DEF LastEnd
    <2> QED
      BY <1>2, <2>1, <2>2, <2>3 DEF Moving
  <1>7. CASE WrapAtSpace
    <2>0. PICK e \in EndBefore : \E q \in BreakPoints(e) :
              ends' = Append(ends, q + 1) /\ cpos' = q + 2
      BY <1>7 DEF WrapAtSpace, AfterBreak
    <2>1. PICK q \in BreakPoints(e) :
              ends' = Append(ends, q + 1) /\ cpos' = q + 2
      BY <2>0
    <2>2. e \in Nat
      BY <1>2 DEF EndBefore
    <2>3. q \in Nat /\ q <= cpos
      BY <1>2, <2>1, <2>2 DEF BreakPoints
    <2>4. xpos' = 0
      BY <1>7 DEF WrapAtSpace
    <2>5. q + 1 \in Nat /\ q + 1 <= bufsize /\ q + 1 <= cpos' /\ cpos' \in Nat
      BY <1>1, <1>2, <2>1, <2>3
    <2> QED
      BY <1>4, <2>1, <2>4, <2>5
  <1>8. CASE WrapBigWord
    <2>1. ends' = Append(ends, cpos - 1) /\ cpos' = cpos /\ xpos' = 0
      BY <1>8 DEF WrapBigWord
    <2>2. cpos > LastEnd + 1
      BY <1>1, <1>8, BigWordLemma
    <2>3. cpos - 1 \in Nat /\ cpos - 1 <= bufsize /\ cpos - 1 <= cpos'
      BY <1>1, <1>2, <2>1, <2>2
    <2> QED
      BY <1>2, <1>4, <2>1, <2>3
  <1> QED
    BY <1>5, <1>6, <1>7, <1>8

\* One pass of the loop keeps the lines in order and every newline.
LEMMA WrapLines ==
    ASSUME TypeOK, text \in Texts, Lines, Within,
           WrapNewline \/ WrapFits \/ WrapAtSpace \/ WrapBigWord
    PROVE  LinesInOrder' /\ NewlinesEndLines'
  <1>1. /\ pc = "wrapping" /\ text' = text /\ cpos < bufsize
    BY DEF WrapNewline, WrapFits, WrapAtSpace, WrapBigWord, Pass
  <1>2. /\ Moving /\ LinesInOrder /\ NewlinesEndLines /\ EndBefore = {LastEnd}
        /\ cpos \in Nat /\ xpos \in Nat /\ bufsize \in Nat /\ LastEnd \in Nat
        /\ bufsize' = bufsize
    BY <1>1, TextLemma, LastEndLemma DEF Lines, TypeOK, bufsize, EndBefore
  <1>4. \A p \in 0 .. cpos - 1 :
            text[p] = "nl" => \E i \in 1 .. Len(ends) : ends[i] \in {p, p + 1}
    BY <1>1, <1>2 DEF NewlinesEndLines, AtMost
  <1>5. ASSUME NEW e \in Nat, ends' = Append(ends, e), LastEnd < e, e <= bufsize,
               xpos' = 0, cpos' \in Nat, e <= cpos',
               \A p \in Nat : cpos <= p /\ p < cpos' /\ text[p] = "nl" => e \in {p, p + 1}
        PROVE  LinesInOrder' /\ NewlinesEndLines'
    <2>1. /\ ends' \in Seq(Nat)
          /\ LastEnd' = e
          /\ LinesInOrder'
          /\ \A p \in Int : (\E i \in 1 .. Len(ends) : ends[i] \in {p, p + 1})
                  => \E i \in 1 .. Len(ends') : ends'[i] \in {p, p + 1}
          /\ Len(ends') \in Nat /\ Len(ends') > 0 /\ ends'[Len(ends')] = e
      BY <1>1, <1>2, <1>5, AppendLemma
    <2>2. NewlinesEndLines'
      <3> SUFFICES ASSUME NEW p \in 0 .. AtMost(cpos', bufsize) - 1, text[p] = "nl"
                   PROVE  \E i \in 1 .. Len(ends') : ends'[i] \in {p, p + 1}
        BY <1>1, <1>2 DEF NewlinesEndLines
      <3>1. p \in Nat /\ p < cpos'
        <4>1. AtMost(cpos', bufsize) \in Int /\ AtMost(cpos', bufsize) <= cpos'
          BY <1>2, <1>5 DEF AtMost
        <4> DEFINE top == AtMost(cpos', bufsize)
        <4>2. p \in 0 .. top - 1 /\ top \in Int /\ top <= cpos' /\ cpos' \in Nat
          BY <1>5, <4>1
        <4> HIDE DEF top
        <4> QED
          BY <4>2
      <3>2. CASE p < cpos
        BY <1>4, <2>1, <3>1, <3>2, <1>2
      <3>3. CASE p >= cpos
        <4>1. e \in {p, p + 1}
          BY <1>5, <3>1, <3>3
        <4>2. Len(ends') \in 1 .. Len(ends')
          BY <2>1
        <4> QED
          BY <2>1, <3>1, <4>1, <4>2
      <3> QED
        BY <1>2, <3>1, <3>2, <3>3
    <2> QED
      BY <2>1, <2>2
  <1>6. CASE WrapNewline
    <2>1. cpos + 1 \in Nat /\ ends' = Append(ends, cpos + 1) /\ xpos' = 0 /\ cpos' = cpos + 1
      BY <1>2, <1>6 DEF WrapNewline
    <2>2. LastEnd < cpos + 1 /\ cpos + 1 <= bufsize
      BY <1>1, <1>2 DEF Moving
    <2>3. \A p \in Nat : cpos <= p /\ p < cpos' => cpos + 1 \in {p, p + 1}
      BY <1>2, <2>1
    <2> QED
      BY <1>2, <1>5, <2>1, <2>2, <2>3
  <1>7. CASE WrapFits
    <2>1. cpos' = cpos + 1 /\ ends' = ends /\ text[cpos] # "nl"
      BY <1>7 DEF WrapFits
    <2>2. LinesInOrder'
      BY <1>1, <1>2, <2>1 DEF LinesInOrder, LineStart
    <2>3. NewlinesEndLines'
      <3> SUFFICES ASSUME NEW p \in 0 .. AtMost(cpos', bufsize) - 1, text[p] = "nl"
                   PROVE  \E i \in 1 .. Len(ends) : ends[i] \in {p, p + 1}
        BY <1>1, <1>2, <2>1 DEF NewlinesEndLines
      <3>1. p \in 0 .. cpos - 1
        BY <1>1, <1>2, <2>1 DEF AtMost
      <3> QED
        BY <1>4, <3>1
    <2> QED
      BY <2>2, <2>3
  <1>8. CASE WrapAtSpace
    <2>1. PICK q \in BreakPoints(LastEnd) : ends' = Append(ends, q + 1) /\ cpos' = q + 2
      BY <1>2, <1>8 DEF WrapAtSpace, AfterBreak
    <2>2. q \in Nat /\ LastEnd + 1 <= q /\ q <= cpos
      BY <1>2, <2>1 DEF BreakPoints
    <2>3. xpos' = 0 /\ text[cpos] # "nl"
      BY <1>8 DEF WrapAtSpace
    <2>4. LastEnd < q + 1 /\ q + 1 <= bufsize /\ q + 1 <= cpos' /\ cpos' \in Nat
      BY <1>1, <1>2, <2>1, <2>2
    <2>5. ASSUME NEW p \in Nat, cpos <= p, p < cpos', text[p] = "nl"
          PROVE  q + 1 \in {p, p + 1}
      <3>1. p # cpos
        BY <2>3, <2>5
      <3> QED
        BY <1>2, <2>1, <2>2, <2>5, <3>1
    <2> QED
      BY <1>5, <2>1, <2>2, <2>3, <2>4, <2>5
  <1>9. CASE WrapBigWord
    <2>1. ends' = Append(ends, cpos - 1) /\ cpos' = cpos /\ xpos' = 0
      BY <1>9 DEF WrapBigWord
    <2>3. cpos > LastEnd + 1
      BY <1>1, <1>9, BigWordLemma
    <2>4. cpos - 1 \in Nat /\ LastEnd < cpos - 1 /\ cpos - 1 <= bufsize /\ cpos - 1 <= cpos'
      BY <1>1, <1>2, <2>1, <2>3
    <2>5. \A p \in Nat : cpos <= p /\ p < cpos' => FALSE
      BY <1>2, <2>1
    <2> QED
      BY <1>2, <1>5, <2>1, <2>4, <2>5
  <1> QED
    BY <1>6, <1>7, <1>8, <1>9

-----------------------------------------------------------------------------
(* Widths *)

LEMMA Least ==
    ASSUME NEW T \in SUBSET Nat, T # {}
    PROVE  \E m \in T : \A k \in T : m <= k
  <1>1. PICK m \in T : \A k \in T : <<k, m>> \notin OpToRel(<, Nat)
    BY WFMin, NatLessThanWellFounded, Zenon
  <1>2. \A k \in T : ~(k < m)
    BY <1>1 DEF OpToRel
  <1> QED
    BY <1>2

LEMMA NatSteps ==
    ASSUME NEW S, 0 \in S, \A n \in Nat : n \in S => n + 1 \in S
    PROVE  Nat \subseteq S
  <1> SUFFICES ASSUME Nat \ S # {} PROVE FALSE
    OBVIOUS
  <1>1. PICK m \in Nat \ S : \A k \in Nat \ S : m <= k
    BY Least
  <1>2. m - 1 \in Nat /\ (m - 1) + 1 = m /\ ~(m <= m - 1)
    BY <1>1
  <1>3. m - 1 \in S
    BY <1>1, <1>2
  <1> QED
    BY <1>1, <1>2, <1>3

\* f adds up the widths of the characters of t from p on.
Measures(f, t, p, q) ==
    f = [n \in p .. q |-> IF n = p THEN 0 ELSE f[n - 1] + WidthAt(t[n - 1])]

LEMMA WidthAtNat == \A c : WidthAt(c) \in Nat
  BY PodReadAssumption DEF PodReadAssumption, WidthAt

LEMMA MeasuresExists ==
    ASSUME NEW t, NEW p \in Nat, NEW q \in Nat, p <= q
    PROVE  \E f : Measures(f, t, p, q)
  <1> DEFINE Good(f, m) == f = [n \in p .. p + m |-> IF n = p THEN 0
                                                    ELSE f[n - 1] + WidthAt(t[n - 1])]
             S == {m \in Nat : \E f : Good(f, m)}
  <1>1. 0 \in S
    <2>1. Good([n \in p .. p + 0 |-> 0], 0)
      OBVIOUS
    <2> QED
      BY <2>1
  <1>2. \A m \in Nat : m \in S => m + 1 \in S
    <2> SUFFICES ASSUME NEW m \in Nat, m \in S PROVE \E f : Good(f, m + 1)
      <3> HIDE DEF Good
      <3> QED
        OBVIOUS
    <2>1. PICK f : Good(f, m)
      <3> HIDE DEF Good
      <3> QED
        OBVIOUS
    <2> DEFINE g == [n \in p .. p + (m + 1) |-> IF n = p THEN 0
                                               ELSE f[n - 1] + WidthAt(t[n - 1])]
    <2>2. \A n \in p .. p + m : g[n] = f[n]
      BY <2>1
    <2>3. \A n \in p .. p + (m + 1) : n # p => n - 1 \in p .. p + m
      OBVIOUS
    <2>4. g = [n \in p .. p + (m + 1) |-> IF n = p THEN 0
                                           ELSE g[n - 1] + WidthAt(t[n - 1])]
      BY <2>2, <2>3
    <2> HIDE DEF g
    <2> QED
      BY <2>4
  <1> HIDE DEF S
  <1>3. q - p \in S
    <2>1. q - p \in Nat
      OBVIOUS
    <2> QED
      BY <1>1, <1>2, <2>1, NatSteps
  <1>4. p + (q - p) = q
    OBVIOUS
  <1> QED
    BY <1>3, <1>4 DEF S, Measures

LEMMA MeasuresIs ==
    ASSUME NEW t, NEW p \in Nat, NEW q \in Nat, p <= q
    PROVE  \E f : Measures(f, t, p, q) /\ WidthOver(t, p, q) = f[q]
  <1> DEFINE f == CHOOSE f : Measures(f, t, p, q)
  <1>1. Measures(f, t, p, q)
    BY MeasuresExists
  <1>2. WidthOver(t, p, q) = f[q]
    BY DEF WidthOver, Measures
  <1> QED
    BY <1>1, <1>2

\* However far two measures go, they agree as far as both do.
LEMMA MeasuresAgree ==
    ASSUME NEW t, NEW p \in Nat, NEW q \in Nat, NEW r \in Nat, p <= q, q <= r,
           NEW f, Measures(f, t, p, q), NEW g, Measures(g, t, p, r)
    PROVE  f[q] = g[q] /\ f[q] \in Nat
  <1> DEFINE S == {m \in Nat : p + m <= q => f[p + m] = g[p + m] /\ f[p + m] \in Nat}
  <1>1. 0 \in S
    BY DEF Measures
  <1>2. \A m \in Nat : m \in S => m + 1 \in S
    <2> SUFFICES ASSUME NEW m \in Nat, p + (m + 1) <= q,
                        f[p + m] = g[p + m], f[p + m] \in Nat
                 PROVE  f[p + (m + 1)] = g[p + (m + 1)] /\ f[p + (m + 1)] \in Nat
      OBVIOUS
    <2>1. /\ p + (m + 1) \in p .. q /\ p + (m + 1) \in p .. r
          /\ p + (m + 1) # p /\ (p + (m + 1)) - 1 = p + m
      OBVIOUS
    <2>2. /\ f[p + (m + 1)] = f[p + m] + WidthAt(t[p + m])
          /\ g[p + (m + 1)] = g[p + m] + WidthAt(t[p + m])
      BY <2>1 DEF Measures
    <2> QED
      BY <2>2, WidthAtNat
  <1> HIDE DEF S
  <1>3. q - p \in S
    <2>1. q - p \in Nat
      OBVIOUS
    <2> QED
      BY <1>1, <1>2, <2>1, NatSteps
  <1>4. p + (q - p) = q
    OBVIOUS
  <1> QED
    BY <1>3, <1>4 DEF S

\* One character more
LEMMA WidthStep ==
    ASSUME NEW t, NEW p \in Nat
    PROVE  /\ WidthOver(t, p, p) = 0
           /\ \A q \in Nat : p <= q => /\ WidthOver(t, p, q) \in Nat
                                      /\ WidthOver(t, p, q + 1)
                                            = WidthOver(t, p, q) + WidthAt(t[q])
  <1>1. WidthOver(t, p, p) = 0
    <2>1. PICK f : Measures(f, t, p, p) /\ WidthOver(t, p, p) = f[p]
      BY MeasuresIs
    <2> QED
      BY <2>1 DEF Measures
  <1>2. ASSUME NEW q \in Nat, p <= q
        PROVE  /\ WidthOver(t, p, q) \in Nat
               /\ WidthOver(t, p, q + 1) = WidthOver(t, p, q) + WidthAt(t[q])
    <2>0. q + 1 \in Nat /\ p <= q + 1 /\ q <= q + 1 /\ q <= q
      BY <1>2
    <2>1. PICK f : Measures(f, t, p, q) /\ WidthOver(t, p, q) = f[q]
      BY <1>2, MeasuresIs
    <2>2. PICK g : Measures(g, t, p, q + 1) /\ WidthOver(t, p, q + 1) = g[q + 1]
      BY <2>0, MeasuresIs
    <2>3. f[q] = g[q] /\ f[q] \in Nat
      BY <1>2, <2>0, <2>1, <2>2, MeasuresAgree
    <2>4. g[q + 1] = g[q] + WidthAt(t[q])
      <3>1. q + 1 \in p .. q + 1 /\ q + 1 # p /\ (q + 1) - 1 = q
        BY <1>2
      <3> QED
        BY <2>2, <3>1 DEF Measures
    <2> QED
      BY <2>1, <2>2, <2>3, <2>4
  <1> QED
    BY <1>1, <1>2

LEMMA WidthGrows ==
    ASSUME NEW t, NEW p \in Nat, NEW q \in Nat, NEW r \in Nat, p <= q, q <= r
    PROVE  WidthOver(t, p, q) <= WidthOver(t, p, r)
  <1> DEFINE S == {m \in Nat : WidthOver(t, p, q) <= WidthOver(t, p, q + m)}
  <1>1. WidthOver(t, p, q) \in Nat
    BY WidthStep
  <1>2. 0 \in S
    BY <1>1
  <1>3. \A m \in Nat : m \in S => m + 1 \in S
    <2> SUFFICES ASSUME NEW m \in Nat, WidthOver(t, p, q) <= WidthOver(t, p, q + m)
                 PROVE  WidthOver(t, p, q) <= WidthOver(t, p, q + (m + 1))
      OBVIOUS
    <2>1. q + m \in Nat /\ p <= q + m /\ (q + m) + 1 = q + (m + 1)
      OBVIOUS
    <2>2. /\ WidthOver(t, p, q + m) \in Nat
          /\ WidthOver(t, p, (q + m) + 1) = WidthOver(t, p, q + m) + WidthAt(t[q + m])
      BY <2>1, WidthStep
    <2> QED
      BY <1>1, <2>1, <2>2, WidthAtNat
  <1> HIDE DEF S
  <1>4. r - q \in S
    <2>1. r - q \in Nat
      OBVIOUS
    <2> QED
      BY <1>2, <1>3, <2>1, NatSteps
  <1>5. q + (r - q) = r
    OBVIOUS
  <1> QED
    BY <1>4, <1>5 DEF S

-----------------------------------------------------------------------------
(* Narrow lines *)

\* the line from s up to e
Fits(s, e) ==
    LET last == IF text[e - 1] \in Spaces \union {"nl"} THEN e - 1 ELSE e
    IN  s + 1 <= last /\ (\A p \in s .. e - 1 : text[p] # "tab")
            => WidthOver(text, s + 1, last) <= wid

\* xpos has counted every character of the current line but its first.
Narrow ==
    /\ xpos <= wid
    /\ LastEnd < cpos /\ (\A p \in LastEnd .. cpos - 1 : text[p] # "tab")
           => WidthOver(text, LastEnd + 1, cpos) <= xpos

NarrowLines == pc = "wrapping" /\ Within => Narrow /\ LinesFit

LEMMA LinesFitIs == LinesFit <=> \A i \in 1 .. Len(ends) : Fits(LineStart(i), ends[i])
  BY DEF LinesFit, Fits, Line

\* One line more
LEMMA AppendFits ==
    ASSUME TypeOK, NEW e \in Nat, ends' = Append(ends, e), text' = text,
           LinesFit, Fits(LastEnd, e)
    PROVE  LinesFit'
  <1>1. /\ Len(ends') = Len(ends) + 1
        /\ Len(ends) \in Nat
        /\ \A i \in 1 .. Len(ends) : ends'[i] = ends[i]
        /\ ends'[Len(ends) + 1] = e
    BY DEF TypeOK
  <1>2. LinesFit' <=> \A i \in 1 .. Len(ends') : Fits(LineStart(i)', ends'[i])
    BY DEF LinesFit, Fits, Line
  <1> SUFFICES ASSUME NEW i \in 1 .. Len(ends) + 1
               PROVE  Fits(LineStart(i)', ends'[i])
    BY <1>1, <1>2
  <1>3. CASE i \in 1 .. Len(ends)
    <2>1. LineStart(i)' = LineStart(i)
      BY <1>1, <1>3 DEF LineStart
    <2> QED
      BY <1>1, <1>3, <2>1, LinesFitIs
  <1>4. CASE i = Len(ends) + 1
    <2>1. LineStart(i)' = LastEnd
      BY <1>1, <1>4 DEF LineStart, LastEnd, TypeOK
    <2> QED
      BY <1>1, <1>4, <2>1
  <1> QED
    BY <1>1, <1>3, <1>4

\* A line that ends at most at cpos, or is broken after the character there,
\* takes no more than xpos.
LEMMA BreakFits ==
    ASSUME TypeOK, Narrow, NEW e \in Nat,
           e <= cpos \/ (e = cpos + 1 /\ text[cpos] \in Spaces \union {"tab", "nl"}),
           LastEnd < cpos,
           \A p \in e .. cpos - 1 : text[p] # "tab"
    PROVE  Fits(LastEnd, e)
  <1>0. LastEnd \in Nat /\ cpos \in Nat /\ xpos \in Nat /\ wid \in Nat
    BY LastEndLemma, PodReadAssumption DEF TypeOK, PodReadAssumption
  <1> DEFINE last == IF text[e - 1] \in Spaces \union {"nl"} THEN e - 1 ELSE e
  <1> SUFFICES ASSUME LastEnd + 1 <= last, \A p \in LastEnd .. e - 1 : text[p] # "tab"
               PROVE  WidthOver(text, LastEnd + 1, last) <= wid
    BY DEF Fits
  <1>1. last \in Nat /\ last <= cpos
    <2>1. last \in {e - 1, e} /\ last \in Int
      OBVIOUS
    <2>2. CASE e <= cpos
      BY <1>0, <2>1, <2>2
    <2>3. CASE e = cpos + 1 /\ text[cpos] \in Spaces \union {"tab", "nl"}
      <3>1. e - 1 = cpos
        BY <1>0, <2>3
      <3>2. cpos \in LastEnd .. e - 1
        BY <1>0, <3>1
      <3>3. text[e - 1] \in Spaces \union {"nl"}
        BY <2>3, <3>1, <3>2
      <3> QED
        BY <1>0, <3>1, <3>3
    <2> QED
      BY <2>2, <2>3
  <1> HIDE DEF last
  <1>2. \A p \in LastEnd .. cpos - 1 : text[p] # "tab"
    <2> TAKE p \in LastEnd .. cpos - 1
    <2>1. p \in LastEnd .. e - 1 \/ p \in e .. cpos - 1
      BY <1>0
    <2> QED
      BY <2>1
  <1>3. WidthOver(text, LastEnd + 1, cpos) <= xpos
    BY <1>2 DEF Narrow
  <1>4. LastEnd + 1 \in Nat /\ LastEnd + 1 <= cpos
    BY <1>0
  <1>5. WidthOver(text, LastEnd + 1, last) <= WidthOver(text, LastEnd + 1, cpos)
    BY <1>0, <1>1, <1>4, WidthGrows
  <1>6. /\ WidthOver(text, LastEnd + 1, last) \in Nat
        /\ WidthOver(text, LastEnd + 1, cpos) \in Nat
    BY <1>0, <1>1, <1>4, WidthStep
  <1> QED
    BY <1>0, <1>3, <1>5, <1>6 DEF Narrow

\* A new line has been measured as far as it goes.
LEMMA NewLineNarrow ==
    ASSUME NEW e \in Nat, NEW c \in Nat, e <= c, c <= e + 1,
           text' = text, xpos' = 0, cpos' = c, LastEnd' = e
    PROVE  Narrow'
  <1>1. 0 <= wid
    BY PodReadAssumption DEF PodReadAssumption
  <1>2. e < c => WidthOver(text, e + 1, c) = 0
    <2> SUFFICES ASSUME e < c PROVE WidthOver(text, e + 1, c) = 0
      OBVIOUS
    <2>1. c = e + 1
      OBVIOUS
    <2> QED
      BY <2>1, WidthStep
  <1>3. Narrow' <=> /\ xpos' <= wid
                    /\ e < c /\ (\A p \in e .. c - 1 : text[p] # "tab")
                           => WidthOver(text, e + 1, c) <= xpos'
    BY DEF Narrow
  <1> QED
    BY <1>1, <1>2, <1>3

\* One pass of the loop keeps the lines narrow.
LEMMA WrapNarrow ==
    ASSUME TypeOK, text \in Texts, Lines, NarrowLines, Within,
           WrapNewline \/ WrapFits \/ WrapAtSpace \/ WrapBigWord
    PROVE  Narrow' /\ LinesFit'
  <1>1. /\ pc = "wrapping" /\ text' = text /\ cpos < bufsize
    BY DEF WrapNewline, WrapFits, WrapAtSpace, WrapBigWord, Pass
  <1>2. /\ Narrow /\ LinesFit /\ Moving /\ EndBefore = {LastEnd}
        /\ cpos \in Nat /\ xpos \in Nat /\ LastEnd \in Nat /\ LastEnd <= cpos
        /\ wid \in Nat
    BY <1>1, LastEndLemma, PodReadAssumption
    DEF NarrowLines, Lines, Moving, TypeOK, PodReadAssumption, EndBefore
  <1>3. ASSUME NEW e \in Nat, ends' = Append(ends, e), xpos' = 0,
               cpos' \in {e, e + 1}, Fits(LastEnd, e)
        PROVE  Narrow' /\ LinesFit'
    <2>1. LastEnd' = e
      BY <1>3 DEF LastEnd, TypeOK
    <2>2. PICK c \in Nat : cpos' = c /\ e <= c /\ c <= e + 1
      BY <1>3
    <2>3. Narrow'
      BY <1>1, <1>3, <2>1, <2>2, NewLineNarrow
    <2> QED
      BY <1>1, <1>2, <1>3, <2>3, AppendFits
  <1>4. CASE WrapNewline
    <2>1. /\ cpos + 1 \in Nat /\ ends' = Append(ends, cpos + 1) /\ xpos' = 0
          /\ cpos' = cpos + 1 /\ text[cpos] = "nl"
      BY <1>2, <1>4 DEF WrapNewline
    <2>2. Fits(LastEnd, cpos + 1)
      <3>1. CASE LastEnd = cpos
        <4>1. text[(cpos + 1) - 1] = "nl" /\ ~(cpos + 1 <= (cpos + 1) - 1)
          BY <1>2, <2>1
        <4> QED
          BY <3>1, <4>1 DEF Fits
      <3>2. CASE LastEnd < cpos
        <4>1. cpos + 1 .. cpos - 1 = {}
          BY <1>2
        <4> QED
          BY <1>2, <2>1, <3>2, <4>1, BreakFits
      <3> QED
        BY <1>2, <3>1, <3>2
    <2> QED
      BY <1>3, <2>1, <2>2
  <1>5. CASE WrapFits
    <2>1. /\ xpos' = Measured /\ cpos' = cpos + 1 /\ ends' = ends
          /\ text[cpos] # "nl" /\ Measured <= wid
      BY <1>5 DEF WrapFits
    <2>2. Measured \in Nat
      BY <1>1, <2>1, MeasuredLemma
    <2>3. LastEnd' = LastEnd
      BY <2>1 DEF LastEnd
    <2>4. LinesFit'
      BY <1>1, <1>2, <2>1 DEF LinesFit, LineStart, Line
    <2>5. SUFFICES ASSUME \A p \in LastEnd .. cpos : text[p] # "tab"
                   PROVE  WidthOver(text, LastEnd + 1, cpos + 1) <= Measured
      <3>1. (cpos + 1) - 1 = cpos
        BY <1>2
      <3> QED
        BY <1>1, <2>1, <2>3, <2>4, <3>1 DEF Narrow
    <2>6. CASE LastEnd = cpos
      <3>1. WidthOver(text, cpos + 1, cpos + 1) = 0
        BY <1>2, WidthStep
      <3> QED
        BY <2>2, <2>6, <3>1
    <2>7. CASE LastEnd < cpos
      <3>1. WidthOver(text, LastEnd + 1, cpos) <= xpos
        BY <1>2, <2>5, <2>7 DEF Narrow
      <3>2. text[cpos] # "tab"
        BY <1>2, <2>5
      <3>3. text[cpos] \in Chars
        BY <1>1, <1>2, <2>1, <3>2, TextLemma DEF Kinds
      <3>4. Measured = xpos + WidthAt(text[cpos])
        BY <3>2, <3>3 DEF Measured, WidthAt
      <3>5. LastEnd + 1 \in Nat /\ LastEnd + 1 <= cpos
        BY <1>2, <2>7
      <3>6. /\ WidthOver(text, LastEnd + 1, cpos) \in Nat
            /\ WidthOver(text, LastEnd + 1, cpos + 1)
                  = WidthOver(text, LastEnd + 1, cpos) + WidthAt(text[cpos])
        BY <1>2, <3>5, WidthStep
      <3> QED
        BY <1>2, <3>1, <3>4, <3>6, WidthAtNat
    <2> QED
      BY <1>2, <2>6, <2>7
  <1>6. CASE WrapAtSpace
    <2>1. PICK q \in BreakPoints(LastEnd) :
              /\ \A r \in BreakPoints(LastEnd) : r <= q
              /\ ends' = Append(ends, q + 1) /\ cpos' = q + 2
      BY <1>2, <1>6 DEF WrapAtSpace, AfterBreak
    <2>2. /\ q \in Nat /\ LastEnd + 1 <= q /\ q <= cpos
          /\ text[q] \in Spaces \union {"tab"}
      BY <1>2, <2>1 DEF BreakPoints
    <2>3. xpos' = 0
      BY <1>6 DEF WrapAtSpace
    <2>4. \A p \in q + 1 .. cpos - 1 : text[p] # "tab"
      <3> SUFFICES ASSUME NEW p \in q + 1 .. cpos - 1, text[p] = "tab" PROVE FALSE
        OBVIOUS
      <3>1. p \in LastEnd + 1 .. cpos /\ ~(p <= q)
        BY <1>2, <2>2
      <3> QED
        BY <2>1, <3>1 DEF BreakPoints
    <2>5. q + 1 <= cpos \/ (q + 1 = cpos + 1 /\ text[cpos] \in Spaces \union {"tab", "nl"})
      BY <1>2, <2>2
    <2>6. q + 1 \in Nat /\ LastEnd < cpos /\ q + 2 = (q + 1) + 1
      BY <1>2, <2>2
    <2>7. Fits(LastEnd, q + 1)
      BY <1>2, <2>4, <2>5, <2>6, BreakFits
    <2> QED
      BY <1>3, <2>1, <2>3, <2>6, <2>7
  <1>7. CASE WrapBigWord
    <2>1. /\ ends' = Append(ends, cpos - 1) /\ cpos' = cpos /\ xpos' = 0
          /\ BreakPoints(LastEnd) = {}
      BY <1>2, <1>7 DEF WrapBigWord
    <2>2. cpos > LastEnd + 1
      BY <1>1, <1>7, BigWordLemma
    <2>3. /\ cpos - 1 \in Nat /\ LastEnd < cpos /\ cpos - 1 <= cpos
          /\ cpos = (cpos - 1) + 1 /\ cpos - 1 \in LastEnd + 1 .. cpos
      BY <1>2, <2>2
    <2>4. \A p \in cpos - 1 .. cpos - 1 : text[p] # "tab"
      BY <2>1, <2>3 DEF BreakPoints
    <2>5. Fits(LastEnd, cpos - 1)
      BY <1>2, <2>3, <2>4, BreakFits
    <2> QED
      BY <1>3, <2>1, <2>3, <2>5
  <1> QED
    BY <1>4, <1>5, <1>6, <1>7

-----------------------------------------------------------------------------
(* What is proved of the reader *)

LEMMA ScrollStep ==
    ASSUME TypeOK, ScrollInText, User \/ Timer
    PROVE  ScrollInText'
  <1> USE DEF TypeOK
  <1>1. CASE Open \/ Quit
    BY <1>1 DEF Open, Quit, ScrollInText
  <1>2. CASE ~(Open \/ Quit)
    <2>1. pc = "reading" /\ UNCHANGED linecount
      BY <1>2 DEF User, Wheel, ActionButton, NextButton, PreviousButton, PlayButton,
                  MenuMode, SaveLine, LoadLine, Timer, Act
    <2>2. LastTop' = LastTop /\ LastTop \in Int
      BY <2>1, BoundsLemma DEF LastTop
    <2>3. SUFFICES IF LastTop >= 0 THEN 0 <= scroll' /\ scroll' <= LastTop
                                   ELSE scroll' \in {0, LastTop}
      BY <2>2 DEF ScrollInText
    <2>4. IF LastTop >= 0 THEN 0 <= scroll /\ scroll <= LastTop
                          ELSE scroll \in {0, LastTop}
      BY <2>1 DEF ScrollInText
    <2>5. \A s \in Int : scroll' \in {ByUser(s), ByTimer(s)} =>
              IF LastTop >= 0 THEN 0 <= scroll' /\ scroll' <= LastTop
                              ELSE scroll' \in {0, LastTop}
      <3> SUFFICES ASSUME NEW s \in Int, scroll' \in {ByUser(s), ByTimer(s)}
                   PROVE  IF LastTop >= 0 THEN 0 <= scroll' /\ scroll' <= LastTop
                                          ELSE scroll' \in {0, LastTop}
        OBVIOUS
      <3>1. /\ LastTop >= 0 => ByUser(s) \in 0 .. LastTop /\ ByTimer(s) \in 0 .. LastTop
            /\ LastTop < 0  => ByUser(s) = LastTop /\ ByTimer(s) = 0
        BY BoundsLemma
      <3> QED
        BY <2>2, <3>1
    <2>6. CASE scroll' \in {scroll, 0, LastTop}
      BY <2>2, <2>4, <2>6
    <2>7. ASSUME NEW dir \in Turns, Wheel(dir)
          PROVE  scroll' = scroll \/ \E s \in Int : scroll' = ByUser(s)
      <3> DEFINE n == Steps(sofarWheel, dir)
                 k == IF mode = 0 THEN 1 ELSE screenlines
      <3>1. dir \in Int
        BY PodReadAssumption DEF PodReadAssumption
      <3>2. n \in Int /\ k \in Int
        BY <3>1, StepsLemma, PodReadAssumption DEF PodReadAssumption
      <3>3. scroll' \in {scroll, ByUser(scroll + n * k)}
        BY <2>7 DEF Wheel
      <3> HIDE DEF n, k
      <3>4. scroll + n * k \in Int
        BY <3>2
      <3> QED
        BY <3>3, <3>4
    <2>8. CASE LoadLine
      <3>1. PICK n \in IF saved = -1 THEN 0 .. MaxSaved ELSE {saved} : scroll' = ByTimer(n)
        BY <2>8 DEF LoadLine
      <3>2. n \in Int
        OBVIOUS
      <3> QED
        BY <2>5, <3>1, <3>2
    <2>9. ASSUME Timer
          PROVE  scroll' = scroll \/ \E s \in Int : scroll' = ByTimer(s)
      <3> DEFINE c   == curautoscroller + 1
                 dir == IF autoscroller > 0 /\ Due(c) THEN 1
                        ELSE IF autoscroller < 0 /\ c <= -SPEED THEN -1
                        ELSE 0
      <3>1. Steps(sofarTimer, dir) \in Int
        <4>1. dir \in Int
          OBVIOUS
        <4> HIDE DEF dir
        <4> QED
          BY <4>1, StepsLemma
      <3>2. scroll' \in {scroll, ByTimer(scroll + Steps(sofarTimer, dir))}
        BY <2>9 DEF Timer
      <3> HIDE DEF dir
      <3>3. scroll + Steps(sofarTimer, dir) \in Int
        BY <3>1
      <3> QED
        BY <3>2, <3>3
    <2>10. CASE ActionButton \/ NextButton \/ PreviousButton \/ PlayButton \/ SaveLine
                \/ \E m \in 0 .. 3 : MenuMode(m)
      <3>1. scroll' \in {scroll, 0, LastTop}
        BY <2>10 DEF ActionButton, NextButton, PreviousButton, PlayButton, SaveLine,
                     MenuMode, auto
      <3> QED
        BY <2>6, <3>1
    <2> QED
      BY <1>2, <2>5, <2>6, <2>7, <2>8, <2>9, <2>10 DEF User
  <1> QED
    BY <1>1, <1>2

\* The inductive invariant: types, the text, the lines that the array of
\* their ends has had room for, and the place in the text.
THEOREM ReaderInvariance == Spec => []IInv
  <1>1. Init => IInv
    <2> SUFFICES ASSUME Init PROVE IInv
      OBVIOUS
    <2>1. astray \in BOOLEAN
      BY Zenon DEF Init
    <2>2. TypeOK
      BY <2>1, PodReadAssumption DEF Init, TypeOK, PodReadAssumption
    <2>3. text \in Texts /\ Lines /\ ScrollInText
      BY EmptyLemma DEF Init, Lines, ScrollInText
    <2> QED
      BY <2>2, <2>3 DEF IInv
  <1>2. IInv /\ [Next]_vars => IInv'
    <2> SUFFICES ASSUME IInv, [Next]_vars PROVE IInv'
      OBVIOUS
    <2>1. WrapTypes /\ ReaderTypes
      BY TypesLemma DEF IInv
    <2>2. CASE User \/ Timer
      <3>1. ReaderTypes' /\ WrapTypes' /\ ScrollInText'
        BY <2>1, <2>2, ReaderStep, ReaderKeepsText, ScrollStep DEF IInv
      <3>2. Lines'
        <4>1. CASE pc' # "wrapping"
          BY <4>1 DEF Lines
        <4>2. CASE cpos' = 0 /\ xpos' = 0 /\ ends' = <<>> /\ ~astray'
          <5>1. bufsize' \in Nat
            BY <3>1, TextsLemma DEF WrapTypes, bufsize
          <5>2. LastEnd' = 0 /\ Len(ends') = 0
            BY <4>2 DEF LastEnd
          <5>3. Moving'
            BY <4>2, <5>1, <5>2 DEF Moving
          <5>4. LinesInOrder'
            BY <5>2 DEF LinesInOrder
          <5>5. AtMost(cpos', bufsize') = 0
            BY <4>2, <5>1 DEF AtMost
          <5>6. NewlinesEndLines'
            BY <5>5 DEF NewlinesEndLines
          <5> QED
            BY <4>2, <5>3, <5>4, <5>6 DEF Lines
        <4> QED
          BY <2>1, <2>2, <4>1, <4>2, ReaderKeepsText
      <3> QED
        BY <3>1, <3>2 DEF IInv, WrapTypes, ReaderTypes, TypeOK
    <2>3. CASE WrapDone
      <3>1. text' \in Texts /\ Len(ends) \in Nat /\ ends' \in Seq(Nat)
        BY <2>1, <2>3, EmptyLemma DEF WrapDone, WrapTypes
      <3>2. TypeOK'
        <4>1. astray' \in BOOLEAN
          BY <2>3, Zenon DEF WrapDone
        <4>2. /\ pc' \in {"closed", "reading"} /\ linecount' = Len(ends)
              /\ cpos' = 0 /\ xpos' = 0 /\ lastreallock' = 0
              /\ scroll' = 0 /\ mode' = 0
              /\ UNCHANGED <<autoscroller, curautoscroller, sofarTimer, sofarWheel, saved, acts>>
          BY <2>3 DEF WrapDone, auto
        <4> QED
          BY <2>1, <3>1, <4>1, <4>2 DEF ReaderTypes, TypeOK
      <3>3. Lines'
        BY <2>3 DEF WrapDone, Lines
      <3>4. ScrollInText'
        BY <2>3, <3>1, PodReadAssumption
        DEF WrapDone, ScrollInText, LastTop, PodReadAssumption
      <3> QED
        BY <3>1, <3>2, <3>3, <3>4 DEF IInv
    <2>4. CASE WrapNewline \/ WrapFits \/ WrapAtSpace \/ WrapBigWord
      <3>1. WrapTypes' /\ Lines'
        <4>1. /\ WrapTypes' /\ Moving' /\ (Within' => Within)
              /\ pc = "wrapping" /\ astray' = astray
          BY <2>4, WrapMoves
          DEF IInv, WrapNewline, WrapFits, WrapAtSpace, WrapBigWord, Pass, array
        <4>2. Within => ~astray /\ LinesInOrder' /\ NewlinesEndLines'
          BY <2>4, <4>1, WrapLines DEF IInv, Lines
        <4> QED
          BY <4>1, <4>2 DEF Lines
      <3>2. UNCHANGED <<reader, acts>> /\ pc' = "wrapping"
        BY <2>4 DEF WrapNewline, WrapFits, WrapAtSpace, WrapBigWord, Pass
      <3>3. ReaderTypes'
        BY <2>1, <3>2, ReaderUnchanged
      <3> QED
        BY <3>1, <3>2, <3>3 DEF IInv, WrapTypes, ReaderTypes, TypeOK, ScrollInText
    <2>5. CASE UNCHANGED vars
      BY <2>5 DEF IInv, vars, wrapping, array, reader, auto, TypeOK, Lines, Moving, LastEnd,
                  LinesInOrder, LineStart, NewlinesEndLines, bufsize, ScrollInText, LastTop,
                  Within, FirstRoom
    <2>6. CASE Grow
      <3>1. /\ UNCHANGED <<text, cpos, xpos, ends, reader, acts>> /\ Len(ends) > FirstRoom
            /\ pc = "wrapping" /\ pc' \in {"wrapping", "closed"}
            /\ lastreallock' = Len(ends) + GROW /\ astray' \in {astray, TRUE}
        BY <2>6 DEF Grow, MustGrow
      <3>2. FirstRoom \in Nat /\ Len(ends) \in Nat /\ FirstRoom' = FirstRoom
        BY <2>1, <3>1, TextLemma DEF WrapTypes, FirstRoom, bufsize
      <3>3. lastreallock' \in Nat /\ astray' \in BOOLEAN
        <4>1. lastreallock' \in Nat
          BY <3>1, <3>2, PodReadAssumption DEF PodReadAssumption
        <4>2. astray \in BOOLEAN /\ astray' \in {astray, TRUE}
          BY <2>1, <3>1 DEF WrapTypes
        <4>3. astray' \in BOOLEAN
          BY <4>2, Zenon
        <4> QED
          BY <4>1, <4>3
      <3>4. WrapTypes' /\ ReaderTypes'
        BY <2>1, <3>1, <3>3, ReaderUnchanged DEF WrapTypes
      <3>5. Moving'
        BY <3>1 DEF IInv, Lines, Moving, LastEnd, bufsize
      <3>6. ~Within'
        BY <3>1, <3>2 DEF Within
      <3>7. Lines' /\ ScrollInText'
        BY <3>1, <3>5, <3>6 DEF Lines, ScrollInText
      <3> QED
        BY <3>4, <3>7 DEF IInv, WrapTypes, ReaderTypes, TypeOK
    <2> QED
      BY <2>2, <2>3, <2>4, <2>5, <2>6 DEF Next, Wrap
  <1> QED
    BY <1>1, <1>2, PTL DEF Spec

\* Every variable of the reader keeps its type, for any text and font that
\* meets the assumption (podread.c:41-56).
THEOREM TypeCorrect == Spec => []TypeOK
  BY ReaderInvariance, PTL DEF IInv

\* The text on the screen is text there is: no wheel, button, timer or saved
\* line scrolls a text that fills the screen beyond its ends
\* (podread.c:110-114, 276-290, 329-336, 381-385).
THEOREM NeverScrolledAway == Spec => []ScrollInText
  BY ReaderInvariance, PTL DEF IInv

\* While a text of any length is wrapped, in any font, no line is empty, none
\* repeats or skips a character, and every newline ends a line, as long as
\* there are no more lines than the array was first allocated for; and so
\* long no end has been stored in, or read from, a block that realloc has
\* given back (podread.c:400-485).
THEOREM LinesFollow ==
    Spec => [](pc = "wrapping" /\ Len(ends) <= FirstRoom =>
                   LinesInOrder /\ NewlinesEndLines /\ ~astray)
  <1>1. IInv => (pc = "wrapping" /\ Len(ends) <= FirstRoom =>
                     LinesInOrder /\ NewlinesEndLines /\ ~astray)
    BY DEF IInv, Lines, Within
  <1> QED
    BY <1>1, ReaderInvariance, PTL

LEMMA NarrowInvariance == Spec => []NarrowLines
  <1>1. Init => NarrowLines
    BY DEF Init, NarrowLines
  <1>2. IInv /\ NarrowLines /\ [Next]_vars => NarrowLines'
    <2> SUFFICES ASSUME IInv, NarrowLines, [Next]_vars PROVE NarrowLines'
      OBVIOUS
    <2>1. CASE User \/ Timer
      <3>1. WrapTypes
        BY TypesLemma DEF IInv
      <3>2. CASE pc' # "wrapping"
        BY <3>2 DEF NarrowLines
      <3>3. CASE cpos' = 0 /\ xpos' = 0 /\ ends' = <<>> /\ ~astray'
        <4>1. LastEnd' = 0 /\ Len(ends') = 0
          BY <3>3 DEF LastEnd
        <4> QED
          BY <3>3, <4>1, PodReadAssumption
          DEF NarrowLines, Narrow, LinesFit, PodReadAssumption
      <3> QED
        BY <2>1, <3>1, <3>2, <3>3, ReaderKeepsText
    <2>2. CASE WrapDone
      BY <2>2 DEF WrapDone, NarrowLines
    <2>3. CASE WrapNewline \/ WrapFits \/ WrapAtSpace \/ WrapBigWord
      BY <2>3, WrapMoves, WrapNarrow DEF IInv, NarrowLines
    <2>4. CASE UNCHANGED vars
      BY <2>4 DEF vars, wrapping, NarrowLines, Narrow, LastEnd, LinesFit, LineStart, Line,
                  Within, FirstRoom, bufsize
    <2>5. CASE Grow
      BY <2>5 DEF Grow, MustGrow, NarrowLines, Narrow, LastEnd, LinesFit, LineStart, Line,
                  Within, FirstRoom, bufsize
    <2> QED
      BY <2>1, <2>2, <2>3, <2>4, <2>5 DEF Next, Wrap
  <1> QED
    BY <1>1, <1>2, ReaderInvariance, PTL DEF Spec

\* While a text of any length is wrapped, in any font, and as long as there
\* are no more lines than one for every PER_LINE characters, for which the
\* array of their ends was allocated, they are in order and whole, and a line
\* without tabs is no wider than the text may be, but for its first character
\* and the one it ends with (podread.c:400-485).
THEOREM LinesAreRight == Spec => []WrapRight
  <1>1. IInv /\ NarrowLines => WrapRight
    BY DEF IInv, Lines, NarrowLines, WrapRight, Within
  <1> QED
    BY <1>1, ReaderInvariance, NarrowInvariance, PTL
=============================================================================
