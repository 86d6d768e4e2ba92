------------------------------ MODULE PodRead ------------------------------
(***************************************************************************)
(* The text reader of ZeroLauncher (add-ons/podread/podread.c).            *)
(*                                                                         *)
(* Opening a file wraps its text into lines, one pass of the loop of       *)
(* make_wrappings a step; then wheel, buttons, menu and a timer, which     *)
(* scrolls by itself at a speed the user sets, move the first line shown.  *)
(* A character is what it does to a line: its width, and whether a line    *)
(* may end at it.  The ends are what is stored through the pointer `end';  *)
(* the array they are meant for grows, and may move away from under it.    *)
(* Drawing is left out.  Choosing from the menu is one step.               *)
(***************************************************************************)
EXTENDS Integers, Sequences, FiniteSets

CONSTANTS
    Chars,        \* kinds of characters other than tab and newline
    Spaces,       \* those a line may be broken after: space, hyphen
    Width,        \* their width
    wid,          \* width of the text
    TAB,          \* 16: a tab takes xpos to (xpos + 15) & 15
    PER_LINE,     \* 20: characters for which one line end is allocated
    GROW,         \* 50000: line ends allocated when those are not enough
    screenlines,  \* lines on the screen
    SPEED,        \* 40: the fastest autoscroll, and the count that scrolls
    MOD,          \* 4: what TTK_SCROLLMOD divides by
    Turns,        \* distances of one turn of the wheel
    MaxText,      \* bound: characters in the file
    MaxSaved,     \* bound: line number an earlier session saved
    MaxRest,      \* bound: what the timer counts to while nothing scrolls
    MaxActs       \* bound: actions of the user

ASSUME PodReadAssumption ==
    /\ Spaces \subseteq Chars
    /\ "tab" \notin Chars /\ "nl" \notin Chars
    /\ Width \in [Chars -> Nat]
    /\ wid \in Nat /\ TAB \in Nat \ {0}
    \* a line holds two characters, or a tab and a character
    /\ TAB - 1 <= wid
    /\ \A c \in Chars : /\ 1 <= Width[c]
                       /\ 2 * Width[c] <= wid /\ TAB - 1 + Width[c] <= wid
    /\ PER_LINE \in Nat \ {0} /\ GROW \in Nat
    /\ screenlines \in Nat \ {0}
    /\ SPEED \in Nat \ {0} /\ MOD \in Nat \ {0}
    /\ Turns \subseteq Int
    /\ MaxText \in Nat /\ MaxSaved \in Nat /\ MaxActs \in Nat
    /\ MaxRest \in Nat /\ MaxRest >= SPEED

VARIABLES
    pc,           \* "closed", "wrapping" or "reading"
    text, cpos, xpos, ends,                   \* make_wrappings
    lastreallock, \* line ends its array has room for
    astray,       \* the block that `end' points into is not the array any more
    linecount, scroll, mode,
    autoscroller, curautoscroller,
    sofarWheel, sofarTimer,                   \* the statics of TTK_SCROLLMOD
    saved,        \* line number saved in this session, -1 when none was
    acts          \* counter for the bound

array    == <<lastreallock, astray>>
wrapping == <<text, cpos, xpos, ends, array>>
auto     == <<autoscroller, curautoscroller, sofarTimer>>
reader   == <<linecount, scroll, mode, auto, sofarWheel, saved>>
vars     == <<pc, wrapping, reader, acts>>

\* characters are numbered from 0, as in the buffer
Texts == UNION {[0 .. n - 1 -> Chars \union {"tab", "nl"}] : n \in 0 .. MaxText}

bufsize == Cardinality(DOMAIN text)

FirstRoom == bufsize \div PER_LINE

TypeOK ==
    /\ pc \in {"closed", "wrapping", "reading"}
    /\ cpos \in Nat /\ xpos \in Nat
    /\ ends \in Seq(Nat)
    /\ lastreallock \in Nat /\ astray \in BOOLEAN
    /\ linecount \in Nat /\ scroll \in Int
    /\ mode \in 0 .. 3
    /\ autoscroller \in -SPEED .. SPEED
    /\ curautoscroller \in Int
    /\ sofarWheel \in Int /\ sofarTimer \in Int
    /\ saved \in Int
    /\ acts \in 0 .. MaxActs

Empty == [i \in {} |-> "nl"]

Init ==
    /\ pc = "closed"
    /\ text = Empty /\ cpos = 0 /\ xpos = 0 /\ ends = <<>>
    /\ lastreallock = 0 /\ astray = FALSE
    /\ linecount = 0 /\ scroll = 0 /\ mode = 0
    /\ autoscroller = 0 /\ curautoscroller = 0
    /\ sofarWheel = 0 /\ sofarTimer = 0
    /\ saved = -1 /\ acts = 0

-----------------------------------------------------------------------------
(* Opening and wrapping *)

\* Bound: one file is opened.
Open ==
    /\ pc = "closed" /\ acts = 0 /\ acts < MaxActs
    /\ pc' = "wrapping"
    /\ text' \in Texts
    /\ cpos' = 0 /\ xpos' = 0 /\ ends' = <<>>
    /\ lastreallock' = FirstRoom' /\ astray' = FALSE
    /\ linecount' = 0 /\ scroll' = 0 /\ mode' = 0
    /\ autoscroller' = 0 /\ curautoscroller' = 0
    /\ acts' = acts + 1
    /\ UNCHANGED <<sofarWheel, sofarTimer, saved>>

\* "if (lines>=lastreallock&&lines>(bufsize/20))": one late, when the end
\* that there was no room for has been stored
MustGrow == Len(ends) >= lastreallock /\ Len(ends) > FirstRoom

\* realloc at the head of a pass: in place, or to another block, to which
\* `end' is not moved; or it fails, and the window is closed.
Grow ==
    /\ pc = "wrapping" /\ cpos < bufsize /\ MustGrow
    /\ lastreallock' = Len(ends) + GROW
    /\ \/ astray' \in {astray, TRUE} /\ pc' = pc
       \/ astray' = astray /\ pc' = "closed"
    /\ UNCHANGED <<text, cpos, xpos, ends, reader, acts>>

\* the rest of a pass
Pass == pc = "wrapping" /\ cpos < bufsize /\ ~MustGrow

\* where the current line starts
LastEnd == IF ends = <<>> THEN 0 ELSE ends[Len(ends)]

WrapNewline ==
    /\ Pass
    /\ text[cpos] = "nl"
    /\ ends' = Append(ends, cpos + 1)
    /\ xpos' = 0
    /\ cpos' = cpos + 1
    /\ UNCHANGED <<pc, text, array, reader, acts>>

\* xpos after the character at cpos
Measured ==
    IF text[cpos] = "tab" THEN (xpos + TAB - 1) % TAB
                          ELSE xpos + Width[text[cpos]]

WrapFits ==
    /\ Pass
    /\ text[cpos] # "nl"
    /\ Measured <= wid
    /\ xpos' = Measured
    /\ cpos' = cpos + 1
    /\ UNCHANGED <<pc, text, ends, array, reader, acts>>

\* end[-1], which in a block that was given back may be anything by now.  To
\* the search that it ends, what is below 0 or beyond cpos is no other case.
EndBefore == {LastEnd} \union IF astray THEN 0 .. bufsize ELSE {}

\* "Backtrack to find a char to break on": space, tab or hyphen, after the
\* first character of the line that starts at e
BreakPoints(e) ==
    {q \in e + 1 .. cpos : text[q] \in Spaces \union {"tab"}}

\* mutant of AfterBreak: the character after the break is skipped
AfterBreakSkips(q) == q + 3

\* cpos = qcpos + 1, and the cpos++ at the end of the loop
AfterBreak(q) == q + 2

\* Bound: a search that goes astray finds an earlier line's break again, and
\* does so only while there are no more than MaxText lines.
WrapAtSpace ==
    /\ Pass
    /\ text[cpos] # "nl" /\ Measured > wid
    /\ astray => Len(ends) < MaxText
    /\ \E e \in EndBefore : \E q \in BreakPoints(e) :
          /\ \A r \in BreakPoints(e) : r <= q
          /\ ends' = Append(ends, q + 1)
          /\ cpos' = AfterBreak(q)
    /\ xpos' = 0
    /\ UNCHANGED <<pc, text, array, reader, acts>>

\* "This is a really big word.  Break it up": the cpos-- is undone by the
\* cpos++ at the end of the loop.
WrapBigWord ==
    /\ Pass
    /\ text[cpos] # "nl" /\ Measured > wid
    /\ \E e \in EndBefore : BreakPoints(e) = {}
    /\ ends' = Append(ends, cpos - 1)
    /\ cpos' = cpos
    /\ xpos' = 0
    /\ UNCHANGED <<pc, text, array, reader, acts>>

\* The text that follows the last end is no line.  With no line at all,
\* realloc to size 0 may return NULL, and the window is closed.  What the
\* wrapping leaves is the number of lines; the lines themselves are only drawn.
WrapDone ==
    /\ pc = "wrapping" /\ cpos >= bufsize
    /\ \/ pc' = "reading"
       \/ ends = <<>> /\ pc' = "closed"
    /\ linecount' = Len(ends)
    /\ scroll' = 0 /\ mode' = 0
    /\ text' = Empty /\ cpos' = 0 /\ xpos' = 0 /\ ends' = <<>>
    /\ lastreallock' = 0 /\ astray' = FALSE
    /\ UNCHANGED <<auto, sofarWheel, saved, acts>>

-----------------------------------------------------------------------------
(* Moving about *)

LastTop == linecount - screenlines

AtLeast(a, b) == IF a < b THEN b ELSE a
AtMost(a, b)  == IF a > b THEN b ELSE a

\* mutant of ByUser: the text may be scrolled out at its end
ByUserFree(s) == AtLeast(s, 0)

\* wheel: first not below 0, then not past the last screen
ByUser(s) == AtMost(AtLeast(s, 0), LastTop)

\* timer and saved line: the other way round
ByTimer(s) == AtLeast(AtMost(s, LastTop), 0)

\* C's division
Quotient(a, b) == IF a >= 0 THEN a \div b ELSE -((-a) \div b)

\* TTK_SCROLLMOD: what has come together of dir, in units of MOD
Steps(sofar, dir) == Quotient(sofar + dir, MOD)
Left(sofar, dir)  == sofar + dir - Steps(sofar, dir) * MOD

Act == pc = "reading" /\ acts < MaxActs /\ acts' = acts + 1

\* podread_widget_scroll
Wheel(dir) ==
    /\ Act
    /\ sofarWheel' = Left(sofarWheel, dir)
    /\ LET n == Steps(sofarWheel, dir)
       IN  /\ scroll' = IF n # 0 /\ mode \in {0, 1}
                        THEN ByUser(scroll + n * (IF mode = 0 THEN 1 ELSE screenlines))
                        ELSE scroll
           /\ autoscroller' =
                 IF mode = 2 /\ n < 0 THEN AtLeast(autoscroller - 1, -SPEED)
                 ELSE IF mode = 2 /\ n > 0 THEN AtMost(autoscroller + 1, SPEED)
                 ELSE autoscroller
    /\ UNCHANGED <<pc, wrapping, linecount, mode, curautoscroller, sofarTimer,
                   saved>>

\* mutant of NextMode: the mode after the last is not the first
NextModeFree(m) == m + 1

\* ACTION goes through the modes
NextMode(m) == IF m + 1 > 3 THEN 0 ELSE m + 1

\* podread_widget_button
ActionButton ==
    /\ Act
    /\ mode' = NextMode(mode)
    /\ UNCHANGED <<pc, wrapping, linecount, scroll, auto, sofarWheel, saved>>

NextButton ==
    /\ Act
    /\ scroll' = IF mode \in {0, 1} THEN LastTop ELSE scroll
    /\ autoscroller' = IF mode = 2 THEN SPEED ELSE autoscroller
    /\ UNCHANGED <<pc, wrapping, linecount, mode, curautoscroller, sofarTimer,
                   sofarWheel, saved>>

PreviousButton ==
    /\ Act
    /\ scroll' = IF mode \in {0, 1} THEN 0 ELSE scroll
    /\ autoscroller' = IF mode = 2 THEN -SPEED ELSE autoscroller
    /\ UNCHANGED <<pc, wrapping, linecount, mode, curautoscroller, sofarTimer,
                   sofarWheel, saved>>

PlayButton ==
    /\ Act
    /\ mode = 2
    /\ autoscroller' = 0
    /\ UNCHANGED <<pc, wrapping, linecount, scroll, mode, curautoscroller,
                   sofarTimer, sofarWheel, saved>>

\* the menu: a mode
MenuMode(m) ==
    /\ Act
    /\ mode' = m
    /\ UNCHANGED <<pc, wrapping, linecount, scroll, auto, sofarWheel, saved>>

\* "%u" makes a negative line number too large for an int, and atoi takes
\* the largest int for it.
SaveLine ==
    /\ Act
    /\ saved' = IF scroll < 0 THEN 2147483647 ELSE scroll
    /\ UNCHANGED <<pc, wrapping, linecount, scroll, mode, auto, sofarWheel>>

\* Without a line of this session there may be one of an earlier one, when
\* the text was another.
LoadLine ==
    /\ Act
    /\ \E n \in IF saved = -1 THEN 0 .. MaxSaved ELSE {saved} : scroll' = ByTimer(n)
    /\ UNCHANGED <<pc, wrapping, linecount, mode, auto, sofarWheel, saved>>

Quit ==
    /\ Act
    /\ pc' = "closed"
    /\ autoscroller' = 0
    /\ UNCHANGED <<wrapping, linecount, scroll, mode, curautoscroller,
                   sofarTimer, sofarWheel, saved>>

\* mutant of Due: only the exact count scrolls
DueExactly(c) == c = SPEED

Due(c) == c >= SPEED

\* podread_autoscroll, every 50 ms in every mode.  The count goes on while
\* nothing scrolls; MaxRest bounds it there.
Timer ==
    /\ pc = "reading"
    /\ IF autoscroller = 0 THEN curautoscroller < MaxRest
                           ELSE curautoscroller <= MaxRest
    /\ LET c   == curautoscroller + 1
           dir == IF autoscroller > 0 /\ Due(c) THEN 1
                  ELSE IF autoscroller < 0 /\ c <= -SPEED THEN -1
                  ELSE 0
       IN  IF dir = 0
           THEN /\ curautoscroller' = c + autoscroller
                /\ UNCHANGED <<scroll, sofarTimer>>
           ELSE /\ curautoscroller' = 0
                /\ sofarTimer' = Left(sofarTimer, dir)
                /\ scroll' = IF Steps(sofarTimer, dir) = 0 THEN scroll
                             ELSE ByTimer(scroll + Steps(sofarTimer, dir))
    /\ UNCHANGED <<pc, wrapping, linecount, mode, autoscroller, sofarWheel,
                   saved, acts>>

-----------------------------------------------------------------------------
Wrap == Grow \/ WrapNewline \/ WrapFits \/ WrapAtSpace \/ WrapBigWord \/ WrapDone

User ==
    \/ Open
    \/ \E dir \in Turns : Wheel(dir)
    \/ ActionButton \/ NextButton \/ PreviousButton \/ PlayButton
    \/ \E m \in 0 .. 3 : MenuMode(m)
    \/ SaveLine \/ LoadLine \/ Quit

Next == User \/ Wrap \/ Timer

Spec == Init /\ [][Next]_vars

\* make_wrappings is a loop, the timer is periodic.
LiveSpec == Spec /\ WF_vars(Wrap) /\ WF_vars(Timer)
-----------------------------------------------------------------------------
(* What the reader promises *)

\* the line that ends with the i-th end
LineStart(i) == IF i = 1 THEN 0 ELSE ends[i - 1]
Line(i) == LineStart(i) .. ends[i] - 1

\* Lines follow one another: none is empty, none repeats or skips a character.
LinesInOrder ==
    \A i \in 1 .. Len(ends) : LineStart(i) < ends[i] /\ ends[i] <= bufsize

\* A newline ends its line, unless the line was broken in front of it and
\* the newline was the one character passed over.
NewlinesEndLines ==
    \A p \in 0 .. AtMost(cpos, bufsize) - 1 :
        text[p] = "nl" => \E i \in 1 .. Len(ends) : ends[i] \in {p, p + 1}

\* what the characters of a text from p up to q take, tabs and newlines left out
WidthAt(c) == IF c \in Chars THEN Width[c] ELSE 0
WidthOver(t, p, q) ==
    LET upTo[n \in p .. q] == IF n = p THEN 0 ELSE upTo[n - 1] + WidthAt(t[n - 1])
    IN  upTo[q]

\* A line without tabs fits, but for its first character, which is never
\* measured when the line before was broken, and its last: the newline, or
\* the space it was broken after.
LinesFit ==
    \A i \in 1 .. Len(ends) :
        LET first == LineStart(i) + 1
            last  == IF text[ends[i] - 1] \in Spaces \union {"nl"} THEN ends[i] - 1
                                                                 ELSE ends[i]
        IN  first <= last /\ (\A p \in Line(i) : text[p] # "tab")
                => WidthOver(text, first, last) <= wid

\* While a text is wrapped, its lines are in order, whole and narrow enough
\* (podread.c:419-485), as long as there are no more of them than the array
\* is first allocated for.  One more is stored past its end, and those that
\* follow in a block that may be another's by then (podread.c:423-459).
WrapRight ==
    pc = "wrapping" /\ Len(ends) <= FirstRoom =>
        LinesInOrder /\ NewlinesEndLines /\ LinesFit

\* The screen shows lines there are: a text that fills it is never scrolled
\* beyond its ends, by wheel, button, timer or saved line; one that does not
\* is at its first line or, after the wheel or NEXT, out of sight.
ScrollInText ==
    pc = "reading" =>
        IF LastTop >= 0 THEN 0 <= scroll /\ scroll <= LastTop
                        ELSE scroll \in {0, LastTop}

\* Autoscroll arrives at the end of the text, and back at its beginning
\* (podread.c:363-390).  A speed of -1 does not: every tick adds one.
AutoscrollArrives ==
    /\ pc = "reading" /\ autoscroller > 0
          ~> (scroll = AtLeast(LastTop, 0) \/ autoscroller <= 0)
    /\ pc = "reading" /\ autoscroller < -1
          ~> (scroll = 0 \/ autoscroller >= -1)
=============================================================================
