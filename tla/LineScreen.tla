----------------------------- MODULE LineScreen -----------------------------
(***************************************************************************)
(* What com.pangbai.terminal.TerminalBuffer promises to the emulator and   *)
(* the view: the lines that have left the screen at its top, oldest first, *)
(* and the lines of the screen, as two sequences without any ring.         *)
(***************************************************************************)
EXTENDS Integers, Sequences, FiniteSets

CONSTANTS
  Texts,   \* what a line can hold besides Blank
  Blank,   \* a line of spaces
  Heights  \* the numbers of rows that a screen may be given

VARIABLES
  history,   \* the transcript, oldest line first
  screen,    \* the screen, top line first
  cursor,    \* the cursor's row, from 0
  capacity,  \* lines that history and screen may hold together
  altScreen  \* whether this is the alternative screen, which has no history

vars == <<history, screen, cursor, capacity, altScreen>>

Lines == Texts \cup {Blank}
Rows == 0..(Len(screen) - 1)

Lesser(a, b) == IF a <= b THEN a ELSE b
Greater(a, b) == IF a >= b THEN a ELSE b

Last(lines, n) == SubSeq(lines, Greater(1, Len(lines) - n + 1), Len(lines))

Init ==
  /\ history = <<>>
  /\ \E n \in Heights : screen = [i \in 1..n |-> Blank]
  /\ cursor = 0
  /\ altScreen \in BOOLEAN
  /\ capacity \in Nat /\ capacity >= Len(screen)
  /\ altScreen => capacity = Len(screen)

\* The line at the top margin leaves the screen and a blank one appears above
\* the bottom margin; the history forgets its oldest line when it is full.
Scroll(top, bottom) ==
  /\ top < bottom
  /\ screen' = SubSeq(screen, 1, top) \o SubSeq(screen, top + 2, bottom)
               \o <<Blank>> \o SubSeq(screen, bottom + 1, Len(screen))
  /\ history' = Last(Append(history, screen[top + 1]),
                     capacity - Len(screen))
  /\ UNCHANGED <<cursor, capacity, altScreen>>

Fill(first, h, line) ==
  /\ first + h <= Len(screen)
  /\ screen' = SubSeq(screen, 1, first) \o [i \in 1..h |-> line]
               \o SubSeq(screen, first + h + 1, Len(screen))
  /\ UNCHANGED <<history, cursor, capacity, altScreen>>

\* All lines are copied at once, however source and destination overlap.
Copy(from, h, to) ==
  /\ from + h <= Len(screen) /\ to + h <= Len(screen)
  /\ screen' = SubSeq(screen, 1, to) \o SubSeq(screen, from + 1, from + h)
               \o SubSeq(screen, to + h + 1, Len(screen))
  /\ UNCHANGED <<history, cursor, capacity, altScreen>>

Forget ==
  /\ history' = <<>>
  /\ UNCHANGED <<screen, cursor, capacity, altScreen>>

MoveCursor(row) ==
  /\ row \in Rows /\ cursor' = row
  /\ UNCHANGED <<history, screen, capacity, altScreen>>

\* How far the top of the screen moves down over the lines when its height
\* changes to n: blank lines below the cursor are given up first, and growing
\* takes back what the history has.
Shift(n) ==
  LET spare == Cardinality({i \in Rows : /\ i > cursor /\ i > 0
                                         /\ screen[i + 1] = Blank})
  IN IF n <= Len(screen) THEN Greater(0, Len(screen) - n - spare)
                         ELSE -Lesser(n - Len(screen), Len(history))

\* A new height for the main screen: a window of n lines, moved over the
\* same lines.
ChangeHeight(n) ==
  LET lines == history \o screen
      top   == Len(history) + Shift(n)
  IN /\ ~altScreen /\ n <= capacity
     /\ history' = SubSeq(lines, 1, top)
     /\ screen' = [i \in 1..n |-> IF top + i <= Len(lines) THEN lines[top + i]
                                                           ELSE Blank]
     /\ cursor' = Greater(0, cursor - Shift(n))
     /\ UNCHANGED <<capacity, altScreen>>

\* The alternative screen only promises that it shows lines it showed before.
ShrinkAlt(n) ==
  /\ altScreen /\ n <= capacity
  /\ screen' \in [1..n -> {screen[i] : i \in 1..Len(screen)}]
  /\ cursor' = Greater(0, cursor - Shift(n))
  /\ capacity' = n
  /\ UNCHANGED <<history, altScreen>>

\* A new width: the text is broken into lines anew.
Reflow(n) ==
  /\ capacity' = (IF altScreen THEN n ELSE capacity)
  /\ n <= capacity'
  /\ \E h \in 0..(capacity' - n) : history' \in [1..h -> Lines]
  /\ screen' \in [1..n -> Lines]
  /\ cursor' \in 0..(n - 1)
  /\ UNCHANGED altScreen

Next ==
  \/ \E top, bottom \in 0..Len(screen) : Scroll(top, bottom)
  \/ \E first, h \in 0..Len(screen), line \in Lines : Fill(first, h, line)
  \/ \E from, h, to \in 0..Len(screen) : Copy(from, h, to)
  \/ \E row \in Rows : MoveCursor(row)
  \/ \E n \in Heights : ChangeHeight(n) \/ ShrinkAlt(n) \/ Reflow(n)
  \/ Forget

Spec == Init /\ [][Next]_vars
=============================================================================
