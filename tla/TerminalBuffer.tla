--------------------------- MODULE TerminalBuffer ---------------------------
(***************************************************************************)
(* com.pangbai.terminal.TerminalBuffer: the ring of TerminalRow objects    *)
(* behind a terminal screen.  The screen is the mScreenRows slots from     *)
(* mScreenFirstRow on, the transcript the mActiveTranscriptRows slots      *)
(* before them; scrolling turns the ring, and what must not move is copied *)
(* one slot down first.                                                    *)
(*                                                                         *)
(* A row object is a number and its text one of a few: the model follows   *)
(* which object is in which slot.  One behaviour is about the main buffer  *)
(* or about the alternative one, whose ring has no room for a transcript.  *)
(***************************************************************************)
EXTENDS Integers, Sequences, FiniteSets

CONSTANTS
  Texts,      \* what a line can hold besides Blank
  Blank,      \* a line of spaces
  Null,       \* no row object in a slot
  TotalRows,  \* the lines of the main buffer
  Heights,    \* the numbers of rows the view may give the terminal
  MaxScrolls, \* bound: lines that a new width scrolls off the screen
  Reflows     \* bound: what the rows may hold under a new width

ASSUME SizesAssumption ==
  /\ TotalRows \in Nat /\ MaxScrolls \in Nat
  /\ Heights \subseteq Nat \ {0} /\ \A n \in Heights : n <= TotalRows
ASSUME LinesAssumption == Blank \notin Texts /\ Null \notin Nat

VARIABLES
  mLines,                 \* slot -> row object, or Null
  mTotalRows, mScreenRows, mActiveTranscriptRows, mScreenFirstRow,
  text,                   \* row object -> what its cells hold
  cursorRow,              \* the emulator's mCursorRow
  altScreen               \* whether this is the alternative buffer

ring == <<mTotalRows, mScreenRows, mActiveTranscriptRows, mScreenFirstRow>>
vars == <<mLines, ring, text, cursorRow, altScreen>>

Lines == Texts \cup {Blank}
Objects == 0..(TotalRows - 1)  \* as many as there are slots
Slots == DOMAIN mLines

ASSUME ReflowsAssumption == Reflows \subseteq [Objects -> Lines]

Lesser(a, b) == IF a <= b THEN a ELSE b
Greater(a, b) == IF a >= b THEN a ELSE b

ExternalToInternalRow(row) ==
  LET internal == mScreenFirstRow + row
  IN IF internal < 0 THEN mTotalRows + internal ELSE internal % mTotalRows

\* The ways to put new rows into those of the slots that have none: objects
\* that no slot holds, each in one slot.
Allocations(lines, slots) ==
  LET unused == Objects \ {lines[s] : s \in DOMAIN lines}
  IN {new \in [{s \in slots : lines[s] = Null} -> unused] :
        \A s, t \in DOMAIN new : new[s] = new[t] => s = t}

\* lines with new rows, and the texts when the slots have been cleared.
With(lines, new) ==
  [s \in DOMAIN lines |-> IF s \in DOMAIN new THEN new[s] ELSE lines[s]]
Cleared(lines, slots) ==
  [r \in Objects |-> IF r \in {lines[s] : s \in slots} THEN Blank ELSE text[r]]

-----------------------------------------------------------------------------
Init ==
  /\ altScreen \in BOOLEAN
  /\ mScreenRows \in Heights
  /\ mTotalRows = IF altScreen THEN mScreenRows ELSE TotalRows
  /\ mLines = [s \in 0..(mTotalRows - 1) |-> IF s < mScreenRows THEN s ELSE Null]
  /\ mActiveTranscriptRows = 0 /\ mScreenFirstRow = 0
  /\ text = [r \in Objects |-> Blank]
  /\ cursorRow = 0

\* blockCopyLinesDown(): len lines move down by one slot and the row that was
\* below them comes to their top.  len is less than the slots of the ring.
BlockCopyLinesDown(lines, srcInternal, len) ==
  LET slot(i) == (srcInternal + i) % mTotalRows
  IN [s \in DOMAIN lines |->
        IF s = slot(0) THEN lines[slot(len)]
        ELSE IF \E i \in 1..len : s = slot(i)
             THEN lines[slot((CHOOSE i \in 1..len : s = slot(i)) - 1)]
             ELSE lines[s]]

\* ScrollDownOneLine, with what becomes of the count of the transcript's lines
\* and of the lines under the bottom margin.
Scrolling(top, bottom, active, below) ==
  LET upper  == BlockCopyLinesDown(mLines, mScreenFirstRow, top)
      lines  == BlockCopyLinesDown(upper, ExternalToInternalRow(bottom), below)
      first  == (mScreenFirstRow + 1) % mTotalRows
      bottomSlot == (first + bottom - 1) % mTotalRows
  IN /\ 0 <= top /\ top <= bottom - 1 /\ bottom <= mScreenRows
     /\ mScreenFirstRow' = first
     /\ mActiveTranscriptRows' = active
     /\ \E new \in Allocations(lines, {bottomSlot}) :
          /\ mLines' = With(lines, new)
          /\ text' = Cleared(mLines', {bottomSlot})
     /\ UNCHANGED <<mTotalRows, mScreenRows, cursorRow, altScreen>>

Grown(limit) == IF mActiveTranscriptRows < limit
                THEN mActiveTranscriptRows + 1 ELSE mActiveTranscriptRows

\* Variants of the operator below that count a line more than the ring has
\* room for, and that let the lines under the bottom margin scroll along;
\* part of no specification.
ScrollPastTheRing(top, bottom) ==
  Scrolling(top, bottom, Grown(mTotalRows - mScreenRows + 1),
            mScreenRows - bottom)
ScrollTheRest(top, bottom) ==
  Scrolling(top, bottom, Grown(mTotalRows - mScreenRows), 0)

ScrollDownOneLine(top, bottom) ==
  Scrolling(top, bottom, Grown(mTotalRows - mScreenRows), mScreenRows - bottom)

\* blockSet() over whole lines, and, for one line, setChar() in its cells.
BlockSet(sy, h, line) ==
  /\ sy >= 0 /\ sy + h <= mScreenRows
  /\ LET slots == {ExternalToInternalRow(y) : y \in sy..(sy + h - 1)}
     IN \E new \in Allocations(mLines, slots) :
          /\ mLines' = With(mLines, new)
          /\ text' = [r \in Objects |-> IF r \in {mLines'[s] : s \in slots}
                                        THEN line ELSE text[r]]
  /\ UNCHANGED <<ring, cursorRow, altScreen>>

\* blockCopy() over whole lines, line by line in the order that up says.
CopyLines(sy, h, dy, up) ==
  LET Row(y)  == mLines[ExternalToInternalRow(y)]
      line(y) == IF up THEN y ELSE h - (y + 1)
      copied[y \in 0..h] ==
        IF y = 0 THEN text
        ELSE [copied[y - 1] EXCEPT ![Row(dy + line(y - 1))] =
                                     copied[y - 1][Row(sy + line(y - 1))]]
  IN /\ sy >= 0 /\ sy + h <= mScreenRows /\ dy >= 0 /\ dy + h <= mScreenRows
     /\ text' = copied[h]
     /\ UNCHANGED <<mLines, ring, cursorRow, altScreen>>

BlockCopy(sy, h, dy) == CopyLines(sy, h, dy, sy > dy)

ClearTranscript ==
  LET fill(from, to) == from..(to - 1)
      gone == IF mScreenFirstRow < mActiveTranscriptRows
              THEN fill(mTotalRows + mScreenFirstRow - mActiveTranscriptRows,
                        mTotalRows) \cup fill(0, mScreenFirstRow)
              ELSE fill(mScreenFirstRow - mActiveTranscriptRows,
                        mScreenFirstRow)
  IN /\ mLines' = [s \in Slots |-> IF s \in gone THEN Null ELSE mLines[s]]
     /\ mActiveTranscriptRows' = 0
     /\ UNCHANGED <<mTotalRows, mScreenRows, mScreenFirstRow, text, cursorRow,
                    altScreen>>

-----------------------------------------------------------------------------
(* Resizing. *)

IsBlank(slot) == mLines[slot] = Null \/ text[mLines[slot]] = Blank

\* The lines below the cursor that are blank, wherever they are.
SpareRows ==
  {i \in 1..(mScreenRows - 1) : /\ cursorRow < i
                                /\ IsBlank(ExternalToInternalRow(i))}

ShiftDownOfTopRow(newRows) ==
  LET shift == mScreenRows - newRows
  IN IF shift > 0 /\ shift < mScreenRows
     THEN Greater(0, shift - Cardinality(SpareRows))
     ELSE Greater(shift, -mActiveTranscriptRows)

\* The slots below the screen that the transcript cannot fill.
Revealed(newRows) ==
  {(mScreenFirstRow + mScreenRows + i) % mTotalRows :
     i \in 0..(newRows - mScreenRows + ShiftDownOfTopRow(newRows) - 1)}

\* FastResize, with the slots that it clears.
FastResizeClearing(newRows, revealed) ==
  LET shift == ShiftDownOfTopRow(newRows)
      first == mScreenFirstRow + shift
  IN /\ newRows <= mTotalRows
     /\ \E new \in Allocations(mLines, revealed) :
          /\ mLines' = With(mLines, new)
          /\ text' = Cleared(mLines', revealed)
     /\ mScreenFirstRow' = (IF first < 0 THEN first + mTotalRows
                                         ELSE first % mTotalRows)
     /\ mTotalRows' = (IF altScreen THEN newRows ELSE mTotalRows)
     /\ mActiveTranscriptRows' =
          (IF altScreen THEN 0 ELSE Greater(0, mActiveTranscriptRows + shift))
     /\ cursorRow' = Greater(0, cursorRow - shift)
     /\ mScreenRows' = newRows
     /\ UNCHANGED altScreen

\* A variant of the operator below that shows the old rows that are in the
\* slots below the screen; part of no specification.
FastResizeUncleared(newRows) == FastResizeClearing(newRows, {})

\* resize() with the same columns and no more rows than the ring has.
FastResize(newRows) ==
  FastResizeClearing(newRows, IF newRows > mScreenRows THEN Revealed(newRows)
                                                       ELSE {})

\* resize() with other columns, or with more rows than the ring has: new rows,
\* into which the old text is printed, scrolling as it gets longer.  How it is
\* broken into lines is left open.
SlowResize(newRows) ==
  LET total == IF altScreen THEN newRows ELSE mTotalRows
  IN \E scrolls \in 0..MaxScrolls :
       /\ mTotalRows' = total /\ mScreenRows' = newRows
       /\ mLines' = [s \in 0..(total - 1) |-> s]
       /\ mScreenFirstRow' = scrolls % total
       /\ mActiveTranscriptRows' = Lesser(scrolls, total - newRows)
       /\ text' \in Reflows
       /\ cursorRow' \in 0..(newRows - 1)
       /\ UNCHANGED altScreen

Resize(newRows) == FastResize(newRows) \/ SlowResize(newRows)

\* The emulator's cursor.
MoveCursor(row) ==
  /\ cursorRow' = row
  /\ UNCHANGED <<mLines, ring, text, altScreen>>

Next ==
  \/ \E top, bottom \in 0..mScreenRows : ScrollDownOneLine(top, bottom)
  \/ \E sy, h \in 0..mScreenRows, line \in Lines : BlockSet(sy, h, line)
  \/ \E sy, h, dy \in 0..mScreenRows : BlockCopy(sy, h, dy)
  \/ \E row \in 0..(mScreenRows - 1) : MoveCursor(row)
  \/ \E n \in Heights : Resize(n)
  \/ ClearTranscript

Spec == Init /\ [][Next]_vars

-----------------------------------------------------------------------------
(* Properties. *)

\* Rows from the top of the transcript to the bottom of the screen.
ActiveRows == (-mActiveTranscriptRows)..(mScreenRows - 1)

TypeOK ==
  /\ altScreen \in BOOLEAN
  /\ mTotalRows \in 1..TotalRows /\ mScreenRows \in 1..mTotalRows
  /\ mActiveTranscriptRows \in 0..(mTotalRows - mScreenRows)
  /\ mScreenFirstRow \in Nat
  /\ \E n \in mTotalRows..TotalRows : /\ mScreenFirstRow < n
                                      /\ mLines \in [0..(n - 1) -> Objects \cup {Null}]
  /\ cursorRow \in Nat

\* No row object is in two slots, where one line's text would show in two
\* places, and every line that can be shown or scrolled to has one, whatever
\* has been scrolled, resized and forgotten before.
RowsAreTheirOwn ==
  /\ \A s, t \in Slots : mLines[s] = mLines[t] /\ mLines[s] # Null => s = t
  /\ \A row \in ActiveRows : mLines[ExternalToInternalRow(row)] # Null

\* A screen that is the whole ring, as the alternative one is, has no slot
\* without a row; only the main buffer has slots that wait to be used.
RingIsWhole ==
  IF altScreen
  THEN /\ mTotalRows = mScreenRows
       /\ \A s \in 0..(mTotalRows - 1) : mLines[s] # Null
  ELSE mTotalRows = TotalRows

RingInvariant == TypeOK /\ RowsAreTheirOwn /\ RingIsWhole

\* The line at a row of the screen or, for negative rows, of the transcript.
LineAt(row) ==
  LET object == mLines[ExternalToInternalRow(row)]
  IN IF object = Null THEN Null ELSE text[object]

Screen == INSTANCE LineScreen WITH
  history <- [i \in 1..mActiveTranscriptRows |->
                LineAt(i - 1 - mActiveTranscriptRows)],
  screen <- [i \in 1..mScreenRows |-> LineAt(i - 1)],
  cursor <- cursorRow,
  capacity <- mTotalRows

\* The ring is a history and a screen: turning it, copying what must not move,
\* and clearing and forgetting slots never shows a line that is not there,
\* loses one before its time or puts two in the wrong order.
ImplementsScreen == Screen!Spec

\* What the comment in the fast resize says: the rows that a lower screen gives
\* up are blank ones at its bottom, so that no line with text is lost.
TextRows == Cardinality({row \in ActiveRows : LineAt(row) # Blank})
ShrinkingKeepsText ==
  [][FastResize(mScreenRows') /\ mScreenRows' < mScreenRows /\ ~altScreen
       => TextRows' >= TextRows]_vars
=============================================================================
