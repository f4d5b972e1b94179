--------------------------- MODULE TerminalCursor ---------------------------
(***************************************************************************)
(* com.pangbai.terminal.TerminalEmulator: where control characters, escape *)
(* sequences and printed characters put the cursor, the margins, the modes *)
(* and the saved cursors, on two screen buffers and through resizes.       *)
(*                                                                         *)
(* A step is one complete sequence.  What the cells hold is left out; what *)
(* stays of the calls on TerminalBuffer and TerminalRow is whether their   *)
(* arguments are inside the screen: otherwise they throw, with few         *)
(* exceptions, on the app's main thread, and the model stops there, with   *)
(* the reason in fault.                                                    *)
(***************************************************************************)
EXTENDS Integers, FiniteSets

CONSTANTS
  Sizes,      \* the sizes <<rows, columns>> the view may give the terminal
  TotalRows,  \* mTotalRows of the main buffer: screen and transcript
  TabWidth,   \* columns between default tab stops (8)
  MaxInt,     \* largest int (2147483647)
  Args,       \* bound: numeric arguments of the sequences
  Modes,      \* bound: DECSET numbers that programs set and reset
  TabColumns, \* bound: where programs set and clear tab stops
  MaxLeft     \* bound: columns the cursor may get to the left of the screen

ASSUME SizesAssumption ==
  /\ Sizes # {} /\ TotalRows \in Nat /\ MaxInt \in Nat /\ TabWidth \in Nat \ {0}
  /\ \A s \in Sizes : /\ s \in Nat \X Nat /\ s[1] >= 2 /\ s[2] >= 2
                      /\ s[1] <= TotalRows /\ s[1] < MaxInt /\ s[2] < MaxInt
ASSUME BoundsAssumption ==
  /\ Args \subseteq 1..MaxInt /\ TabColumns \subseteq Int /\ MaxLeft \in Nat

VARIABLES
  mRows, mColumns,        \* the emulator's size
  bufRows, bufColumns,    \* mScreenRows and mColumns of either TerminalBuffer
  mScreen,                \* the buffer in use: Main or Alt
  mCursorRow, mCursorCol,
  mAboutToAutoWrap,
  mTopMargin, mBottomMargin, mLeftMargin, mRightMargin,
  mCurrentDecSetFlags,    \* DECSET numbers that are set, of those in Flags
  mSavedDecSetFlags,
  mInsertMode,
  mTabStop,               \* columns that have a tab stop
  saved,                  \* mSavedStateMain and mSavedStateAlt
  fault,                  \* what was outside the screen, if something was
  leftMain                \* history: the cursor when Main was left for Alt

size == <<mRows, mColumns, bufRows, bufColumns, mScreen>>
cursor == <<mCursorRow, mCursorCol, mAboutToAutoWrap>>
margins == <<mTopMargin, mBottomMargin, mLeftMargin, mRightMargin>>
modes == <<mCurrentDecSetFlags, mSavedDecSetFlags, mInsertMode>>
memory == <<saved, leftMain>>
vars == <<size, cursor, margins, modes, mTabStop, memory, fault>>

Main == "main"
Alt == "alt"
Origin == 6
AutoWrap == 7
LeftRightMargin == 69
Flags == {Origin, AutoWrap, LeftRightMargin}

Running == fault = "none"
NoCursor == <<-1, -1>>

Lesser(a, b) == IF a <= b THEN a ELSE b
Greater(a, b) == IF a >= b THEN a ELSE b

\* The sum of two ints that are not both negative.
Plus(a, b) == IF a + b > MaxInt THEN a + b - 2 * MaxInt - 2 ELSE a + b

-----------------------------------------------------------------------------
(* The calls on the buffer in use. *)

Inside(sx, sy, w, h) ==
  /\ sx >= 0 /\ sx + w <= bufColumns[mScreen]
  /\ sy >= 0 /\ sy + h <= bufRows[mScreen]

BlockCopies(sx, sy, w, h, dx, dy) ==
  w = 0 \/ (Inside(sx, sy, w, h) /\ Inside(dx, dy, w, h))

\* A variant of the operator below that moves one row too many; part of no
\* specification.
ScrollsOneMore ==
  mLeftMargin # 0 \/ mRightMargin # mColumns =>
    BlockCopies(mLeftMargin, mTopMargin + 1, mRightMargin - mLeftMargin,
                mBottomMargin - mTopMargin, mLeftMargin, mTopMargin)

\* scrollDownOneLine(): through the transcript, or, with left or right margins,
\* by moving what is between them.
Scrolls ==
  IF mLeftMargin # 0 \/ mRightMargin # mColumns
  THEN /\ BlockCopies(mLeftMargin, mTopMargin + 1, mRightMargin - mLeftMargin,
                      mBottomMargin - mTopMargin - 1, mLeftMargin, mTopMargin)
       /\ Inside(mLeftMargin, mBottomMargin - 1, mRightMargin - mLeftMargin, 1)
  ELSE mTopMargin <= mBottomMargin - 1 /\ mTopMargin >= 0
       /\ mBottomMargin <= bufRows[mScreen]

\* The calls of a step, which are inside the screen or a fault.
Calls(inside) == fault' = IF inside THEN "none" ELSE "outside the screen"
CallsNothing == UNCHANGED fault

-----------------------------------------------------------------------------
(* Moving the cursor.  Margins and flags are those after the step. *)

SetCursorRow(row) == mCursorRow' = row /\ mAboutToAutoWrap' = FALSE
                     /\ UNCHANGED mCursorCol
SetCursorCol(col) == mCursorCol' = col /\ mAboutToAutoWrap' = FALSE
                     /\ UNCHANGED mCursorRow

SetCursorRowCol(row, col) ==
  /\ mCursorRow' = Greater(0, Lesser(row, mRows - 1))
  /\ mCursorCol' = Greater(0, Lesser(col, mColumns - 1))
  /\ mAboutToAutoWrap' = FALSE

SetCursorPosition(x, y) ==
  LET origin == Origin \in mCurrentDecSetFlags'
      top    == IF origin THEN mTopMargin' ELSE 0
      bottom == IF origin THEN mBottomMargin' ELSE mRows
      left   == IF origin THEN mLeftMargin' ELSE 0
      right  == IF origin THEN mRightMargin' ELSE mColumns
  IN SetCursorRowCol(Greater(top, Lesser(Plus(top, y), bottom - 1)),
                     Greater(left, Lesser(Plus(left, x), right - 1)))

OnlyCursor == UNCHANGED <<size, margins, modes, mTabStop, memory>>
OnlyCalls == OnlyCursor /\ UNCHANGED cursor

-----------------------------------------------------------------------------
(* Variants of operations below with one plausible mistake each; they are  *)
(* part of no specification.  Each breaks one of the properties.           *)

\* RI that moves one row too many down.
ReverseIndexOneMore ==
  /\ Running
  /\ IF mCursorRow <= mTopMargin
     THEN /\ UNCHANGED mCursorRow
          /\ Calls(BlockCopies(0, mTopMargin, mColumns, mBottomMargin - mTopMargin,
                               0, mTopMargin + 1))
     ELSE mCursorRow' = mCursorRow - 1 /\ CallsNothing
  /\ UNCHANGED <<mCursorCol, mAboutToAutoWrap>> /\ OnlyCursor

\* DECSLRM that counts the right margin, which is exclusive, like the left one.
SetLeftAndRightEmpty(n, m) ==
  /\ Running /\ LeftRightMargin \in mCurrentDecSetFlags
  /\ mLeftMargin' = Lesser(n - 1, mColumns - 2)
  /\ mRightMargin' = Greater(mLeftMargin', Lesser(m - 1, mColumns))
  /\ UNCHANGED <<mTopMargin, mBottomMargin, size, modes, mTabStop, memory>>
  /\ SetCursorPosition(0, 0) /\ CallsNothing

-----------------------------------------------------------------------------
(* Printing and the control characters. *)

\* emitCodePoint(), for a character of the given width.
EmitCodePoint(width) ==
  /\ Running
  /\ LET last  == mCursorCol = mRightMargin - 1
         auto  == AutoWrap \in mCurrentDecSetFlags
         wraps == auto /\ last /\ ((mAboutToAutoWrap /\ width = 1) \/ width = 2)
         down  == mCursorRow + 1 < mBottomMargin
         row   == IF wraps /\ down THEN mCursorRow + 1 ELSE mCursorRow
         col   == IF wraps THEN mLeftMargin ELSE mCursorCol
         cell  == IF width = 0 /\ col > 0 /\ ~mAboutToAutoWrap THEN col - 1 ELSE col
         at    == Greater(0, cell)
     IN IF ~auto /\ last /\ width = 2
        THEN UNCHANGED <<cursor, fault>>
        ELSE /\ fault' =
                  IF ~ /\ wraps /\ ~down => Scrolls
                       /\ mInsertMode /\ width > 0 /\ col + width < mRightMargin =>
                            BlockCopies(col, row, mRightMargin - (col + width), 1,
                                        col + width, row)
                       /\ Inside(at, row, 1, 1)
                  THEN "outside the screen"
                  ELSE IF width = 2 /\ at = bufColumns[mScreen] - 1
                       THEN "wide character in last column"
                       ELSE "none"
             /\ mCursorRow' = row
             /\ mCursorCol' = Lesser(col + width, mRightMargin - 1)
             /\ mAboutToAutoWrap' = IF auto /\ width > 0 THEN col = mRightMargin - width
                                                         ELSE mAboutToAutoWrap
  /\ OnlyCursor

\* BS; whether the previous row was wrapped depends on what was printed.
Backspace ==
  /\ Running
  /\ IF mLeftMargin = mCursorCol
     THEN \/ mCursorRow - 1 >= 0 /\ SetCursorRowCol(mCursorRow - 1, mRightMargin - 1)
          \/ UNCHANGED cursor
     ELSE mCursorCol > -MaxLeft /\ SetCursorCol(mCursorCol - 1)
  /\ CallsNothing /\ OnlyCursor

\* nextTabStop(): the n-th tab stop after the cursor, or the right margin.
NextTabStop(n) ==
  LET after == {i \in mTabStop : i > mCursorCol}
      nth   == {i \in after : Cardinality({j \in after : j <= i}) = n}
  IN IF nth = {} THEN mRightMargin - 1
     ELSE Lesser(CHOOSE i \in nth : TRUE, mRightMargin)

Tab ==
  /\ Running
  /\ mCursorCol' = NextTabStop(1)
  /\ UNCHANGED <<mCursorRow, mAboutToAutoWrap>> /\ CallsNothing /\ OnlyCursor

\* doLinefeed(), which has been preceded by a move to col if moved.
Linefeed(col, moved) ==
  /\ mCursorCol' = col
  /\ IF mCursorRow >= mBottomMargin
     THEN /\ mCursorRow' = Lesser(mCursorRow + 1, mRows - 1)
          /\ mAboutToAutoWrap' = (mAboutToAutoWrap /\ ~moved /\ mCursorRow = mRows - 1)
          /\ CallsNothing
     ELSE /\ mCursorRow' = Lesser(mCursorRow + 1, mBottomMargin - 1)
          /\ mAboutToAutoWrap' = FALSE
          /\ Calls(mCursorRow + 1 = mBottomMargin => Scrolls)
  /\ OnlyCursor

\* LF, VT, FF and IND.
LineFeed == Running /\ Linefeed(mCursorCol, FALSE)

\* NEL.
NextLine ==
  Running /\ Linefeed(IF Origin \in mCurrentDecSetFlags THEN mLeftMargin ELSE 0, TRUE)

CarriageReturn == Running /\ SetCursorCol(mLeftMargin) /\ CallsNothing /\ OnlyCursor

-----------------------------------------------------------------------------
(* Sequences that move the cursor. *)

\* DECBI and DECFI: at the margin the columns between the margins move.
BackIndex ==
  /\ Running
  /\ IF mCursorCol > mLeftMargin
     THEN mCursorCol' = mCursorCol - 1 /\ CallsNothing
     ELSE /\ UNCHANGED mCursorCol
          /\ Calls(/\ BlockCopies(mLeftMargin, mTopMargin, mRightMargin - mLeftMargin - 1,
                                  mBottomMargin - mTopMargin, mLeftMargin + 1, mTopMargin)
                   /\ Inside(mLeftMargin, mTopMargin, 1, mBottomMargin - mTopMargin))
  /\ UNCHANGED <<mCursorRow, mAboutToAutoWrap>> /\ OnlyCursor

ForwardIndex ==
  /\ Running
  /\ IF mCursorCol < mRightMargin - 1
     THEN mCursorCol' = mCursorCol + 1 /\ CallsNothing
     ELSE /\ UNCHANGED mCursorCol
          /\ Calls(/\ BlockCopies(mLeftMargin + 1, mTopMargin, mRightMargin - mLeftMargin - 1,
                                  mBottomMargin - mTopMargin, mLeftMargin, mTopMargin)
                   /\ Inside(mRightMargin - 1, mTopMargin, 1, mBottomMargin - mTopMargin))
  /\ UNCHANGED <<mCursorRow, mAboutToAutoWrap>> /\ OnlyCursor

\* RI: at or above the top margin the region moves down.
ReverseIndex ==
  /\ Running
  /\ IF mCursorRow <= mTopMargin
     THEN /\ UNCHANGED mCursorRow
          /\ Calls(/\ BlockCopies(0, mTopMargin, mColumns, mBottomMargin - (mTopMargin + 1),
                                  0, mTopMargin + 1)
                   /\ Inside(0, mTopMargin, mColumns, 1))
     ELSE mCursorRow' = mCursorRow - 1 /\ CallsNothing
  /\ UNCHANGED <<mCursorCol, mAboutToAutoWrap>> /\ OnlyCursor

\* "ESC F", whose author has taken the column for the row.
LowerLeft == Running /\ SetCursorRowCol(0, mBottomMargin - 1) /\ CallsNothing /\ OnlyCursor

\* CUU, CUD, CUF and HPR, CUB, CHA, CHT and VPA; and CNL, CPL and VPR.
MoveBy(n) ==
  /\ Running
  /\ \/ SetCursorRow(Greater(0, mCursorRow - n))
     \/ SetCursorRow(Lesser(mRows - 1, Plus(mCursorRow, n)))
     \/ SetCursorCol(Lesser(mRightMargin - 1, Plus(mCursorCol, n)))
     \/ SetCursorCol(Greater(mLeftMargin, mCursorCol - n))
     \/ SetCursorCol(Lesser(n, mColumns) - 1)
     \/ SetCursorCol(NextTabStop(n))
     \/ SetCursorRow(Lesser(n, mRows) - 1)
  /\ CallsNothing /\ OnlyCursor

MoveRespectingOrigin(n) ==
  /\ Running /\ CallsNothing /\ OnlyCursor
  /\ \/ SetCursorPosition(0, Plus(mCursorRow, n))
     \/ SetCursorPosition(0, mCursorRow - n)
     \/ SetCursorPosition(mCursorCol, Plus(mCursorRow, n))

\* HPA.
HorizontalPosition(n) ==
  Running /\ CallsNothing /\ OnlyCursor /\ SetCursorPosition(n - 1, mCursorRow)

\* CUP and HVP.
CursorPosition(row, col) ==
  Running /\ CallsNothing /\ OnlyCursor /\ SetCursorPosition(col - 1, row - 1)

\* CBT.
BackTab(n) ==
  LET before == {i \in mTabStop : i < mCursorCol}
      nth    == {i \in before : Cardinality({j \in before : j >= i}) = n}
  IN /\ Running
     /\ mCursorCol' = IF nth = {} THEN mLeftMargin
                      ELSE Greater(CHOOSE i \in nth : TRUE, mLeftMargin)
     /\ UNCHANGED <<mCursorRow, mAboutToAutoWrap>> /\ CallsNothing /\ OnlyCursor

\* HTS and TBC.
TabStops ==
  /\ Running /\ TabColumns # {}
  /\ \/ mTabStop' = {} /\ CallsNothing
     \/ /\ mCursorCol \in TabColumns
        /\ mTabStop' \in {mTabStop \cup {mCursorCol}, mTabStop \ {mCursorCol}}
        /\ Calls(mCursorCol \in 0..mColumns - 1)
  /\ UNCHANGED <<size, cursor, margins, modes, memory>>

-----------------------------------------------------------------------------
(* Sequences that change the screen at the cursor. *)

\* ICH, ECH and DCH to the end of the row; ED, of which EL does a part; DL.
\* All end the wait for a wrap.
EditAtCursor(n) ==
  LET after == mColumns - mCursorCol
      k     == Lesser(n, after)
      lines == mBottomMargin - mCursorRow
      m     == Lesser(n, lines)
  IN /\ Running
     /\ \/ Calls(/\ BlockCopies(mCursorCol, mCursorRow, after - k, 1, mCursorCol + k, mCursorRow)
                 /\ Inside(mCursorCol, mCursorRow, k, 1))
        \/ Calls(Inside(mCursorCol, mCursorRow, k, 1))
        \/ Calls(/\ BlockCopies(mCursorCol + k, mCursorRow, after - k, 1, mCursorCol, mCursorRow)
                 /\ Inside(mCursorCol + after - k, mCursorRow, k, 1))
        \/ Calls(/\ Inside(mCursorCol, mCursorRow, after, 1)
                 /\ Inside(0, mCursorRow + 1, mColumns, mRows - (mCursorRow + 1)))
        \/ Calls(/\ Inside(0, 0, mColumns, mCursorRow)
                 /\ Inside(0, mCursorRow, mCursorCol + 1, 1))
        \/ Calls(Inside(0, 0, mColumns, mRows))
        \/ Calls(/\ BlockCopies(0, mCursorRow + m, mColumns, lines - m, 0, mCursorRow)
                 /\ Inside(0, mCursorRow + lines - m, mColumns, m))
     /\ mAboutToAutoWrap' = FALSE
     /\ UNCHANGED <<mCursorRow, mCursorCol>> /\ OnlyCursor

\* IL, SU, SD, DECIC, DECDC and the screen alignment test.
EditScreen(n) ==
  LET lines  == mBottomMargin - mCursorRow
      m      == Lesser(n, lines)
      region == mBottomMargin - mTopMargin
      r      == Lesser(n, region)
      after  == mRightMargin - mCursorCol
      k      == Lesser(n, after)
  IN /\ Running
     /\ \/ Calls(/\ BlockCopies(0, mCursorRow, mColumns, lines - m, 0, mCursorRow + m)
                 /\ Inside(0, mCursorRow, mColumns, m))
        \/ Calls(Scrolls)
        \/ Calls(/\ BlockCopies(0, mTopMargin, mColumns, region - r, 0, mTopMargin + r)
                 /\ Inside(0, mTopMargin, mColumns, r))
        \/ Calls(/\ BlockCopies(mCursorCol, 0, after - k, mRows, mCursorCol + k, 0)
                 /\ Inside(mCursorCol, 0, k, mRows))
        \/ Calls(BlockCopies(mCursorCol + k, 0, after - k, mRows, mCursorCol, 0))
        \/ Calls(Inside(0, 0, mColumns, mRows))
     /\ OnlyCalls

\* DECCARA and DECRARA, of the area from row a and column b to row c and
\* column d; a row or column beyond the screen is a fault.
ChangeAttributes(a, b, c, d) ==
  LET origin == Origin \in mCurrentDecSetFlags
      offTop  == IF origin THEN mTopMargin ELSE 0
      offLeft == IF origin THEN mLeftMargin ELSE 0
      toRow   == IF origin THEN mBottomMargin ELSE mRows
      toCol   == IF origin THEN mRightMargin ELSE mColumns
      top    == Lesser(a - 1, toRow) + offTop
      left   == Lesser(b - 1, toCol) + offLeft
      bottom == Lesser(Plus(c, 1), toRow - 1) + offTop
      right  == Lesser(Plus(d, 1), toCol - 1) + offLeft
  IN /\ Running
     /\ fault' = IF top < bottom /\ left < right
                    /\ (bottom > bufRows[mScreen] \/ right > bufColumns[mScreen])
                 THEN "attributes" ELSE "none"
     /\ OnlyCalls

-----------------------------------------------------------------------------
(* Margins, modes and saved cursors. *)

\* DECSTBM.
SetTopAndBottom(n, m) ==
  /\ Running
  /\ mTopMargin' = Greater(0, Lesser(n - 1, mRows - 2))
  /\ mBottomMargin' = Greater(mTopMargin' + 2, Lesser(m, mRows))
  /\ UNCHANGED <<mLeftMargin, mRightMargin, size, modes, mTabStop, memory>>
  /\ SetCursorPosition(0, 0) /\ CallsNothing

\* DECSLRM, "CSI s" while left and right margins are enabled.
SetLeftAndRight(n, m) ==
  /\ Running /\ LeftRightMargin \in mCurrentDecSetFlags
  /\ mLeftMargin' = Lesser(n - 1, mColumns - 2)
  /\ mRightMargin' = Greater(mLeftMargin' + 1, Lesser(m, mColumns))
  /\ UNCHANGED <<mTopMargin, mBottomMargin, size, modes, mTabStop, memory>>
  /\ SetCursorPosition(0, 0) /\ CallsNothing

SavedNow == [row |-> mCursorRow, col |-> mCursorCol,
             flags |-> mCurrentDecSetFlags \ {LeftRightMargin}]

\* DECSC, "CSI s" and DECSET 1048.
SaveCursor ==
  /\ Running
  /\ saved' = [saved EXCEPT ![mScreen] = SavedNow]
  /\ UNCHANGED <<size, cursor, margins, modes, mTabStop, leftMain, fault>>

RestoredFlags(s) == (mCurrentDecSetFlags \ {Origin, AutoWrap}) \cup saved[s].flags

\* DECRC, "CSI u" and DECRST 1048.
RestoreCursor ==
  /\ Running
  /\ SetCursorRowCol(saved[mScreen].row, saved[mScreen].col)
  /\ mCurrentDecSetFlags' = RestoredFlags(mScreen)
  /\ UNCHANGED <<size, margins, mSavedDecSetFlags, mInsertMode, mTabStop, memory, fault>>

\* IRM.
InsertMode ==
  /\ Running /\ mInsertMode' \in BOOLEAN
  /\ UNCHANGED <<size, cursor, margins, mCurrentDecSetFlags, mSavedDecSetFlags,
                 mTabStop, memory, fault>>

Flagged(mode, set) == IF set THEN mCurrentDecSetFlags \cup ({mode} \cap Flags)
                             ELSE mCurrentDecSetFlags \ {mode}

\* doDecSetOrReset() of the modes that do more than set their bit.
ColumnMode ==
  /\ mLeftMargin' = 0 /\ mTopMargin' = 0
  /\ mBottomMargin' = mRows /\ mRightMargin' = mColumns
  /\ mCurrentDecSetFlags' = mCurrentDecSetFlags \ {LeftRightMargin}
  /\ Calls(Inside(0, 0, mColumns, mRows))
  /\ SetCursorRowCol(0, 0)

SetFlag(mode, set) ==
  /\ mCurrentDecSetFlags' = Flagged(mode, set)
  /\ IF mode = LeftRightMargin /\ ~set
     THEN mLeftMargin' = 0 /\ mRightMargin' = mColumns
     ELSE UNCHANGED <<mLeftMargin, mRightMargin>>
  /\ UNCHANGED <<mTopMargin, mBottomMargin>>
  /\ IF mode = Origin /\ set THEN SetCursorPosition(0, 0) ELSE UNCHANGED cursor
  /\ CallsNothing

DecSetOrReset(mode, set) ==
  /\ Running /\ mode \in Modes
  /\ \/ mode = 3 /\ ColumnMode
     \/ mode \in Flags /\ SetFlag(mode, set)
  /\ UNCHANGED <<size, mSavedDecSetFlags, mInsertMode, mTabStop, memory>>

\* "CSI ? s", which records a mode as set whether it is or not, and "CSI ? r".
SaveMode(mode) ==
  /\ Running /\ mode \in Modes \cap Flags
  /\ mSavedDecSetFlags' = mSavedDecSetFlags \cup {mode}
  /\ UNCHANGED <<size, cursor, margins, mCurrentDecSetFlags, mInsertMode, mTabStop,
                 memory, fault>>

RecallMode(mode) == mode \in Flags /\ DecSetOrReset(mode, mode \in mSavedDecSetFlags)

-----------------------------------------------------------------------------
(* Reset, resizes and the two buffers. *)

DefaultTabStops(columns) == {i \in 1..columns - 1 : i % TabWidth = 0}
Home == [row |-> 0, col |-> 0, flags |-> {AutoWrap}]

Reset ==
  /\ mTopMargin' = 0 /\ mLeftMargin' = 0
  /\ mBottomMargin' = mRows /\ mRightMargin' = mColumns
  /\ mCurrentDecSetFlags' = {AutoWrap} /\ mSavedDecSetFlags' = {AutoWrap}
  /\ mInsertMode' = FALSE
  /\ mTabStop' = DefaultTabStops(mColumns)
  /\ saved' = [b \in {Main, Alt} |-> Home]
  /\ leftMain' = NoCursor
  /\ UNCHANGED size

\* DECSTR leaves the cursor where it is.
SoftReset ==
  /\ Running /\ Reset
  /\ mAboutToAutoWrap' = FALSE /\ UNCHANGED <<mCursorRow, mCursorCol>>
  /\ CallsNothing

\* RIS.
ResetToInitialState ==
  /\ Running /\ Reset
  /\ Calls(Inside(0, 0, mColumns, mRows))
  /\ SetCursorPosition(0, 0)

\* TerminalBuffer.resize() of a buffer with the cursor at row and col: the fast
\* one keeps the column and moves the rows by what is blank below the cursor
\* or by what the transcript has, and a cursor that is then above the screen or
\* to the left of it goes to the corner; the slow one lays the text out anew,
\* which puts the cursor anywhere.
BufferResizes(b, row, col, rows, columns) ==
  /\ bufRows' = [bufRows EXCEPT ![b] = rows]
  /\ bufColumns' = [bufColumns EXCEPT ![b] = columns]
  /\ IF columns = bufColumns[b] /\ rows <= (IF b = Main THEN TotalRows ELSE bufRows[b])
     THEN LET lost  == bufRows[b] - rows
              below == bufRows[b] - 1 - row
          IN \E shift \in IF lost > 0 THEN (lost - Lesser(lost, below))..lost ELSE lost..0 :
               IF row < shift \/ col < 0
               THEN mCursorRow' = 0 /\ mCursorCol' = 0
               ELSE mCursorRow' = row - shift /\ mCursorCol' = col
     ELSE mCursorRow' \in 0..rows - 1 /\ mCursorCol' \in 0..columns - 1

\* resize(); the pending wrap is not reconsidered.
Resize(rows, columns) ==
  /\ Running /\ <<rows, columns>> # <<mRows, mColumns>>
  /\ mRows' = rows /\ mColumns' = columns
  /\ IF rows # mRows THEN mTopMargin' = 0 /\ mBottomMargin' = rows
                     ELSE UNCHANGED <<mTopMargin, mBottomMargin>>
  /\ IF columns # mColumns
     THEN /\ mLeftMargin' = 0 /\ mRightMargin' = columns
          /\ mTabStop' = {i \in mTabStop : i < columns}
                         \cup {i \in DefaultTabStops(columns) : i >= mColumns}
     ELSE UNCHANGED <<mLeftMargin, mRightMargin, mTabStop>>
  /\ BufferResizes(mScreen, mCursorRow, mCursorCol, rows, columns)
  /\ UNCHANGED <<mScreen, mAboutToAutoWrap, modes, memory, fault>>

Fits(b) == bufRows[b] = mRows /\ bufColumns[b] = mColumns

\* Variants of the two actions below: one leaves the other buffer's size alone,
\* the others restore the cursor from the wrong buffer, or do not have it moved
\* by the resize.
EnterAltUnsized ==
  /\ Running /\ 1049 \in Modes /\ mScreen = Main
  /\ mScreen' = Alt
  /\ saved' = [saved EXCEPT ![Main] = SavedNow]
  /\ leftMain' = <<mCursorRow, mCursorCol>>
  /\ UNCHANGED <<bufRows, bufColumns, mRows, mColumns, cursor, margins, modes,
                 mTabStop, fault>>
LeaveAltRestoring(b) ==
  /\ Running /\ 1049 \in Modes /\ mScreen = Alt
  /\ mScreen' = Main /\ leftMain' = NoCursor
  /\ mCurrentDecSetFlags' = RestoredFlags(b)
  /\ mCursorRow' = saved[b].row /\ mCursorCol' = saved[b].col
  /\ mAboutToAutoWrap' = FALSE
  /\ bufRows' = [bufRows EXCEPT ![Main] = mRows]
  /\ bufColumns' = [bufColumns EXCEPT ![Main] = mColumns]
  /\ CallsNothing
  /\ UNCHANGED <<mRows, mColumns, margins, mSavedDecSetFlags, mInsertMode, mTabStop, saved>>
LeaveAltUnmoved == LeaveAltRestoring(Main)
LeaveAltRestoresAlt == LeaveAltRestoring(Alt)

\* DECSET 47, 1047 and 1049: Main's cursor is saved, Alt is brought to size.
EnterAlt ==
  /\ Running /\ 1049 \in Modes /\ mScreen = Main
  /\ mScreen' = Alt
  /\ saved' = [saved EXCEPT ![Main] = SavedNow]
  /\ leftMain' = <<mCursorRow, mCursorCol>>
  /\ IF Fits(Alt) THEN UNCHANGED <<bufRows, bufColumns, mCursorRow, mCursorCol>>
                  ELSE BufferResizes(Alt, mCursorRow, mCursorCol, mRows, mColumns)
  /\ fault' = IF bufColumns'[Alt] = mColumns /\ bufRows'[Alt] = mRows
              THEN "none" ELSE "outside the screen"
  /\ UNCHANGED <<mRows, mColumns, mAboutToAutoWrap, margins, modes, mTabStop>>

\* DECRST of the same: the cursor is restored, and taken along if the size has
\* changed meanwhile.
LeaveAlt ==
  /\ Running /\ 1049 \in Modes /\ mScreen = Alt
  /\ mScreen' = Main
  /\ leftMain' = NoCursor
  /\ mCurrentDecSetFlags' = RestoredFlags(Main)
  /\ IF Fits(Main)
     THEN SetCursorRowCol(saved[Main].row, saved[Main].col)
          /\ UNCHANGED <<bufRows, bufColumns>>
     ELSE /\ BufferResizes(Main, saved[Main].row, saved[Main].col, mRows, mColumns)
          /\ mAboutToAutoWrap' = FALSE
  /\ CallsNothing
  /\ UNCHANGED <<mRows, mColumns, margins, mSavedDecSetFlags, mInsertMode, mTabStop, saved>>

-----------------------------------------------------------------------------
Init ==
  /\ \E s \in Sizes : mRows = s[1] /\ mColumns = s[2]
  /\ bufRows = [b \in {Main, Alt} |-> mRows]
  /\ bufColumns = [b \in {Main, Alt} |-> mColumns]
  /\ mScreen = Main
  /\ mCursorRow = 0 /\ mCursorCol = 0 /\ mAboutToAutoWrap = FALSE
  /\ mTopMargin = 0 /\ mBottomMargin = mRows /\ mLeftMargin = 0 /\ mRightMargin = mColumns
  /\ mCurrentDecSetFlags = {AutoWrap} /\ mSavedDecSetFlags = {AutoWrap}
  /\ mInsertMode = FALSE
  /\ mTabStop = DefaultTabStops(mColumns)
  /\ saved = [b \in {Main, Alt} |-> Home]
  /\ leftMain = NoCursor
  /\ fault = "none"

Character == \E width \in 0..2 : EmitCodePoint(width)
Control == Backspace \/ Tab \/ LineFeed \/ NextLine \/ CarriageReturn
Index == BackIndex \/ ForwardIndex \/ ReverseIndex \/ LowerLeft
Moves == \E n \in Args : MoveBy(n) \/ MoveRespectingOrigin(n) \/ HorizontalPosition(n)
                         \/ BackTab(n) \/ \E m \in Args : CursorPosition(n, m)
Edits == \E n \in Args : EditAtCursor(n) \/ EditScreen(n)
Attributes == \E a, c \in Args : ChangeAttributes(a, a, c, c)
Margins == \E n, m \in Args : SetTopAndBottom(n, m) \/ SetLeftAndRight(n, m)
Saving == SaveCursor \/ RestoreCursor
Mode == \E mode \in Modes : \/ \E set \in BOOLEAN : DecSetOrReset(mode, set)
                            \/ SaveMode(mode) \/ RecallMode(mode)
Resets == SoftReset \/ ResetToInitialState
Buffers == EnterAlt \/ LeaveAlt
Resizes == \E s \in Sizes : Resize(s[1], s[2])

Next == \/ Character \/ Control \/ Index \/ Moves \/ TabStops \/ Edits \/ Attributes
        \/ Margins \/ Saving \/ InsertMode \/ Mode \/ Resets \/ Buffers \/ Resizes

Spec == Init /\ [][Next]_vars

-----------------------------------------------------------------------------
Positions == [row : Int, col : Int, flags : SUBSET {Origin, AutoWrap}]
Faults == {"none", "outside the screen", "wide character in last column", "attributes"}

SizeTypeOK ==
  /\ mRows \in Nat /\ mColumns \in Nat
  /\ bufRows \in [{Main, Alt} -> Nat] /\ bufColumns \in [{Main, Alt} -> Nat]
  /\ mScreen \in {Main, Alt}
CursorTypeOK == mCursorRow \in Int /\ mCursorCol \in Int /\ mAboutToAutoWrap \in BOOLEAN
MarginTypeOK ==
  mTopMargin \in Nat /\ mBottomMargin \in Nat /\ mLeftMargin \in Nat /\ mRightMargin \in Nat
ModeTypeOK ==
  mCurrentDecSetFlags \subseteq Flags /\ mSavedDecSetFlags \subseteq Flags
  /\ mInsertMode \in BOOLEAN
MemoryTypeOK ==
  mTabStop \subseteq Int /\ saved \in [{Main, Alt} -> Positions]
  /\ leftMain \in Int \X Int /\ fault \in Faults

TypeOK == SizeTypeOK /\ CursorTypeOK /\ MarginTypeOK /\ ModeTypeOK /\ MemoryTypeOK

\* The cursor stays on the screen, whatever sequences, resizes and switches of
\* the buffer follow each other.
CursorOnScreen ==
  /\ mCursorRow \in 0..mRows - 1
  /\ mCursorCol \in 0..mColumns - 1

\* The margins enclose two rows or more and one column or more of the screen,
\* through resizes on either buffer.
MarginsOnScreen ==
  /\ mTopMargin + 2 <= mBottomMargin /\ mBottomMargin <= mRows
  /\ mLeftMargin < mRightMargin /\ mRightMargin <= mColumns

\* The buffer in use has the emulator's size, also when the other one has
\* missed resizes.
BufferFits == Fits(mScreen)

\* No editing or scrolling reaches outside the buffer, which would throw.
EditsInside == fault # "outside the screen"

\* With left and right margins too the cursor stays above the bottom and to the
\* left of the right edge.
OnlyLeftIsOpen == mCursorRow \in 0..mRows - 1 /\ mCursorCol < mColumns

\* Then edits reach outside only from the left of column 0, where nothing but
\* Backspace takes the cursor; not even the way back to a main screen that was
\* left with the cursor there does, whether its size has changed or not.
FaultsStartAtTheLeft ==
  [][/\ fault' = "outside the screen" => mCursorCol < 0
     /\ mCursorCol' < 0 /\ mCursorCol >= 0 => Backspace]_vars

\* Back from the alternate screen the cursor is where it was, whatever has been
\* saved and restored there, unless the size has changed.
MainCursorComesBack ==
  [][mScreen = Alt /\ mScreen' = Main /\ leftMain # NoCursor /\ Fits(Main)
       => <<mCursorRow', mCursorCol'>> = leftMain]_vars

-----------------------------------------------------------------------------
(* The inductive invariants behind the safety properties. *)

\* Sizes and margins, which do not depend on where the cursor is.
BuffersHadASize == \A b \in {Main, Alt} : <<bufRows[b], bufColumns[b]>> \in Sizes

FrameInvariant ==
  TypeOK /\ <<mRows, mColumns>> \in Sizes /\ BuffersHadASize /\ MarginsOnScreen /\ BufferFits

\* With left and right margins: the cursor, the tab stops and the cursor that waits
\* on the main screen are not beyond the right edge.
LeftOpenInvariant ==
  /\ OnlyLeftIsOpen
  /\ \A i \in mTabStop : i < mColumns
  /\ mScreen = Alt => /\ saved[Main].row \in 0..bufRows[Main] - 1
                      /\ saved[Main].col < bufColumns[Main]

\* Without left and right margins, and with arguments that no sum overflows.
NoSideMargins == LeftRightMargin \notin Modes
SmallArguments == \A n \in Args, s \in Sizes : n + s[1] <= MaxInt /\ n + s[2] <= MaxInt

\* The margins at the sides are then the screen's.
SidesAreMargins ==
  /\ LeftRightMargin \notin mCurrentDecSetFlags
  /\ mLeftMargin = 0 /\ mRightMargin = mColumns
  /\ mTabStop \subseteq 0..mColumns - 1

\* The cursor that waits for the way back from the alternate screen is on the
\* main buffer as that was left.
MainCursorWaits ==
  mScreen = Alt => /\ saved[Main].row \in 0..bufRows[Main] - 1
                   /\ saved[Main].col \in 0..bufColumns[Main] - 1
                   /\ leftMain # NoCursor => leftMain = <<saved[Main].row, saved[Main].col>>

CursorInvariant == CursorOnScreen /\ EditsInside /\ SidesAreMargins /\ MainCursorWaits

-----------------------------------------------------------------------------
(* What comments of the class say and the code does not do. *)

\* "The cursor position. Between (0,0) and (mRows-1, mColumns-1)."  Backspace in
\* column 0 passes it by when the left margin is elsewhere; and an argument
\* close to the largest int makes a sum with the row or the column overflow.
CursorStaysBetween == CursorOnScreen

\* "When outputting another character this will move to the next line", if there
\* is one: a wrap below the scrolling region scrolls the region instead.
WrapMovesToTheNextLine ==
  [][EmitCodePoint(1) /\ mAboutToAutoWrap /\ AutoWrap \in mCurrentDecSetFlags
       /\ mCursorCol = mRightMargin - 1 /\ mCursorRow \notin {mBottomMargin - 1, mRows - 1}
     => mCursorRow' = mCursorRow + 1]_vars

\* "Used to disambiguate the case where the cursor is positioned on the last
\* column": a pending wrap means that the last column has been written.  The
\* moves that do not go through setCursor...() and resizes leave it pending.
WrapIsPendingInTheLastColumn == mAboutToAutoWrap => mCursorCol = mRightMargin - 1

\* "Set the cursor mode, but limit it to margins if DECSET_BIT_ORIGIN_MODE is
\* enabled": a horizontal move keeps the row.
HorizontalMovesKeepTheRow ==
  [][\A n \in Args : HorizontalPosition(n) => mCursorRow' = mCursorRow]_vars

\* "Cursor to lower-left corner of screen".
LowerLeftIsLowerLeft ==
  [][LowerLeft => mCursorRow' = mBottomMargin - 1 /\ mCursorCol' = 0]_vars

\* "The behaviour when a wide character is output with cursor in the last column
\* when autowrap is disabled is not obvious - it's ignored here": it is never
\* put there.
WideIsNeverPutInTheLastColumn == fault # "wide character in last column"

\* "External coordinate system: -mActiveTranscriptRows to mScreenRows-1": the
\* rows whose attributes a sequence changes are rows of the screen.
RectanglesAreClipped == fault # "attributes"
=============================================================================
