------------------------ MODULE TerminalCursorProofs ------------------------
(***************************************************************************)
(* The terminal's margins, buffers and cursor, for screens of any sizes    *)
(* and sequences with any arguments.                                       *)
(***************************************************************************)
EXTENDS TerminalCursor, TLAPS

-----------------------------------------------------------------------------
(* What the helpers return.                                                *)

LEMMA LesserIs ==
  ASSUME NEW a \in Int, NEW b \in Int
  PROVE  Lesser(a, b) \in Int /\ Lesser(a, b) <= a /\ Lesser(a, b) <= b
         /\ (Lesser(a, b) = a \/ Lesser(a, b) = b)
BY DEF Lesser

LEMMA GreaterIs ==
  ASSUME NEW a \in Int, NEW b \in Int
  PROVE  Greater(a, b) \in Int /\ Greater(a, b) >= a /\ Greater(a, b) >= b
         /\ (Greater(a, b) = a \/ Greater(a, b) = b)
BY DEF Greater

LEMMA PlusType ==
  ASSUME NEW a \in Int, NEW b \in Int
  PROVE  Plus(a, b) \in Int
BY SizesAssumption DEF Plus

LEMMA PlusIsExact ==
  ASSUME NEW a \in Int, NEW b \in Int, a + b <= MaxInt
  PROVE  Plus(a, b) = a + b
BY SizesAssumption DEF Plus

\* A tab stop to the right of the cursor, or the last column between the margins.
LEMMA NextTabStopType ==
  ASSUME TypeOK, NEW n
  PROVE  /\ NextTabStop(n) \in Int
         /\ NextTabStop(n) < mRightMargin \/ \E i \in mTabStop : NextTabStop(n) <= i
         /\ NextTabStop(n) > mCursorCol \/ NextTabStop(n) >= mRightMargin - 1
<1> DEFINE after == {i \in mTabStop : i > mCursorCol}
           nth   == {i \in after : Cardinality({j \in after : j <= i}) = n}
<1>1. /\ mTabStop \subseteq Int /\ mRightMargin \in Nat /\ mCursorCol \in Int
  BY DEF TypeOK, MemoryTypeOK, MarginTypeOK, CursorTypeOK
<1>2. NextTabStop(n) = IF nth = {} THEN mRightMargin - 1
                       ELSE Lesser(CHOOSE i \in nth : TRUE, mRightMargin)
  BY Zenon DEF NextTabStop
<1>3. CASE nth = {}
  BY <1>1, <1>2, <1>3
<1>4. CASE nth # {}
  <2> DEFINE stop == CHOOSE i \in nth : TRUE
  <2>1. stop \in nth
    BY <1>4
  <2>2. stop \in mTabStop /\ stop > mCursorCol
    BY <2>1
  <2>3. NextTabStop(n) = Lesser(stop, mRightMargin)
    BY <1>2, <1>4, Zenon
  <2> HIDE DEF stop
  <2> QED
    BY <1>1, <2>2, <2>3 DEF Lesser
<1> QED
  BY <1>3, <1>4

LEMMA CallsFault ==
  ASSUME NEW inside, Calls(inside)
  PROVE  fault' \in Faults
BY DEF Calls, Faults

LEMMA SetCursorRowColType ==
  ASSUME NEW row \in Int, NEW col \in Int, SizeTypeOK, SetCursorRowCol(row, col)
  PROVE  CursorTypeOK'
<1>1. mRows \in Nat /\ mColumns \in Nat
  BY Zenon DEF SizeTypeOK
<1>2. mAboutToAutoWrap' \in BOOLEAN
  BY Zenon DEF SetCursorRowCol
<1>3. mCursorRow' \in Int /\ mCursorCol' \in Int
  BY <1>1 DEF SetCursorRowCol, Lesser, Greater
<1> QED
  BY <1>2, <1>3, Zenon DEF CursorTypeOK

\* SetCursorRowCol() brings any position onto the screen.
LEMMA SetCursorRowColOnScreen ==
  ASSUME NEW row \in Int, NEW col \in Int, mRows \in Nat \ {0}, mColumns \in Nat \ {0},
         SetCursorRowCol(row, col)
  PROVE  mCursorRow' \in 0..mRows - 1 /\ mCursorCol' \in 0..mColumns - 1
BY DEF SetCursorRowCol, Lesser, Greater

\* So does SetCursorPosition(), in either origin mode and for any argument.
LEMMA SetCursorPositionIsRowCol ==
  ASSUME NEW x \in Int, NEW y \in Int, SizeTypeOK, MarginTypeOK', SetCursorPosition(x, y)
  PROVE  \E row, col \in Int : SetCursorRowCol(row, col)
<1> DEFINE origin == Origin \in mCurrentDecSetFlags'
           top    == IF origin THEN mTopMargin' ELSE 0
           bottom == IF origin THEN mBottomMargin' ELSE mRows
           left   == IF origin THEN mLeftMargin' ELSE 0
           right  == IF origin THEN mRightMargin' ELSE mColumns
<1>1. top \in Int /\ bottom \in Int /\ left \in Int /\ right \in Int
  BY DEF SizeTypeOK, MarginTypeOK
<1>2. SetCursorRowCol(Greater(top, Lesser(Plus(top, y), bottom - 1)),
                      Greater(left, Lesser(Plus(left, x), right - 1)))
  BY Zenon DEF SetCursorPosition
<1> HIDE DEF top, bottom, left, right
<1>3. /\ Greater(top, Lesser(Plus(top, y), bottom - 1)) \in Int
      /\ Greater(left, Lesser(Plus(left, x), right - 1)) \in Int
  <2>1. Plus(top, y) \in Int /\ Plus(left, x) \in Int
    BY <1>1, PlusType
  <2> QED
    BY <1>1, <2>1 DEF Greater, Lesser
<1> QED
  BY <1>2, <1>3, Zenon

-----------------------------------------------------------------------------
(* The frame: what the steps of the cursor leave alone.                    *)

USE DEF size, cursor, margins, modes, memory

LEMMA OnlyCursorKeepsFrame ==
  ASSUME FrameInvariant, OnlyCursor, CursorTypeOK', fault' \in Faults
  PROVE  FrameInvariant'
<1>1. SizeTypeOK' /\ MarginTypeOK' /\ ModeTypeOK' /\ MemoryTypeOK'
  BY Zenon DEF FrameInvariant, TypeOK, OnlyCursor, SizeTypeOK, MarginTypeOK, ModeTypeOK,
               MemoryTypeOK
<1>2. <<mRows, mColumns>>' \in Sizes /\ BuffersHadASize' /\ MarginsOnScreen' /\ BufferFits'
  BY Zenon DEF FrameInvariant, OnlyCursor, BuffersHadASize, MarginsOnScreen, BufferFits, Fits
<1> QED
  BY <1>1, <1>2, Zenon DEF FrameInvariant, TypeOK

\* The numbers among the types.
LEMMA Numbers ==
  ASSUME TypeOK
  PROVE  /\ mRows \in Nat /\ mColumns \in Nat /\ mCursorRow \in Int /\ mCursorCol \in Int
         /\ mTopMargin \in Nat /\ mBottomMargin \in Nat
         /\ mLeftMargin \in Nat /\ mRightMargin \in Nat
BY Zenon DEF TypeOK, SizeTypeOK, CursorTypeOK, MarginTypeOK

LEMMA EmitFrame ==
  ASSUME FrameInvariant, NEW width \in 0..2, EmitCodePoint(width)
  PROVE  FrameInvariant'
<1>1. OnlyCursor
  BY Zenon DEF EmitCodePoint
<1>2. TypeOK
  BY Zenon DEF FrameInvariant
<1>3. fault' \in Faults
  BY <1>2, Zenon DEF EmitCodePoint, TypeOK, MemoryTypeOK, Faults
<1>4. mAboutToAutoWrap' \in BOOLEAN
  BY <1>2, Zenon DEF EmitCodePoint, TypeOK, CursorTypeOK
<1>5. mCursorRow' \in Int /\ mCursorCol' \in Int
  <2>1. mCursorRow' \in {mCursorRow, mCursorRow + 1}
    BY Zenon DEF EmitCodePoint
  <2>2. \E col \in {mLeftMargin, mCursorCol} :
          mCursorCol' \in {mCursorCol, Lesser(col + width, mRightMargin - 1)}
    BY Zenon DEF EmitCodePoint
  <2> QED
    BY <1>2, <2>1, <2>2, Numbers DEF Lesser
<1> QED
  BY <1>1, <1>3, <1>4, <1>5, OnlyCursorKeepsFrame, Zenon DEF CursorTypeOK

LEMMA ControlFrame ==
  ASSUME FrameInvariant, Control
  PROVE  FrameInvariant'
<1>1. OnlyCursor
  BY Zenon DEF Control, Backspace, Tab, LineFeed, NextLine, Linefeed, CarriageReturn
<1>2. TypeOK
  BY Zenon DEF FrameInvariant
<1>3. fault' \in Faults
  BY <1>2, CallsFault, Zenon DEF Control, Backspace, Tab, LineFeed, NextLine, Linefeed,
     CarriageReturn, CallsNothing, TypeOK, MemoryTypeOK
<1>4. mAboutToAutoWrap' \in BOOLEAN
  BY <1>2, Zenon DEF Control, Backspace, Tab, LineFeed, NextLine, Linefeed, CarriageReturn,
     SetCursorRowCol, SetCursorCol, TypeOK, CursorTypeOK
<1>5. mCursorRow' \in Int /\ mCursorCol' \in Int
  <2>1. CASE Backspace \/ CarriageReturn
    BY <1>2, <2>1, Numbers DEF Backspace, CarriageReturn, SetCursorRowCol, SetCursorCol,
       Lesser, Greater
  <2>2. CASE LineFeed \/ NextLine
    BY <1>2, <2>2, Numbers DEF LineFeed, NextLine, Linefeed, Lesser
  <2>3. CASE Tab
    BY <1>2, <2>3, Numbers, NextTabStopType DEF Tab
  <2> QED
    BY <2>1, <2>2, <2>3 DEF Control
<1> QED
  BY <1>1, <1>3, <1>4, <1>5, OnlyCursorKeepsFrame, Zenon DEF CursorTypeOK

LEMMA IndexFrame ==
  ASSUME FrameInvariant, Index
  PROVE  FrameInvariant'
<1>1. OnlyCursor
  BY Zenon DEF Index, BackIndex, ForwardIndex, ReverseIndex, LowerLeft
<1>2. TypeOK
  BY Zenon DEF FrameInvariant
<1>3. fault' \in Faults
  BY <1>2, CallsFault, Zenon DEF Index, BackIndex, ForwardIndex, ReverseIndex, LowerLeft,
     CallsNothing, TypeOK, MemoryTypeOK
<1>4. mAboutToAutoWrap' \in BOOLEAN
  BY <1>2, Zenon DEF Index, BackIndex, ForwardIndex, ReverseIndex, LowerLeft,
     SetCursorRowCol, TypeOK, CursorTypeOK
<1>5. mCursorRow' \in Int /\ mCursorCol' \in Int
  <2>1. CASE LowerLeft
    BY <1>2, <2>1, Numbers DEF LowerLeft, SetCursorRowCol, Lesser, Greater
  <2>2. CASE ReverseIndex \/ BackIndex \/ ForwardIndex
    <3>1. /\ mCursorRow' \in {mCursorRow, mCursorRow - 1}
          /\ mCursorCol' \in {mCursorCol, mCursorCol - 1, mCursorCol + 1}
      BY <2>2, Zenon DEF ReverseIndex, BackIndex, ForwardIndex
    <3> QED
      BY <1>2, <3>1, Numbers
  <2> QED
    BY <2>1, <2>2, Zenon DEF Index
<1> QED
  BY <1>1, <1>3, <1>4, <1>5, OnlyCursorKeepsFrame, Zenon DEF CursorTypeOK

LEMMA EditsFrame ==
  ASSUME FrameInvariant, Edits \/ Attributes
  PROVE  FrameInvariant'
<1>2. TypeOK
  BY Zenon DEF FrameInvariant
<1> DEFINE Untouched == /\ OnlyCursor /\ fault' \in Faults
                        /\ UNCHANGED <<mCursorRow, mCursorCol>>
                        /\ mAboutToAutoWrap' \in {mAboutToAutoWrap, FALSE}
<1>3. Untouched
  <2>1. ASSUME NEW n, EditAtCursor(n) PROVE Untouched
    BY <2>1, CallsFault, Zenon DEF EditAtCursor
  <2>2. ASSUME NEW n, EditScreen(n) PROVE Untouched
    BY <2>2, CallsFault, Zenon DEF EditScreen, OnlyCalls
  <2>3. ASSUME NEW a, NEW c, ChangeAttributes(a, a, c, c) PROVE Untouched
    BY <2>3, Zenon DEF ChangeAttributes, OnlyCalls, Faults
  <2> QED
    BY <2>1, <2>2, <2>3, Zenon DEF Edits, Attributes
<1> QED
  BY <1>2, <1>3, OnlyCursorKeepsFrame, Zenon DEF CursorTypeOK, TypeOK

LEMMA SetCursorPositionType ==
  ASSUME NEW x \in Int, NEW y \in Int, SizeTypeOK, MarginTypeOK', SetCursorPosition(x, y)
  PROVE  CursorTypeOK'
BY SetCursorPositionIsRowCol, SetCursorRowColType

LEMMA MovesFrame ==
  ASSUME FrameInvariant, Moves
  PROVE  FrameInvariant'
<1>1. TypeOK
  BY Zenon DEF FrameInvariant
<1>2. Args \subseteq Int
  BY BoundsAssumption, SizesAssumption
<1>3. /\ OnlyCursor /\ CallsNothing
      /\ CursorTypeOK'
  <2> DEFINE Typed == OnlyCursor /\ CallsNothing /\ CursorTypeOK'
  <2>1. ASSUME NEW n \in Args, MoveBy(n) PROVE Typed
    <3>1. OnlyCursor /\ CallsNothing /\ mAboutToAutoWrap' = FALSE
      BY <2>1, Zenon DEF MoveBy, SetCursorRow, SetCursorCol
    <3>2. /\ mCursorRow' \in {mCursorRow, Greater(0, mCursorRow - n),
                             Lesser(mRows - 1, Plus(mCursorRow, n)), Lesser(n, mRows) - 1}
          /\ mCursorCol' \in {mCursorCol, Lesser(mRightMargin - 1, Plus(mCursorCol, n)),
                             Greater(mLeftMargin, mCursorCol - n), Lesser(n, mColumns) - 1,
                             NextTabStop(n)}
      BY <2>1, Zenon DEF MoveBy, SetCursorRow, SetCursorCol
    <3>3. Plus(mCursorRow, n) \in Int /\ Plus(mCursorCol, n) \in Int /\ n \in Int
      BY <1>1, <1>2, Numbers, PlusType
    <3>4. mCursorRow' \in Int
      BY <1>1, <3>2, <3>3, Numbers DEF Lesser, Greater
    <3>5. mCursorCol' \in Int
      BY <1>1, <3>2, <3>3, Numbers, NextTabStopType DEF Lesser, Greater
    <3> QED
      BY <3>1, <3>4, <3>5, Zenon DEF CursorTypeOK
  <2>2. ASSUME NEW x \in Int, NEW y \in Int, SetCursorPosition(x, y), OnlyCursor
        PROVE CursorTypeOK'
    <3>1. SizeTypeOK /\ MarginTypeOK'
      BY <1>1, <2>2, Zenon DEF TypeOK, OnlyCursor, MarginTypeOK
    <3> QED
      BY <2>2, <3>1, SetCursorPositionType
  <2>3. ASSUME NEW n \in Args, MoveRespectingOrigin(n) PROVE Typed
    <3>1. /\ mCursorRow \in Int /\ mCursorCol \in Int /\ n \in Int
          /\ Plus(mCursorRow, n) \in Int /\ mCursorRow - n \in Int /\ 0 \in Int
      BY <1>1, <1>2, Numbers, PlusType
    <3> QED
      BY <2>2, <2>3, <3>1, Zenon DEF MoveRespectingOrigin
  <2>4. ASSUME NEW n \in Args, HorizontalPosition(n) PROVE Typed
    <3>1. n - 1 \in Int /\ mCursorRow \in Int
      BY <1>1, <1>2, Numbers
    <3> QED
      BY <2>2, <2>4, <3>1, Zenon DEF HorizontalPosition
  <2>5. ASSUME NEW n \in Args, NEW m \in Args, CursorPosition(n, m) PROVE Typed
    <3>1. n - 1 \in Int /\ m - 1 \in Int
      BY <1>2
    <3> QED
      BY <2>2, <2>5, <3>1, Zenon DEF CursorPosition
  <2>6. ASSUME NEW n \in Args, BackTab(n) PROVE Typed
    <3>1. OnlyCursor /\ CallsNothing /\ UNCHANGED <<mCursorRow, mAboutToAutoWrap>>
      BY <2>6, Zenon DEF BackTab
    <3> DEFINE before == {i \in mTabStop : i < mCursorCol}
               nth    == {i \in before : Cardinality({j \in before : j >= i}) = n}
               stop   == CHOOSE i \in nth : TRUE
    <3>2. mCursorCol' = IF nth = {} THEN mLeftMargin ELSE Greater(stop, mLeftMargin)
      BY <2>6, Zenon DEF BackTab
    <3>3. mTabStop \subseteq Int /\ mLeftMargin \in Int
      BY <1>1 DEF TypeOK, MemoryTypeOK, MarginTypeOK
    <3>4. nth # {} => stop \in Int
      BY <3>3
    <3> HIDE DEF nth, stop
    <3>5. mCursorCol' \in Int
      BY <3>2, <3>3, <3>4 DEF Greater
    <3> QED
      BY <1>1, <3>1, <3>5, Zenon DEF CursorTypeOK, TypeOK
  <2> QED
    BY <2>1, <2>3, <2>4, <2>5, <2>6, Zenon DEF Moves
<1>4. fault' \in Faults
  BY <1>1, <1>3, Zenon DEF CallsNothing, TypeOK, MemoryTypeOK
<1> QED
  BY <1>3, <1>4, OnlyCursorKeepsFrame

-----------------------------------------------------------------------------
(* The frame: the steps that change it.                                    *)

LEMMA SizeFacts ==
  ASSUME FrameInvariant
  PROVE  /\ mRows \in Nat /\ mRows >= 2 /\ mRows < MaxInt
         /\ mColumns \in Nat /\ mColumns >= 2 /\ mColumns < MaxInt
BY SizesAssumption DEF FrameInvariant, TypeOK, SizeTypeOK

\* Steps that leave the sizes alone have only the types and the margins to see to.
LEMMA SameSize ==
  ASSUME FrameInvariant, UNCHANGED size, CursorTypeOK', ModeTypeOK', MemoryTypeOK',
         MarginTypeOK', MarginsOnScreen'
  PROVE  FrameInvariant'
BY Zenon DEF FrameInvariant, TypeOK, SizeTypeOK, BuffersHadASize, BufferFits, Fits

LEMMA SameMargins ==
  ASSUME FrameInvariant, UNCHANGED <<size, margins>>, CursorTypeOK', ModeTypeOK', MemoryTypeOK'
  PROVE  FrameInvariant'
<1>1. MarginTypeOK' /\ MarginsOnScreen'
  BY Zenon DEF FrameInvariant, TypeOK, MarginTypeOK, MarginsOnScreen
<1> QED
  BY <1>1, SameSize, Zenon

\* The margins that are the screen's own sides.
LEMMA OuterMargins ==
  ASSUME FrameInvariant, UNCHANGED size, mTopMargin' = 0, mLeftMargin' = 0,
         mBottomMargin' = mRows, mRightMargin' = mColumns
  PROVE  MarginTypeOK' /\ MarginsOnScreen'
BY SizeFacts DEF MarginTypeOK, MarginsOnScreen

LEMMA TabStopsFrame ==
  ASSUME FrameInvariant, TabStops
  PROVE  FrameInvariant'
<1>1. TypeOK
  BY Zenon DEF FrameInvariant
<1>2. fault' \in Faults
  BY <1>1, CallsFault, Zenon DEF TabStops, CallsNothing, TypeOK, MemoryTypeOK
<1>3. mTabStop' \subseteq Int
  <2>1. mTabStop \subseteq Int /\ mCursorCol \in Int
    BY <1>1, Zenon DEF TypeOK, MemoryTypeOK, CursorTypeOK
  <2>2. mTabStop' \in {{}, mTabStop \cup {mCursorCol}, mTabStop \ {mCursorCol}}
    BY Zenon DEF TabStops
  <2> QED
    BY <2>1, <2>2
<1>4. UNCHANGED <<size, cursor, margins, modes, memory>>
  BY Zenon DEF TabStops
<1>5. CursorTypeOK' /\ ModeTypeOK' /\ MemoryTypeOK'
  BY <1>1, <1>2, <1>3, <1>4, Zenon DEF TypeOK, CursorTypeOK, ModeTypeOK, MemoryTypeOK
<1> QED
  BY <1>4, <1>5, SameMargins

\* Both operations clamp what they are given, whatever it is.
LEMMA MarginsFrame ==
  ASSUME FrameInvariant, Margins
  PROVE  FrameInvariant'
<1>1. TypeOK
  BY Zenon DEF FrameInvariant
<1>2. PICK n \in Args, m \in Args : SetTopAndBottom(n, m) \/ SetLeftAndRight(n, m)
  BY Zenon DEF Margins
<1>3. n \in Int /\ m \in Int /\ n >= 1 /\ m >= 1
  BY BoundsAssumption, SizesAssumption
<1>4. UNCHANGED <<size, modes, mTabStop, memory, fault>> /\ SetCursorPosition(0, 0)
  BY <1>2, Zenon DEF SetTopAndBottom, SetLeftAndRight, CallsNothing
<1>5. MarginTypeOK' /\ MarginsOnScreen'
  <2>1. CASE SetTopAndBottom(n, m)
    <3>1. /\ mTopMargin' = Greater(0, Lesser(n - 1, mRows - 2))
          /\ mBottomMargin' = Greater(mTopMargin' + 2, Lesser(m, mRows))
          /\ UNCHANGED <<mLeftMargin, mRightMargin, mRows, mColumns>>
      BY <2>1, Zenon DEF SetTopAndBottom
    <3>2. /\ mLeftMargin \in Nat /\ mRightMargin \in Nat
          /\ mLeftMargin < mRightMargin /\ mRightMargin <= mColumns
      BY <1>1, Numbers, Zenon DEF FrameInvariant, MarginsOnScreen
    <3> QED
      BY <1>3, <3>1, <3>2, SizeFacts DEF MarginTypeOK, MarginsOnScreen, Lesser, Greater
  <2>2. CASE SetLeftAndRight(n, m)
    <3>1. /\ mLeftMargin' = Lesser(n - 1, mColumns - 2)
          /\ mRightMargin' = Greater(mLeftMargin' + 1, Lesser(m, mColumns))
          /\ UNCHANGED <<mTopMargin, mBottomMargin, mRows, mColumns>>
      BY <2>2, Zenon DEF SetLeftAndRight
    <3>2. /\ mTopMargin \in Nat /\ mBottomMargin \in Nat
          /\ mTopMargin + 2 <= mBottomMargin /\ mBottomMargin <= mRows
      BY <1>1, Numbers, Zenon DEF FrameInvariant, MarginsOnScreen
    <3> QED
      BY <1>3, <3>1, <3>2, SizeFacts DEF MarginTypeOK, MarginsOnScreen, Lesser, Greater
  <2> QED
    BY <1>2, <2>1, <2>2
<1>6. CursorTypeOK'
  <2>1. SizeTypeOK
    BY <1>1, Zenon DEF TypeOK
  <2> QED
    BY <1>4, <1>5, <2>1, SetCursorPositionType
<1>7. ModeTypeOK' /\ MemoryTypeOK'
  BY <1>1, <1>4, Zenon DEF TypeOK, ModeTypeOK, MemoryTypeOK
<1> QED
  BY <1>4, <1>5, <1>6, <1>7, SameSize

\* What DECSC saves is a position and two of the flags.
LEMMA SavedNowType ==
  ASSUME TypeOK
  PROVE  SavedNow \in Positions
<1>1. mCurrentDecSetFlags \ {LeftRightMargin} \in SUBSET {Origin, AutoWrap}
  BY Zenon DEF TypeOK, ModeTypeOK, Flags
<1> QED
  BY <1>1, Numbers DEF SavedNow, Positions

LEMMA RestoredFlagsType ==
  ASSUME TypeOK, NEW b \in {Main, Alt}
  PROVE  RestoredFlags(b) \subseteq Flags
<1>1. saved[b] \in Positions /\ mCurrentDecSetFlags \subseteq Flags
  BY Zenon DEF TypeOK, ModeTypeOK, MemoryTypeOK
<1>2. saved[b].flags \subseteq Flags
  BY <1>1 DEF Positions, Flags
<1> QED
  BY <1>1, <1>2, Zenon DEF RestoredFlags

LEMMA SavingFrame ==
  ASSUME FrameInvariant, Saving
  PROVE  FrameInvariant'
<1>1. TypeOK /\ mScreen \in {Main, Alt}
  BY Zenon DEF FrameInvariant, TypeOK, SizeTypeOK
<1>2. CASE SaveCursor
  <2>1. saved' \in [{Main, Alt} -> Positions]
    BY <1>1, <1>2, SavedNowType DEF SaveCursor, TypeOK, MemoryTypeOK
  <2>2. /\ UNCHANGED <<size, margins>>
        /\ UNCHANGED <<cursor, modes, mTabStop, leftMain, fault>>
    BY <1>2, Zenon DEF SaveCursor
  <2>3. CursorTypeOK' /\ ModeTypeOK' /\ MemoryTypeOK'
    BY <1>1, <2>1, <2>2, Zenon DEF TypeOK, CursorTypeOK, ModeTypeOK, MemoryTypeOK
  <2> QED
    BY <2>2, <2>3, SameMargins
<1>3. CASE RestoreCursor
  <2>1. /\ UNCHANGED <<size, margins>>
        /\ UNCHANGED <<mSavedDecSetFlags, mInsertMode, mTabStop, saved, leftMain, fault>>
        /\ mCurrentDecSetFlags' = RestoredFlags(mScreen)
        /\ SetCursorRowCol(saved[mScreen].row, saved[mScreen].col)
    BY <1>3, Zenon DEF RestoreCursor
  <2>2. saved[mScreen].row \in Int /\ saved[mScreen].col \in Int
    BY <1>1 DEF TypeOK, MemoryTypeOK, Positions
  <2>3. CursorTypeOK'
    BY <1>1, <2>1, <2>2, SetCursorRowColType DEF TypeOK
  <2>4. ModeTypeOK' /\ MemoryTypeOK'
    BY <1>1, <2>1, RestoredFlagsType, Zenon DEF TypeOK, ModeTypeOK, MemoryTypeOK
  <2> QED
    BY <2>1, <2>3, <2>4, SameMargins
<1> QED
  BY <1>2, <1>3, Zenon DEF Saving

LEMMA DecSetOrResetFrame ==
  ASSUME FrameInvariant, NEW mode, NEW set, DecSetOrReset(mode, set)
  PROVE  FrameInvariant'
<1>1. TypeOK /\ SizeTypeOK
  BY Zenon DEF FrameInvariant, TypeOK
<1>2. UNCHANGED <<size, mSavedDecSetFlags, mInsertMode, mTabStop, memory>>
  BY Zenon DEF DecSetOrReset
<1>3. fault' \in Faults
  BY <1>1, CallsFault, Zenon DEF DecSetOrReset, ColumnMode, SetFlag, CallsNothing, TypeOK,
     MemoryTypeOK
<1>4. mCurrentDecSetFlags' \subseteq Flags
  BY <1>1 DEF DecSetOrReset, ColumnMode, SetFlag, Flagged, TypeOK, ModeTypeOK
<1>5. CASE ColumnMode
  <2>1. MarginTypeOK' /\ MarginsOnScreen'
    BY <1>2, <1>5, OuterMargins DEF ColumnMode
  <2>2. CursorTypeOK'
    BY <1>1, <1>5, SetCursorRowColType DEF ColumnMode
  <2>3. ModeTypeOK' /\ MemoryTypeOK'
    BY <1>1, <1>2, <1>3, <1>4, Zenon DEF TypeOK, ModeTypeOK, MemoryTypeOK
  <2> QED
    BY <1>2, <2>1, <2>2, <2>3, SameSize
<1>6. CASE SetFlag(mode, set)
  <2>1. /\ UNCHANGED <<mTopMargin, mBottomMargin>>
        /\ \/ mLeftMargin' = 0 /\ mRightMargin' = mColumns
           \/ UNCHANGED <<mLeftMargin, mRightMargin>>
    BY <1>6, Zenon DEF SetFlag
  <2>2. MarginTypeOK' /\ MarginsOnScreen'
    BY <1>1, <1>2, <2>1, SizeFacts, Numbers DEF FrameInvariant, MarginTypeOK, MarginsOnScreen
  <2>3. CursorTypeOK'
    <3>1. SetCursorPosition(0, 0) \/ UNCHANGED cursor
      BY <1>6, Zenon DEF SetFlag
    <3>2. UNCHANGED cursor => CursorTypeOK'
      BY <1>1, Zenon DEF TypeOK, CursorTypeOK
    <3> QED
      BY <1>1, <2>2, <3>1, <3>2, SetCursorPositionType
  <2>4. ModeTypeOK' /\ MemoryTypeOK'
    BY <1>1, <1>2, <1>3, <1>4, Zenon DEF TypeOK, ModeTypeOK, MemoryTypeOK
  <2> QED
    BY <1>2, <2>2, <2>3, <2>4, SameSize
<1> QED
  BY <1>5, <1>6, Zenon DEF DecSetOrReset

LEMMA ModeFrame ==
  ASSUME FrameInvariant, Mode \/ InsertMode
  PROVE  FrameInvariant'
<1>1. TypeOK
  BY Zenon DEF FrameInvariant
<1>2. ASSUME NEW mode, SaveMode(mode) PROVE FrameInvariant'
  <2>1. /\ UNCHANGED <<size, margins>>
        /\ UNCHANGED <<cursor, mCurrentDecSetFlags, mInsertMode, mTabStop, memory, fault>>
        /\ mSavedDecSetFlags' = mSavedDecSetFlags \cup {mode} /\ mode \in Flags
    BY <1>2, Zenon DEF SaveMode
  <2>2. CursorTypeOK' /\ ModeTypeOK' /\ MemoryTypeOK'
    BY <1>1, <2>1, Zenon DEF TypeOK, CursorTypeOK, ModeTypeOK, MemoryTypeOK
  <2> QED
    BY <2>1, <2>2, SameMargins
<1>3. CASE InsertMode
  <2>1. CursorTypeOK' /\ ModeTypeOK' /\ MemoryTypeOK'
    BY <1>1, <1>3, Zenon DEF InsertMode, TypeOK, CursorTypeOK, ModeTypeOK, MemoryTypeOK
  <2> QED
    BY <1>3, <2>1, SameMargins DEF InsertMode
<1> QED
  BY <1>2, <1>3, DecSetOrResetFrame, Zenon DEF Mode, RecallMode

LEMMA ResetTypes ==
  ASSUME FrameInvariant, Reset
  PROVE  MarginTypeOK' /\ MarginsOnScreen' /\ ModeTypeOK' /\ UNCHANGED size
         /\ (fault' \in Faults => MemoryTypeOK')
<1>1. UNCHANGED size
  BY Zenon DEF Reset
<1>2. MarginTypeOK' /\ MarginsOnScreen'
  BY <1>1, OuterMargins DEF Reset
<1>3. ModeTypeOK'
  BY DEF Reset, ModeTypeOK, Flags
<1>4. Home \in Positions /\ NoCursor \in Int \X Int
  BY DEF Home, Positions, NoCursor
<1>5. DefaultTabStops(mColumns) \subseteq Int
  BY DEF DefaultTabStops
<1>6. fault' \in Faults => MemoryTypeOK'
  BY <1>4, <1>5 DEF Reset, MemoryTypeOK
<1> QED
  BY <1>1, <1>2, <1>3, <1>6, Zenon

LEMMA ResetsFrame ==
  ASSUME FrameInvariant, Resets
  PROVE  FrameInvariant'
<1>1. Reset /\ SizeTypeOK /\ CursorTypeOK /\ fault \in Faults
  BY Zenon DEF Resets, SoftReset, ResetToInitialState, FrameInvariant, TypeOK, MemoryTypeOK
<1>2. fault' \in Faults
  BY <1>1, CallsFault, Zenon DEF Resets, SoftReset, ResetToInitialState, CallsNothing
<1>3. CursorTypeOK'
  <2>1. CASE SoftReset
    BY <1>1, <2>1, Zenon DEF SoftReset, CursorTypeOK
  <2>2. CASE ResetToInitialState
    BY <1>1, <2>2, ResetTypes, SetCursorPositionType DEF ResetToInitialState
  <2> QED
    BY <2>1, <2>2, Zenon DEF Resets
<1> QED
  BY <1>1, <1>2, <1>3, ResetTypes, SameSize

-----------------------------------------------------------------------------
(* The frame: resizes and the two buffers.                                 *)

\* A buffer is resized to what it is asked for, and the other one is not.
LEMMA BufferResizesSizes ==
  ASSUME SizeTypeOK, BuffersHadASize, NEW b \in {Main, Alt}, NEW row, NEW col,
         NEW rows \in Nat, NEW columns \in Nat, <<rows, columns>> \in Sizes,
         BufferResizes(b, row, col, rows, columns)
  PROVE  /\ bufRows' \in [{Main, Alt} -> Nat] /\ bufColumns' \in [{Main, Alt} -> Nat]
         /\ bufRows'[b] = rows /\ bufColumns'[b] = columns
         /\ BuffersHadASize'
<1>1. /\ bufRows \in [{Main, Alt} -> Nat] /\ bufColumns \in [{Main, Alt} -> Nat]
      /\ bufRows' = [bufRows EXCEPT ![b] = rows]
      /\ bufColumns' = [bufColumns EXCEPT ![b] = columns]
  BY Zenon DEF SizeTypeOK, BufferResizes
<1>2. /\ bufRows' \in [{Main, Alt} -> Nat] /\ bufColumns' \in [{Main, Alt} -> Nat]
      /\ bufRows'[b] = rows /\ bufColumns'[b] = columns
      /\ \A other \in {Main, Alt} \ {b} : bufRows'[other] = bufRows[other]
                                        /\ bufColumns'[other] = bufColumns[other]
  BY <1>1
<1>3. BuffersHadASize'
  BY <1>2, Zenon DEF BuffersHadASize
<1> QED
  BY <1>2, <1>3, Zenon

\* The cursor stays an integer.  If it was on a row of the buffer and not beyond
\* the right edge, or the text is laid out anew, it is there again; it is never to
\* the left of column 0, wherever it was.
LEMMA BufferResizesCursor ==
  ASSUME SizeTypeOK, NEW b \in {Main, Alt}, NEW row \in Int, NEW col \in Int,
         NEW rows \in Nat \ {0}, NEW columns \in Nat \ {0},
         BufferResizes(b, row, col, rows, columns)
  PROVE  /\ mCursorRow' \in Int /\ mCursorCol' \in Int
         /\ (columns = bufColumns[b] /\ rows <= (IF b = Main THEN TotalRows ELSE bufRows[b])
               => row \in 0..bufRows[b] - 1 /\ col < bufColumns[b]) =>
              mCursorRow' \in 0..rows - 1 /\ mCursorCol' < columns
         /\ mCursorCol' >= 0
<1>1. bufRows[b] \in Nat /\ bufColumns[b] \in Nat
  BY DEF SizeTypeOK
<1> DEFINE height == bufRows[b]
           lost   == height - rows
           below  == height - 1 - row
<1>2. CASE columns = bufColumns[b] /\ rows <= (IF b = Main THEN TotalRows ELSE bufRows[b])
  <2>1. \E shift \in IF lost > 0 THEN (lost - Lesser(lost, below))..lost ELSE lost..0 :
          IF row < shift \/ col < 0
          THEN mCursorRow' = 0 /\ mCursorCol' = 0
          ELSE mCursorRow' = row - shift /\ mCursorCol' = col
    BY <1>2, Zenon DEF BufferResizes
  <2> HIDE DEF height
  <2>2. height \in Nat
    BY <1>1 DEF height
  <2>3. /\ mCursorRow' \in Int
        /\ row \in 0..height - 1 => mCursorRow' \in 0..rows - 1
    BY <2>1, <2>2 DEF Lesser
  <2>4. mCursorCol' \in {0, col} /\ mCursorCol' >= 0
    BY <2>1
  <2> QED
    BY <1>1, <1>2, <2>3, <2>4 DEF height
<1>3. CASE ~(columns = bufColumns[b] /\ rows <= (IF b = Main THEN TotalRows ELSE bufRows[b]))
  <2>1. mCursorRow' \in 0..rows - 1 /\ mCursorCol' \in 0..columns - 1
    BY <1>3, Zenon DEF BufferResizes
  <2> QED
    BY <2>1
<1> QED
  BY <1>2, <1>3, Zenon

LEMMA ResizesFrame ==
  ASSUME FrameInvariant, Resizes
  PROVE  FrameInvariant'
<1>1. TypeOK /\ SizeTypeOK /\ BuffersHadASize /\ mScreen \in {Main, Alt}
  BY Zenon DEF FrameInvariant, TypeOK, SizeTypeOK
<1>2. PICK s \in Sizes : Resize(s[1], s[2])
  BY Zenon DEF Resizes
<1> DEFINE rows == s[1]
           columns == s[2]
<1>3. /\ s \in Nat \X Nat /\ s = <<rows, columns>>
      /\ rows \in Nat \ {0} /\ rows >= 2 /\ columns \in Nat \ {0} /\ columns >= 2
  BY SizesAssumption
<1>4. /\ mRows' = rows /\ mColumns' = columns
      /\ BufferResizes(mScreen, mCursorRow, mCursorCol, rows, columns)
      /\ UNCHANGED <<mScreen, mAboutToAutoWrap, modes, memory, fault>>
      /\ \/ mTopMargin' = 0 /\ mBottomMargin' = rows
         \/ rows = mRows /\ UNCHANGED <<mTopMargin, mBottomMargin>>
      /\ \/ mLeftMargin' = 0 /\ mRightMargin' = columns
         \/ columns = mColumns /\ UNCHANGED <<mLeftMargin, mRightMargin>>
  BY <1>2, Zenon DEF Resize
<1>5. mTabStop' \subseteq Int
  <2>1. /\ mTabStop \subseteq Int
        /\ \/ UNCHANGED mTabStop
           \/ mTabStop' = {i \in mTabStop : i < columns}
                          \cup {i \in DefaultTabStops(columns) : i >= mColumns}
    BY <1>1, <1>2, Zenon DEF Resize, TypeOK, MemoryTypeOK
  <2>2. DefaultTabStops(columns) \subseteq Int
    BY <1>3 DEF DefaultTabStops
  <2> HIDE DEF columns
  <2> QED
    BY <2>1, <2>2
<1> HIDE DEF rows, columns
<1>6. <<rows, columns>> \in Sizes
  BY <1>3, Zenon
<1>7. /\ bufRows' \in [{Main, Alt} -> Nat] /\ bufColumns' \in [{Main, Alt} -> Nat]
      /\ bufRows'[mScreen] = rows /\ bufColumns'[mScreen] = columns
      /\ BuffersHadASize'
  BY <1>1, <1>3, <1>4, <1>6, BufferResizesSizes
<1>8. SizeTypeOK' /\ BufferFits' /\ <<mRows, mColumns>>' \in Sizes
  BY <1>1, <1>3, <1>4, <1>6, <1>7, Zenon DEF SizeTypeOK, BufferFits, Fits
<1>9. MarginTypeOK' /\ MarginsOnScreen'
  BY <1>1, <1>3, <1>4, Numbers DEF FrameInvariant, MarginTypeOK, MarginsOnScreen
<1>10. CursorTypeOK'
  <2>1. mCursorRow \in Int /\ mCursorCol \in Int /\ mAboutToAutoWrap \in BOOLEAN
    BY <1>1, Zenon DEF TypeOK, CursorTypeOK
  <2>2. mCursorRow' \in Int /\ mCursorCol' \in Int
    BY <1>1, <1>3, <1>4, <2>1, BufferResizesCursor
  <2> QED
    BY <1>4, <2>1, <2>2, Zenon DEF CursorTypeOK
<1>11. ModeTypeOK' /\ MemoryTypeOK'
  BY <1>1, <1>4, <1>5, Zenon DEF TypeOK, ModeTypeOK, MemoryTypeOK
<1> QED
  BY <1>7, <1>8, <1>9, <1>10, <1>11, Zenon DEF FrameInvariant, TypeOK

\* Leaving one buffer for the other brings that one to size.
LEMMA BuffersSizes ==
  ASSUME FrameInvariant, Buffers
  PROVE  /\ SizeTypeOK' /\ BuffersHadASize' /\ BufferFits'
         /\ UNCHANGED <<mRows, mColumns, margins>>
<1>1. /\ SizeTypeOK /\ BuffersHadASize /\ mRows \in Nat /\ mColumns \in Nat
      /\ <<mRows, mColumns>> \in Sizes
  BY Zenon DEF FrameInvariant, TypeOK, SizeTypeOK
<1>2. PICK b \in {Main, Alt} :
        /\ mScreen' = b /\ UNCHANGED <<mRows, mColumns, margins>>
        /\ \/ Fits(b) /\ UNCHANGED <<bufRows, bufColumns>>
           \/ \E row, col : BufferResizes(b, row, col, mRows, mColumns)
  BY ZenonT(40) DEF Buffers, EnterAlt, LeaveAlt
<1>3. /\ bufRows' \in [{Main, Alt} -> Nat] /\ bufColumns' \in [{Main, Alt} -> Nat]
      /\ bufRows'[b] = mRows /\ bufColumns'[b] = mColumns
      /\ BuffersHadASize'
  <2>1. CASE Fits(b) /\ UNCHANGED <<bufRows, bufColumns>>
    BY <1>1, <2>1, Zenon DEF Fits, SizeTypeOK, BuffersHadASize
  <2>2. ASSUME NEW row, NEW col, BufferResizes(b, row, col, mRows, mColumns)
        PROVE  <1>3
    BY <1>1, <2>2, BufferResizesSizes
  <2> QED
    BY <1>2, <2>1, <2>2
<1> QED
  BY <1>1, <1>2, <1>3, Zenon DEF SizeTypeOK, BufferFits, Fits

LEMMA BuffersFrame ==
  ASSUME FrameInvariant, Buffers
  PROVE  FrameInvariant'
<1>1. TypeOK /\ SizeTypeOK /\ mRows \in Nat /\ mColumns \in Nat
  BY Zenon DEF FrameInvariant, TypeOK, SizeTypeOK
<1>2. mRows \in Nat \ {0} /\ mColumns \in Nat \ {0}
  BY SizeFacts
<1>3. /\ SizeTypeOK' /\ BuffersHadASize' /\ BufferFits'
      /\ <<mRows, mColumns>>' \in Sizes /\ MarginTypeOK' /\ MarginsOnScreen'
  BY BuffersSizes, Zenon DEF FrameInvariant, TypeOK, MarginTypeOK, MarginsOnScreen
<1>4. CASE EnterAlt
  <2>1. /\ UNCHANGED <<mAboutToAutoWrap, modes, mTabStop>>
        /\ saved' = [saved EXCEPT ![Main] = SavedNow]
        /\ leftMain' = <<mCursorRow, mCursorCol>>
        /\ fault' \in Faults
        /\ \/ UNCHANGED <<mCursorRow, mCursorCol>>
           \/ BufferResizes(Alt, mCursorRow, mCursorCol, mRows, mColumns)
    BY <1>4, ZenonT(40) DEF EnterAlt, Faults
  <2>2. saved' \in [{Main, Alt} -> Positions] /\ leftMain' \in Int \X Int
    BY <1>1, <2>1, SavedNowType, Numbers DEF TypeOK, MemoryTypeOK
  <2>3. mCursorRow' \in Int /\ mCursorCol' \in Int
    BY <1>1, <1>2, <2>1, BufferResizesCursor, Numbers
  <2>4. CursorTypeOK' /\ ModeTypeOK' /\ MemoryTypeOK'
    BY <1>1, <2>1, <2>2, <2>3, Zenon DEF TypeOK, CursorTypeOK, ModeTypeOK, MemoryTypeOK
  <2> QED
    BY <1>3, <2>4, Zenon DEF FrameInvariant, TypeOK
<1>5. CASE LeaveAlt
  <2>1. /\ mCurrentDecSetFlags' = RestoredFlags(Main) /\ leftMain' = NoCursor
        /\ UNCHANGED <<mSavedDecSetFlags, mInsertMode, mTabStop, saved, fault>>
        /\ \/ SetCursorRowCol(saved[Main].row, saved[Main].col)
           \/ /\ BufferResizes(Main, saved[Main].row, saved[Main].col, mRows, mColumns)
              /\ mAboutToAutoWrap' = FALSE
    BY <1>5, ZenonT(40) DEF LeaveAlt, CallsNothing
  <2>2. saved[Main].row \in Int /\ saved[Main].col \in Int
    BY <1>1 DEF TypeOK, MemoryTypeOK, Positions
  <2>3. CursorTypeOK'
    <3>1. CASE SetCursorRowCol(saved[Main].row, saved[Main].col)
      BY <1>1, <2>2, <3>1, SetCursorRowColType
    <3>2. CASE BufferResizes(Main, saved[Main].row, saved[Main].col, mRows, mColumns)
               /\ mAboutToAutoWrap' = FALSE
      BY <1>1, <1>2, <2>2, <3>2, BufferResizesCursor DEF CursorTypeOK
    <3> QED
      BY <2>1, <3>1, <3>2
  <2>4. NoCursor \in Int \X Int /\ RestoredFlags(Main) \subseteq Flags
    BY <1>1, RestoredFlagsType DEF NoCursor
  <2>5. ModeTypeOK' /\ MemoryTypeOK'
    BY <1>1, <2>1, <2>4, Zenon DEF TypeOK, ModeTypeOK, MemoryTypeOK
  <2> QED
    BY <1>3, <2>3, <2>5, Zenon DEF FrameInvariant, TypeOK
<1> QED
  BY <1>4, <1>5, Zenon DEF Buffers

-----------------------------------------------------------------------------
LEMMA InitFrame == Init => FrameInvariant
<1> SUFFICES ASSUME Init PROVE FrameInvariant
  OBVIOUS
<1>1. PICK s \in Sizes : mRows = s[1] /\ mColumns = s[2]
  BY Zenon DEF Init
<1>2. s \in Nat \X Nat /\ s = <<mRows, mColumns>> /\ mRows >= 2 /\ mColumns >= 2
      /\ mRows \in Nat /\ mColumns \in Nat
  BY <1>1, SizesAssumption
<1>3. SizeTypeOK /\ <<mRows, mColumns>> \in Sizes /\ BuffersHadASize /\ BufferFits
  BY <1>2 DEF Init, SizeTypeOK, BuffersHadASize, BufferFits, Fits
<1>4. MarginTypeOK /\ MarginsOnScreen
  BY <1>2 DEF Init, MarginTypeOK, MarginsOnScreen
<1>5. CursorTypeOK /\ ModeTypeOK
  <2>1. mCursorRow = 0 /\ mCursorCol = 0 /\ mAboutToAutoWrap = FALSE /\ mInsertMode = FALSE
        /\ mCurrentDecSetFlags = {AutoWrap} /\ mSavedDecSetFlags = {AutoWrap}
    BY Zenon DEF Init
  <2>2. mAboutToAutoWrap \in BOOLEAN /\ mInsertMode \in BOOLEAN
    BY <2>1, Zenon
  <2>3. mCursorRow \in Int /\ mCursorCol \in Int
    BY <2>1
  <2>4. {AutoWrap} \subseteq Flags
    BY DEF Flags
  <2> QED
    BY <2>1, <2>2, <2>3, <2>4, Zenon DEF CursorTypeOK, ModeTypeOK
<1>6. MemoryTypeOK
  BY DEF Init, MemoryTypeOK, DefaultTabStops, Home, Positions, NoCursor, Faults
<1> QED
  BY <1>3, <1>4, <1>5, <1>6, Zenon DEF FrameInvariant, TypeOK

LEMMA StepFrame == FrameInvariant /\ [Next]_vars => FrameInvariant'
<1> SUFFICES ASSUME FrameInvariant, [Next]_vars PROVE FrameInvariant'
  OBVIOUS
<1>1. CASE UNCHANGED vars
  <2>1. /\ UNCHANGED <<mRows, mColumns, bufRows, bufColumns, mScreen>>
        /\ UNCHANGED <<mCursorRow, mCursorCol, mAboutToAutoWrap>>
        /\ UNCHANGED <<mTopMargin, mBottomMargin, mLeftMargin, mRightMargin>>
        /\ UNCHANGED <<mCurrentDecSetFlags, mSavedDecSetFlags, mInsertMode, mTabStop>>
        /\ UNCHANGED <<saved, leftMain, fault>>
    BY <1>1, Zenon DEF vars
  <2>2. CursorTypeOK' /\ ModeTypeOK' /\ MemoryTypeOK'
    BY <2>1, Zenon DEF FrameInvariant, TypeOK, CursorTypeOK, ModeTypeOK, MemoryTypeOK
  <2> QED
    BY <2>1, <2>2, SameMargins
<1>2. CASE Character
  BY <1>2, EmitFrame, Zenon DEF Character
<1>3. CASE Next /\ ~Character
  BY <1>3, ControlFrame, IndexFrame, MovesFrame, TabStopsFrame, EditsFrame, MarginsFrame,
     SavingFrame, ModeFrame, ResetsFrame, BuffersFrame, ResizesFrame, Zenon DEF Next
<1> QED
  BY <1>1, <1>2, <1>3, Zenon

THEOREM FrameIsInvariant == Spec => []FrameInvariant
BY InitFrame, StepFrame, PTL DEF Spec

\* Every variable keeps its type, whatever the program in the terminal writes.
THEOREM TypeIsInvariant == Spec => []TypeOK
<1>1. FrameInvariant => TypeOK
  BY Zenon DEF FrameInvariant
<1> QED
  BY <1>1, FrameIsInvariant, PTL

\* DECSTBM, DECSLRM, DECCOLM, resets and resizes on either buffer leave margins
\* that enclose two rows or more and one column or more of the screen.
THEOREM MarginsStayOnScreen == Spec => []MarginsOnScreen
<1>1. FrameInvariant => MarginsOnScreen
  BY Zenon DEF FrameInvariant
<1> QED
  BY <1>1, FrameIsInvariant, PTL

\* The buffer in use has the emulator's size, though a resize reaches only one
\* of the two: doDecSetOrReset() makes up for what the other one has missed.
THEOREM BufferInUseFits == Spec => []BufferFits
<1>1. FrameInvariant => BufferFits
  BY Zenon DEF FrameInvariant
<1> QED
  BY <1>1, FrameIsInvariant, PTL

-----------------------------------------------------------------------------
(* The cursor, with left and right margins: it is on a row of the screen   *)
(* and not beyond the right edge, and what it does to the left of column 0 *)
(* began there.                                                            *)

\* A step from column 0 or beyond reaches no cell outside the screen, and does
\* not go to the left of column 0.
CallsFromTheLeft == fault' = "outside the screen" => mCursorCol < 0
MovesFromTheLeft == mCursorCol' < 0 => mCursorCol < 0

\* The screen as the invariant has it.
LEMMA ScreenFacts ==
  ASSUME FrameInvariant, LeftOpenInvariant
  PROVE  /\ mRows \in Nat /\ mRows >= 2 /\ mRows < MaxInt
         /\ mColumns \in Nat /\ mColumns >= 2 /\ mColumns < MaxInt
         /\ mCursorRow \in 0..mRows - 1 /\ mCursorCol \in Int /\ mCursorCol < mColumns
         /\ mTopMargin \in Nat /\ mBottomMargin \in Nat
         /\ mTopMargin + 2 <= mBottomMargin /\ mBottomMargin <= mRows
         /\ mLeftMargin \in Nat /\ mRightMargin \in Nat
         /\ mLeftMargin < mRightMargin /\ mRightMargin <= mColumns
         /\ mTabStop \subseteq Int /\ \A i \in mTabStop : i < mColumns
<1>1. TypeOK /\ MarginsOnScreen /\ OnlyLeftIsOpen
  BY Zenon DEF FrameInvariant, LeftOpenInvariant
<1>2. mTabStop \subseteq Int /\ \A i \in mTabStop : i < mColumns
  BY <1>1, Zenon DEF TypeOK, MemoryTypeOK, LeftOpenInvariant
<1> QED
  BY <1>1, <1>2, SizeFacts, Numbers DEF MarginsOnScreen, OnlyLeftIsOpen

LEMMA InsideTheScreen ==
  ASSUME FrameInvariant, NEW sx, NEW sy, NEW w, NEW h
  PROVE  Inside(sx, sy, w, h) <=> sx >= 0 /\ sx + w <= mColumns /\ sy >= 0 /\ sy + h <= mRows
BY Zenon DEF FrameInvariant, BufferFits, Fits, Inside

LEMMA BlocksInside ==
  ASSUME FrameInvariant, NEW sx, NEW sy, NEW w, NEW h, NEW dx, NEW dy,
         sx >= 0 /\ sx + w <= mColumns /\ sy >= 0 /\ sy + h <= mRows,
         dx >= 0 /\ dx + w <= mColumns /\ dy >= 0 /\ dy + h <= mRows
  PROVE  BlockCopies(sx, sy, w, h, dx, dy)
BY InsideTheScreen, Zenon DEF BlockCopies

\* Scrolling the region never reaches outside, between whatever margins.
LEMMA ScrollsInside ==
  ASSUME FrameInvariant, LeftOpenInvariant
  PROVE  Scrolls
<1>1. bufRows[mScreen] = mRows
  BY Zenon DEF FrameInvariant, BufferFits, Fits
<1>2. /\ BlockCopies(mLeftMargin, mTopMargin + 1, mRightMargin - mLeftMargin,
                     mBottomMargin - mTopMargin - 1, mLeftMargin, mTopMargin)
      /\ Inside(mLeftMargin, mBottomMargin - 1, mRightMargin - mLeftMargin, 1)
  BY ScreenFacts, BlocksInside, InsideTheScreen
<1>3. mTopMargin <= mBottomMargin - 1 /\ mTopMargin >= 0 /\ mBottomMargin <= mRows
  BY ScreenFacts
<1> QED
  BY <1>1, <1>2, <1>3, Zenon DEF Scrolls

LEMMA CallsInside ==
  ASSUME NEW inside, inside, Calls(inside)
  PROVE  fault' # "outside the screen"
BY DEF Calls

\* Steps that call nothing while the app runs.
LEMMA NothingFails ==
  ASSUME Running, CallsNothing
  PROVE  fault' # "outside the screen"
<1>1. fault' = "none"
  BY Zenon DEF Running, CallsNothing
<1> QED
  BY <1>1

LEMMA WholeScreenInside ==
  ASSUME FrameInvariant, Calls(Inside(0, 0, mColumns, mRows))
  PROVE  fault' # "outside the screen"
<1>1. Inside(0, 0, mColumns, mRows)
  BY SizeFacts, InsideTheScreen
<1> QED
  BY <1>1, CallsInside, Zenon

LEMMA OnlyCursorKeepsOpen ==
  ASSUME LeftOpenInvariant, UNCHANGED <<size, mTabStop, memory>>,
         mCursorRow' \in 0..mRows - 1, mCursorCol' < mColumns
  PROVE  LeftOpenInvariant'
BY Zenon DEF LeftOpenInvariant, OnlyLeftIsOpen

LEMMA Sign ==
  ASSUME NEW i \in Int
  PROVE  (i < 0 <=> ~(i >= 0)) /\ (i >= 0 \/ i < 0)
OBVIOUS

LEMMA InRange ==
  ASSUME NEW i \in Int, NEW n \in Nat, i >= 0, i < n
  PROVE  i \in 0..n - 1
OBVIOUS

LEMMA NoFaultOnScreen ==
  ASSUME FrameInvariant, LeftOpenInvariant, mCursorCol >= 0 => fault' # "outside the screen"
  PROVE  CallsFromTheLeft
<1>1. mCursorCol \in Int
  BY ScreenFacts, Zenon
<1>2. mCursorCol < 0 \/ mCursorCol >= 0
  BY <1>1, Sign, Zenon
<1> QED
  BY <1>2, Zenon DEF CallsFromTheLeft

LEMMA NoMoveToTheLeft ==
  ASSUME FrameInvariant, LeftOpenInvariant, mCursorCol' \in Int,
         mCursorCol >= 0 => mCursorCol' >= 0
  PROVE  MovesFromTheLeft
<1>1. mCursorCol \in Int
  BY ScreenFacts
<1> QED
  BY <1>1 DEF MovesFromTheLeft

\* Steps that move the cursor on the screen and call nothing.
LEMMA LandsOnScreen ==
  ASSUME FrameInvariant, LeftOpenInvariant, Running, CallsNothing,
         UNCHANGED <<size, mTabStop, memory>>,
         mCursorRow' \in 0..mRows - 1, mCursorCol' \in 0..mColumns - 1
  PROVE  LeftOpenInvariant' /\ CallsFromTheLeft /\ MovesFromTheLeft
<1>1. mCursorCol' \in Int /\ mCursorCol' < mColumns /\ mCursorCol' >= 0
  BY ScreenFacts
<1>2. MovesFromTheLeft
  BY <1>1, NoMoveToTheLeft
<1>3. LeftOpenInvariant'
  BY <1>1, OnlyCursorKeepsOpen
<1> QED
  BY <1>2, <1>3, NothingFails, Zenon DEF CallsFromTheLeft

LEMMA EmitLeft ==
  ASSUME FrameInvariant, LeftOpenInvariant, NEW width \in 0..2, EmitCodePoint(width)
  PROVE  LeftOpenInvariant' /\ CallsFromTheLeft /\ MovesFromTheLeft
<1> DEFINE last  == mCursorCol = mRightMargin - 1
           auto  == AutoWrap \in mCurrentDecSetFlags
           wraps == auto /\ last /\ ((mAboutToAutoWrap /\ width = 1) \/ width = 2)
           down  == mCursorRow + 1 < mBottomMargin
           row   == IF wraps /\ down THEN mCursorRow + 1 ELSE mCursorRow
           col   == IF wraps THEN mLeftMargin ELSE mCursorCol
           cell  == IF width = 0 /\ col > 0 /\ ~mAboutToAutoWrap THEN col - 1 ELSE col
           at    == Greater(0, cell)
<1>1. row \in 0..mRows - 1 /\ col \in Int /\ col < mColumns /\ (mCursorCol >= 0 => col >= 0)
  BY ScreenFacts
<1>2. mCursorCol >= 0 => at \in 0..mColumns - 1
  <2> HIDE DEF col
  <2> QED
    BY <1>1, ScreenFacts DEF Greater
<1> HIDE DEF row, col, at
<1>3. mCursorCol >= 0 => Inside(at, row, 1, 1)
  BY <1>1, <1>2, ScreenFacts, InsideTheScreen
<1>4. mCursorCol >= 0 /\ col + width < mRightMargin =>
        BlockCopies(col, row, mRightMargin - (col + width), 1, col + width, row)
  <2> SUFFICES ASSUME mCursorCol >= 0, col + width < mRightMargin
               PROVE  BlockCopies(col, row, mRightMargin - (col + width), 1, col + width, row)
    OBVIOUS
  <2>1. /\ Inside(col, row, mRightMargin - (col + width), 1)
        /\ Inside(col + width, row, mRightMargin - (col + width), 1)
    BY <1>1, ScreenFacts, InsideTheScreen
  <2> QED
    BY <2>1, Zenon DEF BlockCopies
<1>5. CASE ~auto /\ last /\ width = 2
  <2>1. UNCHANGED <<cursor, fault>> /\ Running /\ OnlyCursor
    BY <1>5, Zenon DEF EmitCodePoint
  <2>2. LeftOpenInvariant'
    BY <2>1, ScreenFacts, OnlyCursorKeepsOpen DEF OnlyCursor
  <2>3. CallsFromTheLeft
    BY <2>1, NothingFails DEF CallsFromTheLeft, CallsNothing
  <2> QED
    BY <2>1, <2>2, <2>3 DEF MovesFromTheLeft
<1>6. CASE ~(~auto /\ last /\ width = 2)
  <2>1. /\ OnlyCursor
        /\ mCursorRow' = row /\ mCursorCol' = Lesser(col + width, mRightMargin - 1)
    BY <1>6, Zenon DEF EmitCodePoint, row, col
  <2>2. mCursorCol >= 0 => fault' \in {"wide character in last column", "none"}
    BY <1>3, <1>4, <1>6, ScrollsInside, Zenon DEF EmitCodePoint, row, col, at
  <2>3. CallsFromTheLeft
    <3>1. mCursorCol >= 0 => fault' # "outside the screen"
      BY <2>2
    <3> QED
      BY <3>1, NoFaultOnScreen
  <2>4. mCursorCol' < mColumns /\ (mCursorCol >= 0 => mCursorCol' >= 0) /\ mCursorCol' \in Int
    BY <1>1, <2>1, ScreenFacts DEF Lesser
  <2>5. MovesFromTheLeft
    BY <2>4, ScreenFacts DEF MovesFromTheLeft
  <2>6. LeftOpenInvariant'
    BY <1>1, <2>1, <2>4, OnlyCursorKeepsOpen DEF OnlyCursor
  <2> QED
    BY <2>3, <2>5, <2>6
<1> QED
  BY <1>5, <1>6

\* Backspace is the control character that may take the cursor to the left.
LEMMA ControlLeft ==
  ASSUME FrameInvariant, LeftOpenInvariant, Control
  PROVE  LeftOpenInvariant' /\ CallsFromTheLeft /\ (MovesFromTheLeft \/ Backspace)
<1>1. CASE Backspace
  <2>1. /\ Running /\ CallsNothing /\ OnlyCursor
        /\ \/ mCursorRow - 1 >= 0 /\ SetCursorRowCol(mCursorRow - 1, mRightMargin - 1)
           \/ UNCHANGED cursor
           \/ SetCursorCol(mCursorCol - 1)
    BY <1>1, Zenon DEF Backspace
  <2>2. mCursorRow' \in 0..mRows - 1 /\ mCursorCol' < mColumns
    BY <2>1, ScreenFacts DEF SetCursorRowCol, SetCursorCol, Lesser, Greater
  <2>3. LeftOpenInvariant'
    BY <2>1, <2>2, OnlyCursorKeepsOpen DEF OnlyCursor
  <2> QED
    BY <1>1, <2>1, <2>3, NothingFails DEF CallsFromTheLeft
<1>2. CASE CarriageReturn
  <2>1. Running /\ CallsNothing /\ OnlyCursor /\ SetCursorCol(mLeftMargin)
    BY <1>2, Zenon DEF CarriageReturn
  <2>2. mCursorRow' \in 0..mRows - 1 /\ mCursorCol' \in 0..mColumns - 1
    BY <2>1, ScreenFacts DEF SetCursorCol
  <2> QED
    BY <2>1, <2>2, LandsOnScreen DEF OnlyCursor
<1>3. CASE Tab
  <2>1. /\ Running /\ CallsNothing /\ OnlyCursor
        /\ mCursorCol' = NextTabStop(1) /\ mCursorRow' = mCursorRow
    BY <1>3, Zenon DEF Tab
  <2>2. TypeOK
    BY Zenon DEF FrameInvariant
  <2>3. mCursorRow' \in 0..mRows - 1 /\ mCursorCol' \in Int /\ mCursorCol' < mColumns
        /\ (mCursorCol >= 0 => mCursorCol' >= 0)
    BY <2>1, <2>2, ScreenFacts, NextTabStopType
  <2>4. LeftOpenInvariant'
    BY <2>1, <2>3, OnlyCursorKeepsOpen DEF OnlyCursor
  <2>5. MovesFromTheLeft
    BY <2>3, NoMoveToTheLeft
  <2> QED
    BY <2>1, <2>4, <2>5, NothingFails, Zenon DEF CallsFromTheLeft
<1>4. CASE LineFeed \/ NextLine
  <2>1. Running /\ \E col \in {mCursorCol, mLeftMargin, 0}, moved \in BOOLEAN :
          Linefeed(col, moved)
    BY <1>4, Zenon DEF LineFeed, NextLine
  <2>2. PICK col \in {mCursorCol, mLeftMargin, 0}, moved \in BOOLEAN : Linefeed(col, moved)
    BY <2>1
  <2>3. /\ OnlyCursor /\ mCursorCol' = col
        /\ mCursorRow' \in {Lesser(mCursorRow + 1, mRows - 1),
                            Lesser(mCursorRow + 1, mBottomMargin - 1)}
        /\ CallsNothing \/ Calls(mCursorRow + 1 = mBottomMargin => Scrolls)
    BY <2>2, Zenon DEF Linefeed
  <2>4. mCursorRow' \in 0..mRows - 1 /\ mCursorCol' < mColumns
    BY <2>3, ScreenFacts DEF Lesser
  <2>5. MovesFromTheLeft
    BY <2>3, ScreenFacts DEF MovesFromTheLeft
  <2>6. fault' # "outside the screen"
    BY <2>1, <2>3, NothingFails, ScrollsInside, CallsInside
  <2>7. LeftOpenInvariant'
    BY <2>3, <2>4, OnlyCursorKeepsOpen DEF OnlyCursor
  <2> QED
    BY <2>5, <2>6, <2>7 DEF CallsFromTheLeft
<1> QED
  BY <1>1, <1>2, <1>3, <1>4, Zenon DEF Control

LEMMA IndexLeft ==
  ASSUME FrameInvariant, LeftOpenInvariant, Index
  PROVE  LeftOpenInvariant' /\ CallsFromTheLeft /\ MovesFromTheLeft
<1>1. CASE LowerLeft
  <2>1. Running /\ CallsNothing /\ OnlyCursor /\ SetCursorRowCol(0, mBottomMargin - 1)
    BY <1>1, Zenon DEF LowerLeft
  <2>2. mCursorRow' \in 0..mRows - 1 /\ mCursorCol' \in 0..mColumns - 1
    BY <2>1, ScreenFacts, SetCursorRowColOnScreen
  <2> QED
    BY <2>1, <2>2, LandsOnScreen DEF OnlyCursor
<1>2. CASE ReverseIndex
  <2> DEFINE moved == /\ BlockCopies(0, mTopMargin, mColumns, mBottomMargin - (mTopMargin + 1),
                                    0, mTopMargin + 1)
                      /\ Inside(0, mTopMargin, mColumns, 1)
  <2>1. /\ Running /\ OnlyCursor /\ mCursorCol' = mCursorCol
        /\ \/ mCursorRow' = mCursorRow /\ Calls(moved)
           \/ ~(mCursorRow <= mTopMargin) /\ mCursorRow' = mCursorRow - 1 /\ CallsNothing
    BY <1>2, Zenon DEF ReverseIndex
  <2>2. moved
    BY ScreenFacts, BlocksInside, InsideTheScreen
  <2> HIDE DEF moved
  <2>3. fault' # "outside the screen"
    BY <2>1, <2>2, NothingFails, CallsInside, Zenon
  <2>4. \/ mCursorRow' = mCursorRow
        \/ mCursorRow' = mCursorRow - 1 /\ ~(mCursorRow <= mTopMargin)
    BY <2>1, Zenon
  <2>5. mCursorRow' \in 0..mRows - 1 /\ mCursorCol' < mColumns
    BY <2>1, <2>4, ScreenFacts
  <2>6. LeftOpenInvariant'
    BY <2>1, <2>5, OnlyCursorKeepsOpen DEF OnlyCursor
  <2> QED
    BY <2>1, <2>3, <2>6 DEF CallsFromTheLeft, MovesFromTheLeft
<1>3. CASE BackIndex \/ ForwardIndex
  <2> DEFINE back == /\ BlockCopies(mLeftMargin, mTopMargin, mRightMargin - mLeftMargin - 1,
                                   mBottomMargin - mTopMargin, mLeftMargin + 1, mTopMargin)
                     /\ Inside(mLeftMargin, mTopMargin, 1, mBottomMargin - mTopMargin)
             forward == /\ BlockCopies(mLeftMargin + 1, mTopMargin, mRightMargin - mLeftMargin - 1,
                                      mBottomMargin - mTopMargin, mLeftMargin, mTopMargin)
                        /\ Inside(mRightMargin - 1, mTopMargin, 1, mBottomMargin - mTopMargin)
  <2>1. /\ Running /\ OnlyCursor /\ mCursorRow' = mCursorRow
        /\ \/ mCursorCol > mLeftMargin /\ mCursorCol' = mCursorCol - 1
           \/ mCursorCol < mRightMargin - 1 /\ mCursorCol' = mCursorCol + 1
           \/ mCursorCol' = mCursorCol
        /\ CallsNothing \/ Calls(back) \/ Calls(forward)
    BY <1>3, Zenon DEF BackIndex, ForwardIndex
  <2>2. back /\ forward
    BY ScreenFacts, BlocksInside, InsideTheScreen
  <2> HIDE DEF back, forward
  <2>3. fault' # "outside the screen"
    BY <2>1, <2>2, NothingFails, CallsInside, Zenon
  <2>4. \/ mCursorCol > mLeftMargin /\ mCursorCol' = mCursorCol - 1
        \/ mCursorCol < mRightMargin - 1 /\ mCursorCol' = mCursorCol + 1
        \/ mCursorCol' = mCursorCol
    BY <2>1, Zenon
  <2>5. mCursorCol' < mColumns /\ MovesFromTheLeft
    BY <2>4, ScreenFacts DEF MovesFromTheLeft
  <2>6. LeftOpenInvariant'
    BY <2>1, <2>5, ScreenFacts, OnlyCursorKeepsOpen DEF OnlyCursor
  <2> QED
    BY <2>3, <2>5, <2>6 DEF CallsFromTheLeft
<1> QED
  BY <1>1, <1>2, <1>3, Zenon DEF Index

\* A position that any sequence asks for is brought onto the screen.
LEMMA SetCursorPositionOnScreen ==
  ASSUME FrameInvariant, NEW x \in Int, NEW y \in Int,
         MarginTypeOK', SetCursorPosition(x, y)
  PROVE  mCursorRow' \in 0..mRows - 1 /\ mCursorCol' \in 0..mColumns - 1
<1>1. SizeTypeOK
  BY Zenon DEF FrameInvariant, TypeOK
<1>2. PICK row \in Int, col \in Int : SetCursorRowCol(row, col)
  BY <1>1, SetCursorPositionIsRowCol
<1>3. mRows \in Nat \ {0} /\ mColumns \in Nat \ {0}
  BY SizeFacts
<1> QED
  BY <1>2, <1>3, SetCursorRowColOnScreen

\* No sum of a row or a column with an argument overflows.
LEMMA SumsAreExact ==
  ASSUME FrameInvariant, LeftOpenInvariant, SmallArguments, NEW n \in Args
  PROVE  /\ n \in Int /\ n >= 1
         /\ Plus(mCursorRow, n) = mCursorRow + n /\ Plus(mCursorCol, n) = mCursorCol + n
<1>1. n \in Int /\ n >= 1 /\ n + mRows <= MaxInt /\ n + mColumns <= MaxInt /\ MaxInt \in Int
  <2>1. <<mRows, mColumns>> \in Sizes
    BY Zenon DEF FrameInvariant
  <2> QED
    BY <2>1, BoundsAssumption, SizesAssumption DEF SmallArguments
<1>2. /\ mCursorRow \in Int /\ mCursorRow + n <= MaxInt
      /\ mCursorCol \in Int /\ mCursorCol + n <= MaxInt
  BY <1>1, ScreenFacts
<1> QED
  BY <1>1, <1>2, PlusIsExact

LEMMA MovesLeft ==
  ASSUME FrameInvariant, LeftOpenInvariant, SmallArguments, Moves
  PROVE  LeftOpenInvariant' /\ CallsFromTheLeft /\ MovesFromTheLeft
<1>1. TypeOK /\ MarginTypeOK
  BY Zenon DEF FrameInvariant, TypeOK
<1>2. Args \subseteq Int
  BY BoundsAssumption, SizesAssumption
<1> DEFINE Lands == /\ Running /\ CallsNothing /\ OnlyCursor
                    /\ mCursorRow' \in 0..mRows - 1 /\ mCursorCol' \in Int
                    /\ mCursorCol' < mColumns /\ MovesFromTheLeft
<1>3. ASSUME NEW n \in Args, MoveBy(n) PROVE Lands
  <2>1. Running /\ CallsNothing /\ OnlyCursor
    BY <1>3, Zenon DEF MoveBy
  <2>2. \/ /\ mCursorRow' \in {Greater(0, mCursorRow - n),
                               Lesser(mRows - 1, Plus(mCursorRow, n)), Lesser(n, mRows) - 1}
           /\ mCursorCol' = mCursorCol
        \/ /\ mCursorCol' \in {Lesser(mRightMargin - 1, Plus(mCursorCol, n)),
                               Greater(mLeftMargin, mCursorCol - n), Lesser(n, mColumns) - 1,
                               NextTabStop(n)}
           /\ mCursorRow' = mCursorRow
    BY <1>3, Zenon DEF MoveBy, SetCursorRow, SetCursorCol
  <2>3. /\ n \in Int /\ n >= 1
        /\ Plus(mCursorRow, n) = mCursorRow + n /\ Plus(mCursorCol, n) = mCursorCol + n
    BY SumsAreExact
  <2>4. /\ NextTabStop(n) \in Int /\ NextTabStop(n) < mColumns
        /\ mCursorCol >= 0 => NextTabStop(n) >= 0
    BY <1>1, ScreenFacts, NextTabStopType
  <2>5. mCursorRow' \in 0..mRows - 1
    BY <2>2, <2>3, ScreenFacts DEF Lesser, Greater
  <2>6. mCursorCol' \in Int /\ mCursorCol' < mColumns /\ MovesFromTheLeft
    BY <2>2, <2>3, <2>4, ScreenFacts DEF Lesser, Greater, MovesFromTheLeft
  <2> QED
    BY <2>1, <2>5, <2>6
<1>4. ASSUME NEW x \in Int, NEW y \in Int, SetCursorPosition(x, y),
             Running, CallsNothing, OnlyCursor
      PROVE  Lands
  <2>1. MarginTypeOK'
    BY <1>1, <1>4, Zenon DEF OnlyCursor, MarginTypeOK
  <2>2. mCursorRow' \in 0..mRows - 1 /\ mCursorCol' \in 0..mColumns - 1
    BY <1>4, <2>1, SetCursorPositionOnScreen
  <2> QED
    BY <1>4, <2>2, ScreenFacts DEF MovesFromTheLeft
<1>5. ASSUME NEW n \in Args, MoveRespectingOrigin(n) PROVE Lands
  <2>1. /\ mCursorRow \in Int /\ mCursorCol \in Int /\ n \in Int
        /\ Plus(mCursorRow, n) \in Int /\ mCursorRow - n \in Int /\ 0 \in Int
    <3>1. mCursorRow \in Int /\ mCursorCol \in Int /\ n \in Int
      BY <1>1, <1>2, Numbers
    <3> QED
      BY <3>1, PlusType
  <2> QED
    BY <1>4, <1>5, <2>1, Zenon DEF MoveRespectingOrigin
<1>6. ASSUME NEW n \in Args, HorizontalPosition(n) PROVE Lands
  <2>1. n - 1 \in Int /\ mCursorRow \in Int
    BY <1>1, <1>2, Numbers
  <2> QED
    BY <1>4, <1>6, <2>1, Zenon DEF HorizontalPosition
<1>7. ASSUME NEW n \in Args, NEW m \in Args, CursorPosition(n, m) PROVE Lands
  <2>1. n - 1 \in Int /\ m - 1 \in Int
    BY <1>2
  <2> QED
    BY <1>4, <1>7, <2>1, Zenon DEF CursorPosition
<1>8. ASSUME NEW n \in Args, BackTab(n) PROVE Lands
  <2> DEFINE before == {i \in mTabStop : i < mCursorCol}
             nth    == {i \in before : Cardinality({j \in before : j >= i}) = n}
             stop   == CHOOSE i \in nth : TRUE
  <2>1. /\ Running /\ CallsNothing /\ OnlyCursor /\ mCursorRow' = mCursorRow
        /\ mCursorCol' = IF nth = {} THEN mLeftMargin ELSE Greater(stop, mLeftMargin)
    BY <1>8, Zenon DEF BackTab
  <2>2. nth # {} => stop \in Int /\ stop < mColumns
    BY ScreenFacts
  <2> HIDE DEF nth, stop
  <2>3. mCursorCol' \in 0..mColumns - 1
    BY <2>1, <2>2, ScreenFacts DEF Greater
  <2> QED
    BY <2>1, <2>3, ScreenFacts DEF MovesFromTheLeft
<1>9. Lands
  BY <1>3, <1>5, <1>6, <1>7, <1>8, Zenon DEF Moves
<1>10. LeftOpenInvariant'
  BY <1>9, OnlyCursorKeepsOpen DEF OnlyCursor
<1> QED
  BY <1>9, <1>10, NothingFails DEF CallsFromTheLeft

\* Erasing and moving text at the cursor, also when it is below the region.
LEMMA EditAtCursorInside ==
  ASSUME FrameInvariant, LeftOpenInvariant, NEW n \in Args, EditAtCursor(n), mCursorCol >= 0
  PROVE  fault' # "outside the screen"
<1> DEFINE after == mColumns - mCursorCol
           k     == Lesser(n, after)
           lines == mBottomMargin - mCursorRow
           m     == Lesser(n, lines)
<1>1. n \in Int /\ n >= 1
  BY BoundsAssumption, SizesAssumption
<1>2. k \in 1..after /\ m \in Int /\ m <= lines /\ (m >= 0 \/ m = lines)
  BY <1>1, ScreenFacts DEF Lesser
<1> HIDE DEF k, m
<1> DEFINE insert == /\ BlockCopies(mCursorCol, mCursorRow, after - k, 1, mCursorCol + k, mCursorRow)
                     /\ Inside(mCursorCol, mCursorRow, k, 1)
           erase  == Inside(mCursorCol, mCursorRow, k, 1)
           delete == /\ BlockCopies(mCursorCol + k, mCursorRow, after - k, 1, mCursorCol, mCursorRow)
                     /\ Inside(mCursorCol + after - k, mCursorRow, k, 1)
           below  == /\ Inside(mCursorCol, mCursorRow, after, 1)
                     /\ Inside(0, mCursorRow + 1, mColumns, mRows - (mCursorRow + 1))
           above  == /\ Inside(0, 0, mColumns, mCursorRow)
                     /\ Inside(0, mCursorRow, mCursorCol + 1, 1)
           whole  == Inside(0, 0, mColumns, mRows)
           dl     == /\ BlockCopies(0, mCursorRow + m, mColumns, lines - m, 0, mCursorRow)
                     /\ Inside(0, mCursorRow + lines - m, mColumns, m)
<1>3. insert /\ erase /\ delete
  BY <1>2, ScreenFacts, BlocksInside, InsideTheScreen
<1>4. below /\ above /\ whole
  BY ScreenFacts, InsideTheScreen
<1>5. dl
  BY <1>2, ScreenFacts, BlocksInside, InsideTheScreen
<1>6. Calls(insert) \/ Calls(erase) \/ Calls(delete) \/ Calls(below) \/ Calls(above)
      \/ Calls(whole) \/ Calls(dl)
  BY Zenon DEF EditAtCursor, k, m
<1> HIDE DEF insert, erase, delete, below, above, whole, dl
<1> QED
  BY <1>3, <1>4, <1>5, <1>6, CallsInside, Zenon

\* DECIC and DECDC to the right of the right margin are given a negative width,
\* which ends inside the screen.
LEMMA EditScreenInside ==
  ASSUME FrameInvariant, LeftOpenInvariant, NEW n \in Args, EditScreen(n), mCursorCol >= 0
  PROVE  fault' # "outside the screen"
<1> DEFINE lines  == mBottomMargin - mCursorRow
           m      == Lesser(n, lines)
           region == mBottomMargin - mTopMargin
           r      == Lesser(n, region)
           after  == mRightMargin - mCursorCol
           k      == Lesser(n, after)
<1>1. n \in Int /\ n >= 1
  BY BoundsAssumption, SizesAssumption
<1>2. /\ k \in Int /\ k <= after /\ (k >= 1 \/ k = after) /\ r \in 1..region
      /\ m \in Int /\ m <= lines /\ (m >= 0 \/ m = lines)
  BY <1>1, ScreenFacts DEF Lesser
<1> HIDE DEF k, m, r
<1> DEFINE il    == /\ BlockCopies(0, mCursorRow, mColumns, lines - m, 0, mCursorRow + m)
                    /\ Inside(0, mCursorRow, mColumns, m)
           down  == /\ BlockCopies(0, mTopMargin, mColumns, region - r, 0, mTopMargin + r)
                    /\ Inside(0, mTopMargin, mColumns, r)
           right == /\ BlockCopies(mCursorCol, 0, after - k, mRows, mCursorCol + k, 0)
                    /\ Inside(mCursorCol, 0, k, mRows)
           left  == BlockCopies(mCursorCol + k, 0, after - k, mRows, mCursorCol, 0)
           whole == Inside(0, 0, mColumns, mRows)
<1>3. il
  BY <1>2, ScreenFacts, BlocksInside, InsideTheScreen
<1>4. down
  BY <1>2, ScreenFacts, BlocksInside, InsideTheScreen
<1>5. right /\ left /\ whole
  <2>1. Inside(mCursorCol, 0, k, mRows) /\ whole
    BY <1>2, ScreenFacts, InsideTheScreen
  <2>2. CASE k = after
    <3>1. after - k = 0
      BY <2>2, ScreenFacts
    <3> QED
      BY <2>1, <3>1, Zenon DEF BlockCopies
  <2>3. CASE k >= 1
    <3>1. /\ BlockCopies(mCursorCol, 0, after - k, mRows, mCursorCol + k, 0)
          /\ BlockCopies(mCursorCol + k, 0, after - k, mRows, mCursorCol, 0)
      BY <1>2, <2>3, ScreenFacts, BlocksInside
    <3> QED
      BY <2>1, <3>1
  <2> QED
    BY <1>2, <2>2, <2>3
<1>6. Calls(il) \/ Calls(Scrolls) \/ Calls(down) \/ Calls(right) \/ Calls(left) \/ Calls(whole)
  BY Zenon DEF EditScreen, k, m, r
<1> HIDE DEF il, down, right, left, whole
<1> QED
  BY <1>3, <1>4, <1>5, <1>6, ScrollsInside, CallsInside, Zenon

LEMMA EditsLeft ==
  ASSUME FrameInvariant, LeftOpenInvariant, Edits \/ Attributes
  PROVE  LeftOpenInvariant' /\ CallsFromTheLeft /\ MovesFromTheLeft
<1>1. ASSUME NEW a, NEW c, ChangeAttributes(a, a, c, c)
      PROVE  OnlyCursor /\ UNCHANGED <<mCursorRow, mCursorCol>> /\ fault' # "outside the screen"
  <2>1. OnlyCursor /\ UNCHANGED <<mCursorRow, mCursorCol>> /\ fault' \in {"attributes", "none"}
    BY <1>1, Zenon DEF ChangeAttributes, OnlyCalls
  <2> QED
    BY <2>1
<1>2. ASSUME NEW n \in Args, EditAtCursor(n) \/ EditScreen(n)
      PROVE  OnlyCursor /\ UNCHANGED <<mCursorRow, mCursorCol>>
  BY <1>2, Zenon DEF EditAtCursor, EditScreen, OnlyCalls
<1>3. OnlyCursor /\ UNCHANGED <<mCursorRow, mCursorCol>>
  BY <1>1, <1>2, Zenon DEF Edits, Attributes
<1>4. mCursorCol >= 0 => fault' # "outside the screen"
  BY <1>1, EditAtCursorInside, EditScreenInside, Zenon DEF Edits, Attributes
<1>5. LeftOpenInvariant'
  BY <1>3, ScreenFacts, OnlyCursorKeepsOpen DEF OnlyCursor
<1>6. CallsFromTheLeft
  BY <1>4, NoFaultOnScreen
<1> QED
  BY <1>3, <1>5, <1>6, Zenon DEF MovesFromTheLeft

\* A tab stop is set where the cursor is, and outside the screen that throws.
LEMMA TabStopsLeft ==
  ASSUME FrameInvariant, LeftOpenInvariant, TabStops
  PROVE  LeftOpenInvariant' /\ CallsFromTheLeft /\ MovesFromTheLeft
<1>1. /\ Running /\ UNCHANGED <<size, cursor, margins, modes, memory>>
      /\ mTabStop' \in {{}, mTabStop \cup {mCursorCol}, mTabStop \ {mCursorCol}}
      /\ CallsNothing \/ Calls(mCursorCol \in 0..mColumns - 1)
  BY Zenon DEF TabStops
<1>2. \A i \in mTabStop' : i < mColumns
  BY <1>1, ScreenFacts
<1>3. LeftOpenInvariant'
  BY <1>1, <1>2, Zenon DEF LeftOpenInvariant, OnlyLeftIsOpen
<1>4. mCursorCol >= 0 => mCursorCol \in 0..mColumns - 1
  BY ScreenFacts
<1>5. mCursorCol >= 0 => fault' # "outside the screen"
  BY <1>1, <1>4, NothingFails, CallsInside, Zenon
<1>6. CallsFromTheLeft
  BY <1>5, NoFaultOnScreen
<1> QED
  BY <1>1, <1>3, <1>6, Zenon DEF MovesFromTheLeft

LEMMA MarginsLeft ==
  ASSUME FrameInvariant, LeftOpenInvariant, Margins
  PROVE  LeftOpenInvariant' /\ CallsFromTheLeft /\ MovesFromTheLeft
<1>1. /\ Running /\ CallsNothing /\ SetCursorPosition(0, 0)
      /\ UNCHANGED <<size, mTabStop, memory>>
  BY Zenon DEF Margins, SetTopAndBottom, SetLeftAndRight
<1>2. MarginTypeOK'
  BY MarginsFrame, Zenon DEF FrameInvariant, TypeOK
<1>3. mCursorRow' \in 0..mRows - 1 /\ mCursorCol' \in 0..mColumns - 1
  BY <1>1, <1>2, SetCursorPositionOnScreen
<1> QED
  BY <1>1, <1>3, LandsOnScreen

LEMMA SavingLeft ==
  ASSUME FrameInvariant, LeftOpenInvariant, Saving
  PROVE  LeftOpenInvariant' /\ CallsFromTheLeft /\ MovesFromTheLeft
<1>1. mScreen \in {Main, Alt} /\ saved \in [{Main, Alt} -> Positions]
  BY Zenon DEF FrameInvariant, TypeOK, SizeTypeOK, MemoryTypeOK
<1>2. CASE SaveCursor
  <2>1. /\ Running /\ CallsNothing /\ saved' = [saved EXCEPT ![mScreen] = SavedNow]
        /\ UNCHANGED <<size, cursor, margins, modes, mTabStop, leftMain>>
    BY <1>2, Zenon DEF SaveCursor, CallsNothing
  <2>2. mScreen = Alt => saved'[Main] = saved[Main]
    BY <1>1, <2>1 DEF Main, Alt
  <2>3. LeftOpenInvariant'
    BY <2>1, <2>2, Zenon DEF LeftOpenInvariant, OnlyLeftIsOpen
  <2> QED
    BY <2>1, <2>3, NothingFails DEF CallsFromTheLeft, MovesFromTheLeft
<1>3. CASE RestoreCursor
  <2>1. /\ Running /\ CallsNothing /\ UNCHANGED <<size, margins, mTabStop, memory>>
        /\ SetCursorRowCol(saved[mScreen].row, saved[mScreen].col)
    BY <1>3, Zenon DEF RestoreCursor, CallsNothing
  <2>2. saved[mScreen].row \in Int /\ saved[mScreen].col \in Int
    BY <1>1 DEF Positions
  <2>3. mCursorRow' \in 0..mRows - 1 /\ mCursorCol' \in 0..mColumns - 1
    BY <2>1, <2>2, ScreenFacts, SetCursorRowColOnScreen
  <2> QED
    BY <2>1, <2>3, LandsOnScreen
<1> QED
  BY <1>2, <1>3, Zenon DEF Saving

LEMMA DecSetOrResetLeft ==
  ASSUME FrameInvariant, LeftOpenInvariant, NEW mode, NEW set, DecSetOrReset(mode, set)
  PROVE  LeftOpenInvariant' /\ CallsFromTheLeft /\ MovesFromTheLeft
<1>1. Running /\ UNCHANGED <<size, mTabStop, memory>>
  BY Zenon DEF DecSetOrReset
<1>2. CASE ColumnMode
  <2>1. Calls(Inside(0, 0, mColumns, mRows)) /\ SetCursorRowCol(0, 0)
    BY <1>2, Zenon DEF ColumnMode
  <2>2. fault' # "outside the screen"
    BY <2>1, WholeScreenInside
  <2>3. mCursorRow' \in 0..mRows - 1 /\ mCursorCol' \in 0..mColumns - 1
    BY <2>1, ScreenFacts, SetCursorRowColOnScreen
  <2>4. mCursorCol' < mColumns /\ mCursorCol' >= 0 /\ mCursorCol' \in Int
    BY <2>3, ScreenFacts
  <2>5. LeftOpenInvariant'
    BY <1>1, <2>3, <2>4, OnlyCursorKeepsOpen
  <2>6. MovesFromTheLeft
    BY <2>4, NoMoveToTheLeft
  <2> QED
    BY <2>2, <2>5, <2>6, Zenon DEF CallsFromTheLeft
<1>3. CASE SetFlag(mode, set)
  <2>1. CallsNothing /\ (SetCursorPosition(0, 0) \/ UNCHANGED cursor)
    BY <1>3, Zenon DEF SetFlag
  <2>2. MarginTypeOK'
    BY DecSetOrResetFrame, Zenon DEF FrameInvariant, TypeOK
  <2>3. CASE SetCursorPosition(0, 0)
    <3>1. mCursorRow' \in 0..mRows - 1 /\ mCursorCol' \in 0..mColumns - 1
      BY <2>2, <2>3, SetCursorPositionOnScreen
    <3> QED
      BY <1>1, <2>1, <3>1, LandsOnScreen
  <2>4. CASE UNCHANGED cursor
    <3>1. LeftOpenInvariant'
      BY <1>1, <2>4, ScreenFacts, OnlyCursorKeepsOpen
    <3> QED
      BY <1>1, <2>1, <2>4, <3>1, NothingFails DEF CallsFromTheLeft, MovesFromTheLeft
  <2> QED
    BY <2>1, <2>3, <2>4
<1> QED
  BY <1>2, <1>3, Zenon DEF DecSetOrReset

LEMMA ModeLeft ==
  ASSUME FrameInvariant, LeftOpenInvariant, Mode \/ InsertMode
  PROVE  LeftOpenInvariant' /\ CallsFromTheLeft /\ MovesFromTheLeft
<1>1. ASSUME NEW mode, SaveMode(mode) \/ InsertMode
      PROVE LeftOpenInvariant' /\ CallsFromTheLeft /\ MovesFromTheLeft
  <2>1. Running /\ CallsNothing /\ UNCHANGED <<size, cursor, margins, mTabStop, memory>>
    BY <1>1, Zenon DEF SaveMode, InsertMode, CallsNothing
  <2>2. LeftOpenInvariant'
    BY <2>1, Zenon DEF LeftOpenInvariant, OnlyLeftIsOpen
  <2> QED
    BY <2>1, <2>2, NothingFails DEF CallsFromTheLeft, MovesFromTheLeft
<1> QED
  BY <1>1, DecSetOrResetLeft, Zenon DEF Mode, RecallMode

LEMMA DefaultTabStopsAreOnScreen ==
  ASSUME NEW columns \in Nat
  PROVE  DefaultTabStops(columns) \subseteq 0..columns - 1
BY DEF DefaultTabStops

LEMMA ResetsLeft ==
  ASSUME FrameInvariant, LeftOpenInvariant, Resets
  PROVE  LeftOpenInvariant' /\ CallsFromTheLeft /\ MovesFromTheLeft
<1>1. Running /\ Reset /\ TypeOK /\ BuffersHadASize
  BY Zenon DEF Resets, SoftReset, ResetToInitialState, FrameInvariant
<1>2. /\ mTabStop' = DefaultTabStops(mColumns)
      /\ saved' = [b \in {Main, Alt} |-> Home] /\ UNCHANGED size
  BY <1>1, Zenon DEF Reset
<1>3. fault' # "outside the screen"
  <2>1. CASE SoftReset
    BY <1>1, <2>1, NothingFails DEF SoftReset
  <2>2. CASE ResetToInitialState
    BY <2>2, WholeScreenInside DEF ResetToInitialState
  <2> QED
    BY <2>1, <2>2, Zenon DEF Resets
<1>4. \/ UNCHANGED <<mCursorRow, mCursorCol>>
      \/ mCursorRow' \in 0..mRows - 1 /\ mCursorCol' \in 0..mColumns - 1
  <2>1. CASE SoftReset
    BY <2>1, Zenon DEF SoftReset
  <2>2. CASE ResetToInitialState
    BY <1>1, <2>2, ResetTypes, SetCursorPositionOnScreen DEF ResetToInitialState
  <2> QED
    BY <2>1, <2>2, Zenon DEF Resets
<1>5. OnlyLeftIsOpen' /\ MovesFromTheLeft
  BY <1>2, <1>4, ScreenFacts DEF OnlyLeftIsOpen, MovesFromTheLeft
<1>6. \A i \in mTabStop' : i < mColumns'
  BY <1>2, ScreenFacts, DefaultTabStopsAreOnScreen
<1>7. /\ saved'[Main].row \in 0..bufRows'[Main] - 1
      /\ saved'[Main].col < bufColumns'[Main]
  <2>1. bufRows[Main] \in Nat /\ bufRows[Main] >= 2
        /\ bufColumns[Main] \in Nat /\ bufColumns[Main] >= 2
    BY <1>1, SizesAssumption DEF BuffersHadASize
  <2>2. saved'[Main] = Home /\ UNCHANGED <<bufRows, bufColumns>>
    BY <1>2
  <2> QED
    BY <2>1, <2>2 DEF Home
<1>8. LeftOpenInvariant'
  BY <1>5, <1>6, <1>7, Zenon DEF LeftOpenInvariant
<1> QED
  BY <1>3, <1>5, <1>8 DEF CallsFromTheLeft

LEMMA ResizesLeft ==
  ASSUME FrameInvariant, LeftOpenInvariant, Resizes
  PROVE  LeftOpenInvariant' /\ CallsFromTheLeft /\ MovesFromTheLeft
<1>1. SizeTypeOK /\ mScreen \in {Main, Alt} /\ Fits(mScreen)
  BY Zenon DEF FrameInvariant, TypeOK, SizeTypeOK, BufferFits
<1>2. PICK s \in Sizes : Resize(s[1], s[2])
  BY Zenon DEF Resizes
<1> DEFINE rows == s[1]
           columns == s[2]
<1>3. rows \in Nat \ {0} /\ columns \in Nat \ {0}
  BY SizesAssumption
<1> HIDE DEF rows, columns
<1>4. /\ Running /\ CallsNothing /\ mRows' = rows /\ mColumns' = columns
      /\ BufferResizes(mScreen, mCursorRow, mCursorCol, rows, columns)
      /\ UNCHANGED <<mScreen, modes, memory>>
      /\ \/ mTabStop' = {i \in mTabStop : i < columns}
                        \cup {i \in DefaultTabStops(columns) : i >= mColumns}
         \/ columns = mColumns /\ UNCHANGED mTabStop
  BY <1>2, Zenon DEF Resize, CallsNothing, rows, columns
<1>5. OnlyLeftIsOpen' /\ MovesFromTheLeft
  <2>1. mCursorRow \in 0..bufRows[mScreen] - 1 /\ mCursorCol < bufColumns[mScreen]
    BY <1>1, Zenon DEF Fits, LeftOpenInvariant, OnlyLeftIsOpen
  <2>2. mCursorRow \in Int /\ mCursorCol \in Int
    BY ScreenFacts
  <2>3. mCursorRow' \in 0..rows - 1 /\ mCursorCol' < columns /\ ~(mCursorCol' < 0)
    BY <1>1, <1>3, <1>4, <2>1, <2>2, BufferResizesCursor
  <2> QED
    BY <1>4, <2>3, Zenon DEF OnlyLeftIsOpen, MovesFromTheLeft
<1>6. \A i \in mTabStop' : i < columns
  BY <1>3, <1>4, ScreenFacts, DefaultTabStopsAreOnScreen
<1>7. mScreen = Alt => bufRows'[Main] = bufRows[Main] /\ bufColumns'[Main] = bufColumns[Main]
  <2>1. /\ bufRows' = [bufRows EXCEPT ![mScreen] = rows]
        /\ bufColumns' = [bufColumns EXCEPT ![mScreen] = columns]
        /\ bufRows \in [{Main, Alt} -> Nat] /\ bufColumns \in [{Main, Alt} -> Nat]
    BY <1>1, <1>4, Zenon DEF BufferResizes, SizeTypeOK
  <2> QED
    BY <2>1 DEF Main, Alt
<1>8. LeftOpenInvariant'
  BY <1>4, <1>5, <1>6, <1>7, Zenon DEF LeftOpenInvariant
<1> QED
  BY <1>4, <1>5, <1>8, NothingFails DEF CallsFromTheLeft

\* The way to the alternate screen: the cursor is saved, and taken along.
LEMMA EnterAltLeft ==
  ASSUME FrameInvariant, LeftOpenInvariant, EnterAlt
  PROVE  LeftOpenInvariant' /\ CallsFromTheLeft /\ MovesFromTheLeft
<1>1. /\ SizeTypeOK /\ Fits(mScreen)
      /\ saved \in [{Main, Alt} -> Positions] /\ Main \in {Main, Alt} /\ Alt \in {Main, Alt}
  BY Zenon DEF FrameInvariant, TypeOK, SizeTypeOK, MemoryTypeOK, BufferFits
<1>2. mRows \in Nat \ {0} /\ mColumns \in Nat \ {0}
  BY SizeFacts
<1>3. UNCHANGED <<mRows, mColumns, margins>> /\ Fits(mScreen)'
  BY BuffersSizes, Zenon DEF BufferFits, Buffers
<1>4. /\ Running /\ mScreen = Main /\ mScreen' = Alt /\ UNCHANGED <<modes, mTabStop>>
      /\ saved' = [saved EXCEPT ![Main] = SavedNow]
      /\ fault' = IF bufColumns'[Alt] = mColumns /\ bufRows'[Alt] = mRows
                  THEN "none" ELSE "outside the screen"
      /\ \/ UNCHANGED <<bufRows, bufColumns, mCursorRow, mCursorCol>>
         \/ BufferResizes(Alt, mCursorRow, mCursorCol, mRows, mColumns)
  BY ZenonT(40) DEF EnterAlt
<1>5. CallsFromTheLeft
  <2>1. fault' = "none"
    BY <1>3, <1>4, Zenon DEF Fits
  <2> QED
    BY <2>1 DEF CallsFromTheLeft
<1>6. mCursorRow' \in 0..mRows - 1 /\ mCursorCol' < mColumns /\ MovesFromTheLeft
  <2>1. CASE UNCHANGED <<bufRows, bufColumns, mCursorRow, mCursorCol>>
    BY <2>1, ScreenFacts DEF MovesFromTheLeft
  <2>2. CASE BufferResizes(Alt, mCursorRow, mCursorCol, mRows, mColumns)
    <3>1. mCursorRow \in 0..mRows - 1 /\ mCursorCol < mColumns
          /\ mCursorRow \in Int /\ mCursorCol \in Int
      BY ScreenFacts
    <3>2. Alt # Main /\ bufRows[Alt] \in Nat /\ bufColumns[Alt] \in Nat
      BY <1>1 DEF Alt, Main, SizeTypeOK
    <3>3. mColumns = bufColumns[Alt] /\ mRows <= (IF Alt = Main THEN TotalRows ELSE bufRows[Alt])
            => mCursorRow \in 0..bufRows[Alt] - 1 /\ mCursorCol < bufColumns[Alt]
      BY <1>2, <3>1, <3>2
    <3> QED
      BY <1>1, <1>2, <2>2, <3>1, <3>3, BufferResizesCursor DEF MovesFromTheLeft
  <2> QED
    BY <1>4, <2>1, <2>2
<1>7. saved'[Main].row = mCursorRow /\ saved'[Main].col = mCursorCol
  BY <1>1, <1>4 DEF SavedNow
<1>8. bufRows'[Main] = mRows /\ bufColumns'[Main] = mColumns
  <2>1. bufRows[Main] = mRows /\ bufColumns[Main] = mColumns
    BY <1>1, <1>4, Zenon DEF Fits
  <2>2. \/ UNCHANGED <<bufRows, bufColumns>>
        \/ /\ bufRows' = [bufRows EXCEPT ![Alt] = mRows]
           /\ bufColumns' = [bufColumns EXCEPT ![Alt] = mColumns]
    BY <1>4, Zenon DEF BufferResizes
  <2>3. bufRows \in [{Main, Alt} -> Nat] /\ bufColumns \in [{Main, Alt} -> Nat]
    BY <1>1, Zenon DEF SizeTypeOK
  <2> QED
    BY <2>1, <2>2, <2>3 DEF Main, Alt
<1>9. LeftOpenInvariant'
  BY <1>3, <1>4, <1>6, <1>7, <1>8, Zenon DEF LeftOpenInvariant, OnlyLeftIsOpen
<1> QED
  BY <1>5, <1>6, <1>9

\* The way back: the cursor comes from the main buffer, which may have another
\* size.  It may have been to the left of it, and is not any more: restoreCursor()
\* clips it, and so does the resize.
LEMMA LeaveAltLeft ==
  ASSUME FrameInvariant, LeftOpenInvariant, LeaveAlt
  PROVE  LeftOpenInvariant' /\ CallsFromTheLeft /\ MovesFromTheLeft
<1>1. SizeTypeOK /\ saved \in [{Main, Alt} -> Positions] /\ Main \in {Main, Alt}
  BY Zenon DEF FrameInvariant, TypeOK, SizeTypeOK, MemoryTypeOK
<1>2. mRows \in Nat \ {0} /\ mColumns \in Nat \ {0}
  BY SizeFacts
<1>3. UNCHANGED <<mRows, mColumns>>
  BY BuffersSizes, Zenon DEF Buffers
<1>4. /\ Running /\ CallsNothing /\ mScreen = Alt /\ mScreen' = Main /\ UNCHANGED mTabStop
      /\ \/ SetCursorRowCol(saved[Main].row, saved[Main].col)
         \/ BufferResizes(Main, saved[Main].row, saved[Main].col, mRows, mColumns)
  BY ZenonT(40) DEF LeaveAlt
<1>5. saved[Main].row \in Int /\ saved[Main].col \in Int
  BY <1>1 DEF Positions
<1>6. saved[Main].row \in 0..bufRows[Main] - 1 /\ saved[Main].col < bufColumns[Main]
  BY <1>4, Zenon DEF LeftOpenInvariant
<1>7. /\ mCursorRow' \in 0..mRows - 1 /\ mCursorCol' < mColumns
      /\ ~(mCursorCol' < 0)
  <2>1. CASE SetCursorRowCol(saved[Main].row, saved[Main].col)
    <3>1. mCursorRow' \in 0..mRows - 1 /\ mCursorCol' \in 0..mColumns - 1
      BY <1>2, <1>5, <2>1, SetCursorRowColOnScreen
    <3> QED
      BY <1>2, <3>1
  <2>2. CASE BufferResizes(Main, saved[Main].row, saved[Main].col, mRows, mColumns)
    BY <1>1, <1>2, <1>5, <1>6, <2>2, BufferResizesCursor
  <2> QED
    BY <1>4, <2>1, <2>2
<1>8. mScreen' # Alt
  BY <1>4 DEF Main, Alt
<1>9. LeftOpenInvariant'
  BY <1>3, <1>4, <1>7, <1>8, Zenon DEF LeftOpenInvariant, OnlyLeftIsOpen
<1> QED
  BY <1>4, <1>7, <1>9, NothingFails DEF CallsFromTheLeft, MovesFromTheLeft

LEMMA InitLeft == Init => LeftOpenInvariant
<1> SUFFICES ASSUME Init PROVE LeftOpenInvariant
  OBVIOUS
<1>1. mRows \in Nat /\ mRows >= 2 /\ mColumns \in Nat /\ mColumns >= 2
  BY InitFrame, SizeFacts
<1>2. OnlyLeftIsOpen
  BY <1>1 DEF Init, OnlyLeftIsOpen
<1>3. \A i \in mTabStop : i < mColumns
  BY <1>1, DefaultTabStopsAreOnScreen DEF Init
<1>4. mScreen # Alt
  BY DEF Init, Main, Alt
<1> QED
  BY <1>2, <1>3, <1>4, Zenon DEF LeftOpenInvariant

LEMMA StepLeft ==
  ASSUME SmallArguments, FrameInvariant, LeftOpenInvariant, Next
  PROVE  LeftOpenInvariant' /\ CallsFromTheLeft /\ (MovesFromTheLeft \/ Backspace)
<1>1. CASE Character
  BY <1>1, EmitLeft, Zenon DEF Character
<1>2. CASE EnterAlt
  BY <1>2, EnterAltLeft, Zenon
<1>3. CASE LeaveAlt
  BY <1>3, LeaveAltLeft, Zenon
<1>4. CASE Next /\ ~Character /\ ~Buffers
  BY <1>4, ControlLeft, IndexLeft, MovesLeft, TabStopsLeft, EditsLeft, MarginsLeft,
     SavingLeft, ModeLeft, ResetsLeft, ResizesLeft, Zenon DEF Next
<1> QED
  BY <1>1, <1>2, <1>3, <1>4, Zenon DEF Buffers

\* With left and right margins, on either buffer and through resizes, the cursor
\* is above the bottom and to the left of the right edge, and so is the one that
\* waits on the main screen, if no argument is near the largest int.
THEOREM LeftOpenIsInvariant ==
  ASSUME SmallArguments
  PROVE  Spec => []LeftOpenInvariant
<1>1. FrameInvariant /\ LeftOpenInvariant /\ [Next]_vars => LeftOpenInvariant'
  <2> SUFFICES ASSUME FrameInvariant, LeftOpenInvariant, [Next]_vars PROVE LeftOpenInvariant'
    OBVIOUS
  <2>1. CASE UNCHANGED vars
    <3>1. UNCHANGED <<size, cursor, mTabStop, memory>>
      BY <2>1, Zenon DEF vars
    <3> QED
      BY <3>1, Zenon DEF LeftOpenInvariant, OnlyLeftIsOpen
  <2> QED
    BY <2>1, StepLeft, Zenon
<1> QED
  BY <1>1, FrameIsInvariant, InitLeft, PTL DEF Spec

\* No call on TerminalBuffer throws for being outside the screen unless the cursor
\* is to the left of column 0, and a step that takes it there is BS.
THEOREM FaultsComeFromTheLeft ==
  ASSUME SmallArguments
  PROVE  Spec => FaultsStartAtTheLeft
<1>1. FrameInvariant /\ LeftOpenInvariant /\ [Next]_vars
        => [/\ fault' = "outside the screen" => mCursorCol < 0
            /\ mCursorCol' < 0 /\ mCursorCol >= 0 => Backspace]_vars
  <2> SUFFICES ASSUME FrameInvariant, LeftOpenInvariant, Next
               PROVE  /\ fault' = "outside the screen" => mCursorCol < 0
                      /\ mCursorCol' < 0 /\ mCursorCol >= 0 => Backspace
    BY Zenon
  <2>1. ~(mCursorCol < 0 /\ mCursorCol >= 0)
    BY ScreenFacts
  <2> QED
    BY <2>1, StepLeft, Zenon DEF CallsFromTheLeft, MovesFromTheLeft
<1> QED
  BY <1>1, FrameIsInvariant, LeftOpenIsInvariant, PTL DEF Spec, FaultsStartAtTheLeft

-----------------------------------------------------------------------------
(* The cursor, while no program asks for left and right margins.           *)

\* What is then to be shown is that the margins at the sides stay the screen's,
\* and that the main screen keeps the cursor it was left with.
Sides == SidesAreMargins /\ MainCursorWaits

LEMMA CursorFacts ==
  ASSUME FrameInvariant, CursorInvariant
  PROVE  /\ LeftOpenInvariant /\ mCursorCol >= 0
         /\ mLeftMargin = 0 /\ mRightMargin = mColumns /\ mTabStop \subseteq 0..mColumns - 1
         /\ LeftRightMargin \notin mCurrentDecSetFlags
<1>1. CursorOnScreen /\ SidesAreMargins /\ MainCursorWaits
  BY Zenon DEF CursorInvariant
<1>2. OnlyLeftIsOpen /\ mCursorCol >= 0
  BY <1>1, SizeFacts DEF CursorOnScreen, OnlyLeftIsOpen
<1>3. \A i \in mTabStop : i < mColumns
  BY <1>1, SizeFacts DEF SidesAreMargins
<1>4. mScreen = Alt => saved[Main].row \in 0..bufRows[Main] - 1 /\ saved[Main].col < bufColumns[Main]
  <2>1. bufColumns[Main] \in Nat
    BY DEF FrameInvariant, TypeOK, SizeTypeOK
  <2> QED
    BY <1>1, <2>1 DEF MainCursorWaits
<1> QED
  BY <1>1, <1>2, <1>3, <1>4, Zenon DEF LeftOpenInvariant, SidesAreMargins

\* Most steps touch neither.
LEMMA SameSides ==
  ASSUME CursorInvariant, UNCHANGED <<size, mLeftMargin, mRightMargin, mTabStop, memory>>,
         LeftRightMargin \notin mCurrentDecSetFlags'
  PROVE  Sides'
BY Zenon DEF CursorInvariant, SidesAreMargins, MainCursorWaits, Sides

LEMMA CursorSides ==
  ASSUME FrameInvariant, CursorInvariant, Character \/ Control \/ Index \/ Moves \/ Edits \/ Attributes
  PROVE  Sides'
<1>1. OnlyCursor
  <2>1. CASE Character \/ Control \/ Index
    BY <2>1, Zenon DEF Character, EmitCodePoint, Control, Backspace, Tab, LineFeed, NextLine,
       Linefeed, CarriageReturn, Index, BackIndex, ForwardIndex, ReverseIndex, LowerLeft
  <2>2. CASE Moves
    BY <2>2, Zenon DEF Moves, MoveBy, MoveRespectingOrigin, HorizontalPosition, BackTab,
       CursorPosition
  <2>3. CASE Edits \/ Attributes
    BY <2>3, Zenon DEF Attributes, ChangeAttributes, Edits, EditAtCursor, EditScreen, OnlyCalls
  <2> QED
    BY <2>1, <2>2, <2>3
<1> QED
  BY <1>1, CursorFacts, SameSides, Zenon DEF OnlyCursor

LEMMA TabStopsSides ==
  ASSUME FrameInvariant, CursorInvariant, TabStops
  PROVE  Sides'
<1>1. /\ UNCHANGED <<size, cursor, margins, modes, memory>>
      /\ mTabStop' \in {{}, mTabStop \cup {mCursorCol}, mTabStop \ {mCursorCol}}
  BY Zenon DEF TabStops
<1>2. mCursorCol \in 0..mColumns - 1
  BY Zenon DEF CursorInvariant, CursorOnScreen
<1>3. mTabStop' \subseteq 0..mColumns - 1
  BY <1>1, <1>2, CursorFacts
<1> QED
  BY <1>1, <1>3, Zenon DEF CursorInvariant, SidesAreMargins, MainCursorWaits, Sides

\* DECSLRM, which needs its mode, is never done.
LEMMA MarginsSides ==
  ASSUME FrameInvariant, CursorInvariant, Margins
  PROVE  Sides'
<1>1. PICK n \in Args, m \in Args : SetTopAndBottom(n, m)
  BY CursorFacts, Zenon DEF Margins, SetLeftAndRight
<1>2. UNCHANGED <<mLeftMargin, mRightMargin, size, modes, mTabStop, memory>>
  BY <1>1, Zenon DEF SetTopAndBottom
<1> QED
  BY <1>2, CursorFacts, SameSides, Zenon

LEMMA RestoredFlagsAreFlagless ==
  ASSUME FrameInvariant, CursorInvariant, NEW b \in {Main, Alt}
  PROVE  LeftRightMargin \notin RestoredFlags(b)
<1>1. saved[b].flags \subseteq {Origin, AutoWrap}
  BY DEF FrameInvariant, TypeOK, MemoryTypeOK, Positions
<1>2. LeftRightMargin \notin {Origin, AutoWrap}
  BY DEF LeftRightMargin, Origin, AutoWrap
<1> QED
  BY <1>1, <1>2, CursorFacts, Zenon DEF RestoredFlags

LEMMA SavingSides ==
  ASSUME FrameInvariant, CursorInvariant, Saving
  PROVE  Sides'
<1>1. mScreen \in {Main, Alt} /\ saved \in [{Main, Alt} -> Positions]
  BY Zenon DEF FrameInvariant, TypeOK, SizeTypeOK, MemoryTypeOK
<1>2. CASE SaveCursor
  <2>1. /\ saved' = [saved EXCEPT ![mScreen] = SavedNow]
        /\ UNCHANGED <<size, margins, modes, mTabStop, leftMain>>
    BY <1>2, Zenon DEF SaveCursor
  <2>2. mScreen = Alt => saved'[Main] = saved[Main]
    BY <1>1, <2>1 DEF Main, Alt
  <2> QED
    BY <2>1, <2>2, Zenon DEF CursorInvariant, SidesAreMargins, MainCursorWaits, Sides
<1>3. CASE RestoreCursor
  <2>1. /\ UNCHANGED <<size, margins, mTabStop, memory>>
        /\ mCurrentDecSetFlags' = RestoredFlags(mScreen)
    BY <1>3, Zenon DEF RestoreCursor
  <2> QED
    BY <1>1, <2>1, RestoredFlagsAreFlagless, SameSides, Zenon
<1> QED
  BY <1>2, <1>3, Zenon DEF Saving

LEMMA DecSetOrResetSides ==
  ASSUME FrameInvariant, CursorInvariant, NoSideMargins, NEW mode, NEW set,
         DecSetOrReset(mode, set)
  PROVE  Sides'
<1>1. mode # LeftRightMargin /\ UNCHANGED <<size, mTabStop, memory>>
  BY Zenon DEF DecSetOrReset, NoSideMargins
<1>2. LeftRightMargin \notin mCurrentDecSetFlags'
  <2>1. mCurrentDecSetFlags' \in {mCurrentDecSetFlags \ {LeftRightMargin}, Flagged(mode, set)}
    BY Zenon DEF DecSetOrReset, ColumnMode, SetFlag
  <2>2. LeftRightMargin \notin Flagged(mode, set)
    BY <1>1, CursorFacts, Zenon DEF Flagged
  <2> QED
    BY <2>1, <2>2
<1>3. UNCHANGED <<mLeftMargin, mRightMargin>>
  <2>1. \/ mLeftMargin' = 0 /\ mRightMargin' = mColumns
        \/ UNCHANGED <<mLeftMargin, mRightMargin>>
    BY <1>1, Zenon DEF DecSetOrReset, ColumnMode, SetFlag
  <2> QED
    BY <2>1, CursorFacts, Zenon
<1> QED
  BY <1>1, <1>2, <1>3, SameSides, Zenon

LEMMA ModeSides ==
  ASSUME FrameInvariant, CursorInvariant, NoSideMargins, Mode \/ InsertMode
  PROVE  Sides'
<1>1. ASSUME NEW mode, SaveMode(mode) \/ InsertMode PROVE Sides'
  <2>1. UNCHANGED <<size, margins, mCurrentDecSetFlags, mTabStop, memory>>
    BY <1>1, Zenon DEF SaveMode, InsertMode
  <2> QED
    BY <2>1, CursorFacts, SameSides, Zenon
<1> QED
  BY <1>1, DecSetOrResetSides, Zenon DEF Mode, RecallMode

LEMMA ResetsSides ==
  ASSUME FrameInvariant, CursorInvariant, Resets
  PROVE  Sides'
<1>1. Reset /\ BuffersHadASize
  BY Zenon DEF Resets, SoftReset, ResetToInitialState, FrameInvariant
<1>2. /\ mLeftMargin' = 0 /\ mRightMargin' = mColumns /\ mCurrentDecSetFlags' = {AutoWrap}
      /\ mTabStop' = DefaultTabStops(mColumns)
      /\ saved' = [b \in {Main, Alt} |-> Home] /\ leftMain' = NoCursor
      /\ UNCHANGED size
  BY <1>1, Zenon DEF Reset
<1>3. SidesAreMargins'
  BY <1>2, SizeFacts DEF SidesAreMargins, DefaultTabStops, LeftRightMargin, AutoWrap
<1>4. MainCursorWaits'
  <2>1. bufRows[Main] \in Nat /\ bufRows[Main] >= 2
        /\ bufColumns[Main] \in Nat /\ bufColumns[Main] >= 2
    BY <1>1, SizesAssumption DEF BuffersHadASize
  <2>2. saved'[Main] = Home /\ UNCHANGED <<bufRows, bufColumns>>
    BY <1>2
  <2> QED
    BY <1>2, <2>1, <2>2 DEF MainCursorWaits, Home
<1> QED
  BY <1>3, <1>4, Zenon DEF Sides

LEMMA ResizesSides ==
  ASSUME FrameInvariant, CursorInvariant, Resizes
  PROVE  Sides'
<1>1. SizeTypeOK /\ mScreen \in {Main, Alt}
  BY Zenon DEF FrameInvariant, TypeOK, SizeTypeOK
<1>2. PICK s \in Sizes : Resize(s[1], s[2])
  BY Zenon DEF Resizes
<1> DEFINE rows == s[1]
           columns == s[2]
<1>3. rows \in Nat \ {0} /\ columns \in Nat \ {0}
  BY SizesAssumption
<1> HIDE DEF rows, columns
<1>4. /\ mRows' = rows /\ mColumns' = columns
      /\ BufferResizes(mScreen, mCursorRow, mCursorCol, rows, columns)
      /\ UNCHANGED <<mScreen, modes, memory>>
      /\ \/ /\ mLeftMargin' = 0 /\ mRightMargin' = columns
            /\ mTabStop' = {i \in mTabStop : i < columns}
                           \cup {i \in DefaultTabStops(columns) : i >= mColumns}
         \/ columns = mColumns /\ UNCHANGED <<mLeftMargin, mRightMargin, mTabStop>>
  BY <1>2, Zenon DEF Resize, rows, columns
<1>5. SidesAreMargins'
  <2>1. mLeftMargin' = 0 /\ mRightMargin' = columns /\ LeftRightMargin \notin mCurrentDecSetFlags'
    BY <1>4, CursorFacts
  <2>2. mTabStop' \subseteq 0..columns - 1
    BY <1>3, <1>4, SizeFacts, CursorFacts, DefaultTabStopsAreOnScreen
  <2> QED
    BY <1>4, <2>1, <2>2, Zenon DEF SidesAreMargins
<1>6. MainCursorWaits'
  <2>1. mScreen = Alt => bufRows'[Main] = bufRows[Main] /\ bufColumns'[Main] = bufColumns[Main]
    <3>1. /\ bufRows' = [bufRows EXCEPT ![mScreen] = rows]
          /\ bufColumns' = [bufColumns EXCEPT ![mScreen] = columns]
          /\ bufRows \in [{Main, Alt} -> Nat] /\ bufColumns \in [{Main, Alt} -> Nat]
      BY <1>1, <1>4, Zenon DEF BufferResizes, SizeTypeOK
    <3> QED
      BY <3>1 DEF Main, Alt
  <2> QED
    BY <1>4, <2>1, Zenon DEF CursorInvariant, MainCursorWaits
<1> QED
  BY <1>5, <1>6, Zenon DEF Sides

LEMMA BuffersSides ==
  ASSUME FrameInvariant, CursorInvariant, Buffers
  PROVE  Sides'
<1>1. /\ SizeTypeOK /\ Fits(mScreen)
      /\ saved \in [{Main, Alt} -> Positions] /\ Main \in {Main, Alt}
  BY Zenon DEF FrameInvariant, TypeOK, SizeTypeOK, MemoryTypeOK, BufferFits
<1>2. UNCHANGED <<mRows, mColumns, margins>>
  BY BuffersSizes
<1>3. CASE EnterAlt
  <2>1. /\ mScreen = Main /\ mScreen' = Alt /\ UNCHANGED <<modes, mTabStop>>
        /\ saved' = [saved EXCEPT ![Main] = SavedNow]
        /\ leftMain' = <<mCursorRow, mCursorCol>>
        /\ \/ UNCHANGED <<bufRows, bufColumns>>
           \/ BufferResizes(Alt, mCursorRow, mCursorCol, mRows, mColumns)
    BY <1>3, ZenonT(40) DEF EnterAlt
  <2>2. saved'[Main].row = mCursorRow /\ saved'[Main].col = mCursorCol
    BY <1>1, <2>1 DEF SavedNow
  <2>3. bufRows'[Main] = mRows /\ bufColumns'[Main] = mColumns
    <3>1. bufRows[Main] = mRows /\ bufColumns[Main] = mColumns
      BY <1>1, <2>1, Zenon DEF Fits
    <3>2. \/ UNCHANGED <<bufRows, bufColumns>>
          \/ /\ bufRows' = [bufRows EXCEPT ![Alt] = mRows]
             /\ bufColumns' = [bufColumns EXCEPT ![Alt] = mColumns]
      BY <2>1, Zenon DEF BufferResizes
    <3>3. bufRows \in [{Main, Alt} -> Nat] /\ bufColumns \in [{Main, Alt} -> Nat]
      BY <1>1, Zenon DEF SizeTypeOK
    <3> QED
      BY <3>1, <3>2, <3>3 DEF Main, Alt
  <2>4. MainCursorWaits'
    BY <2>1, <2>2, <2>3, Zenon DEF MainCursorWaits, CursorInvariant, CursorOnScreen
  <2>5. SidesAreMargins'
    BY <1>2, <2>1, Zenon DEF CursorInvariant, SidesAreMargins
  <2> QED
    BY <2>4, <2>5, Zenon DEF Sides
<1>4. CASE LeaveAlt
  <2>1. /\ mScreen' = Main /\ mCurrentDecSetFlags' = RestoredFlags(Main) /\ UNCHANGED mTabStop
    BY <1>4, ZenonT(40) DEF LeaveAlt
  <2>2. SidesAreMargins'
    BY <1>1, <1>2, <2>1, RestoredFlagsAreFlagless, Zenon DEF CursorInvariant, SidesAreMargins
  <2>3. MainCursorWaits'
    BY <2>1 DEF MainCursorWaits, Main, Alt
  <2> QED
    BY <2>2, <2>3, Zenon DEF Sides
<1> QED
  BY <1>3, <1>4, Zenon DEF Buffers

-----------------------------------------------------------------------------
LEMMA InitCursor == Init => CursorInvariant
<1> SUFFICES ASSUME Init PROVE CursorInvariant
  OBVIOUS
<1>1. FrameInvariant
  BY InitFrame
<1>2. mRows \in Nat /\ mRows >= 2 /\ mColumns \in Nat /\ mColumns >= 2
  BY <1>1, SizeFacts
<1>3. CursorOnScreen /\ EditsInside
  BY <1>2 DEF Init, CursorOnScreen, EditsInside
<1>4. SidesAreMargins
  BY <1>2 DEF Init, SidesAreMargins, DefaultTabStops, LeftRightMargin, AutoWrap
<1>5. MainCursorWaits
  BY DEF Init, MainCursorWaits, Main, Alt
<1> QED
  BY <1>3, <1>4, <1>5, Zenon DEF CursorInvariant

\* With the left margin at the screen's side Backspace stays there too.
LEMMA NothingGoesLeft ==
  ASSUME FrameInvariant, CursorInvariant, Backspace
  PROVE  MovesFromTheLeft
<1>1. \/ SetCursorRowCol(mCursorRow - 1, mRightMargin - 1)
      \/ UNCHANGED cursor
      \/ mLeftMargin # mCursorCol /\ SetCursorCol(mCursorCol - 1)
  BY Zenon DEF Backspace
<1> QED
  BY <1>1, CursorFacts, ScreenFacts
     DEF SetCursorRowCol, SetCursorCol, Lesser, Greater, MovesFromTheLeft

LEMMA StepCursor ==
  ASSUME NoSideMargins, SmallArguments
  PROVE  FrameInvariant /\ CursorInvariant /\ [Next]_vars => CursorInvariant'
<1> SUFFICES ASSUME FrameInvariant, CursorInvariant, [Next]_vars PROVE CursorInvariant'
  OBVIOUS
<1>1. CASE UNCHANGED vars
  <2>1. UNCHANGED <<size, cursor, margins, modes, mTabStop, memory, fault>>
    BY <1>1, Zenon DEF vars
  <2> QED
    BY <2>1, Zenon DEF CursorInvariant, CursorOnScreen, EditsInside, SidesAreMargins,
       MainCursorWaits
<1>2. CASE Next
  <2>1. LeftOpenInvariant' /\ CallsFromTheLeft /\ MovesFromTheLeft
    BY <1>2, CursorFacts, StepLeft, NothingGoesLeft, Zenon
  <2>2. FrameInvariant'
    BY <1>2, StepFrame
  <2>3. ~(mCursorCol < 0)
    BY CursorFacts, ScreenFacts
  <2>4. CursorOnScreen'
    <3>1. mCursorRow' \in 0..mRows' - 1 /\ mCursorCol' < mColumns'
      BY <2>1, Zenon DEF LeftOpenInvariant, OnlyLeftIsOpen
    <3>2. mCursorCol' \in Int /\ mColumns' \in Nat
      BY <2>2, Zenon DEF FrameInvariant, TypeOK, CursorTypeOK, SizeTypeOK
    <3>3. mCursorCol' >= 0
      <4>1. ~(mCursorCol' < 0)
        BY <2>1, <2>3, Zenon DEF MovesFromTheLeft
      <4> QED
        BY <3>2, <4>1, Sign, Zenon
    <3>4. mCursorCol' \in 0..mColumns' - 1
      BY <3>1, <3>2, <3>3, InRange, Zenon
    <3> QED
      BY <3>1, <3>4, Zenon DEF CursorOnScreen
  <2>5. EditsInside'
    BY <2>1, <2>3, Zenon DEF EditsInside, CallsFromTheLeft
  <2>6. Sides'
    BY <1>2, CursorSides, TabStopsSides, MarginsSides, SavingSides, ModeSides, ResetsSides,
       BuffersSides, ResizesSides, Zenon DEF Next
  <2> QED
    BY <2>4, <2>5, <2>6, Zenon DEF CursorInvariant, Sides
<1> QED
  BY <1>1, <1>2

THEOREM CursorIsInvariant ==
  ASSUME NoSideMargins, SmallArguments
  PROVE  Spec => []CursorInvariant
BY FrameIsInvariant, InitCursor, StepCursor, PTL DEF Spec

\* While no program asks for left and right margins or passes an argument near
\* the largest int, the cursor is between (0,0) and (mRows-1, mColumns-1) after
\* every sequence, resize and switch of the buffer.
THEOREM CursorStaysOnScreen ==
  ASSUME NoSideMargins, SmallArguments
  PROVE  Spec => []CursorOnScreen
<1>1. CursorInvariant => CursorOnScreen
  BY Zenon DEF CursorInvariant
<1> QED
  BY <1>1, CursorIsInvariant, PTL

\* And none of the calls on TerminalBuffer throws for being outside the screen.
THEOREM EditsStayInside ==
  ASSUME NoSideMargins, SmallArguments
  PROVE  Spec => []EditsInside
<1>1. CursorInvariant => EditsInside
  BY Zenon DEF CursorInvariant
<1> QED
  BY <1>1, CursorIsInvariant, PTL

\* Back from the alternate screen the cursor is where the main screen was left,
\* unless the size has changed or the terminal was reset meanwhile.
LEMMA MainCursorStep ==
  FrameInvariant /\ CursorInvariant /\ [Next]_vars
    => [mScreen = Alt /\ mScreen' = Main /\ leftMain # NoCursor /\ Fits(Main)
          => <<mCursorRow', mCursorCol'>> = leftMain]_vars
<1> SUFFICES ASSUME FrameInvariant, CursorInvariant, Next,
                    mScreen = Alt, mScreen' = Main, leftMain # NoCursor, Fits(Main)
             PROVE  <<mCursorRow', mCursorCol'>> = leftMain
  BY Zenon DEF vars
<1>1. mScreen' # mScreen
  BY DEF Main, Alt
<1>2. LeaveAlt
  <2>1. CASE Buffers
    BY <1>1, <2>1, ZenonT(40) DEF Buffers, EnterAlt
  <2>2. CASE Resizes
    BY <1>1, <2>2, Zenon DEF Resizes, Resize
  <2>3. CASE Resets \/ Mode \/ InsertMode \/ Saving \/ Margins
    BY <1>1, <2>3, Zenon DEF Resets, SoftReset, ResetToInitialState, Reset, Mode, SaveMode,
       RecallMode, DecSetOrReset, InsertMode, Saving, SaveCursor, RestoreCursor, Margins,
       SetTopAndBottom, SetLeftAndRight
  <2>4. CASE Attributes \/ Edits \/ TabStops
    BY <1>1, <2>4, Zenon DEF Attributes, ChangeAttributes, Edits, EditAtCursor, EditScreen,
       TabStops, OnlyCalls, OnlyCursor
  <2>5. CASE Moves
    BY <1>1, <2>5, Zenon DEF Moves, MoveBy, MoveRespectingOrigin, HorizontalPosition, BackTab,
       CursorPosition, OnlyCursor
  <2>6. CASE Character \/ Control \/ Index
    BY <1>1, <2>6, Zenon DEF Character, EmitCodePoint, Control, Backspace, Tab, LineFeed, NextLine,
       Linefeed, CarriageReturn, Index, BackIndex, ForwardIndex, ReverseIndex, LowerLeft,
       OnlyCursor
  <2> QED
    BY <2>1, <2>2, <2>3, <2>4, <2>5, <2>6, Zenon DEF Next
<1>3. SetCursorRowCol(saved[Main].row, saved[Main].col)
  BY <1>2, ZenonT(40) DEF LeaveAlt
<1>4. /\ saved[Main].row \in 0..mRows - 1 /\ saved[Main].col \in 0..mColumns - 1
      /\ leftMain = <<saved[Main].row, saved[Main].col>>
  BY Zenon DEF CursorInvariant, MainCursorWaits, Fits
<1> QED
  BY <1>3, <1>4, SizeFacts DEF SetCursorRowCol, Lesser, Greater

THEOREM MainCursorReturns ==
  ASSUME NoSideMargins, SmallArguments
  PROVE  Spec => MainCursorComesBack
BY FrameIsInvariant, CursorIsInvariant, MainCursorStep, PTL DEF Spec, MainCursorComesBack

=============================================================================
