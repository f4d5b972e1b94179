------------------------ MODULE TerminalBufferProofs ------------------------
(***************************************************************************)
(* The ring of TerminalBuffer, for every number of lines and all heights:  *)
(* the screen and the transcript fit into it, their row objects are there  *)
(* and each in one slot; and what the operations do to slots and objects   *)
(* is, for the lines that can be shown, what LineScreen says.              *)
(***************************************************************************)
EXTENDS TerminalBuffer, FiniteSetTheorems, SequenceTheorems,
        WellFoundedInduction, TLAPS

-----------------------------------------------------------------------------
(* Remainders. *)

LEMMA DivMod ==
  ASSUME NEW t \in Nat \ {0}, NEW a \in Int
  PROVE  a % t \in 0..(t - 1) /\ a = t * (a \div t) + (a % t)
         /\ (a \div t) \in Int
  OBVIOUS

LEMMA SmallMultiple ==
  ASSUME NEW t \in Nat \ {0}, NEW q \in Int, t * q < t, -t < t * q
  PROVE  q = 0
<1>1. CASE q >= 1
  <2>1. t * q >= t  BY <1>1
  <2> QED BY <2>1
<1>2. CASE q <= -1
  <2>1. t * q <= -t  BY <1>2
  <2> QED BY <2>1
<1> QED BY <1>1, <1>2

LEMMA RemainderIsUnique ==
  ASSUME NEW t \in Nat \ {0}, NEW p \in Int, NEW q \in Int,
         NEW r \in 0..(t - 1), NEW s \in 0..(t - 1), t * p + r = t * q + s
  PROVE  r = s
<1>1. t * (p - q) = s - r  OBVIOUS
<1>2. p - q = 0  BY <1>1, SmallMultiple
<1> QED BY <1>1, <1>2

LEMMA ModSmall ==
  ASSUME NEW t \in Nat \ {0}, NEW x \in 0..(t - 1)
  PROVE  x % t = x
  OBVIOUS

LEMMA ModNext ==
  ASSUME NEW t \in Nat \ {0}, NEW x \in t..(2 * t - 1)
  PROVE  x % t = x - t
<1>1. x = t * 1 + (x - t)  OBVIOUS
<1>2. x = t * (x \div t) + (x % t) /\ x % t \in 0..(t - 1) /\ (x \div t) \in Int
  BY DivMod
<1>3. x - t \in 0..(t - 1)  OBVIOUS
<1> QED BY <1>1, <1>2, <1>3, RemainderIsUnique

LEMMA Distributes ==
  ASSUME NEW t \in Int, NEW p \in Int, NEW q \in Int
  PROVE  t * (p + q) = t * p + t * q
  OBVIOUS

LEMMA ModPlus ==
  ASSUME NEW t \in Nat \ {0}, NEW a \in Nat, NEW i \in Nat
  PROVE  (a + i) % t = ((a % t) + i) % t
<1> DEFINE b == (a % t) + i
           p == a \div t
           q == b \div t
<1>1. a = t * p + (a % t) /\ a % t \in 0..(t - 1) /\ p \in Int
  BY DivMod
<1>2. b \in Int  BY <1>1
<1>3. b = t * q + (b % t) /\ b % t \in 0..(t - 1) /\ q \in Int
  BY <1>2, DivMod
<1>4. a + i \in Int  OBVIOUS
<1>5. /\ a + i = t * ((a + i) \div t) + ((a + i) % t)
      /\ (a + i) % t \in 0..(t - 1) /\ ((a + i) \div t) \in Int
  BY <1>4, DivMod
<1>6. a + i = t * p + b  BY <1>1
<1> HIDE DEF b, p, q
<1>7. a + i = t * (p + q) + (b % t)
  BY <1>1, <1>3, <1>6, Distributes
<1>8. p + q \in Int  BY <1>1, <1>3
<1>9. (a + i) % t = b % t  BY <1>3, <1>5, <1>7, <1>8, RemainderIsUnique
<1> QED BY <1>9 DEF b

LEMMA WrapsOnce ==
  ASSUME NEW t \in Nat \ {0}, NEW x \in 0..(2 * t - 1)
  PROVE  x % t = IF x < t THEN x ELSE x - t
<1>1. CASE x < t
  <2>1. x \in 0..(t - 1)  BY <1>1
  <2>2. x % t = x  BY <2>1, ModSmall
  <2> QED BY <1>1, <2>2
<1>2. CASE ~(x < t)
  <2>1. x \in t..(2 * t - 1)  BY <1>2
  <2>2. x % t = x - t  BY <2>1, ModNext
  <2> QED BY <1>2, <2>2
<1> QED BY <1>1, <1>2

\* Slots less than a turn apart are different ones.
LEMMA SlotsDiffer ==
  ASSUME NEW t \in Nat \ {0}, NEW a \in Nat,
         NEW i \in 0..(t - 1), NEW j \in 0..(t - 1), (a + i) % t = (a + j) % t
  PROVE  i = j
<1>1. PICK r \in 0..(t - 1) : r = a % t
  <2>1. a \in Int  OBVIOUS
  <2> QED BY <2>1, DivMod
<1>2. i \in Nat /\ j \in Nat  OBVIOUS
<1>3. (a + i) % t = (r + i) % t /\ (a + j) % t = (r + j) % t
  BY <1>1, <1>2, ModPlus
<1>4. r + i \in 0..(2 * t - 1) /\ r + j \in 0..(2 * t - 1)  OBVIOUS
<1>5. \A x \in 0..(2 * t - 1) : x % t = IF x < t THEN x ELSE x - t
  BY WrapsOnce
<1>6. (r + i) % t = (r + j) % t  BY <1>3
<1> QED BY <1>4, <1>5, <1>6

-----------------------------------------------------------------------------
(* Lines: functions from slots to row objects or Null. *)

Distinct(lines) ==
  \A s, t \in DOMAIN lines : lines[s] = lines[t] /\ lines[s] # Null => s = t

\* Every slot of the ring has a row.
Full(lines) == \A s \in 0..(mTotalRows - 1) : lines[s] # Null

\* What BlockCopyLinesDown() makes of lines.
Moved(lines, copied, src, len, n) ==
  /\ copied \in [0..(n - 1) -> Objects \cup {Null}]
  /\ Distinct(copied)
  /\ Full(lines) => Full(copied)
  /\ copied[(src + 0) % mTotalRows] = lines[(src + len) % mTotalRows]
  /\ \A i \in 1..len : copied[(src + i) % mTotalRows]
                         = lines[(src + (i - 1)) % mTotalRows]
  /\ \A s \in 0..(n - 1) :
       (\A i \in 0..len : s # (src + i) % mTotalRows) => copied[s] = lines[s]

LEMMA BlockCopyMoves ==
  ASSUME mTotalRows \in Nat \ {0}, NEW n \in Nat, mTotalRows <= n,
         NEW lines \in [0..(n - 1) -> Objects \cup {Null}], Distinct(lines),
         NEW src \in Nat, NEW len \in 0..(mTotalRows - 1)
  PROVE  Moved(lines, BlockCopyLinesDown(lines, src, len), src, len, n)
<1> DEFINE copied == BlockCopyLinesDown(lines, src, len)
<1> DEFINE slot(i) == (src + i) % mTotalRows
           origin(s) == IF s = slot(0) THEN slot(len)
                        ELSE IF \E i \in 1..len : s = slot(i)
                             THEN slot((CHOOSE i \in 1..len : s = slot(i)) - 1)
                             ELSE s
           from == [s \in 0..(n - 1) |-> origin(s)]
<1>1. \A i \in 0..len : slot(i) \in 0..(mTotalRows - 1)
  <2> TAKE i \in 0..len
  <2>1. src + i \in Int  OBVIOUS
  <2> QED BY <2>1, DivMod
<1>2. \A i, j \in 0..len : slot(i) = slot(j) => i = j
  <2> TAKE i, j \in 0..len
  <2> HAVE slot(i) = slot(j)
  <2>1. i \in 0..(mTotalRows - 1) /\ j \in 0..(mTotalRows - 1)  OBVIOUS
  <2> QED BY <2>1, SlotsDiffer
<1>3. copied = [s \in 0..(n - 1) |-> lines[from[s]]]
  BY Zenon DEF BlockCopyLinesDown
<1> HIDE DEF slot, copied
<1>4. from[slot(0)] = slot(len)  BY <1>1
<1>5. \A i \in 1..len : from[slot(i)] = slot(i - 1)
  <2> TAKE i \in 1..len
  <2>1. slot(i) # slot(0)  BY <1>2
  <2>2. (CHOOSE k \in 1..len : slot(i) = slot(k)) = i  BY <1>2
  <2>3. slot(i) \in 0..(n - 1)  BY <1>1
  <2> QED BY <2>1, <2>2, <2>3
<1>6. \A s \in 0..(n - 1) : (\A i \in 0..len : s # slot(i)) => from[s] = s
  OBVIOUS
<1>7. \A s \in 0..(n - 1) :
        \/ s = slot(0)
        \/ \E i \in 1..len : s = slot(i)
        \/ \A i \in 0..len : s # slot(i)
  OBVIOUS
<1> HIDE DEF from
<1>8. \A s \in 0..(n - 1) : /\ from[s] \in 0..(n - 1)
                            /\ (s < mTotalRows => from[s] \in 0..(mTotalRows - 1))
  <2> TAKE s \in 0..(n - 1)
  <2>1. CASE s = slot(0)
    <3>1. len \in 0..len  OBVIOUS
    <3> QED BY <2>1, <3>1, <1>1, <1>4
  <2>2. ASSUME NEW i \in 1..len, s = slot(i)
        PROVE  from[s] \in 0..(mTotalRows - 1)
    <3>1. i - 1 \in 0..len  OBVIOUS
    <3> QED BY <2>2, <3>1, <1>1, <1>5
  <2>3. CASE \A i \in 0..len : s # slot(i)
    BY <2>3, <1>6
  <2> QED BY <2>1, <2>2, <2>3, <1>7
<1>9. \A s, t \in 0..(n - 1) : from[s] = from[t] => s = t
  <2> TAKE s, t \in 0..(n - 1)
  <2> HAVE from[s] = from[t]
  <2>1. 0 \in 0..len /\ len \in 0..len
        /\ \A i \in 1..len : i \in 0..len /\ i - 1 \in 0..len /\ i - 1 # len
    OBVIOUS
  <2>2. ASSUME NEW u \in 0..(n - 1), NEW v \in 0..(n - 1), from[u] = from[v],
               u = slot(0)
        PROVE  u = v
    <3>1. ASSUME NEW i \in 1..len, v = slot(i)  PROVE FALSE
      <4>1. slot(len) = slot(i - 1)  BY <2>2, <3>1, <1>4, <1>5
      <4> QED BY <4>1, <2>1, <1>2
    <3>2. ASSUME \A i \in 0..len : v # slot(i)  PROVE FALSE
      <4>1. slot(len) = v  BY <2>2, <3>2, <1>4, <1>6
      <4> QED BY <4>1, <3>2, <2>1
    <3> QED BY <2>2, <3>1, <3>2, <1>7
  <2>3. ASSUME NEW u \in 0..(n - 1), NEW v \in 0..(n - 1), from[u] = from[v],
               NEW i \in 1..len, u = slot(i), v # slot(0)
        PROVE  u = v
    <3>1. ASSUME NEW j \in 1..len, v = slot(j)  PROVE u = v
      <4>1. slot(i - 1) = slot(j - 1)  BY <2>3, <3>1, <1>5
      <4>2. i - 1 = j - 1  BY <4>1, <2>1, <1>2
      <4>3. i = j  BY <4>2
      <4> QED BY <4>3, <2>3, <3>1
    <3>2. ASSUME \A k \in 0..len : v # slot(k)  PROVE FALSE
      <4>1. slot(i - 1) = v  BY <2>3, <3>2, <1>5, <1>6
      <4> QED BY <4>1, <3>2, <2>1
    <3> QED BY <2>3, <3>1, <3>2, <1>7
  <2>4. CASE s = slot(0) \/ t = slot(0)  BY <2>2, <2>4
  <2>5. CASE s # slot(0) /\ t # slot(0)
    <3>1. CASE \E i \in 1..len : s = slot(i) \/ t = slot(i)
      BY <2>3, <2>5, <3>1
    <3>2. CASE ~\E i \in 1..len : s = slot(i) \/ t = slot(i)
      BY <2>5, <3>2, <1>6, <1>7
    <3> QED BY <3>1, <3>2
  <2> QED BY <2>4, <2>5
<1>10. \A s \in 0..(mTotalRows - 1) : from[s] \in 0..(mTotalRows - 1)
  <2> TAKE s \in 0..(mTotalRows - 1)
  <2>1. s \in 0..(n - 1) /\ s < mTotalRows  OBVIOUS
  <2> QED BY <2>1, <1>8
<1>11. copied \in [0..(n - 1) -> Objects \cup {Null}]  BY <1>3, <1>8
<1>12. Distinct(copied)  BY <1>3, <1>8, <1>9 DEF Distinct
<1>13. Full(lines) => Full(copied)  BY <1>3, <1>10 DEF Full
<1>14. copied[slot(0)] = lines[slot(len)]  BY <1>1, <1>3, <1>4
<1>15. \A i \in 1..len : copied[slot(i)] = lines[slot(i - 1)]
  BY <1>1, <1>3, <1>5
<1>16. \A s \in 0..(n - 1) : (\A i \in 0..len : s # slot(i)) => copied[s] = lines[s]
  BY <1>3, <1>6
<1> QED BY <1>11, <1>12, <1>13, <1>14, <1>15, <1>16 DEF slot, Moved, copied

LEMMA Allocating ==
  ASSUME NEW n \in Nat, NEW lines \in [0..(n - 1) -> Objects \cup {Null}],
         Distinct(lines), Null \notin Nat,
         NEW slots \in SUBSET (0..(n - 1)), NEW new \in Allocations(lines, slots)
  PROVE  /\ With(lines, new) \in [0..(n - 1) -> Objects \cup {Null}]
         /\ Distinct(With(lines, new))
         /\ \A s \in slots : With(lines, new)[s] # Null
         /\ \A s \in 0..(n - 1) : lines[s] # Null => With(lines, new)[s] = lines[s]
         /\ slots = {} => With(lines, new) = lines
<1> DEFINE dom == {s \in slots : lines[s] = Null}
           unused == Objects \ {lines[s] : s \in 0..(n - 1)}
           w == With(lines, new)
<1>1. /\ new \in [dom -> unused]
      /\ \A s, t \in dom : new[s] = new[t] => s = t
  BY Zenon DEF Allocations
<1>2. w = [s \in 0..(n - 1) |-> IF s \in dom THEN new[s] ELSE lines[s]]
  BY <1>1, Zenon DEF With
<1>3. Null \notin Objects  BY DEF Objects
<1>4. \A s \in dom : new[s] \in Objects /\ \A t \in 0..(n - 1) : new[s] # lines[t]
  <2> TAKE s \in dom
  <2>1. new[s] \in unused  BY <1>1
  <2> QED BY <2>1
<1>5. \A s \in 0..(n - 1) : lines[s] # Null => s \notin dom  OBVIOUS
<1>6. \A s \in slots : s \notin dom => lines[s] # Null  OBVIOUS
<1>7. slots = {} => dom = {}  OBVIOUS
<1> HIDE DEF w, dom
<1>8. w \in [0..(n - 1) -> Objects \cup {Null}]  BY <1>2, <1>4
<1>9. Distinct(w)  BY <1>1, <1>2, <1>4 DEF Distinct
<1>10. \A s \in slots : w[s] # Null  BY <1>2, <1>3, <1>4, <1>6
<1>11. \A s \in 0..(n - 1) : lines[s] # Null => w[s] = lines[s]
  BY <1>2, <1>5
<1>12. slots = {} => w = lines  BY <1>2, <1>7
<1> QED BY <1>8, <1>9, <1>10, <1>11, <1>12 DEF w

-----------------------------------------------------------------------------
(* Positions: rows counted from the top of the screen, and the slots they    *)
(* are in when the screen starts in a slot of the ring.                      *)

Position(first, total, p) ==
  IF first + p < 0 THEN first + p + total
  ELSE IF first + p < total THEN first + p ELSE first + p - total

\* ExternalToInternalRow() for any ring.
SlotOf(first, total, row) ==
  IF first + row < 0 THEN total + (first + row) ELSE (first + row) % total

LEMMA SlotOfPosition ==
  ASSUME NEW total \in Nat \ {0}, NEW first \in 0..(total - 1),
         NEW row \in (1 - total)..total
  PROVE  SlotOf(first, total, row) = Position(first, total, row)
<1> DEFINE x == first + row
<1>1. CASE x < 0  BY <1>1 DEF SlotOf, Position
<1>2. CASE ~(x < 0)
  <2>1. x \in 0..(2 * total - 1)  BY <1>2
  <2>2. x % total = IF x < total THEN x ELSE x - total
    BY <2>1, WrapsOnce
  <2> QED BY <1>2, <2>2 DEF SlotOf, Position
<1> QED BY <1>1, <1>2

LEMMA SlotInRing ==
  ASSUME NEW total \in Nat \ {0}, NEW first \in Nat, NEW row \in (-total)..total
  PROVE  SlotOf(first, total, row) \in 0..(total - 1)
<1>1. CASE first + row < 0  BY <1>1 DEF SlotOf
<1>2. CASE ~(first + row < 0)
  <2>1. first + row \in Int  OBVIOUS
  <2>2. (first + row) % total \in 0..(total - 1)  BY <2>1, DivMod
  <2> QED BY <1>2, <2>2 DEF SlotOf
<1> QED BY <1>1, <1>2

LEMMA SlotsOfRows ==
  \A row : ExternalToInternalRow(row) = SlotOf(mScreenFirstRow, mTotalRows, row)
  BY Zenon DEF ExternalToInternalRow, SlotOf

\* What the steps need of the invariant.
LEMMA InvariantFacts ==
  ASSUME RingInvariant
  PROVE  /\ mTotalRows \in Nat \ {0} /\ mTotalRows <= TotalRows
         /\ mScreenRows \in 1..mTotalRows
         /\ mActiveTranscriptRows \in 0..(mTotalRows - mScreenRows)
         /\ mScreenFirstRow \in Nat /\ cursorRow \in Nat
         /\ altScreen \in BOOLEAN
         /\ altScreen => mTotalRows = mScreenRows /\ Full(mLines)
                         /\ mActiveTranscriptRows = 0
         /\ ~altScreen => mScreenFirstRow < mTotalRows /\ mTotalRows = TotalRows
         /\ Distinct(mLines)
         /\ \A row \in ActiveRows : mLines[ExternalToInternalRow(row)] # Null
         /\ \E n \in mTotalRows..TotalRows :
              mScreenFirstRow < n /\ mLines \in [0..(n - 1) -> Objects \cup {Null}]
<1>1. /\ mTotalRows \in Nat \ {0} /\ mTotalRows <= TotalRows
      /\ mScreenRows \in 1..mTotalRows
      /\ mActiveTranscriptRows \in 0..(mTotalRows - mScreenRows)
      /\ mScreenFirstRow \in Nat /\ cursorRow \in Nat
      /\ altScreen \in BOOLEAN
  BY SizesAssumption DEF RingInvariant, TypeOK
<1>2. PICK n \in mTotalRows..TotalRows :
        mScreenFirstRow < n /\ mLines \in [0..(n - 1) -> Objects \cup {Null}]
  BY DEF RingInvariant, TypeOK
<1>3. altScreen => mTotalRows = mScreenRows /\ Full(mLines)
                   /\ mActiveTranscriptRows = 0
  BY <1>1 DEF RingInvariant, RingIsWhole, Full
<1>4. ~altScreen => mScreenFirstRow < mTotalRows /\ mTotalRows = TotalRows
  BY <1>1, <1>2, SizesAssumption DEF RingInvariant, RingIsWhole
<1>5. Distinct(mLines)
  BY DEF RingInvariant, RowsAreTheirOwn, Distinct, Slots
<1>6. \A row \in ActiveRows : mLines[ExternalToInternalRow(row)] # Null
  BY DEF RingInvariant, RowsAreTheirOwn
<1> QED BY <1>1, <1>2, <1>3, <1>4, <1>5, <1>6

-----------------------------------------------------------------------------
(* Slots: rows counted around the ring from a base. *)

Slot(base, total, p) == (base + p) % total

\* A slot is one of the ring's.
LEMMA SlotInTheRing ==
  ASSUME NEW total \in Nat \ {0}, NEW base \in Int, NEW p \in Int
  PROVE  Slot(base, total, p) \in 0..(total - 1)
<1>1. base + p \in Int  OBVIOUS
<1> QED BY <1>1, DivMod DEF Slot

\* Rows less than a turn apart have different slots.
LEMMA SlotsApart ==
  ASSUME NEW total \in Nat \ {0}, NEW base \in Int, NEW p \in Int, NEW q \in Int,
         p - q < total, q - p < total, Slot(base, total, p) = Slot(base, total, q)
  PROVE  p = q
<1> DEFINE x == base + p
           y == base + q
           k == x \div total
           l == y \div total
<1>1. x \in Int /\ y \in Int  OBVIOUS
<1>2. x = total * k + (x % total) /\ k \in Int /\ x % total \in 0..(total - 1)
  BY <1>1, DivMod
<1>3. y = total * l + (y % total) /\ l \in Int /\ y % total \in 0..(total - 1)
  BY <1>1, DivMod
<1>4. x % total = y % total  BY DEF Slot
<1>5. x - y = p - q  OBVIOUS
<1> HIDE DEF x, y, k, l
<1>6. k = l + (k - l) /\ k - l \in Int  BY <1>2, <1>3
<1>7. total * k = total * l + total * (k - l)  BY <1>3, <1>6, Distributes
<1>8. total * (k - l) = p - q
  BY <1>1, <1>2, <1>3, <1>4, <1>5, <1>7
<1>9. k - l = 0
  <2>1. total * (k - l) < total /\ -total < total * (k - l)  BY <1>8
  <2> QED BY <2>1, <1>6, SmallMultiple
<1>10. total * 0 = 0  OBVIOUS
<1> QED BY <1>8, <1>9, <1>10

\* A turn more is the same slot.
LEMMA OneMoreTurn ==
  ASSUME NEW total \in Nat \ {0}, NEW x \in Int
  PROVE  (x + total) % total = x % total
<1> DEFINE k == x \div total
           l == (x + total) \div total
<1>1. x = total * k + (x % total) /\ k \in Int /\ x % total \in 0..(total - 1)
  BY DivMod
<1>2. x + total = total * l + ((x + total) % total) /\ l \in Int
      /\ (x + total) % total \in 0..(total - 1)
  <2>1. x + total \in Int  OBVIOUS
  <2> QED BY <2>1, DivMod
<1>3. k + 1 \in Int /\ total * (k + 1) = total * k + total * 1 /\ total * 1 = total
  BY <1>1, Distributes
<1> HIDE DEF k, l
<1>4. x + total = total * (k + 1) + (x % total)  BY <1>1, <1>3
<1> QED BY <1>1, <1>2, <1>3, <1>4, RemainderIsUnique

\* ExternalToInternalRow() is such a slot, a turn further on.
LEMMA RowsAreSlots ==
  ASSUME NEW total \in Nat \ {0}, NEW first \in Nat, NEW row \in Int,
         -total <= row, first + row < 0 => first < total
  PROVE  SlotOf(first, total, row) = Slot(first + total, total, row)
<1>1. first + total + row = (first + row) + total /\ first + row \in Int  OBVIOUS
<1>2. ((first + row) + total) % total = (first + row) % total
  BY <1>1, OneMoreTurn
<1>3. CASE first + row < 0
  <2>1. first + row + total \in 0..(total - 1)  BY <1>3
  <2>2. (first + row + total) % total = first + row + total  BY <2>1, ModSmall
  <2> QED BY <2>2, <1>1, <1>3 DEF SlotOf, Slot
<1>4. CASE ~(first + row < 0)
  BY <1>1, <1>2, <1>4 DEF SlotOf, Slot
<1> QED BY <1>3, <1>4

\* Slots that the code counts up from another slot.
LEMMA SlotFrom ==
  ASSUME NEW total \in Nat \ {0}, NEW first \in Nat, NEW p \in Nat
  PROVE  (first + p) % total = Slot(first + total, total, p)
<1>1. first + total + p = (first + p) + total /\ first + p \in Int  OBVIOUS
<1>2. ((first + p) + total) % total = (first + p) % total
  BY <1>1, OneMoreTurn
<1> QED BY <1>1, <1>2 DEF Slot

LEMMA SlotOn ==
  ASSUME NEW total \in Nat \ {0}, NEW first \in Nat, NEW p \in Nat, NEW i \in Nat
  PROVE  (((first + p) % total) + i) % total = Slot(first + total, total, p + i)
<1>1. first + p \in Nat /\ p + i \in Nat /\ first + p + i = first + (p + i)
  OBVIOUS
<1>2. (((first + p) % total) + i) % total = (first + p + i) % total
  BY <1>1, ModPlus
<1>3. (first + (p + i)) % total = Slot(first + total, total, p + i)
  BY <1>1, SlotFrom
<1> QED BY <1>1, <1>2, <1>3

\* The rows after the ring has turned by one.
LEMMA SlotTurned ==
  ASSUME NEW total \in Nat \ {0}, NEW first \in Nat, NEW row \in Int, -total <= row
  PROVE  SlotOf((first + 1) % total, total, row) = Slot(first + total, total, row + 1)
<1> DEFINE f == (first + 1) % total
<1>1. f \in 0..(total - 1)
  <2>1. first + 1 \in Int  OBVIOUS
  <2> QED BY <2>1, DivMod
<1>2. (f + (total + row)) % total = (first + 1 + (total + row)) % total
  <2>1. first + 1 \in Nat /\ total + row \in Nat  OBVIOUS
  <2> QED BY <2>1, ModPlus
<1> HIDE DEF f
<1>3. SlotOf(f, total, row) = Slot(f + total, total, row)
  <2>1. f \in Nat /\ f < total  BY <1>1
  <2> QED BY <2>1, RowsAreSlots
<1>4. f + total + row = f + (total + row)
      /\ first + total + (row + 1) = first + 1 + (total + row)
  BY <1>1
<1>5. SlotOf(f, total, row) = Slot(first + total, total, row + 1)
  BY <1>2, <1>3, <1>4 DEF Slot
<1> QED BY <1>5 DEF f

-----------------------------------------------------------------------------
(* Scrolling. *)

\* Where the rows of old are after the two copies that a scroll makes.
Shifted(total, rows, base, top, bottom, old, upper, lines) ==
  /\ upper[Slot(base, total, 0)] = old[Slot(base, total, top)]
  /\ \A i \in 1..top : upper[Slot(base, total, i)]
                           = old[Slot(base, total, i - 1)]
  /\ \A s \in 0..(total - 1) :
         (\A i \in 0..top : s # Slot(base, total, i)) => upper[s] = old[s]
  /\ \A i \in 1..(rows - bottom) :
         lines[Slot(base, total, bottom + i)]
           = upper[Slot(base, total, bottom + i - 1)]
  /\ \A s \in 0..(total - 1) :
         (\A i \in 0..(rows - bottom) : s # Slot(base, total, bottom + i))
           => lines[s] = upper[s]

\* Which row of the screen or the transcript becomes a row by a scroll.
Origin(row, top, bottom) ==
  IF row = -1 THEN top
  ELSE IF (0 <= row /\ row < top) \/ bottom <= row THEN row ELSE row + 1

\* Every row that the screen and the transcript will have is in its slot, but
\* for the one above the bottom margin.
LEMMA RowsBeforeTheTurn ==
  ASSUME NEW total \in Nat \ {0}, NEW rows \in 1..total,
         NEW base \in Int,
         NEW top \in Nat, NEW bottom \in 1..rows, top < bottom,
         NEW old, NEW upper, NEW lines,
         Shifted(total, rows, base, top, bottom, old, upper, lines),
         NEW row \in Int, row < rows, row # bottom - 1, rows - row <= total
  PROVE  lines[Slot(base, total, row + 1)]
           = old[Slot(base, total, Origin(row, top, bottom))]
<1> DEFINE pos(p) == Slot(base, total, p)
<1>0. /\ upper[pos(0)] = old[pos(top)]
      /\ \A i \in 1..top : upper[pos(i)] = old[pos(i - 1)]
      /\ \A s \in 0..(total - 1) :
           (\A i \in 0..top : s # pos(i)) => upper[s] = old[s]
      /\ \A i \in 1..(rows - bottom) :
           lines[pos(bottom + i)] = upper[pos(bottom + i - 1)]
      /\ \A s \in 0..(total - 1) :
           (\A i \in 0..(rows - bottom) : s # pos(bottom + i))
             => lines[s] = upper[s]
  BY Zenon DEF Shifted
<1>1. \A p \in Int : pos(p) \in 0..(total - 1)  BY SlotInTheRing
<1>2. \A p, q \in Int : p - q < total /\ q - p < total /\ pos(p) = pos(q) => p = q
  BY SlotsApart
<1> HIDE DEF pos
<1> DEFINE q == row + 1
<1>3. q \in Int /\ row \in Int /\ q <= rows /\ q # bottom /\ rows - q < total  OBVIOUS
<1>4. CASE q < 0
  <2>1. \A i \in 0..top : pos(q) # pos(i)
    <3> TAKE i \in 0..top
    <3>1. i \in Int /\ q - i < total /\ i - q < total /\ i # q  BY <1>4
    <3> QED BY <3>1, <1>2, <1>3
  <2>2. \A i \in 0..(rows - bottom) : pos(q) # pos(bottom + i)
    <3> TAKE i \in 0..(rows - bottom)
    <3>1. bottom + i \in Int /\ q - (bottom + i) < total
          /\ (bottom + i) - q < total /\ bottom + i # q
      BY <1>4
    <3> QED BY <3>1, <1>2, <1>3
  <2>3. lines[pos(q)] = old[pos(q)]  BY <2>1, <2>2, <1>0, <1>1, <1>3
  <2>4. Origin(row, top, bottom) = q  BY <1>4 DEF Origin
  <2> QED BY <2>3, <2>4 DEF pos
<1>5. CASE q \in 0..top
  <2>1. \A i \in 0..(rows - bottom) : pos(q) # pos(bottom + i)
    <3> TAKE i \in 0..(rows - bottom)
    <3>1. bottom + i \in Int /\ q - (bottom + i) < total
          /\ (bottom + i) - q < total /\ bottom + i # q
      BY <1>5
    <3> QED BY <3>1, <1>2, <1>3
  <2>2. lines[pos(q)] = upper[pos(q)]  BY <2>1, <1>0, <1>1, <1>3
  <2>3. CASE q = 0
    <3>1. upper[pos(q)] = old[pos(top)]  BY <2>3, <1>0
    <3>2. Origin(row, top, bottom) = top  BY <2>3 DEF Origin
    <3> QED BY <2>2, <3>1, <3>2 DEF pos
  <2>4. CASE q # 0
    <3>1. q \in 1..top /\ q - 1 = row  BY <1>5, <2>4
    <3>2. upper[pos(q)] = old[pos(row)]  BY <3>1, <1>0
    <3>3. Origin(row, top, bottom) = row  BY <3>1 DEF Origin
    <3> QED BY <2>2, <3>2, <3>3 DEF pos
  <2> QED BY <2>3, <2>4
<1>6. CASE q > top /\ q < bottom
  <2>1. \A i \in 0..top : pos(q) # pos(i)
    <3> TAKE i \in 0..top
    <3>1. i \in Int /\ q - i < total /\ i - q < total /\ i # q  BY <1>6
    <3> QED BY <3>1, <1>2, <1>3
  <2>2. \A i \in 0..(rows - bottom) : pos(q) # pos(bottom + i)
    <3> TAKE i \in 0..(rows - bottom)
    <3>1. bottom + i \in Int /\ q - (bottom + i) < total
          /\ (bottom + i) - q < total /\ bottom + i # q
      BY <1>6
    <3> QED BY <3>1, <1>2, <1>3
  <2>3. lines[pos(q)] = old[pos(q)]  BY <2>1, <2>2, <1>0, <1>1, <1>3
  <2>4. Origin(row, top, bottom) = q  BY <1>6 DEF Origin
  <2> QED BY <2>3, <2>4 DEF pos
<1>7. CASE q > bottom
  <2>1. q - bottom \in 1..(rows - bottom) /\ bottom + (q - bottom) = q
        /\ bottom + (q - bottom) - 1 = row
    BY <1>7
  <2>2. lines[pos(q)] = upper[pos(row)]  BY <2>1, <1>0
  <2>3. \A i \in 0..top : pos(row) # pos(i)
    <3> TAKE i \in 0..top
    <3>1. i \in Int /\ row - i < total /\ i - row < total /\ i # row  BY <1>7
    <3> QED BY <3>1, <1>2, <1>3
  <2>4. upper[pos(row)] = old[pos(row)]  BY <2>3, <1>0, <1>1, <1>3
  <2>5. Origin(row, top, bottom) = row  BY <1>7 DEF Origin
  <2> QED BY <2>2, <2>4, <2>5 DEF pos
<1>8. q < 0 \/ q \in 0..top \/ (q > top /\ q < bottom) \/ q > bottom  BY <1>3
<1> QED BY <1>4, <1>5, <1>6, <1>7, <1>8

\* A scroll, by rows: every row of the screen and the transcript that there is
\* afterwards has the row object that Origin says, and the row above the bottom
\* margin one that has been cleared.
LEMMA ScrollMoves ==
  ASSUME RingInvariant, NEW top \in Int, NEW bottom \in Int,
         ScrollDownOneLine(top, bottom)
  PROVE  /\ top \in 0..(bottom - 1) /\ bottom \in 1..mScreenRows
         /\ mScreenFirstRow' = (mScreenFirstRow + 1) % mTotalRows
         /\ mActiveTranscriptRows'
              = (IF mActiveTranscriptRows < mTotalRows - mScreenRows
                 THEN mActiveTranscriptRows + 1 ELSE mActiveTranscriptRows)
         /\ UNCHANGED <<mTotalRows, mScreenRows, cursorRow, altScreen>>
         /\ \E n \in mTotalRows..TotalRows :
              mLines' \in [0..(n - 1) -> Objects \cup {Null}]
         /\ Distinct(mLines') /\ (Full(mLines) => Full(mLines'))
         /\ \A row \in ActiveRows' : row # bottom - 1 =>
              /\ Origin(row, top, bottom) \in ActiveRows
              /\ mLines'[ExternalToInternalRow(row)']
                   = mLines[ExternalToInternalRow(Origin(row, top, bottom))]
         /\ mLines'[ExternalToInternalRow(bottom - 1)'] \in Objects
         /\ text' = [r \in Objects |->
                       IF r = mLines'[ExternalToInternalRow(bottom - 1)']
                       THEN Blank ELSE text[r]]
<1> DEFINE T == mTotalRows
           base == mScreenFirstRow + mTotalRows
           first == (mScreenFirstRow + 1) % mTotalRows
           src == ExternalToInternalRow(bottom)
           below == mScreenRows - bottom
           upper == BlockCopyLinesDown(mLines, mScreenFirstRow, top)
           lines == BlockCopyLinesDown(upper, src, below)
           bottomSlot == (first + bottom - 1) % mTotalRows
           active == IF mActiveTranscriptRows < mTotalRows - mScreenRows
                     THEN mActiveTranscriptRows + 1 ELSE mActiveTranscriptRows
           pos(p) == Slot(base, T, p)
<1>1. PICK new \in Allocations(lines, {bottomSlot}) :
        mLines' = With(lines, new) /\ text' = Cleared(mLines', {bottomSlot})
  BY Zenon DEF ScrollDownOneLine, Scrolling
<1>2. /\ 0 <= top /\ top <= bottom - 1 /\ bottom <= mScreenRows
      /\ mScreenFirstRow' = first /\ mActiveTranscriptRows' = active
      /\ UNCHANGED <<mTotalRows, mScreenRows, cursorRow, altScreen>>
  BY Zenon DEF ScrollDownOneLine, Scrolling, Grown
<1>3. PICK n \in mTotalRows..TotalRows :
        mScreenFirstRow < n /\ mLines \in [0..(n - 1) -> Objects \cup {Null}]
  BY InvariantFacts
<1>4. /\ mTotalRows \in Nat \ {0} /\ mTotalRows <= TotalRows
      /\ mScreenRows \in 1..mTotalRows
      /\ mActiveTranscriptRows \in 0..(mTotalRows - mScreenRows)
      /\ mScreenFirstRow \in Nat /\ TotalRows \in Nat
      /\ mActiveTranscriptRows > 0 => mScreenFirstRow < mTotalRows
  BY InvariantFacts, SizesAssumption
<1>5. n \in Nat /\ mTotalRows <= n /\ \A s \in 0..(T - 1) : s \in 0..(n - 1)
  BY <1>3, <1>4
<1>6. top \in 0..(mTotalRows - 1) /\ below \in 0..(mTotalRows - 1)
      /\ bottom \in 1..mScreenRows /\ top \in Nat /\ top < bottom
      /\ top \in 0..(bottom - 1) /\ bottom \in Nat /\ base \in Int
  BY <1>2, <1>4
<1>7. src = (mScreenFirstRow + bottom) % T /\ src \in 0..(T - 1) /\ src \in Nat
  <2>1. ~(mScreenFirstRow + bottom < 0) /\ mScreenFirstRow + bottom \in Int
    BY <1>4, <1>6
  <2>2. src = (mScreenFirstRow + bottom) % T  BY <2>1 DEF ExternalToInternalRow
  <2>3. (mScreenFirstRow + bottom) % T \in 0..(T - 1)  BY <2>1, <1>4, DivMod
  <2> HIDE DEF src
  <2> QED BY <2>2, <2>3, <1>4
<1>8. /\ upper \in [0..(n - 1) -> Objects \cup {Null}]
      /\ Distinct(upper) /\ (Full(mLines) => Full(upper))
      /\ upper[(mScreenFirstRow + 0) % T] = mLines[(mScreenFirstRow + top) % T]
      /\ \A i \in 1..top : upper[(mScreenFirstRow + i) % T]
                             = mLines[(mScreenFirstRow + (i - 1)) % T]
      /\ \A s \in 0..(n - 1) :
           (\A i \in 0..top : s # (mScreenFirstRow + i) % T)
             => upper[s] = mLines[s]
  <2>1. Distinct(mLines)  BY InvariantFacts
  <2>2. Moved(mLines, upper, mScreenFirstRow, top, n)
    BY <1>3, <1>4, <1>5, <1>6, <2>1, BlockCopyMoves
  <2> HIDE DEF upper
  <2> QED BY <2>2, Zenon DEF Moved
<1>9. /\ lines \in [0..(n - 1) -> Objects \cup {Null}]
      /\ Distinct(lines) /\ (Full(upper) => Full(lines))
      /\ \A i \in 1..below : lines[(src + i) % T] = upper[(src + (i - 1)) % T]
      /\ \A s \in 0..(n - 1) :
           (\A i \in 0..below : s # (src + i) % T) => lines[s] = upper[s]
  <2> HIDE DEF upper, src, below
  <2>1. Moved(upper, lines, src, below, n)
    BY <1>4, <1>5, <1>6, <1>7, <1>8, BlockCopyMoves
  <2> HIDE DEF lines
  <2> QED BY <2>1, Zenon DEF Moved
<1>10. \A i \in Nat : (mScreenFirstRow + i) % T = pos(i)  BY <1>4, SlotFrom
<1>11. \A i \in Nat : (src + i) % T = pos(bottom + i)
  <2>1. \A i \in Nat : (((mScreenFirstRow + bottom) % T) + i) % T = pos(bottom + i)
    BY <1>4, <1>6, SlotOn
  <2> HIDE DEF src, pos
  <2> QED BY <2>1, <1>7, Zenon
<1>12. \A row \in Int : -T <= row => ExternalToInternalRow(row)' = pos(row + 1)
  <2>1. \A row : ExternalToInternalRow(row)' = SlotOf(first, T, row)
    BY <1>2, Zenon DEF ExternalToInternalRow, SlotOf
  <2> QED BY <2>1, <1>4, SlotTurned
<1>13. bottomSlot = pos(bottom) /\ ExternalToInternalRow(bottom - 1)' = bottomSlot
  <2>1. first \in Nat
    <3>1. mScreenFirstRow + 1 \in Int  BY <1>4
    <3>2. first \in 0..(T - 1)  BY <3>1, <1>4, DivMod
    <3> HIDE DEF first
    <3> QED BY <3>2, <1>4
  <2>2. bottom - 1 \in Int /\ -T <= bottom - 1 /\ (bottom - 1) + 1 = bottom
    BY <1>4, <1>6
  <2>3. SlotOf(first, T, bottom - 1) = bottomSlot
    <3>1. ~(first + (bottom - 1) < 0) /\ first + (bottom - 1) = first + bottom - 1
      <4> HIDE DEF first
      <4> QED BY <2>1, <1>6
    <3> QED BY <3>1 DEF SlotOf
  <2>4. ExternalToInternalRow(bottom - 1)' = SlotOf(first, T, bottom - 1)
    BY <1>2, Zenon DEF ExternalToInternalRow, SlotOf
  <2> HIDE DEF first, bottomSlot, pos
  <2> QED BY <2>2, <2>3, <2>4, <1>12
<1>14. \A p \in Int : pos(p) \in 0..(T - 1)  BY <1>4, <1>6, SlotInTheRing
<1>15. \A row \in ActiveRows : ExternalToInternalRow(row) = pos(row)
  <2> TAKE row \in ActiveRows
  <2>1. row \in Int /\ -T <= row
        /\ (mScreenFirstRow + row < 0 => mScreenFirstRow < T)
    BY <1>4 DEF ActiveRows
  <2> QED BY <2>1, <1>4, RowsAreSlots, SlotsOfRows
<1> HIDE DEF upper, lines, src, first, bottomSlot, pos
<1>16. /\ mLines' \in [0..(n - 1) -> Objects \cup {Null}] /\ Distinct(mLines')
       /\ mLines'[bottomSlot] # Null
       /\ \A s \in 0..(n - 1) : lines[s] # Null => mLines'[s] = lines[s]
  <2>1. {bottomSlot} \in SUBSET (0..(n - 1))
    BY <1>5, <1>6, <1>13, <1>14
  <2>2. /\ With(lines, new) \in [0..(n - 1) -> Objects \cup {Null}]
        /\ Distinct(With(lines, new))
        /\ \A s \in {bottomSlot} : With(lines, new)[s] # Null
        /\ \A s \in 0..(n - 1) : lines[s] # Null => With(lines, new)[s] = lines[s]
    BY <2>1, <1>1, <1>5, <1>9, Allocating, LinesAssumption
  <2> QED BY <1>1, <2>2
<1>17. Full(mLines) => Full(mLines')
  BY <1>2, <1>5, <1>8, <1>9, <1>16, Zenon DEF Full
<1>18. Shifted(T, mScreenRows, base, top, bottom, mLines, upper, lines)
  <2>1. /\ upper[pos(0)] = mLines[pos(top)]
        /\ \A i \in 1..top : upper[pos(i)] = mLines[pos(i - 1)]
        /\ \A s \in 0..(T - 1) :
             (\A i \in 0..top : s # pos(i)) => upper[s] = mLines[s]
    <3>1. /\ 0 \in Nat /\ \A i \in 0..top : i \in Nat
          /\ \A i \in 1..top : i \in Nat /\ i - 1 \in Nat
      BY <1>6
    <3> QED BY <3>1, <1>5, <1>6, <1>8, <1>10, Zenon
  <2>2. /\ \A i \in 1..below : lines[pos(bottom + i)] = upper[pos(bottom + i - 1)]
        /\ \A s \in 0..(T - 1) :
             (\A i \in 0..below : s # pos(bottom + i)) => lines[s] = upper[s]
    <3>1. /\ \A i \in 0..below : i \in Nat
          /\ \A i \in 1..below : i \in Nat /\ i - 1 \in Nat
                                 /\ bottom + (i - 1) = bottom + i - 1
      BY <1>6
    <3>2. \A i \in 1..below : lines[pos(bottom + i)] = upper[pos(bottom + i - 1)]
      <4> TAKE i \in 1..below
      <4>1. (src + i) % T = pos(bottom + i)  BY <3>1, <1>11
      <4>2. (src + (i - 1)) % T = pos(bottom + (i - 1))  BY <3>1, <1>11
      <4> QED BY <3>1, <4>1, <4>2, <1>9, Zenon
    <3>3. \A s \in 0..(T - 1) :
             (\A i \in 0..below : s # pos(bottom + i)) => lines[s] = upper[s]
      BY <3>1, <1>5, <1>9, <1>11, Zenon
    <3> QED BY <3>2, <3>3
  <2> QED BY <2>1, <2>2, Zenon DEF Shifted, pos
<1>19. ASSUME NEW row \in ActiveRows', row # bottom - 1
       PROVE  /\ Origin(row, top, bottom) \in ActiveRows
              /\ mLines'[ExternalToInternalRow(row)']
                   = mLines[ExternalToInternalRow(Origin(row, top, bottom))]
  <2>1. row \in (-active)..(mScreenRows - 1)  BY <1>2, <1>19 DEF ActiveRows
  <2>2. /\ row \in Int /\ row < mScreenRows /\ mScreenRows - row <= T /\ -T <= row
        /\ row + 1 \in Int
    BY <2>1, <1>4
  <2>3. lines[pos(row + 1)] = mLines[pos(Origin(row, top, bottom))]
    <3>1. /\ T \in Nat \ {0} /\ mScreenRows \in 1..T /\ base \in Int
          /\ top \in Nat /\ bottom \in 1..mScreenRows /\ top < bottom
      BY <1>4, <1>6
    <3> HIDE DEF base
    <3>2. lines[Slot(base, T, row + 1)] = mLines[Slot(base, T, Origin(row, top, bottom))]
      <4>1. row # bottom - 1  BY <1>19
      <4> QED BY <2>2, <3>1, <4>1, <1>18, RowsBeforeTheTurn, SMTT(30)
    <3> QED BY <3>2 DEF pos
  <2>4. Origin(row, top, bottom) \in ActiveRows
    BY <2>1, <1>4, <1>6, <1>19 DEF Origin, ActiveRows
  <2>5. mLines[pos(Origin(row, top, bottom))] # Null
    BY <2>4, <1>15, InvariantFacts
  <2>6. pos(row + 1) \in 0..(n - 1)  BY <2>2, <1>5, <1>14
  <2>7. mLines'[pos(row + 1)] = lines[pos(row + 1)]
    BY <2>3, <2>5, <2>6, <1>16
  <2> QED BY <2>2, <2>3, <2>4, <2>7, <1>12, <1>15
<1>20. mLines'[bottomSlot] \in Objects
  BY <1>5, <1>6, <1>13, <1>14, <1>16
<1>21. text' = [r \in Objects |-> IF r = mLines'[bottomSlot] THEN Blank ELSE text[r]]
  BY <1>1 DEF Cleared
<1>22. /\ mScreenFirstRow' = (mScreenFirstRow + 1) % mTotalRows
       /\ mActiveTranscriptRows'
            = (IF mActiveTranscriptRows < mTotalRows - mScreenRows
               THEN mActiveTranscriptRows + 1 ELSE mActiveTranscriptRows)
       /\ UNCHANGED <<mTotalRows, mScreenRows, cursorRow, altScreen>>
  BY <1>2, Zenon DEF first
<1> HIDE DEF active, below, base
<1>23. \E m \in mTotalRows..TotalRows :
              mLines' \in [0..(m - 1) -> Objects \cup {Null}]
  BY <1>3, <1>16
<1> QED BY <1>6, <1>13, <1>16, <1>17, <1>19, <1>20, <1>21, <1>22, <1>23, Zenon

LEMMA ScrollStep ==
  ASSUME RingInvariant, NEW top \in Int, NEW bottom \in Int,
         ScrollDownOneLine(top, bottom)
  PROVE  RingInvariant'
<1> DEFINE T == mTotalRows
<1>1. PICK n \in T..TotalRows : mLines' \in [0..(n - 1) -> Objects \cup {Null}]
  BY ScrollMoves
<1>2. /\ mScreenFirstRow' = (mScreenFirstRow + 1) % T
      /\ mActiveTranscriptRows'
           = (IF mActiveTranscriptRows < T - mScreenRows
              THEN mActiveTranscriptRows + 1 ELSE mActiveTranscriptRows)
      /\ UNCHANGED <<mTotalRows, mScreenRows, cursorRow, altScreen>>
      /\ Distinct(mLines') /\ (Full(mLines) => Full(mLines'))
      /\ mLines'[ExternalToInternalRow(bottom - 1)'] \in Objects
      /\ \A row \in ActiveRows' : row # bottom - 1 =>
           /\ Origin(row, top, bottom) \in ActiveRows
           /\ mLines'[ExternalToInternalRow(row)']
                = mLines[ExternalToInternalRow(Origin(row, top, bottom))]
  BY ScrollMoves
<1>3. /\ T \in Nat \ {0} /\ T <= TotalRows /\ mScreenRows \in 1..T
      /\ mActiveTranscriptRows \in 0..(T - mScreenRows)
      /\ mScreenFirstRow \in Nat /\ cursorRow \in Nat
      /\ altScreen \in BOOLEAN /\ TotalRows \in Nat
      /\ \A row \in ActiveRows : mLines[ExternalToInternalRow(row)] # Null
  BY InvariantFacts, SizesAssumption
<1>4. mScreenFirstRow' \in 0..(T - 1)
  <2>1. mScreenFirstRow + 1 \in Int  BY <1>3
  <2>2. (mScreenFirstRow + 1) % T \in 0..(T - 1)  BY <2>1, <1>3, DivMod
  <2> QED BY <2>2, <1>2
<1>5. TypeOK'
  <2>1. mActiveTranscriptRows' \in 0..(T - mScreenRows)  BY <1>2, <1>3
  <2>2. mScreenFirstRow' \in Nat /\ mScreenFirstRow' < n  BY <1>1, <1>3, <1>4
  <2>3. mTotalRows' \in 1..TotalRows /\ mScreenRows' \in 1..mTotalRows'
        /\ mActiveTranscriptRows' \in 0..(mTotalRows' - mScreenRows')
        /\ altScreen' \in BOOLEAN /\ cursorRow' \in Nat
        /\ n \in mTotalRows'..TotalRows
    BY <1>1, <1>2, <1>3, <2>1
  <2> QED BY <2>2, <2>3, <1>1 DEF TypeOK
<1>6. \A row \in ActiveRows' : mLines'[ExternalToInternalRow(row)'] # Null
  <2> TAKE row \in ActiveRows'
  <2>1. CASE row = bottom - 1
    <3>1. Null \notin Objects  BY LinesAssumption DEF Objects
    <3>2. ExternalToInternalRow(row)' = ExternalToInternalRow(bottom - 1)'
      BY <2>1 DEF ExternalToInternalRow
    <3> QED BY <3>1, <3>2, <1>2
  <2>2. CASE row # bottom - 1  BY <2>2, <1>2, <1>3
  <2> QED BY <2>1, <2>2
<1>7. RowsAreTheirOwn'  BY <1>1, <1>2, <1>6 DEF RowsAreTheirOwn, Distinct, Slots
<1>8. RingIsWhole'
  <2>1. altScreen => Full(mLines')  BY <1>2, InvariantFacts
  <2>2. Full(mLines') <=> \A s \in 0..(T - 1) : mLines'[s] # Null
    BY <1>2 DEF Full
  <2> QED BY <2>1, <2>2, <1>2, <1>3, InvariantFacts DEF RingIsWhole
<1> QED BY <1>5, <1>7, <1>8 DEF RingInvariant

-----------------------------------------------------------------------------
(* The other steps. *)

LEMMA InitStep ==
  ASSUME Init
  PROVE  RingInvariant
<1>1. /\ altScreen \in BOOLEAN /\ mScreenRows \in Heights
      /\ mTotalRows = (IF altScreen THEN mScreenRows ELSE TotalRows)
      /\ mLines = [s \in 0..(mTotalRows - 1) |-> IF s < mScreenRows THEN s ELSE Null]
      /\ mActiveTranscriptRows = 0 /\ mScreenFirstRow = 0 /\ cursorRow = 0
  BY Zenon DEF Init
<1>2. /\ mTotalRows \in 1..TotalRows /\ mScreenRows \in 1..mTotalRows
      /\ TotalRows \in Nat /\ mTotalRows \in Nat \ {0}
  BY <1>1, SizesAssumption
<1>3. mLines \in [0..(mTotalRows - 1) -> Objects \cup {Null}]
  BY <1>1, <1>2 DEF Objects
<1>4. mTotalRows \in mTotalRows..TotalRows /\ mScreenFirstRow < mTotalRows
  BY <1>1, <1>2
<1>5. TypeOK  BY <1>1, <1>2, <1>3, <1>4 DEF TypeOK
<1>6. \A s, t \in Slots : mLines[s] = mLines[t] /\ mLines[s] # Null => s = t
  BY <1>1, <1>2 DEF Slots
<1>7. ASSUME NEW row \in ActiveRows
      PROVE  mLines[ExternalToInternalRow(row)] # Null
  <2>1. row \in 0..(mScreenRows - 1) /\ row \in 0..(mTotalRows - 1)
    BY <1>1, <1>2 DEF ActiveRows
  <2>2. row % mTotalRows = row  BY <2>1, <1>2, ModSmall
  <2>3. ExternalToInternalRow(row) = row
    BY <2>1, <2>2, <1>1, <1>2 DEF ExternalToInternalRow
  <2>4. mLines[row] = row /\ row \in Nat  BY <2>1, <1>1, <1>2
  <2> QED BY <2>3, <2>4, LinesAssumption
<1>8. RingIsWhole
  <2>1. mTotalRows = mScreenRows
          => \A s \in 0..(mTotalRows - 1) : mLines[s] = s /\ s \in Nat
    BY <1>1, <1>2
  <2> QED BY <2>1, <1>1, LinesAssumption DEF RingIsWhole
<1> QED BY <1>5, <1>6, <1>7, <1>8 DEF RingInvariant, RowsAreTheirOwn

\* A step that leaves the ring where it is and takes no row away.
LEMMA RingUnmoved ==
  ASSUME RingInvariant, ring' = ring, altScreen' = altScreen, cursorRow' \in Nat,
         NEW n \in mTotalRows..TotalRows, mScreenFirstRow < n,
         mLines' \in [0..(n - 1) -> Objects \cup {Null}], Distinct(mLines'),
         \A s \in 0..(n - 1) : mLines[s] # Null => mLines'[s] # Null
  PROVE  RingInvariant'
<1>1. /\ mTotalRows' = mTotalRows /\ mScreenRows' = mScreenRows
      /\ mActiveTranscriptRows' = mActiveTranscriptRows
      /\ mScreenFirstRow' = mScreenFirstRow
  BY DEF ring
<1>2. /\ mTotalRows \in Nat \ {0} /\ mTotalRows <= TotalRows
      /\ mScreenRows \in 1..mTotalRows /\ mScreenFirstRow \in Nat
      /\ mActiveTranscriptRows \in 0..(mTotalRows - mScreenRows)
  BY InvariantFacts
<1>3. TypeOK'  BY <1>1 DEF RingInvariant, TypeOK
<1>4. \A s \in 0..(mTotalRows - 1) : s \in 0..(n - 1)  BY <1>2
<1>5. ASSUME NEW row \in ActiveRows'
      PROVE  mLines'[ExternalToInternalRow(row)'] # Null
  <2>1. ExternalToInternalRow(row)' = ExternalToInternalRow(row)
    BY <1>1 DEF ExternalToInternalRow
  <2>2. row \in ActiveRows  BY <1>1 DEF ActiveRows
  <2>3. row \in (-mTotalRows)..mTotalRows  BY <2>2, <1>2 DEF ActiveRows
  <2>4. ExternalToInternalRow(row) \in 0..(mTotalRows - 1)
    BY <2>3, <1>2, SlotInRing, SlotsOfRows
  <2>5. mLines[ExternalToInternalRow(row)] # Null  BY <2>2, InvariantFacts
  <2> QED BY <2>1, <2>4, <2>5, <1>4
<1>6. RowsAreTheirOwn'
  BY <1>5 DEF RowsAreTheirOwn, Distinct, Slots
<1>7. RingIsWhole'
  BY <1>1, <1>4, Zenon DEF RingInvariant, RingIsWhole
<1> QED BY <1>3, <1>6, <1>7 DEF RingInvariant

LEMMA BlockSetStep ==
  ASSUME RingInvariant, NEW sy \in Int, NEW h \in Int, NEW line,
         BlockSet(sy, h, line)
  PROVE  RingInvariant'
<1> DEFINE slots == {ExternalToInternalRow(y) : y \in sy..(sy + h - 1)}
<1>1. PICK new \in Allocations(mLines, slots) : mLines' = With(mLines, new)
  BY Zenon DEF BlockSet
<1>2. /\ sy >= 0 /\ sy + h <= mScreenRows
      /\ ring' = ring /\ cursorRow' = cursorRow /\ altScreen' = altScreen
  BY Zenon DEF BlockSet
<1>3. PICK n \in mTotalRows..TotalRows :
        mScreenFirstRow < n /\ mLines \in [0..(n - 1) -> Objects \cup {Null}]
  BY InvariantFacts
<1>4. /\ mTotalRows \in Nat \ {0} /\ mScreenRows \in 1..mTotalRows
      /\ mScreenFirstRow \in Nat /\ cursorRow \in Nat /\ n \in Nat
      /\ Distinct(mLines)
  BY <1>3, InvariantFacts
<1>5. slots \in SUBSET (0..(n - 1))
  <2> SUFFICES ASSUME NEW y \in sy..(sy + h - 1)
               PROVE  ExternalToInternalRow(y) \in 0..(n - 1)
    OBVIOUS
  <2>1. y \in (-mTotalRows)..mTotalRows  BY <1>2, <1>4
  <2>2. ExternalToInternalRow(y) \in 0..(mTotalRows - 1)
    BY <2>1, <1>4, SlotInRing, SlotsOfRows
  <2> QED BY <2>2, <1>3, <1>4
<1> HIDE DEF slots
<1>6. /\ With(mLines, new) \in [0..(n - 1) -> Objects \cup {Null}]
      /\ Distinct(With(mLines, new))
      /\ \A s \in 0..(n - 1) : mLines[s] # Null => With(mLines, new)[s] = mLines[s]
  BY <1>1, <1>3, <1>4, <1>5, Allocating, LinesAssumption, SMTT(30)
<1> QED BY <1>1, <1>2, <1>3, <1>4, <1>6, RingUnmoved

\* Steps that do not touch the rows: block copies, the cursor, stuttering.
LEMMA RowsUntouchedStep ==
  ASSUME RingInvariant, UNCHANGED <<mLines, ring, altScreen>>, cursorRow' \in Nat
  PROVE  RingInvariant'
<1>1. PICK n \in mTotalRows..TotalRows :
        mScreenFirstRow < n /\ mLines \in [0..(n - 1) -> Objects \cup {Null}]
  BY InvariantFacts
<1>2. Distinct(mLines)  BY InvariantFacts
<1>3. mLines' = mLines /\ ring' = ring /\ altScreen' = altScreen  OBVIOUS
<1> QED BY <1>1, <1>2, <1>3, RingUnmoved

LEMMA ClearTranscriptStep ==
  ASSUME RingInvariant, ClearTranscript
  PROVE  RingInvariant'
<1> DEFINE T == mTotalRows
           first == mScreenFirstRow
           active == mActiveTranscriptRows
           gone == IF first < active
                   THEN (T + first - active)..(T - 1) \cup 0..(first - 1)
                   ELSE (first - active)..(first - 1)
<1>1. /\ mLines' = [s \in DOMAIN mLines |-> IF s \in gone THEN Null ELSE mLines[s]]
      /\ mActiveTranscriptRows' = 0
      /\ mTotalRows' = T /\ mScreenRows' = mScreenRows
      /\ mScreenFirstRow' = first /\ cursorRow' = cursorRow
      /\ altScreen' = altScreen
  BY DEF ClearTranscript, Slots
<1>2. PICK n \in mTotalRows..TotalRows :
        mScreenFirstRow < n /\ mLines \in [0..(n - 1) -> Objects \cup {Null}]
  BY InvariantFacts
<1>3. /\ T \in Nat \ {0} /\ T <= TotalRows /\ mScreenRows \in 1..T
      /\ active \in 0..(T - mScreenRows) /\ first \in Nat /\ cursorRow \in Nat
      /\ altScreen \in BOOLEAN /\ TotalRows \in Nat /\ n \in Nat /\ T <= n
  BY <1>2, InvariantFacts, SizesAssumption
<1>4. altScreen => gone = {}
  <2>1. altScreen => active = 0  BY InvariantFacts
  <2> QED BY <2>1, <1>3
<1>5. \A p \in 0..(mScreenRows - 1) : SlotOf(first, T, p) \notin gone
  <2> TAKE p \in 0..(mScreenRows - 1)
  <2>1. CASE altScreen  BY <2>1, <1>4
  <2>2. CASE ~altScreen
    <3>1. first \in 0..(T - 1)  BY <2>2, <1>3, InvariantFacts
    <3>2. SlotOf(first, T, p) = Position(first, T, p)
      <4>1. p \in (1 - T)..T  BY <1>3
      <4> QED BY <4>1, <3>1, <1>3, SlotOfPosition
    <3>3. Position(first, T, p) \notin gone  BY <3>1, <1>3 DEF Position
    <3> HIDE DEF gone
    <3> QED BY <3>2, <3>3
  <2> QED BY <2>1, <2>2
<1> HIDE DEF gone
<1>6. mLines' = [s \in 0..(n - 1) |-> IF s \in gone THEN Null ELSE mLines[s]]
  BY <1>1, <1>2
<1>7. mLines' \in [0..(n - 1) -> Objects \cup {Null}]  BY <1>2, <1>6
<1>8. Distinct(mLines')
  <2>1. Distinct(mLines)  BY InvariantFacts
  <2> QED BY <2>1, <1>2, <1>6 DEF Distinct
<1>9. TypeOK'
  <2>1. /\ altScreen' \in BOOLEAN /\ cursorRow' \in Nat
        /\ mTotalRows' \in 1..TotalRows /\ mScreenRows' \in 1..mTotalRows'
        /\ mActiveTranscriptRows' \in 0..(mTotalRows' - mScreenRows')
        /\ mScreenFirstRow' \in Nat /\ mScreenFirstRow' < n
        /\ n \in mTotalRows'..TotalRows
    BY <1>1, <1>2, <1>3
  <2> QED BY <2>1, <1>7 DEF TypeOK
<1>10. ASSUME NEW row \in ActiveRows'
       PROVE  mLines'[ExternalToInternalRow(row)'] # Null
  <2>1. ExternalToInternalRow(row)' = SlotOf(first, T, row)
    BY <1>1, Zenon DEF ExternalToInternalRow, SlotOf
  <2>2. row \in 0..(mScreenRows - 1) /\ row \in (-T)..T /\ row \in ActiveRows
    BY <1>1, <1>3 DEF ActiveRows
  <2>3. SlotOf(first, T, row) \in 0..(T - 1)  BY <2>2, <1>3, SlotInRing
  <2>4. mLines[SlotOf(first, T, row)] # Null
    BY <2>2, InvariantFacts, SlotsOfRows
  <2>5. SlotOf(first, T, row) \in 0..(n - 1)  BY <2>3, <1>3
  <2> QED BY <2>1, <2>2, <2>4, <2>5, <1>5, <1>6
<1>11. RowsAreTheirOwn'
  BY <1>8, <1>10 DEF RowsAreTheirOwn, Distinct, Slots
<1>12. RingIsWhole'
  <2>1. CASE altScreen
    <3>1. mLines' = mLines  BY <2>1, <1>2, <1>4, <1>6
    <3> QED BY <3>1, <2>1, <1>1 DEF RingInvariant, RingIsWhole
  <2>2. CASE ~altScreen
    BY <2>2, <1>1 DEF RingInvariant, RingIsWhole
  <2> QED BY <2>1, <2>2
<1> QED BY <1>9, <1>11, <1>12 DEF RingInvariant

-----------------------------------------------------------------------------
(* Resizing. *)

\* How far the top of the screen moves: never further up than the transcript
\* reaches, never so far down that the bottom row leaves the old screen.
LEMMA ShiftIsBounded ==
  ASSUME RingInvariant, NEW newRows \in Nat \ {0}
  PROVE  /\ ShiftDownOfTopRow(newRows) \in (-mActiveTranscriptRows)..mScreenRows
         /\ newRows <= mScreenRows
              => ShiftDownOfTopRow(newRows) \in 0..(mScreenRows - newRows)
         /\ newRows > mScreenRows
              => ShiftDownOfTopRow(newRows) \in (mScreenRows - newRows)..0
         /\ newRows > mScreenRows
              => \/ ShiftDownOfTopRow(newRows) = mScreenRows - newRows
                 \/ ShiftDownOfTopRow(newRows) = -mActiveTranscriptRows
<1>1. mScreenRows \in Nat \ {0} /\ mActiveTranscriptRows \in Nat
  BY InvariantFacts
<1>2. Cardinality(SpareRows) \in Nat
  <2>1. IsFiniteSet(1..(mScreenRows - 1))  BY <1>1, FS_Interval
  <2>2. SpareRows \subseteq 1..(mScreenRows - 1)  BY Zenon DEF SpareRows
  <2>3. IsFiniteSet(SpareRows)  BY <2>1, <2>2, FS_Subset
  <2> QED BY <2>3, FS_CardinalityType
<1> QED BY <1>1, <1>2 DEF ShiftDownOfTopRow, Greater

\* The main buffer's ring keeps its size, and only the screen moves in it.
LEMMA FastResizeMain ==
  ASSUME RingInvariant, NEW newRows \in Nat \ {0}, ~altScreen,
         FastResize(newRows)
  PROVE  RingInvariant'
<1> DEFINE T == mTotalRows
           first == mScreenFirstRow
           active == mActiveTranscriptRows
           shift == ShiftDownOfTopRow(newRows)
           slots == IF newRows > mScreenRows THEN Revealed(newRows) ELSE {}
<1>1. PICK new \in Allocations(mLines, slots) : mLines' = With(mLines, new)
  BY Zenon DEF FastResize, FastResizeClearing
<1>2. /\ newRows <= T
      /\ mScreenFirstRow' = IF first + shift < 0 THEN first + shift + T
                                                 ELSE (first + shift) % T
      /\ mTotalRows' = T /\ mScreenRows' = newRows
      /\ mActiveTranscriptRows' = Greater(0, active + shift)
      /\ cursorRow' = Greater(0, cursorRow - shift) /\ altScreen' = altScreen
  BY Zenon DEF FastResize, FastResizeClearing
<1>3. PICK n \in mTotalRows..TotalRows :
        mScreenFirstRow < n /\ mLines \in [0..(n - 1) -> Objects \cup {Null}]
  BY InvariantFacts
<1>4. /\ T \in Nat \ {0} /\ T <= TotalRows /\ T = TotalRows
      /\ mScreenRows \in 1..T /\ active \in 0..(T - mScreenRows)
      /\ first \in 0..(T - 1) /\ cursorRow \in Nat /\ TotalRows \in Nat
      /\ n \in Nat /\ n = T /\ Distinct(mLines)
  BY <1>3, InvariantFacts, SizesAssumption
<1>5. /\ shift \in (-active)..mScreenRows
      /\ newRows <= mScreenRows => shift \in 0..(mScreenRows - newRows)
      /\ newRows > mScreenRows => shift \in (mScreenRows - newRows)..0
      /\ newRows > mScreenRows => shift = mScreenRows - newRows \/ shift = -active
  BY ShiftIsBounded
<1> HIDE DEF shift
<1>6. mScreenFirstRow' = Position(first, T, shift)
  <2>1. shift \in (1 - T)..T  BY <1>4, <1>5
  <2>2. SlotOf(first, T, shift) = Position(first, T, shift)
    BY <2>1, <1>4, SlotOfPosition
  <2>3. shift \in Int /\ T + (first + shift) = first + shift + T
    BY <1>4, <1>5
  <2> QED BY <2>2, <2>3, <1>2 DEF SlotOf
<1>7. /\ mScreenFirstRow' \in 0..(T - 1)
      /\ mActiveTranscriptRows' = active + shift
      /\ mActiveTranscriptRows' \in 0..(T - newRows)
      /\ cursorRow' \in Nat
  BY <1>2, <1>4, <1>5, <1>6 DEF Position, Greater
<1>8. \A i \in Nat : (first + mScreenRows + i) % T \in 0..(n - 1)
  <2> TAKE i \in Nat
  <2>1. first + mScreenRows + i \in Int  BY <1>4
  <2>2. (first + mScreenRows + i) % T \in 0..(T - 1)  BY <2>1, <1>4, DivMod
  <2> QED BY <2>2, <1>4
<1>9. Revealed(newRows) = {(first + mScreenRows + i) % T :
                             i \in 0..(newRows - mScreenRows + shift - 1)}
  BY DEF Revealed, shift
<1>10. slots \in SUBSET (0..(n - 1))
  <2>1. \A i \in 0..(newRows - mScreenRows + shift - 1) : i \in Nat
    BY <1>4, <1>5
  <2>2. Revealed(newRows) \subseteq 0..(n - 1)  BY <2>1, <1>8, <1>9
  <2> QED BY <2>2
<1>11. /\ mLines' \in [0..(n - 1) -> Objects \cup {Null}] /\ Distinct(mLines')
       /\ \A s \in slots : mLines'[s] # Null
       /\ \A s \in 0..(n - 1) : mLines[s] # Null => mLines'[s] # Null
  <2> HIDE DEF slots
  <2>1. /\ With(mLines, new) \in [0..(n - 1) -> Objects \cup {Null}]
        /\ Distinct(With(mLines, new))
        /\ \A s \in slots : With(mLines, new)[s] # Null
        /\ \A s \in 0..(n - 1) : mLines[s] # Null => With(mLines, new)[s] = mLines[s]
    BY <1>1, <1>3, <1>4, <1>10, Allocating, LinesAssumption
  <2> QED BY <1>1, <2>1
<1>12. TypeOK'
  <2>1. mTotalRows' \in 1..TotalRows /\ mScreenRows' \in 1..mTotalRows'
        /\ mActiveTranscriptRows' \in 0..(mTotalRows' - mScreenRows')
    BY <1>2, <1>4, <1>7
  <2>2. mScreenFirstRow' \in Nat /\ mScreenFirstRow' < n
        /\ n \in mTotalRows'..TotalRows
    BY <1>2, <1>4, <1>7
  <2>3. altScreen' \in BOOLEAN
    <3>1. altScreen \in BOOLEAN /\ altScreen' = altScreen
      BY <1>2, InvariantFacts
    <3> QED BY <3>1, Zenon
  <2> QED BY <2>1, <2>2, <2>3, <1>7, <1>11 DEF TypeOK
<1>13. ASSUME NEW row \in ActiveRows'
       PROVE  mLines'[ExternalToInternalRow(row)'] # Null
  <2> DEFINE p == row + shift
  <2>1. row \in (-(active + shift))..(newRows - 1)
    BY <1>2, <1>7 DEF ActiveRows
  <2>2. /\ row \in (1 - T)..T /\ p \in (-active)..(newRows - 1 + shift)
        /\ p \in (1 - T)..(T - 1)
    BY <2>1, <1>2, <1>4, <1>5
  <2>3. ExternalToInternalRow(row)' = Position(first, T, p)
    <3>1. ExternalToInternalRow(row)' = SlotOf(mScreenFirstRow', T, row)
      BY <1>2, Zenon DEF ExternalToInternalRow, SlotOf
    <3>2. PICK f \in 0..(T - 1) : f = mScreenFirstRow'  BY <1>7
    <3>3. SlotOf(f, T, row) = Position(f, T, row)
      BY <2>2, <3>2, <1>4, SlotOfPosition
    <3>4. Position(f, T, row) = Position(first, T, p)
      BY <2>1, <2>2, <3>2, <1>2, <1>4, <1>5, <1>6 DEF Position
    <3> QED BY <3>1, <3>2, <3>3, <3>4
  <2>4. Position(first, T, p) \in 0..(n - 1)  BY <2>2, <1>4 DEF Position
  <2>5. SlotOf(first, T, p) = Position(first, T, p)
    <3>1. p \in (1 - T)..T  BY <2>2, <1>4
    <3> HIDE DEF p
    <3> QED BY <3>1, <1>4, SlotOfPosition
  <2>6. CASE p <= mScreenRows - 1
    <3>1. p \in ActiveRows  BY <2>2, <2>6, <1>4, <1>5 DEF ActiveRows
    <3> HIDE DEF p
    <3>2. mLines[Position(first, T, p)] # Null
      BY <3>1, <2>5, InvariantFacts, SlotsOfRows
    <3> QED BY <3>2, <2>3, <2>4, <1>11
  <2>7. CASE p > mScreenRows - 1
    <3>1. newRows > mScreenRows  BY <2>2, <2>7, <1>4, <1>5
    <3>2. p - mScreenRows \in 0..(newRows - mScreenRows + shift - 1)
          /\ first + mScreenRows + (p - mScreenRows) = first + p
      BY <2>2, <2>7, <1>4, <1>5
    <3>3. ~(first + p < 0)  BY <2>2, <2>7, <1>4
    <3>4. (first + p) % T = Position(first, T, p)  BY <2>5, <3>3 DEF SlotOf
    <3> HIDE DEF p
    <3>5. Position(first, T, p) \in Revealed(newRows)
      BY <3>2, <3>4, <1>9
    <3> QED BY <3>1, <3>5, <2>3, <1>11
  <2> QED BY <2>2, <2>6, <2>7, <1>4
<1>14. RowsAreTheirOwn'
  BY <1>11, <1>13 DEF RowsAreTheirOwn, Distinct, Slots
<1>15. RingIsWhole'  BY <1>2, <1>4 DEF RingIsWhole
<1> QED BY <1>12, <1>14, <1>15 DEF RingInvariant

\* The alternative buffer's ring gets as small as its screen.
LEMMA FastResizeAlt ==
  ASSUME RingInvariant, NEW newRows \in Nat \ {0}, altScreen,
         FastResize(newRows)
  PROVE  RingInvariant'
<1> DEFINE T == mTotalRows
           shift == ShiftDownOfTopRow(newRows)
<1>1. newRows <= T /\ mScreenRows = T /\ T \in Nat \ {0} /\ T <= TotalRows
      /\ mScreenFirstRow \in Nat /\ cursorRow \in Nat /\ TotalRows \in Nat
      /\ Distinct(mLines)
  BY InvariantFacts, SizesAssumption, Zenon DEF FastResize, FastResizeClearing
<1>2. shift \in 0..(T - newRows)  BY <1>1, ShiftIsBounded
<1>3. ~(newRows > mScreenRows) /\ ~(mScreenFirstRow + shift < 0)
  <2> HIDE DEF shift
  <2> QED BY <1>1, <1>2
<1>4. PICK new \in Allocations(mLines, {}) : mLines' = With(mLines, new)
  BY <1>3, Zenon DEF FastResize, FastResizeClearing
<1>5. /\ mScreenFirstRow' = (mScreenFirstRow + shift) % T
      /\ mTotalRows' = newRows /\ mScreenRows' = newRows
      /\ mActiveTranscriptRows' = 0 /\ altScreen' = altScreen
      /\ cursorRow' = Greater(0, cursorRow - shift)
  BY <1>3, Zenon DEF FastResize, FastResizeClearing
<1>6. PICK n \in mTotalRows..TotalRows :
        mScreenFirstRow < n /\ mLines \in [0..(n - 1) -> Objects \cup {Null}]
  BY InvariantFacts
<1> HIDE DEF shift
<1>7. mScreenFirstRow' \in 0..(T - 1)
  <2>1. mScreenFirstRow + shift \in Int  BY <1>1, <1>2
  <2> QED BY <2>1, <1>1, <1>5, DivMod
<1>8. mLines' = mLines
  <2>1. n \in Nat /\ {} \in SUBSET (0..(n - 1))  BY <1>1, <1>6
  <2> QED BY <2>1, <1>1, <1>4, <1>6, Allocating, LinesAssumption
<1>9. TypeOK'
  <2>1. cursorRow' \in Nat
    <3>1. shift \in Int  BY <1>1, <1>2
    <3> QED BY <3>1, <1>1, <1>5 DEF Greater
  <2>2. mTotalRows' \in 1..TotalRows /\ mScreenRows' \in 1..mTotalRows'
        /\ mActiveTranscriptRows' \in 0..(mTotalRows' - mScreenRows')
    BY <1>1, <1>5
  <2>3. mScreenFirstRow' \in Nat /\ mScreenFirstRow' < n
        /\ n \in mTotalRows'..TotalRows
    BY <1>1, <1>5, <1>6, <1>7
  <2>4. altScreen' \in BOOLEAN  BY <1>5
  <2> QED BY <2>1, <2>2, <2>3, <2>4, <1>6, <1>8 DEF TypeOK
<1>10. \A s \in 0..(newRows - 1) : mLines'[s] # Null
  <2>1. \A s \in 0..(T - 1) : mLines[s] # Null  BY InvariantFacts DEF Full
  <2>2. \A s \in 0..(newRows - 1) : s \in 0..(T - 1)  BY <1>1
  <2> QED BY <2>1, <2>2, <1>8
<1>11. ASSUME NEW row \in ActiveRows'
       PROVE  mLines'[ExternalToInternalRow(row)'] # Null
  <2>1. row \in (-newRows)..newRows  BY <1>5 DEF ActiveRows
  <2>2. ExternalToInternalRow(row)' = SlotOf(mScreenFirstRow', newRows, row)
    BY <1>5, Zenon DEF ExternalToInternalRow, SlotOf
  <2>3. PICK f \in Nat : f = mScreenFirstRow'  BY <1>1, <1>7
  <2>4. SlotOf(f, newRows, row) \in 0..(newRows - 1)  BY <2>1, SlotInRing
  <2> QED BY <2>2, <2>3, <2>4, <1>10
<1>12. RowsAreTheirOwn'
  BY <1>1, <1>8, <1>11 DEF RowsAreTheirOwn, Distinct, Slots
<1>13. RingIsWhole'  BY <1>5, <1>10 DEF RingIsWhole
<1> QED BY <1>9, <1>12, <1>13 DEF RingInvariant

LEMMA SlowResizeStep ==
  ASSUME RingInvariant, NEW newRows \in Nat \ {0}, newRows <= TotalRows,
         SlowResize(newRows)
  PROVE  RingInvariant'
<1> DEFINE total == IF altScreen THEN newRows ELSE mTotalRows
<1>1. PICK scrolls \in 0..MaxScrolls :
        /\ mTotalRows' = total /\ mScreenRows' = newRows
        /\ mLines' = [s \in 0..(total - 1) |-> s]
        /\ mScreenFirstRow' = scrolls % total
        /\ mActiveTranscriptRows' = Lesser(scrolls, total - newRows)
        /\ cursorRow' \in 0..(newRows - 1) /\ altScreen' = altScreen
  BY Zenon DEF SlowResize
<1>2. /\ total \in Nat \ {0} /\ newRows <= total /\ total <= TotalRows
      /\ TotalRows \in Nat /\ altScreen \in BOOLEAN
      /\ (altScreen => total = newRows) /\ (~altScreen => total = TotalRows)
  BY InvariantFacts, SizesAssumption
<1>3. scrolls \in Nat /\ scrolls \in Int  BY SizesAssumption
<1> HIDE DEF total
<1>4. mScreenFirstRow' \in 0..(total - 1)  BY <1>1, <1>2, <1>3, DivMod
<1>5. mActiveTranscriptRows' \in 0..(total - newRows)
  BY <1>1, <1>2, <1>3 DEF Lesser
<1>6. mLines' \in [0..(total - 1) -> Objects \cup {Null}]
  BY <1>1, <1>2 DEF Objects
<1>7. TypeOK'
  <2>1. /\ altScreen' \in BOOLEAN /\ cursorRow' \in Nat
        /\ mTotalRows' \in 1..TotalRows /\ mScreenRows' \in 1..mTotalRows'
        /\ mActiveTranscriptRows' \in 0..(mTotalRows' - mScreenRows')
        /\ mScreenFirstRow' \in Nat /\ mScreenFirstRow' < total
        /\ total \in mTotalRows'..TotalRows
    BY <1>1, <1>2, <1>4, <1>5
  <2> QED BY <2>1, <1>6 DEF TypeOK
<1>8. \A s \in 0..(total - 1) : mLines'[s] # Null
  BY <1>1, <1>2, LinesAssumption
<1>9. ASSUME NEW row \in ActiveRows'
      PROVE  mLines'[ExternalToInternalRow(row)'] # Null
  <2>1. row \in (-total)..total  BY <1>1, <1>2, <1>5 DEF ActiveRows
  <2>2. ExternalToInternalRow(row)' = SlotOf(mScreenFirstRow', total, row)
    BY <1>1, Zenon DEF ExternalToInternalRow, SlotOf
  <2>3. PICK f \in Nat : f = mScreenFirstRow'  BY <1>2, <1>4
  <2>4. SlotOf(f, total, row) \in 0..(total - 1)  BY <2>1, <1>2, SlotInRing
  <2> QED BY <2>2, <2>3, <2>4, <1>8
<1>10. RowsAreTheirOwn'
  BY <1>1, <1>9 DEF RowsAreTheirOwn, Slots
<1>11. RingIsWhole'  BY <1>1, <1>2, <1>8 DEF RingIsWhole
<1> QED BY <1>7, <1>10, <1>11 DEF RingInvariant

-----------------------------------------------------------------------------
LEMMA RingStep ==
  ASSUME RingInvariant, [Next]_vars
  PROVE  RingInvariant'
<1>1. mScreenRows \in Nat /\ cursorRow \in Nat  BY InvariantFacts
<1>2. ASSUME NEW top \in 0..mScreenRows, NEW bottom \in 0..mScreenRows,
             ScrollDownOneLine(top, bottom)
      PROVE  RingInvariant'
  <2>1. top \in Int /\ bottom \in Int  OBVIOUS
  <2> QED BY <1>2, <2>1, ScrollStep
<1>3. ASSUME NEW sy \in 0..mScreenRows, NEW h \in 0..mScreenRows,
             NEW line \in Lines, BlockSet(sy, h, line)
      PROVE  RingInvariant'
  <2>1. sy \in Int /\ h \in Int  OBVIOUS
  <2> QED BY <1>3, <2>1, BlockSetStep
<1>4. ASSUME NEW sy \in 0..mScreenRows, NEW h \in 0..mScreenRows,
             NEW dy \in 0..mScreenRows, BlockCopy(sy, h, dy)
      PROVE  RingInvariant'
  <2>1. UNCHANGED <<mLines, ring, altScreen>> /\ cursorRow' = cursorRow
    BY <1>4, Zenon DEF BlockCopy, CopyLines
  <2> QED BY <2>1, <1>1, RowsUntouchedStep
<1>5. ASSUME NEW row \in 0..(mScreenRows - 1), MoveCursor(row)
      PROVE  RingInvariant'
  <2>1. UNCHANGED <<mLines, ring, altScreen>> /\ cursorRow' = row
    BY <1>5, Zenon DEF MoveCursor
  <2>2. row \in Nat  OBVIOUS
  <2> QED BY <2>1, <2>2, RowsUntouchedStep
<1>6. ASSUME NEW newRows \in Heights, Resize(newRows)
      PROVE  RingInvariant'
  <2>1. newRows \in Nat \ {0} /\ newRows <= TotalRows  BY SizesAssumption
  <2>2. CASE FastResize(newRows)
    BY <2>1, <2>2, FastResizeMain, FastResizeAlt
  <2>3. CASE SlowResize(newRows)  BY <2>1, <2>3, SlowResizeStep
  <2> QED BY <1>6, <2>2, <2>3 DEF Resize
<1>7. CASE ClearTranscript  BY <1>7, ClearTranscriptStep
<1>8. CASE UNCHANGED vars
  <2>1. UNCHANGED <<mLines, ring, altScreen>> /\ cursorRow' = cursorRow
    BY <1>8, Zenon DEF vars
  <2> QED BY <2>1, <1>1, RowsUntouchedStep
<1> QED BY <1>2, <1>3, <1>4, <1>5, <1>6, <1>7, <1>8, Zenon DEF Next

\* The ring: for every number of lines, all the heights the view may give, and
\* all sequences of scrolls, block operations, resizes and clears.
THEOREM RingHolds == Spec => []RingInvariant
<1>1. Init => RingInvariant  BY InitStep
<1>2. RingInvariant /\ [Next]_vars => RingInvariant'  BY RingStep
<1> QED BY <1>1, <1>2, PTL DEF Spec

\* Row objects: none is in two slots of TerminalBuffer.mLines, and none is
\* missing from the screen or the transcript (allocateFullLineIfNecessary()).
THEOREM RowsStayTheirOwn == Spec => []RowsAreTheirOwn
<1>1. RingInvariant => RowsAreTheirOwn  BY DEF RingInvariant
<1> QED BY <1>1, RingHolds, PTL

\* Types: the counters stay within the ring they count in.
THEOREM BufferTypes == Spec => []TypeOK
<1>1. RingInvariant => TypeOK  BY DEF RingInvariant
<1> QED BY <1>1, RingHolds, PTL

-----------------------------------------------------------------------------
(* What is shown: the transcript and the screen as sequences of lines. *)

Hist == [i \in 1..mActiveTranscriptRows |-> LineAt(i - 1 - mActiveTranscriptRows)]
Scr == [i \in 1..mScreenRows |-> LineAt(i - 1)]

\* All of it, by row.
View == [row \in ActiveRows |-> LineAt(row)]

BufferInvariant == RingInvariant /\ text \in [Objects -> Lines]

\* Rows that are active have a slot of the ring, a row object and a line.
LEMMA ShownLines ==
  ASSUME BufferInvariant, NEW row \in ActiveRows
  PROVE  /\ ExternalToInternalRow(row) \in 0..(mTotalRows - 1)
         /\ mLines[ExternalToInternalRow(row)] \in Objects
         /\ LineAt(row) = text[mLines[ExternalToInternalRow(row)]]
         /\ LineAt(row) \in Lines
<1> DEFINE slot == ExternalToInternalRow(row)
<1>0. RingInvariant /\ text \in [Objects -> Lines]  BY DEF BufferInvariant
<1>1. PICK n \in mTotalRows..TotalRows :
        mScreenFirstRow < n /\ mLines \in [0..(n - 1) -> Objects \cup {Null}]
  BY <1>0, InvariantFacts
<1>2. /\ mTotalRows \in Nat \ {0} /\ mScreenRows \in 1..mTotalRows
      /\ mActiveTranscriptRows \in 0..(mTotalRows - mScreenRows)
      /\ mScreenFirstRow \in Nat
  BY <1>0, InvariantFacts
<1>3. row \in (-mTotalRows)..mTotalRows  BY <1>2 DEF ActiveRows
<1>4. slot \in 0..(mTotalRows - 1)  BY <1>2, <1>3, SlotInRing, SlotsOfRows
<1>5. mLines[slot] # Null  BY <1>0, InvariantFacts
<1>6. slot \in 0..(n - 1)
  <2> HIDE DEF slot
  <2> QED BY <1>1, <1>2, <1>4
<1>7. LineAt(row) = IF mLines[slot] = Null THEN Null ELSE text[mLines[slot]]
  BY Zenon DEF LineAt
<1> HIDE DEF slot
<1>8. mLines[slot] \in Objects  BY <1>1, <1>5, <1>6
<1>9. LineAt(row) = text[mLines[slot]] /\ LineAt(row) \in Lines
  BY <1>0, <1>5, <1>7, <1>8
<1> QED BY <1>4, <1>8, <1>9 DEF slot

\* Functions that are sequences of lines.
LEMMA SeqOfLines ==
  ASSUME NEW n \in Nat, NEW s \in [1..n -> Lines]
  PROVE  s \in Seq(Lines) /\ Len(s) = n
<1>1. s \in Seq(Lines)  BY SeqDef
<1>2. DOMAIN s = 1..Len(s) /\ Len(s) \in Nat  BY <1>1, LenProperties
<1> QED BY <1>1, <1>2

Shown ==
  /\ View \in [ActiveRows -> Lines]
  /\ Hist \in Seq(Lines) /\ Len(Hist) = mActiveTranscriptRows
  /\ \A i \in 1..mActiveTranscriptRows :
       Hist[i] = View[i - 1 - mActiveTranscriptRows]
  /\ Scr \in Seq(Lines) /\ Len(Scr) = mScreenRows
  /\ \A i \in 1..mScreenRows : Scr[i] = View[i - 1]

\* The transcript and the screen are sequences of lines, row by row.
LEMMA ShownSeqs == BufferInvariant => Shown
<1> HAVE BufferInvariant
<1>1. mActiveTranscriptRows \in Nat /\ mScreenRows \in Nat
  BY InvariantFacts DEF BufferInvariant
<1>2. \A row \in ActiveRows : LineAt(row) \in Lines  BY ShownLines
<1>3. View \in [ActiveRows -> Lines] /\ \A row \in ActiveRows : View[row] = LineAt(row)
  BY <1>2 DEF View
<1>4. Hist \in [1..mActiveTranscriptRows -> Lines]
      /\ \A i \in 1..mActiveTranscriptRows :
           Hist[i] = View[i - 1 - mActiveTranscriptRows]
  <2>1. \A i \in 1..mActiveTranscriptRows :
          i - 1 - mActiveTranscriptRows \in ActiveRows
    BY <1>1 DEF ActiveRows
  <2> QED BY <2>1, <1>2, <1>3 DEF Hist
<1>5. Scr \in [1..mScreenRows -> Lines]
      /\ \A i \in 1..mScreenRows : Scr[i] = View[i - 1]
  <2>1. \A i \in 1..mScreenRows : i - 1 \in ActiveRows  BY <1>1 DEF ActiveRows
  <2> QED BY <2>1, <1>2, <1>3 DEF Scr
<1>6. Hist \in Seq(Lines) /\ Len(Hist) = mActiveTranscriptRows
  BY <1>1, <1>4, SeqOfLines
<1>7. Scr \in Seq(Lines) /\ Len(Scr) = mScreenRows
  BY <1>1, <1>5, SeqOfLines
<1> QED BY <1>3, <1>4, <1>5, <1>6, <1>7 DEF Shown

\* A stretch of a sequence.
LEMMA Cut ==
  ASSUME NEW s \in Seq(Lines), NEW a \in 1..(Len(s) + 1), NEW b \in 0..Len(s),
         a <= b + 1
  PROVE  /\ SubSeq(s, a, b) \in Seq(Lines) /\ Len(SubSeq(s, a, b)) = b + 1 - a
         /\ \A i \in 1..(b + 1 - a) : SubSeq(s, a, b)[i] = s[a - 1 + i]
<1>1. Len(s) \in Nat /\ s \in [1..Len(s) -> Lines]  BY LenProperties
<1>2. \A i \in a..b : s[i] \in Lines  BY <1>1
<1>3. a \in Int /\ b \in Int  BY <1>1
<1>4. /\ SubSeq(s, a, b) \in Seq(Lines)
      /\ Len(SubSeq(s, a, b)) = (IF a <= b THEN b - a + 1 ELSE 0)
      /\ \A i \in 1..(b - a + 1) : SubSeq(s, a, b)[i] = s[a + i - 1]
  BY <1>2, <1>3, SubSeqProperties
<1>5. b - a + 1 = b + 1 - a /\ \A i \in Int : a + i - 1 = a - 1 + i
  BY <1>3
<1> QED BY <1>3, <1>4, <1>5

\* A sequence whose lines from a + 1 to b are replaced by others.
LEMMA Splice ==
  ASSUME NEW s \in Seq(Lines), NEW m \in Seq(Lines),
         NEW a \in 0..Len(s), NEW b \in 0..Len(s), a <= b,
         Len(m) = b - a
  PROVE  LET r == SubSeq(s, 1, a) \o m \o SubSeq(s, b + 1, Len(s))
         IN /\ r \in Seq(Lines) /\ Len(r) = Len(s)
            /\ \A i \in 1..Len(s) : r[i] = IF i > a /\ i <= b THEN m[i - a] ELSE s[i]
<1> DEFINE front == SubSeq(s, 1, a)
           back == SubSeq(s, b + 1, Len(s))
           start == front \o m
           r == start \o back
<1>1. Len(s) \in Nat /\ Len(m) \in Nat  BY LenProperties
<1>2. /\ front \in Seq(Lines) /\ Len(front) = a
      /\ \A i \in 1..a : front[i] = s[i]
  <2>1. 1 \in 1..(Len(s) + 1) /\ 1 <= a + 1  BY <1>1
  <2>2. /\ front \in Seq(Lines) /\ Len(front) = a + 1 - 1
        /\ \A i \in 1..(a + 1 - 1) : front[i] = s[1 - 1 + i]
    BY <2>1, Cut
  <2> QED BY <2>2, <1>1
<1>3. /\ back \in Seq(Lines) /\ Len(back) = Len(s) - b
      /\ \A i \in 1..(Len(s) - b) : back[i] = s[b + i]
  <2>1. b + 1 \in 1..(Len(s) + 1) /\ Len(s) \in 0..Len(s) /\ b + 1 <= Len(s) + 1
    BY <1>1
  <2>2. /\ back \in Seq(Lines) /\ Len(back) = Len(s) + 1 - (b + 1)
        /\ \A i \in 1..(Len(s) + 1 - (b + 1)) : back[i] = s[b + 1 - 1 + i]
    BY <2>1, Cut
  <2> QED BY <2>2, <1>1
<1> HIDE DEF front, back
<1>4. /\ start \in Seq(Lines) /\ Len(start) = a + Len(m)
      /\ \A i \in 1..(a + Len(m)) : start[i] = IF i <= a THEN front[i] ELSE m[i - a]
  BY <1>2, ConcatProperties
<1> HIDE DEF start
<1>5. /\ r \in Seq(Lines) /\ Len(r) = Len(start) + Len(back)
      /\ \A i \in 1..(Len(start) + Len(back)) :
           r[i] = IF i <= Len(start) THEN start[i] ELSE back[i - Len(start)]
  BY <1>3, <1>4, ConcatProperties
<1> HIDE DEF r
<1>6. Len(start) = b /\ Len(start) + Len(back) = Len(s)  BY <1>1, <1>3, <1>4
<1>7. \A i \in 1..Len(s) : r[i] = IF i > a /\ i <= b THEN m[i - a] ELSE s[i]
  <2> TAKE i \in 1..Len(s)
  <2>1. CASE i <= a  BY <2>1, <1>1, <1>2, <1>4, <1>5, <1>6
  <2>2. CASE i > a /\ i <= b  BY <2>2, <1>1, <1>4, <1>5, <1>6
  <2>3. CASE i > b
    <3>1. i - b \in 1..(Len(s) - b) /\ b + (i - b) = i  BY <2>3, <1>1
    <3>2. r[i] = back[i - b]  BY <2>3, <1>5, <1>6
    <3>3. back[i - b] = s[i]  BY <3>1, <1>3
    <3> QED BY <3>2, <3>3, <2>3, <1>1
  <2> QED BY <2>1, <2>2, <2>3, <1>1
<1> QED BY <1>5, <1>6, <1>7 DEF front, back, start, r

-----------------------------------------------------------------------------

\* Active rows have different row objects.
ObjectsDiffer ==
  \A p, q \in ActiveRows :
    mLines[ExternalToInternalRow(p)] = mLines[ExternalToInternalRow(q)] => p = q

LEMMA ShownObjectsDiffer == RingInvariant => ObjectsDiffer
<1> SUFFICES ASSUME RingInvariant, NEW p \in ActiveRows, NEW q \in ActiveRows,
                    mLines[ExternalToInternalRow(p)] = mLines[ExternalToInternalRow(q)]
             PROVE  p = q
  BY DEF ObjectsDiffer
<1>1. /\ mTotalRows \in Nat \ {0} /\ mScreenRows \in 1..mTotalRows
      /\ mActiveTranscriptRows \in 0..(mTotalRows - mScreenRows)
      /\ mScreenFirstRow \in Nat
      /\ mActiveTranscriptRows > 0 => mScreenFirstRow < mTotalRows
  BY InvariantFacts
<1> DEFINE base == mScreenFirstRow + mTotalRows
<1>2. \A row \in ActiveRows :
        /\ ExternalToInternalRow(row) = Slot(base, mTotalRows, row)
        /\ ExternalToInternalRow(row) \in 0..(mTotalRows - 1)
        /\ mLines[ExternalToInternalRow(row)] # Null
  <2> TAKE row \in ActiveRows
  <2>1. row \in Int /\ -mTotalRows <= row /\ row \in (-mTotalRows)..mTotalRows
        /\ (mScreenFirstRow + row < 0 => mScreenFirstRow < mTotalRows)
    BY <1>1 DEF ActiveRows
  <2>2. ExternalToInternalRow(row) = Slot(base, mTotalRows, row)
    BY <2>1, <1>1, RowsAreSlots, SlotsOfRows
  <2>3. ExternalToInternalRow(row) \in 0..(mTotalRows - 1)
    BY <2>1, <1>1, SlotInRing, SlotsOfRows
  <2>4. mLines[ExternalToInternalRow(row)] # Null  BY InvariantFacts
  <2> QED BY <2>2, <2>3, <2>4
<1>3. Distinct(mLines)  BY InvariantFacts
<1>4. PICK n \in mTotalRows..TotalRows : mLines \in [0..(n - 1) -> Objects \cup {Null}]
  BY InvariantFacts
<1>5. \A s \in 0..(mTotalRows - 1) : s \in DOMAIN mLines  BY <1>1, <1>4
<1>6. ExternalToInternalRow(p) = ExternalToInternalRow(q)
  BY <1>2, <1>3, <1>5, Zenon DEF Distinct
<1>7. /\ p \in Int /\ q \in Int /\ p - q < mTotalRows /\ q - p < mTotalRows
      /\ base \in Int
  BY <1>1 DEF ActiveRows
<1> HIDE DEF base
<1>8. Slot(base, mTotalRows, p) = Slot(base, mTotalRows, q)  BY <1>2, <1>6
<1> QED BY <1>1, <1>7, <1>8, SlotsApart

\* What a step shows at a row that has a row object.
LEMMA ViewAfter ==
  ASSUME NEW row \in ActiveRows', mLines'[ExternalToInternalRow(row)'] \in Objects
  PROVE  View'[row] = text'[mLines'[ExternalToInternalRow(row)']]
<1>1. mLines'[ExternalToInternalRow(row)'] # Null
  BY LinesAssumption DEF Objects
<1>2. LineAt(row)' = IF mLines'[ExternalToInternalRow(row)'] = Null THEN Null
                     ELSE text'[mLines'[ExternalToInternalRow(row)']]
  BY Zenon DEF LineAt
<1>3. View'[row] = LineAt(row)'  BY Zenon DEF View
<1> QED BY <1>1, <1>2, <1>3

\* The same of the lines that are shown.
LEMMA ScrollLines ==
  ASSUME BufferInvariant, NEW top \in Int, NEW bottom \in Int,
         ScrollDownOneLine(top, bottom)
  PROVE  /\ ActiveRows' = (-mActiveTranscriptRows')..(mScreenRows - 1)
         /\ View'[bottom - 1] = Blank
         /\ \A row \in ActiveRows' : row # bottom - 1 =>
              /\ Origin(row, top, bottom) \in ActiveRows
              /\ View'[row] = View[Origin(row, top, bottom)]
<1>0. RingInvariant /\ RingInvariant'  BY ScrollStep DEF BufferInvariant
<1>1. /\ top \in 0..(bottom - 1) /\ bottom \in 1..mScreenRows
      /\ mActiveTranscriptRows'
           = (IF mActiveTranscriptRows < mTotalRows - mScreenRows
              THEN mActiveTranscriptRows + 1 ELSE mActiveTranscriptRows)
      /\ mScreenRows' = mScreenRows
      /\ \A row \in ActiveRows' : row # bottom - 1 =>
           mLines'[ExternalToInternalRow(row)']
             = mLines[ExternalToInternalRow(Origin(row, top, bottom))]
      /\ mLines'[ExternalToInternalRow(bottom - 1)'] \in Objects
      /\ text' = [r \in Objects |->
                    IF r = mLines'[ExternalToInternalRow(bottom - 1)']
                    THEN Blank ELSE text[r]]
  BY <1>0, ScrollMoves
<1>2. /\ mTotalRows \in Nat \ {0} /\ mScreenRows \in 1..mTotalRows
      /\ mActiveTranscriptRows \in 0..(mTotalRows - mScreenRows)
  BY <1>0, InvariantFacts
<1>3. ActiveRows' = (-mActiveTranscriptRows')..(mScreenRows - 1)
  BY <1>1 DEF ActiveRows
<1>4. View'[bottom - 1] = Blank
  <2>1. bottom - 1 \in ActiveRows'  BY <1>1, <1>2, <1>3
  <2>2. View'[bottom - 1] = text'[mLines'[ExternalToInternalRow(bottom - 1)']]
    BY <2>1, <1>1, ViewAfter
  <2> QED BY <2>2, <1>1
<1>5. ASSUME NEW row \in ActiveRows', row # bottom - 1
      PROVE  /\ Origin(row, top, bottom) \in ActiveRows
             /\ View'[row] = View[Origin(row, top, bottom)]
  <2> DEFINE o == mLines'[ExternalToInternalRow(row)']
             from == Origin(row, top, bottom)
  <2>1. from \in ActiveRows
    BY <1>1, <1>2, <1>3, <1>5 DEF Origin, ActiveRows
  <2>2. o = mLines[ExternalToInternalRow(from)]  BY <1>1, <1>5
  <2> HIDE DEF from
  <2>3. o \in Objects /\ View[from] = text[o]
    <3>1. View[from] = LineAt(from)  BY <2>1, Zenon DEF View
    <3> QED BY <3>1, <2>1, <2>2, ShownLines
  <2>4. o # mLines'[ExternalToInternalRow(bottom - 1)']
    <3>1. bottom - 1 \in ActiveRows'  BY <1>1, <1>2, <1>3
    <3>2. \A p, q \in ActiveRows' :
            mLines'[ExternalToInternalRow(p)'] = mLines'[ExternalToInternalRow(q)']
              => p = q
      <4>1. ObjectsDiffer'  BY <1>0, ShownObjectsDiffer, PTL
      <4> QED BY <4>1, Zenon DEF ObjectsDiffer
    <3> QED BY <3>1, <3>2, <1>5
  <2>5. View'[row] = text'[o]  BY <2>3, ViewAfter
  <2>6. text'[o] = text[o]  BY <2>3, <2>4, <1>1
  <2> QED BY <2>1, <2>3, <2>5, <2>6 DEF from
<1> QED BY <1>3, <1>4, <1>5

\* One line more.
LEMMA Appended ==
  ASSUME NEW s \in Seq(Lines), NEW e \in Lines
  PROVE  /\ Append(s, e) \in Seq(Lines) /\ Len(Append(s, e)) = Len(s) + 1
         /\ \A i \in 1..Len(s) : Append(s, e)[i] = s[i]
         /\ Append(s, e)[Len(s) + 1] = e
         /\ \A t \in Seq(Lines) : t \o Append(s, e) = t \o s \o <<e>>
<1>1. <<e>> \in Seq(Lines)  OBVIOUS
<1>2. /\ Append(s, e) \in Seq(Lines) /\ Len(Append(s, e)) = Len(s) + 1
      /\ \A i \in 1..Len(s) : Append(s, e)[i] = s[i]
      /\ Append(s, e)[Len(s) + 1] = e
  BY AppendProperties
<1>3. Append(s, e) = s \o <<e>>  BY AppendIsConcat
<1>4. \A t, u \in Seq(Lines) : t \o s \o u = t \o (s \o u)
  BY ConcatAssociative
<1> QED BY <1>1, <1>2, <1>3, <1>4, Zenon

\* What is shown before a step and after it.
LEMMA ShownBefore ==
  ASSUME BufferInvariant
  PROVE  /\ mTotalRows \in Nat \ {0} /\ mScreenRows \in 1..mTotalRows
         /\ mActiveTranscriptRows \in 0..(mTotalRows - mScreenRows)
         /\ View \in [ActiveRows -> Lines]
         /\ Hist \in Seq(Lines) /\ Len(Hist) = mActiveTranscriptRows
         /\ \A i \in 1..mActiveTranscriptRows :
              Hist[i] = View[i - 1 - mActiveTranscriptRows]
         /\ Scr \in Seq(Lines) /\ Len(Scr) = mScreenRows
         /\ \A i \in 1..mScreenRows : Scr[i] = View[i - 1]
<1>1. Shown  BY ShownSeqs
<1>2. RingInvariant  BY DEF BufferInvariant
<1>3. /\ mTotalRows \in Nat \ {0} /\ mScreenRows \in 1..mTotalRows
      /\ mActiveTranscriptRows \in 0..(mTotalRows - mScreenRows)
  BY <1>2, InvariantFacts
<1> QED BY <1>1, <1>3, Zenon DEF Shown

LEMMA ShownAfter ==
  ASSUME BufferInvariant'
  PROVE  /\ View' \in [ActiveRows' -> Lines]
         /\ Hist' \in Seq(Lines) /\ Len(Hist') = mActiveTranscriptRows'
         /\ \A i \in 1..mActiveTranscriptRows' :
              Hist'[i] = View'[i - 1 - mActiveTranscriptRows']
         /\ Scr' \in Seq(Lines) /\ Len(Scr') = mScreenRows'
         /\ \A i \in 1..mScreenRows' : Scr'[i] = View'[i - 1]
<1>1. Shown'  BY ShownSeqs, PTL
<1> QED BY <1>1, Zenon DEF Shown, Lines

\* Turning the ring scrolls the lines.
LEMMA ScrollImplements ==
  ASSUME BufferInvariant, BufferInvariant', NEW top \in Int, NEW bottom \in Int,
         ScrollDownOneLine(top, bottom)
  PROVE  Screen!Scroll(top, bottom)
<1> DEFINE active == mActiveTranscriptRows
<1>1. /\ mTotalRows \in Nat \ {0} /\ mScreenRows \in 1..mTotalRows
      /\ active \in 0..(mTotalRows - mScreenRows)
      /\ Hist \in Seq(Lines) /\ Len(Hist) = active
      /\ \A i \in 1..active : Hist[i] = View[i - 1 - active]
      /\ Scr \in Seq(Lines) /\ Len(Scr) = mScreenRows
      /\ \A i \in 1..mScreenRows : Scr[i] = View[i - 1]
  BY ShownBefore
<1>2. /\ top \in 0..(bottom - 1) /\ bottom \in 1..mScreenRows
      /\ active' = IF active < mTotalRows - mScreenRows THEN active + 1 ELSE active
      /\ UNCHANGED <<mTotalRows, mScreenRows, cursorRow, altScreen>>
  BY ScrollMoves DEF BufferInvariant
<1>3. /\ Hist' \in Seq(Lines) /\ Len(Hist') = active'
      /\ \A i \in 1..active' : Hist'[i] = View'[i - 1 - active']
      /\ Scr' \in Seq(Lines) /\ Len(Scr') = mScreenRows
      /\ \A i \in 1..mScreenRows : Scr'[i] = View'[i - 1]
  BY <1>2, ShownAfter
<1>4. /\ View'[bottom - 1] = Blank
      /\ \A row \in (-active')..(mScreenRows - 1) : row # bottom - 1 =>
            View'[row] = View[Origin(row, top, bottom)]
  <2>1. ActiveRows' = (-active')..(mScreenRows - 1)  BY <1>2, ScrollLines
  <2> QED BY <2>1, ScrollLines
<1> HIDE DEF active
<1>5. Blank \in Lines  BY DEF Lines
<1>6. Scr' = SubSeq(Scr, 1, top) \o SubSeq(Scr, top + 2, bottom)
             \o <<Blank>> \o SubSeq(Scr, bottom + 1, Len(Scr))
  <2> DEFINE front == SubSeq(Scr, 1, top)
             mid == SubSeq(Scr, top + 2, bottom)
             m == Append(mid, Blank)
             back == SubSeq(Scr, bottom + 1, Len(Scr))
             r == front \o m \o back
  <2>1. /\ mid \in Seq(Lines) /\ Len(mid) = bottom - 1 - top
        /\ \A i \in 1..(bottom - 1 - top) : mid[i] = Scr[top + 1 + i]
    <3>1. /\ top + 2 \in 1..(Len(Scr) + 1) /\ bottom \in 0..Len(Scr)
          /\ top + 2 <= bottom + 1
      BY <1>1, <1>2
    <3>2. /\ mid \in Seq(Lines) /\ Len(mid) = bottom + 1 - (top + 2)
          /\ \A i \in 1..(bottom + 1 - (top + 2)) : mid[i] = Scr[top + 2 - 1 + i]
      BY <3>1, <1>1, Cut
    <3> HIDE DEF mid
    <3> QED BY <3>2, <1>2
  <2> HIDE DEF mid
  <2>2. /\ m \in Seq(Lines) /\ Len(m) = bottom - top
        /\ \A i \in 1..(bottom - 1 - top) : m[i] = Scr[top + 1 + i]
        /\ m[bottom - top] = Blank
    <3>2. /\ m \in Seq(Lines) /\ Len(m) = Len(mid) + 1
          /\ \A i \in 1..Len(mid) : m[i] = mid[i]
          /\ m[Len(mid) + 1] = Blank
      BY <2>1, <1>5, Appended, Zenon
    <3>3. Len(mid) + 1 = bottom - top  BY <2>1, <1>2
    <3> HIDE DEF m
    <3> QED BY <2>1, <3>2, <3>3
  <2> HIDE DEF m
  <2>3. /\ r \in Seq(Lines) /\ Len(r) = Len(Scr)
        /\ \A i \in 1..Len(Scr) :
             r[i] = IF i > top /\ i <= bottom THEN m[i - top] ELSE Scr[i]
    <3>1. top \in 0..Len(Scr) /\ bottom \in 0..Len(Scr) /\ top <= bottom
      BY <1>1, <1>2
    <3> QED BY <3>1, <2>2, <1>1, Splice
  <2> HIDE DEF r
  <2>4. ASSUME NEW i \in 1..mScreenRows  PROVE Scr'[i] = r[i]
    <3>1. /\ i - 1 \in (-active')..(mScreenRows - 1)
          /\ Scr'[i] = View'[i - 1] /\ Scr[i] = View[i - 1]
      BY <1>1, <1>2, <1>3
    <3>2. CASE i = bottom  BY <3>2, <1>1, <1>2, <1>3, <1>4, <2>2, <2>3
    <3>3. CASE i <= top \/ bottom < i
      <4>1. Origin(i - 1, top, bottom) = i - 1 /\ i - 1 # bottom - 1
        BY <3>3, <1>2 DEF Origin
      <4>2. View'[i - 1] = View[Origin(i - 1, top, bottom)]
        <5>1. PICK row \in (-active')..(mScreenRows - 1) : row = i - 1
          BY <3>1
        <5> QED BY <5>1, <4>1, <1>4
      <4>3. Scr'[i] = Scr[i]  BY <4>1, <4>2, <3>1
      <4>4. r[i] = Scr[i]
        <5>1. i \in 1..Len(Scr) /\ ~(i > top /\ i <= bottom)
          BY <3>3, <1>1, <1>2
        <5> QED BY <5>1, <2>3
      <4> QED BY <4>3, <4>4
    <3>4. CASE top < i /\ i < bottom
      <4>1. Origin(i - 1, top, bottom) = i /\ i - 1 # bottom - 1
            /\ i + 1 \in 1..mScreenRows /\ (i + 1) - 1 = i
        BY <3>4, <1>1, <1>2 DEF Origin
      <4>2. Scr'[i] = Scr[i + 1]
        <5>1. Scr[i + 1] = View[(i + 1) - 1]  BY <4>1, <1>1
        <5>2. Scr'[i] = View[i]  BY <4>1, <3>1, <1>4
        <5> QED BY <4>1, <5>1, <5>2
      <4>3. r[i] = m[i - top]  BY <3>4, <1>1, <2>3
      <4>4. i - top \in 1..(bottom - 1 - top) /\ top + 1 + (i - top) = i + 1
        BY <3>4, <1>1, <1>2
      <4> QED BY <4>2, <4>3, <4>4, <2>2
    <3> QED BY <3>2, <3>3, <3>4, <1>1, <1>2
  <2>5. Scr' = r  BY <2>3, <2>4, <1>1, <1>3, SeqEqual
  <2>6. r = front \o mid \o <<Blank>> \o back
    <3>1. front \in Seq(Lines)
      <4>1. 1 \in 1..(Len(Scr) + 1) /\ top \in 0..Len(Scr) /\ 1 <= top + 1
        BY <1>1, <1>2
      <4> QED BY <4>1, <1>1, Cut
    <3> HIDE DEF front
    <3>2. front \o Append(mid, Blank) = front \o mid \o <<Blank>>
      BY <3>1, <2>1, <1>5, Appended, Zenon
    <3> QED BY <3>2, Zenon DEF r, m
  <2> QED BY <2>5, <2>6 DEF mid
<1>7. Hist' = SubSeq(Append(Hist, Scr[top + 1]),
                     Screen!Greater(1, Len(Append(Hist, Scr[top + 1]))
                                       - (mTotalRows - Len(Scr)) + 1),
                     Len(Append(Hist, Scr[top + 1])))
  <2> DEFINE app == Append(Hist, Scr[top + 1])
             a == IF active < mTotalRows - mScreenRows THEN 1 ELSE 2
             r == SubSeq(app, a, active + 1)
  <2>1. Scr[top + 1] \in Lines /\ Scr[top + 1] = View[top]
    <3>1. top + 1 \in 1..mScreenRows /\ (top + 1) - 1 = top  BY <1>1, <1>2
    <3>2. Scr \in [1..mScreenRows -> Lines]  BY <1>1, LenProperties
    <3>3. Scr[top + 1] \in Lines  BY <3>1, <3>2
    <3>4. Scr[top + 1] = View[(top + 1) - 1]  BY <3>1, <1>1
    <3> QED BY <3>1, <3>3, <3>4
  <2>2. /\ app \in Seq(Lines) /\ Len(app) = active + 1
        /\ \A i \in 1..active : app[i] = View[i - 1 - active]
        /\ app[active + 1] = View[top]
    <3>1. /\ app \in Seq(Lines) /\ Len(app) = Len(Hist) + 1
          /\ \A i \in 1..Len(Hist) : app[i] = Hist[i]
          /\ app[Len(Hist) + 1] = Scr[top + 1]
      BY <2>1, <1>1, Appended, Zenon
    <3> HIDE DEF app
    <3> QED BY <3>1, <2>1, <1>1
  <2> HIDE DEF app
  <2>3. Screen!Greater(1, Len(app) - (mTotalRows - Len(Scr)) + 1) = a
    BY <2>2, <1>1 DEF Screen!Greater
  <2>4. /\ r \in Seq(Lines) /\ Len(r) = active'
        /\ \A i \in 1..active' : r[i] = app[a - 1 + i]
    <3>1. /\ a \in 1..(Len(app) + 1) /\ active + 1 \in 0..Len(app)
          /\ a <= (active + 1) + 1
      BY <2>2, <1>1
    <3> HIDE DEF a
    <3>2. /\ r \in Seq(Lines) /\ Len(r) = (active + 1) + 1 - a
          /\ \A i \in 1..((active + 1) + 1 - a) : r[i] = app[a - 1 + i]
      BY <3>1, <2>2, Cut
    <3>3. (active + 1) + 1 - a = active'  BY <1>1, <1>2 DEF a
    <3> HIDE DEF r
    <3> QED BY <3>2, <3>3
  <2> HIDE DEF r
  <2>5. ASSUME NEW i \in 1..active'  PROVE Hist'[i] = r[i]
    <3>1. /\ i - 1 - active' \in (-active')..(mScreenRows - 1)
          /\ i - 1 - active' < 0 /\ i - 1 - active' # bottom - 1
      BY <1>1, <1>2
    <3>2. Hist'[i] = View[Origin(i - 1 - active', top, bottom)]
      BY <3>1, <1>3, <1>4
    <3>3. a - 1 + active' = active + 1  BY <1>1, <1>2
    <3>4. r[i] = app[a - 1 + i]  BY <2>4
    <3>5. CASE i = active'
      <4>1. Origin(i - 1 - active', top, bottom) = top
        BY <3>5, <1>1, <1>2 DEF Origin
      <4> HIDE DEF a
      <4> QED BY <4>1, <3>2, <3>3, <3>4, <3>5, <2>2
    <3>6. CASE i # active'
      <4>1. Origin(i - 1 - active', top, bottom) = i - active'
        BY <3>1, <3>6, <1>1, <1>2 DEF Origin
      <4>2. PICK k \in 1..active : k = a - 1 + i /\ k - 1 - active = i - active'
        BY <3>6, <1>1, <1>2
      <4> HIDE DEF a
      <4>3. app[k] = View[i - active']  BY <4>2, <2>2
      <4> QED BY <4>1, <4>2, <4>3, <3>2, <3>4
    <3> QED BY <3>5, <3>6
  <2>6. Hist' = r  BY <2>4, <2>5, <1>3, SeqEqual
  <2> HIDE DEF a
  <2> QED BY <2>2, <2>3, <2>6 DEF app, r
<1>8. top < bottom  BY <1>2
<1> QED BY <1>2, <1>6, <1>7, <1>8, Zenon DEF Screen!Scroll, Screen!Last, Hist, Scr

LEMMA LeastOf ==
  ASSUME NEW T \in SUBSET Nat, T # {}
  PROVE  \E m \in T : \A k \in T : m <= k
<1> DEFINE R == OpToRel(<, Nat)
<1>1. IsWellFoundedOn(R, Nat)  BY NatLessThanWellFounded, Zenon
<1>2. ASSUME NEW k \in Nat, NEW m \in Nat, k < m  PROVE <<k, m>> \in R
  <2>1. R = {ss \in Nat \X Nat : ss[1] < ss[2]}  BY Zenon DEF OpToRel
  <2>2. <<k, m>> \in {ss \in Nat \X Nat : ss[1] < ss[2]}
    BY <1>2
  <2> QED BY <2>1, <2>2, Zenon
<1> HIDE DEF R
<1>3. T \subseteq Nat  OBVIOUS
<1>4. PICK m \in T : \A k \in T : ~(<<k, m>> \in R)  BY <1>1, <1>3, WFMin, Zenon
<1>5. \A k \in T : ~(k < m)  BY <1>2, <1>4
<1> QED BY <1>4, <1>5

-----------------------------------------------------------------------------
(* Copying one line after the other. *)

\* f[y] is what the objects hold after y lines have been copied, the k-th of
\* them from the object src[k] to the object dst[k].
CopiedInTurn(f, h, src, dst, old) ==
  /\ f[0] = old
  /\ \A y \in 1..h : f[y] = [f[y - 1] EXCEPT ![dst[y - 1]] = f[y - 1][src[y - 1]]]

\* No line is overwritten before it has been copied.
ReadBeforeWritten(h, src, dst) ==
  /\ src \in [0..(h - 1) -> Objects] /\ dst \in [0..(h - 1) -> Objects]
  /\ \A j, k \in 0..(h - 1) : dst[j] = dst[k] => j = k
  /\ \A j, k \in 0..(h - 1) : j < k => dst[j] # src[k]

CopiedAtOnce(new, h, src, dst, old) ==
  /\ new \in [Objects -> Lines]
  /\ \A k \in 0..(h - 1) : new[dst[k]] = old[src[k]]
  /\ \A r \in Objects : (\A k \in 0..(h - 1) : r # dst[k]) => new[r] = old[r]

\* The recursive function of CopyLines exists: each of its values is the text
\* with the lines that have been copied so far.
LEMMA CopyingExists ==
  ASSUME NEW h \in Nat, NEW src, NEW dst, NEW old \in [Objects -> Lines],
         ReadBeforeWritten(h, src, dst)
  PROVE  \E g : g = [y \in 0..h |-> g[y]] /\ CopiedInTurn(g, h, src, dst, old)
<1> DEFINE idx(r) == CHOOSE k \in 0..(h - 1) : r = dst[k]
           at(y) == [r \in Objects |-> IF \E k \in 0..(y - 1) : r = dst[k]
                                       THEN old[src[idx(r)]] ELSE old[r]]
           g == [y \in 0..h |-> at(y)]
<1>0. /\ src \in [0..(h - 1) -> Objects] /\ dst \in [0..(h - 1) -> Objects]
      /\ \A j, k \in 0..(h - 1) : dst[j] = dst[k] => j = k
      /\ \A j, k \in 0..(h - 1) : j < k => dst[j] # src[k]
  BY Zenon DEF ReadBeforeWritten
<1>1. \A k \in 0..(h - 1) : idx(dst[k]) = k  BY <1>0
<1> HIDE DEF idx
<1>2. at(0) = old  OBVIOUS
<1>3. ASSUME NEW y \in 1..h
      PROVE  at(y) = [at(y - 1) EXCEPT ![dst[y - 1]] = at(y - 1)[src[y - 1]]]
  <2> DEFINE d == dst[y - 1]
             was == at(y - 1)
  <2>1. y - 1 \in 0..(h - 1) /\ d \in Objects /\ src[y - 1] \in Objects
    BY <1>0
  <2>2. was[src[y - 1]] = old[src[y - 1]]
    <3>1. \A k \in 0..((y - 1) - 1) : k \in 0..(h - 1) /\ k < y - 1  OBVIOUS
    <3>2. \A k \in 0..((y - 1) - 1) : src[y - 1] # dst[k]
      BY <2>1, <3>1, <1>0
    <3> QED BY <2>1, <3>2
  <2>3. at(y)[d] = old[src[y - 1]]
    <3>1. y - 1 \in 0..(y - 1)  OBVIOUS
    <3>2. \E k \in 0..(y - 1) : d = dst[k]  BY <3>1
    <3>3. idx(d) = y - 1  BY <2>1, <1>1
    <3> HIDE DEF d
    <3> QED BY <2>1, <3>2, <3>3
  <2>4. ASSUME NEW r \in Objects, r # d  PROVE at(y)[r] = was[r]
    <3>1. (\E k \in 0..(y - 1) : r = dst[k])
            <=> (\E k \in 0..((y - 1) - 1) : r = dst[k])
      <4>1. \A k \in 0..(y - 1) : k = y - 1 \/ k \in 0..((y - 1) - 1)  OBVIOUS
      <4>2. \A k \in 0..((y - 1) - 1) : k \in 0..(y - 1)  OBVIOUS
      <4> QED BY <4>1, <4>2, <2>4
    <3> QED BY <3>1
  <2>5. at(y) = [r \in Objects |-> at(y)[r]] /\ was = [r \in Objects |-> was[r]]
    OBVIOUS
  <2> HIDE DEF at, was
  <2>6. at(y) = [was EXCEPT ![d] = was[src[y - 1]]]
    BY <2>1, <2>2, <2>3, <2>4, <2>5
  <2> QED BY <2>6 DEF was, d
<1> HIDE DEF at
<1>4. \A y \in 1..h : y \in 0..h /\ y - 1 \in 0..h  OBVIOUS
<1>5. g[0] = at(0)  OBVIOUS
<1>6. \A y \in 1..h : g[y] = at(y) /\ g[y - 1] = at(y - 1)  BY <1>4
<1>7. g = [y \in 0..h |-> g[y]]  OBVIOUS
<1> HIDE DEF g
<1>8. \A y \in 1..h : g[y] = [g[y - 1] EXCEPT ![dst[y - 1]] = g[y - 1][src[y - 1]]]
  BY <1>3, <1>6
<1> QED BY <1>2, <1>5, <1>7, <1>8, Zenon DEF CopiedInTurn

\* When no line is read after it has been written, copying in turn is copying
\* at once: in a least step that differed the one before would differ too.
LEMMA CopyingInTurn ==
  ASSUME NEW h \in Nat, NEW src, NEW dst, NEW old \in [Objects -> Lines],
         ReadBeforeWritten(h, src, dst), NEW f, CopiedInTurn(f, h, src, dst, old)
  PROVE  CopiedAtOnce(f[h], h, src, dst, old)
<1> DEFINE good(y) == CopiedAtOnce(f[y], y, src, dst, old)
           bad == {y \in 0..h : ~good(y)}
<1>0. /\ src \in [0..(h - 1) -> Objects] /\ dst \in [0..(h - 1) -> Objects]
      /\ \A j, k \in 0..(h - 1) : dst[j] = dst[k] => j = k
      /\ \A j, k \in 0..(h - 1) : j < k => dst[j] # src[k]
  BY Zenon DEF ReadBeforeWritten
<1>1. /\ f[0] = old
      /\ \A y \in 1..h : f[y] = [f[y - 1] EXCEPT ![dst[y - 1]] = f[y - 1][src[y - 1]]]
  BY Zenon DEF CopiedInTurn
<1>2. good(0)  BY <1>1 DEF CopiedAtOnce
<1>3. ASSUME NEW y \in 1..h, good(y - 1)  PROVE good(y)
  <2> DEFINE was == f[y - 1]
             now == f[y]
             d == dst[y - 1]
             s == src[y - 1]
  <2>1. /\ was \in [Objects -> Lines]
        /\ \A k \in 0..((y - 1) - 1) : was[dst[k]] = old[src[k]]
        /\ \A r \in Objects : (\A k \in 0..((y - 1) - 1) : r # dst[k])
                                => was[r] = old[r]
    BY <1>3, Zenon DEF CopiedAtOnce
  <2>2. now = [was EXCEPT ![d] = was[s]]  BY <1>1
  <2>3. y - 1 \in 0..(h - 1) /\ d \in Objects /\ s \in Objects  BY <1>0
  <2>4. \A k \in 0..((y - 1) - 1) : k \in 0..(h - 1) /\ k < y - 1  OBVIOUS
  <2>5. was[s] = old[s]
    <3>1. \A k \in 0..((y - 1) - 1) : s # dst[k]  BY <2>3, <2>4, <1>0
    <3> QED BY <2>1, <2>3, <3>1
  <2>6. \A k \in 0..((y - 1) - 1) : dst[k] # d /\ dst[k] \in Objects
    BY <2>3, <2>4, <1>0
  <2>7. \A k \in 0..(y - 1) : k = y - 1 \/ k \in 0..((y - 1) - 1)  OBVIOUS
  <2>8. \A k \in 0..((y - 1) - 1) : k \in 0..(y - 1)  OBVIOUS
  <2>9. y - 1 \in 0..(y - 1)  OBVIOUS
  <2> HIDE DEF was, now
  <2>10. now \in [Objects -> Lines]  BY <2>1, <2>2, <2>3
  <2>11. \A k \in 0..(y - 1) : now[dst[k]] = old[src[k]]
    <3> TAKE k \in 0..(y - 1)
    <3>1. CASE k = y - 1  BY <3>1, <2>1, <2>2, <2>3, <2>5
    <3>2. CASE k \in 0..((y - 1) - 1)  BY <3>2, <2>1, <2>2, <2>6
    <3> QED BY <3>1, <3>2, <2>7
  <2>12. \A r \in Objects : (\A k \in 0..(y - 1) : r # dst[k]) => now[r] = old[r]
    <3> TAKE r \in Objects
    <3> HAVE \A k \in 0..(y - 1) : r # dst[k]
    <3>1. r # d /\ \A k \in 0..((y - 1) - 1) : r # dst[k]  BY <2>8, <2>9
    <3> QED BY <3>1, <2>1, <2>2
  <2> QED BY <2>10, <2>11, <2>12 DEF CopiedAtOnce, now
<1> HIDE DEF good
<1>4. bad = {}
  <2> SUFFICES ASSUME bad # {}  PROVE FALSE  OBVIOUS
  <2>1. bad \in SUBSET Nat  OBVIOUS
  <2>2. PICK m \in bad : \A k \in bad : m <= k  BY <2>1, LeastOf
  <2>3. m \in 0..h /\ ~good(m)  OBVIOUS
  <2>4. m # 0  BY <2>3, <1>2
  <2>5. m \in 1..h /\ m - 1 \in 0..h /\ ~(m <= m - 1)  BY <2>3, <2>4
  <2>6. good(m - 1)  BY <2>2, <2>5
  <2> QED BY <2>3, <2>5, <2>6, <1>3
<1>5. good(h)  BY <1>4
<1> QED BY <1>5 DEF good

\* Rows of the screen have slots, row objects and lines.
LEMMA ScreenRow ==
  ASSUME BufferInvariant, NEW row \in 0..(mScreenRows - 1)
  PROVE  /\ row \in ActiveRows
         /\ ExternalToInternalRow(row) \in 0..(mTotalRows - 1)
         /\ mLines[ExternalToInternalRow(row)] \in Objects
         /\ View[row] = text[mLines[ExternalToInternalRow(row)]]
<1>1. row \in ActiveRows
  <2>1. mActiveTranscriptRows \in Nat /\ mScreenRows \in Nat
    BY InvariantFacts DEF BufferInvariant
  <2> QED BY <2>1 DEF ActiveRows
<1>2. View[row] = LineAt(row)  BY <1>1, Zenon DEF View
<1> QED BY <1>1, <1>2, ShownLines

\* blockCopy() goes through the lines in the direction in which it reads before
\* it writes.
LEMMA CopyLinesMoves ==
  ASSUME BufferInvariant, NEW sy \in Nat, NEW h \in Nat, NEW dy \in Nat,
         BlockCopy(sy, h, dy)
  PROVE  /\ sy + h <= mScreenRows /\ dy + h <= mScreenRows
         /\ UNCHANGED <<mLines, ring, cursorRow, altScreen>>
         /\ text' \in [Objects -> Lines]
         /\ \A i \in 0..(h - 1) :
              text'[mLines[ExternalToInternalRow(dy + i)]]
                = text[mLines[ExternalToInternalRow(sy + i)]]
         /\ \A r \in Objects :
              (\A i \in 0..(h - 1) : r # mLines[ExternalToInternalRow(dy + i)])
                => text'[r] = text[r]
<1> DEFINE up == sy > dy
           Row(y) == mLines[ExternalToInternalRow(y)]
           line(y) == IF up THEN y ELSE h - (y + 1)
           step(f) == [y \in 0..h |->
                         IF y = 0 THEN text
                         ELSE [f[y - 1] EXCEPT ![Row(dy + line(y - 1))] =
                                                  f[y - 1][Row(sy + line(y - 1))]]]
           copied == CHOOSE f : f = step(f)
           src == [k \in 0..(h - 1) |-> Row(sy + line(k))]
           dst == [k \in 0..(h - 1) |-> Row(dy + line(k))]
<1>1. /\ sy + h <= mScreenRows /\ dy + h <= mScreenRows
      /\ UNCHANGED <<mLines, ring, cursorRow, altScreen>>
      /\ text' = copied[h]
  BY Zenon DEF BlockCopy, CopyLines
<1>2. text \in [Objects -> Lines] /\ mScreenRows \in Nat
  BY InvariantFacts DEF BufferInvariant
<1>3. /\ \A y \in 0..(mScreenRows - 1) : y \in ActiveRows /\ Row(y) \in Objects
      /\ \A y, z \in 0..(mScreenRows - 1) : Row(y) = Row(z) => y = z
  <2>1. \A y \in 0..(mScreenRows - 1) : y \in ActiveRows /\ Row(y) \in Objects
    BY ScreenRow
  <2>2. ObjectsDiffer  BY ShownObjectsDiffer DEF BufferInvariant
  <2> QED BY <2>1, <2>2 DEF ObjectsDiffer
<1> HIDE DEF Row
<1>4. \A k \in 0..(h - 1) : /\ line(k) \in 0..(h - 1)
                            /\ sy + line(k) \in 0..(mScreenRows - 1)
                            /\ dy + line(k) \in 0..(mScreenRows - 1)
  BY <1>1, <1>2
<1>5. ReadBeforeWritten(h, src, dst)
  <2>1. src \in [0..(h - 1) -> Objects] /\ dst \in [0..(h - 1) -> Objects]
    BY <1>3, <1>4
  <2>2. ASSUME NEW j \in 0..(h - 1), NEW k \in 0..(h - 1), dst[j] = dst[k]
        PROVE  j = k
    <3>1. dy + line(j) = dy + line(k)  BY <2>2, <1>3, <1>4
    <3> QED BY <3>1
  <2>3. ASSUME NEW j \in 0..(h - 1), NEW k \in 0..(h - 1), j < k
        PROVE  dst[j] # src[k]
    <3>1. dy + line(j) # sy + line(k)  BY <2>3
    <3> QED BY <3>1, <1>3, <1>4
  <2> HIDE DEF src, dst
  <2> QED BY <2>1, <2>2, <2>3 DEF ReadBeforeWritten
<1>6. \A y \in 1..h : /\ src[y - 1] = Row(sy + line(y - 1))
                      /\ dst[y - 1] = Row(dy + line(y - 1))
  OBVIOUS
<1>7. \A k \in 0..(h - 1) : /\ src[k] = Row(sy + line(k))
                            /\ dst[k] = Row(dy + line(k))
  OBVIOUS
<1> HIDE DEF src, dst
<1>8. \E f : f = step(f)
  <2>1. PICK g : g = [y \in 0..h |-> g[y]] /\ CopiedInTurn(g, h, src, dst, text)
    BY <1>2, <1>5, CopyingExists
  <2>2. /\ g[0] = text
        /\ \A y \in 1..h : g[y] = [g[y - 1] EXCEPT ![dst[y - 1]] = g[y - 1][src[y - 1]]]
    BY <2>1, Zenon DEF CopiedInTurn
  <2>3. \A y \in 0..h : y # 0 => y \in 1..h  OBVIOUS
  <2> HIDE DEF line
  <2>4. \A y \in 0..h : g[y] = IF y = 0 THEN text
                         ELSE [g[y - 1] EXCEPT ![Row(dy + line(y - 1))] =
                                                  g[y - 1][Row(sy + line(y - 1))]]
    BY <2>2, <2>3, <1>6
  <2>5. g = step(g)  BY <2>1, <2>4
  <2> QED BY <2>5
<1>9. copied = step(copied)  BY <1>8
<1> HIDE DEF copied
<1>10. CopiedInTurn(copied, h, src, dst, text)
  <2>1. copied[0] = text
    <3>1. step(copied)[0] = text  OBVIOUS
    <3> HIDE DEF step
    <3> QED BY <3>1, <1>9
  <2>2. ASSUME NEW y \in 1..h
        PROVE  copied[y] = [copied[y - 1] EXCEPT ![dst[y - 1]] = copied[y - 1][src[y - 1]]]
    <3>1. y \in 0..h /\ y # 0  OBVIOUS
    <3> HIDE DEF line
    <3>2. step(copied)[y] = [copied[y - 1] EXCEPT ![Row(dy + line(y - 1))] =
                                                  copied[y - 1][Row(sy + line(y - 1))]]
      BY <3>1
    <3> HIDE DEF step
    <3>3. copied[y] = step(copied)[y]  BY <1>9
    <3> QED BY <3>2, <3>3, <1>6
  <2> QED BY <2>1, <2>2, Zenon DEF CopiedInTurn
<1>11. CopiedAtOnce(text', h, src, dst, text)
  <2>1. CopiedAtOnce(copied[h], h, src, dst, text)
    BY <1>2, <1>5, <1>10, CopyingInTurn
  <2> QED BY <2>1, <1>1
<1>12. /\ text' \in [Objects -> Lines]
       /\ \A k \in 0..(h - 1) : text'[dst[k]] = text[src[k]]
       /\ \A r \in Objects : (\A k \in 0..(h - 1) : r # dst[k]) => text'[r] = text[r]
  BY <1>11, Zenon DEF CopiedAtOnce
<1>13. \A i \in 0..(h - 1) : \E k \in 0..(h - 1) : line(k) = i
  <2> TAKE i \in 0..(h - 1)
  <2>1. line(i) \in 0..(h - 1) /\ line(line(i)) = i  OBVIOUS
  <2> HIDE DEF line
  <2> QED BY <2>1
<1> HIDE DEF line
<1>14. \A i \in 0..(h - 1) : text'[Row(dy + i)] = text[Row(sy + i)]
  <2> TAKE i \in 0..(h - 1)
  <2>1. PICK k \in 0..(h - 1) : line(k) = i  BY <1>13
  <2>2. text'[dst[k]] = text[src[k]]  BY <1>12
  <2>3. src[k] = Row(sy + i) /\ dst[k] = Row(dy + i)  BY <2>1, <1>7
  <2> QED BY <2>2, <2>3
<1>15. \A r \in Objects :
         (\A i \in 0..(h - 1) : r # Row(dy + i)) => text'[r] = text[r]
  <2> SUFFICES ASSUME NEW r \in Objects, \A i \in 0..(h - 1) : r # Row(dy + i)
               PROVE  text'[r] = text[r]
    OBVIOUS
  <2>1. \A k \in 0..(h - 1) : r # dst[k]  BY <1>4, <1>7
  <2> QED BY <2>1, <1>12
<1> QED BY <1>1, <1>12, <1>14, <1>15, Zenon DEF Row

-----------------------------------------------------------------------------
(* Steps that leave the ring where it is. *)

\* Lines of the screen are replaced, and nothing else changes.
LEMMA ScreenSplice ==
  ASSUME BufferInvariant, BufferInvariant', ring' = ring,
         NEW a \in 0..mScreenRows, NEW b \in a..mScreenRows,
         NEW m \in Seq(Lines), Len(m) = b - a,
         \A row \in ActiveRows :
           View'[row] = IF a <= row /\ row < b THEN m[row - a + 1] ELSE View[row]
  PROVE  /\ Hist' = Hist
         /\ Scr' = SubSeq(Scr, 1, a) \o m \o SubSeq(Scr, b + 1, Len(Scr))
<1> DEFINE active == mActiveTranscriptRows
           r == SubSeq(Scr, 1, a) \o m \o SubSeq(Scr, b + 1, Len(Scr))
<1>1. /\ mTotalRows \in Nat \ {0} /\ mScreenRows \in 1..mTotalRows
      /\ active \in 0..(mTotalRows - mScreenRows)
      /\ Hist \in Seq(Lines) /\ Len(Hist) = active
      /\ \A i \in 1..active : Hist[i] = View[i - 1 - active]
      /\ Scr \in Seq(Lines) /\ Len(Scr) = mScreenRows
      /\ \A i \in 1..mScreenRows : Scr[i] = View[i - 1]
  BY ShownBefore
<1>2. mScreenRows' = mScreenRows /\ mActiveTranscriptRows' = active
  BY DEF ring
<1>3. /\ Hist' \in Seq(Lines) /\ Len(Hist') = active
      /\ \A i \in 1..active : Hist'[i] = View'[i - 1 - active]
      /\ Scr' \in Seq(Lines) /\ Len(Scr') = mScreenRows
      /\ \A i \in 1..mScreenRows : Scr'[i] = View'[i - 1]
  BY <1>2, ShownAfter
<1>4. \A row \in (-active)..(mScreenRows - 1) :
        View'[row] = IF a <= row /\ row < b THEN m[row - a + 1] ELSE View[row]
  BY DEF ActiveRows
<1> HIDE DEF active
<1>5. Hist' = Hist
  <2>1. \A i \in 1..active : Hist'[i] = Hist[i]
    <3> TAKE i \in 1..active
    <3>1. PICK row \in (-active)..(mScreenRows - 1) : row = i - 1 - active /\ row < 0
      BY <1>1
    <3>2. Hist[i] = View[row] /\ Hist'[i] = View'[row]  BY <3>1, <1>1, <1>3
    <3>3. ~(a <= row)  BY <3>1, <1>1
    <3>4. View'[row] = View[row]  BY <3>3, <1>4
    <3> QED BY <3>2, <3>4
  <2> QED BY <2>1, <1>1, <1>3, SeqEqual
<1>6. Scr' = r
  <2>1. /\ r \in Seq(Lines) /\ Len(r) = Len(Scr)
        /\ \A i \in 1..Len(Scr) :
             r[i] = IF i > a /\ i <= b THEN m[i - a] ELSE Scr[i]
    <3>1. a \in 0..Len(Scr) /\ b \in 0..Len(Scr) /\ a <= b  BY <1>1
    <3> QED BY <3>1, <1>1, Splice
  <2> HIDE DEF r
  <2>2. \A i \in 1..mScreenRows : Scr'[i] = r[i]
    <3> TAKE i \in 1..mScreenRows
    <3>1. PICK row \in (-active)..(mScreenRows - 1) : row = i - 1 /\ row - a + 1 = i - a
      <4>1. i - 1 \in (-active)..(mScreenRows - 1) /\ (i - 1) - a + 1 = i - a
        BY <1>1
      <4> QED BY <4>1
    <3>2. Scr[i] = View[row] /\ Scr'[i] = View'[row]  BY <3>1, <1>1, <1>3
    <3>3. r[i] = IF i > a /\ i <= b THEN m[i - a] ELSE Scr[i]  BY <2>1, <1>1
    <3>4. View'[row] = IF a <= row /\ row < b THEN m[i - a] ELSE View[row]
      BY <3>1, <1>4
    <3>5. (a <= row /\ row < b) <=> (i > a /\ i <= b)  BY <3>1, <1>1
    <3> QED BY <3>2, <3>3, <3>4, <3>5
  <2> QED BY <2>1, <2>2, <1>1, <1>3, SeqEqual
<1> QED BY <1>5, <1>6

\* Copying line by line copies all of them at once.
LEMMA CopyImplements ==
  ASSUME BufferInvariant, BufferInvariant',
         NEW sy \in Nat, NEW h \in Nat, NEW dy \in Nat, BlockCopy(sy, h, dy)
  PROVE  Screen!Copy(sy, h, dy)
<1> DEFINE m == SubSeq(Scr, sy + 1, sy + h)
<1>1. /\ mTotalRows \in Nat \ {0} /\ mScreenRows \in 1..mTotalRows
      /\ mActiveTranscriptRows \in Nat
      /\ Scr \in Seq(Lines) /\ Len(Scr) = mScreenRows
      /\ \A i \in 1..mScreenRows : Scr[i] = View[i - 1]
  BY ShownBefore
<1>2. /\ sy + h <= mScreenRows /\ dy + h <= mScreenRows
      /\ UNCHANGED <<mLines, ring, cursorRow, altScreen>>
      /\ \A i \in 0..(h - 1) :
           text'[mLines[ExternalToInternalRow(dy + i)]]
             = text[mLines[ExternalToInternalRow(sy + i)]]
      /\ \A r \in Objects :
           (\A i \in 0..(h - 1) : r # mLines[ExternalToInternalRow(dy + i)])
             => text'[r] = text[r]
  BY CopyLinesMoves
<1>3. /\ m \in Seq(Lines) /\ Len(m) = h
      /\ \A i \in 1..h : m[i] = View[sy + i - 1]
  <2>1. /\ sy + 1 \in 1..(Len(Scr) + 1) /\ sy + h \in 0..Len(Scr)
        /\ sy + 1 <= (sy + h) + 1
    BY <1>1, <1>2
  <2>2. /\ m \in Seq(Lines) /\ Len(m) = (sy + h) + 1 - (sy + 1)
        /\ \A i \in 1..((sy + h) + 1 - (sy + 1)) : m[i] = Scr[sy + 1 - 1 + i]
    BY <2>1, <1>1, Cut
  <2>3. (sy + h) + 1 - (sy + 1) = h  OBVIOUS
  <2> HIDE DEF m
  <2>4. ASSUME NEW i \in 1..h  PROVE m[i] = View[sy + i - 1]
    <3>1. PICK k \in 1..mScreenRows : k = sy + 1 - 1 + i /\ k - 1 = sy + i - 1
      BY <1>1, <1>2
    <3>2. m[i] = Scr[k]  BY <3>1, <2>2, <2>3
    <3> QED BY <3>1, <3>2, <1>1
  <2> QED BY <2>2, <2>3, <2>4
<1> HIDE DEF m
<1>4. /\ ActiveRows' = ActiveRows
      /\ \A row : ExternalToInternalRow(row)' = ExternalToInternalRow(row)
  BY <1>2 DEF ring, ActiveRows, ExternalToInternalRow
<1>5. \A row \in ActiveRows :
        View'[row] = text'[mLines[ExternalToInternalRow(row)]]
        /\ mLines[ExternalToInternalRow(row)] \in Objects
        /\ View[row] = text[mLines[ExternalToInternalRow(row)]]
  <2> TAKE row \in ActiveRows
  <2>1. mLines[ExternalToInternalRow(row)] \in Objects
        /\ View[row] = text[mLines[ExternalToInternalRow(row)]]
    <3>1. View[row] = LineAt(row)  BY Zenon DEF View
    <3> QED BY <3>1, ShownLines
  <2>2. mLines'[ExternalToInternalRow(row)'] = mLines[ExternalToInternalRow(row)]
    BY <1>2, <1>4
  <2> QED BY <2>1, <2>2, <1>4, ViewAfter
<1>6. ASSUME NEW row \in ActiveRows
      PROVE  View'[row] = IF dy <= row /\ row < dy + h THEN m[row - dy + 1]
                          ELSE View[row]
  <2>0. row \in Int /\ \A i \in 0..(h - 1) : dy + i \in ActiveRows /\ sy + i \in ActiveRows
    BY <1>1, <1>2 DEF ActiveRows
  <2>1. CASE dy <= row /\ row < dy + h
    <3>1. PICK i \in 0..(h - 1) : row = dy + i  
      <4>1. row - dy \in 0..(h - 1) /\ row = dy + (row - dy)  BY <2>0, <2>1
      <4> QED BY <4>1
    <3>2. View'[row] = View[sy + i]  BY <3>1, <2>0, <1>2, <1>5
    <3>3. i + 1 \in 1..h /\ sy + (i + 1) - 1 = sy + i /\ row - dy + 1 = i + 1
      BY <3>1, <2>0
    <3>4. m[i + 1] = View[sy + (i + 1) - 1]  BY <3>3, <1>3
    <3> QED BY <2>1, <3>2, <3>3, <3>4
  <2>2. CASE ~(dy <= row /\ row < dy + h)
    <3>1. \A i \in 0..(h - 1) : row # dy + i  BY <2>2
    <3>2. \A i \in 0..(h - 1) : mLines[ExternalToInternalRow(row)]
                                # mLines[ExternalToInternalRow(dy + i)]
      <4>1. ObjectsDiffer  BY ShownObjectsDiffer DEF BufferInvariant
      <4> QED BY <4>1, <3>1, <2>0 DEF ObjectsDiffer
    <3> QED BY <2>2, <3>2, <1>2, <1>5
  <2> QED BY <2>1, <2>2
<1>7. Hist' = Hist /\ Scr' = SubSeq(Scr, 1, dy) \o m \o SubSeq(Scr, dy + h + 1, Len(Scr))
  <2>1. dy \in 0..mScreenRows /\ dy + h \in dy..mScreenRows /\ Len(m) = (dy + h) - dy
        /\ ring' = ring
    BY <1>1, <1>2, <1>3
  <2> QED BY <2>1, <1>3, <1>6, ScreenSplice
<1>8. mTotalRows' = mTotalRows  BY <1>2 DEF ring
<1>9. sy + h <= Len(Scr) /\ dy + h <= Len(Scr)  BY <1>1, <1>2
<1> QED BY <1>2, <1>7, <1>8, <1>9, Zenon DEF Screen!Copy, Hist, Scr, m

\* blockSet() fills lines of the screen.
LEMMA FillImplements ==
  ASSUME BufferInvariant, BufferInvariant', NEW sy \in Nat, NEW h \in Nat,
         NEW line \in Lines, BlockSet(sy, h, line)
  PROVE  Screen!Fill(sy, h, line)
<1> DEFINE slots == {ExternalToInternalRow(y) : y \in sy..(sy + h - 1)}
           m == [i \in 1..h |-> line]
<1>1. /\ mTotalRows \in Nat \ {0} /\ mScreenRows \in 1..mTotalRows
      /\ mActiveTranscriptRows \in Nat
      /\ Scr \in Seq(Lines) /\ Len(Scr) = mScreenRows
  BY ShownBefore
<1>2. PICK new \in Allocations(mLines, slots) :
        /\ mLines' = With(mLines, new)
        /\ text' = [r \in Objects |-> IF r \in {mLines'[s] : s \in slots}
                                      THEN line ELSE text[r]]
  BY Zenon DEF BlockSet
<1>3. sy + h <= mScreenRows /\ UNCHANGED <<ring, cursorRow, altScreen>>
  BY Zenon DEF BlockSet
<1>4. RingInvariant /\ ObjectsDiffer  BY ShownObjectsDiffer DEF BufferInvariant
<1>5. PICK n \in mTotalRows..TotalRows :
        mScreenFirstRow < n /\ mLines \in [0..(n - 1) -> Objects \cup {Null}]
  BY <1>4, InvariantFacts
<1>6. n \in Nat /\ \A s \in 0..(mTotalRows - 1) : s \in 0..(n - 1)  BY <1>1, <1>5
<1>7. \A y \in sy..(sy + h - 1) : y \in 0..(mScreenRows - 1)  BY <1>1, <1>3
<1>8. slots \in SUBSET (0..(n - 1))
  <2> SUFFICES ASSUME NEW y \in sy..(sy + h - 1)
               PROVE  ExternalToInternalRow(y) \in 0..(n - 1)
    OBVIOUS
  <2> QED BY <1>6, <1>7, ScreenRow
<1>9. \A s \in 0..(n - 1) : mLines[s] # Null => mLines'[s] = mLines[s]
  <2> HIDE DEF slots
  <2>1. Distinct(mLines)  BY <1>4, InvariantFacts
  <2>2. \A s \in 0..(n - 1) : mLines[s] # Null => With(mLines, new)[s] = mLines[s]
    BY <2>1, <1>2, <1>5, <1>6, <1>8, Allocating, LinesAssumption, SMTT(30)
  <2> QED BY <2>2, <1>2
<1>10. /\ ActiveRows' = ActiveRows
       /\ \A row : ExternalToInternalRow(row)' = ExternalToInternalRow(row)
  BY <1>3 DEF ring, ActiveRows, ExternalToInternalRow
<1>11. \A row \in ActiveRows :
         /\ mLines[ExternalToInternalRow(row)] \in Objects
         /\ mLines'[ExternalToInternalRow(row)] = mLines[ExternalToInternalRow(row)]
         /\ View'[row] = text'[mLines[ExternalToInternalRow(row)]]
         /\ View[row] = text[mLines[ExternalToInternalRow(row)]]
  <2> TAKE row \in ActiveRows
  <2>1. /\ mLines[ExternalToInternalRow(row)] \in Objects
        /\ ExternalToInternalRow(row) \in 0..(mTotalRows - 1)
        /\ View[row] = text[mLines[ExternalToInternalRow(row)]]
    <3>1. View[row] = LineAt(row)  BY Zenon DEF View
    <3> QED BY <3>1, ShownLines
  <2>2. mLines'[ExternalToInternalRow(row)] = mLines[ExternalToInternalRow(row)]
    <3>1. mLines[ExternalToInternalRow(row)] # Null  BY <1>4, InvariantFacts
    <3> QED BY <3>1, <2>1, <1>6, <1>9
  <2>3. mLines'[ExternalToInternalRow(row)'] = mLines[ExternalToInternalRow(row)]
    BY <2>2, <1>10
  <2> QED BY <2>1, <2>2, <2>3, <1>10, ViewAfter
<1>12. /\ m \in Seq(Lines) /\ Len(m) = h /\ \A i \in 1..h : m[i] = line
  <2>1. m \in [1..h -> Lines]  OBVIOUS
  <2>2. \A i \in 1..h : m[i] = line  OBVIOUS
  <2> HIDE DEF m
  <2> QED BY <2>1, <2>2, SeqOfLines
<1> HIDE DEF m
<1>13. ASSUME NEW row \in ActiveRows
       PROVE  View'[row] = IF sy <= row /\ row < sy + h THEN m[row - sy + 1]
                           ELSE View[row]
  <2> DEFINE o == mLines[ExternalToInternalRow(row)]
  <2>0. row \in Int  BY <1>1 DEF ActiveRows
  <2>1. \A y \in sy..(sy + h - 1) : y \in ActiveRows
    BY <1>1, <1>7 DEF ActiveRows
  <2>2. CASE sy <= row /\ row < sy + h
    <3>1. row \in sy..(sy + h - 1) /\ row - sy + 1 \in 1..h  BY <2>0, <2>2
    <3>2. o \in {mLines'[s] : s \in slots}  BY <3>1, <1>11
    <3>3. View'[row] = line  BY <3>2, <1>2, <1>11
    <3>4. m[row - sy + 1] = line  BY <3>1, <1>12
    <3> QED BY <2>2, <3>3, <3>4
  <2>3. CASE ~(sy <= row /\ row < sy + h)
    <3>1. \A y \in sy..(sy + h - 1) : row # y  BY <2>3
    <3>2. o \notin {mLines'[s] : s \in slots}
      <4> SUFFICES ASSUME NEW y \in sy..(sy + h - 1)
                   PROVE  o # mLines'[ExternalToInternalRow(y)]
        OBVIOUS
      <4> QED BY <3>1, <2>1, <1>4, <1>11 DEF ObjectsDiffer
    <3>3. View'[row] = View[row]  BY <3>2, <1>2, <1>11
    <3> QED BY <2>3, <3>3
  <2> QED BY <2>2, <2>3
<1>14. Hist' = Hist /\ Scr' = SubSeq(Scr, 1, sy) \o m \o SubSeq(Scr, sy + h + 1, Len(Scr))
  <2>1. sy \in 0..mScreenRows /\ sy + h \in sy..mScreenRows /\ Len(m) = (sy + h) - sy
        /\ ring' = ring
    BY <1>1, <1>3, <1>12
  <2> QED BY <2>1, <1>12, <1>13, ScreenSplice
<1>15. mTotalRows' = mTotalRows  BY <1>3 DEF ring
<1>16. sy + h <= Len(Scr)  BY <1>1, <1>3
<1> QED BY <1>3, <1>14, <1>15, <1>16, Zenon DEF Screen!Fill, Hist, Scr, m

\* Emptying the transcript's slots leaves the screen as it is.
LEMMA ForgetImplements ==
  ASSUME BufferInvariant, BufferInvariant', ClearTranscript
  PROVE  Screen!Forget
<1> DEFINE T == mTotalRows
           first == mScreenFirstRow
           active == mActiveTranscriptRows
           gone == IF first < active
                   THEN (T + first - active)..(T - 1) \cup 0..(first - 1)
                   ELSE (first - active)..(first - 1)
<1>1. /\ mLines' = [s \in DOMAIN mLines |-> IF s \in gone THEN Null ELSE mLines[s]]
      /\ mActiveTranscriptRows' = 0
      /\ UNCHANGED <<mTotalRows, mScreenRows, mScreenFirstRow, text, cursorRow,
                     altScreen>>
  BY DEF ClearTranscript, Slots
<1>2. /\ T \in Nat \ {0} /\ mScreenRows \in 1..T
      /\ active \in 0..(T - mScreenRows) /\ first \in Nat
      /\ (active > 0 => first < T)
  BY InvariantFacts DEF BufferInvariant
<1>3. \A p \in 0..(mScreenRows - 1) : SlotOf(first, T, p) \notin gone
  <2> TAKE p \in 0..(mScreenRows - 1)
  <2>1. CASE active = 0
    <3>1. gone = {}  BY <2>1, <1>2
    <3> QED BY <3>1
  <2>2. CASE active # 0
    <3>1. first \in 0..(T - 1)  BY <2>2, <1>2
    <3>2. SlotOf(first, T, p) = Position(first, T, p)
      <4>1. p \in (1 - T)..T  BY <1>2
      <4> QED BY <4>1, <3>1, <1>2, SlotOfPosition
    <3>3. Position(first, T, p) \notin gone  BY <3>1, <1>2 DEF Position
    <3> HIDE DEF gone
    <3> QED BY <3>2, <3>3
  <2> QED BY <2>1, <2>2
<1> HIDE DEF gone
<1>4. \A row : ExternalToInternalRow(row)' = ExternalToInternalRow(row)
  BY <1>1, Zenon DEF ExternalToInternalRow
<1>5. PICK n \in mTotalRows..TotalRows :
        mScreenFirstRow < n /\ mLines \in [0..(n - 1) -> Objects \cup {Null}]
  BY InvariantFacts DEF BufferInvariant
<1>6. ASSUME NEW row \in 0..(mScreenRows - 1)
      PROVE  View'[row] = View[row]
  <2>1. /\ ExternalToInternalRow(row) \in 0..(T - 1)
        /\ mLines[ExternalToInternalRow(row)] \in Objects
        /\ View[row] = text[mLines[ExternalToInternalRow(row)]]
    BY ScreenRow
  <2>2. ExternalToInternalRow(row) \in DOMAIN mLines  BY <2>1, <1>2, <1>5
  <2>3. ExternalToInternalRow(row) \notin gone  BY <1>3, SlotsOfRows
  <2>4. mLines'[ExternalToInternalRow(row)'] = mLines[ExternalToInternalRow(row)]
    BY <2>2, <2>3, <1>1, <1>4
  <2>5. row \in ActiveRows'  BY <1>1, <1>2 DEF ActiveRows
  <2>6. View'[row] = text'[mLines[ExternalToInternalRow(row)]]
    BY <2>1, <2>4, <2>5, ViewAfter
  <2> QED BY <2>1, <2>6, <1>1
<1>7. Scr' = Scr
  <2>1. /\ Scr \in Seq(Lines) /\ Len(Scr) = mScreenRows
        /\ \A i \in 1..mScreenRows : Scr[i] = View[i - 1]
    BY ShownBefore
  <2>2. /\ Scr' \in Seq(Lines) /\ Len(Scr') = mScreenRows
        /\ \A i \in 1..mScreenRows : Scr'[i] = View'[i - 1]
    BY <1>1, ShownAfter
  <2>3. \A i \in 1..mScreenRows : i - 1 \in 0..(mScreenRows - 1)  BY <1>2
  <2> QED BY <2>1, <2>2, <2>3, <1>6, SeqEqual
<1>8. Hist' = <<>>
  <2>1. Hist' \in Seq(Lines) /\ Len(Hist') = 0  BY <1>1, ShownAfter
  <2> QED BY <2>1, EmptySeq
<1> QED BY <1>1, <1>7, <1>8, Zenon DEF Screen!Forget, Hist, Scr

-----------------------------------------------------------------------------
(* Resizing. *)

\* LineScreen's own instance of FiniteSets counts alike.
LEMMA SameCount == \A S : Screen!Cardinality(S) = Cardinality(S)
  BY Zenon DEF Screen!Cardinality, Cardinality

\* Both count the blank lines under the cursor.
LEMMA ShiftImplements ==
  ASSUME BufferInvariant, NEW newRows \in Nat \ {0}
  PROVE  Screen!Shift(newRows) = ShiftDownOfTopRow(newRows)
<1> DEFINE spare == {i \in 0..(Len(Scr) - 1) : /\ i > cursorRow /\ i > 0
                                               /\ Scr[i + 1] = Blank}
<1>1. /\ mScreenRows \in Nat \ {0} /\ mActiveTranscriptRows \in Nat
      /\ Len(Hist) = mActiveTranscriptRows
      /\ Len(Scr) = mScreenRows
      /\ \A i \in 1..mScreenRows : Scr[i] = View[i - 1]
  <2>1. mTotalRows \in Nat /\ mScreenRows \in 1..mTotalRows
        /\ mActiveTranscriptRows \in 0..(mTotalRows - mScreenRows)
    BY ShownBefore
  <2>2. mScreenRows \in Nat \ {0} /\ mActiveTranscriptRows \in Nat  BY <2>1
  <2> QED BY <2>2, ShownBefore
<1>2. cursorRow \in Nat  BY InvariantFacts DEF BufferInvariant
<1>3. \A i \in 0..(mScreenRows - 1) :
        IsBlank(ExternalToInternalRow(i)) <=> Scr[i + 1] = Blank
  <2> TAKE i \in 0..(mScreenRows - 1)
  <2>1. /\ mLines[ExternalToInternalRow(i)] \in Objects
        /\ View[i] = text[mLines[ExternalToInternalRow(i)]]
    BY ScreenRow
  <2>2. mLines[ExternalToInternalRow(i)] # Null
    BY <2>1, LinesAssumption DEF Objects
  <2>3. i + 1 \in 1..mScreenRows /\ (i + 1) - 1 = i  BY <1>1
  <2>4. Scr[i + 1] = View[i]  BY <2>3, <1>1
  <2> QED BY <2>1, <2>2, <2>4 DEF IsBlank
<1>4. spare = SpareRows
  <2>1. \A i : i \in spare <=> /\ i \in 0..(mScreenRows - 1) /\ i > cursorRow
                               /\ i > 0 /\ Scr[i + 1] = Blank
    BY <1>1
  <2>2. \A i : i \in SpareRows <=> /\ i \in 1..(mScreenRows - 1) /\ cursorRow < i
                                   /\ IsBlank(ExternalToInternalRow(i))
    BY DEF SpareRows
  <2>3. \A i : i \in 1..(mScreenRows - 1) <=> i \in 0..(mScreenRows - 1) /\ i > 0
    BY <1>1
  <2>4. \A i \in 0..(mScreenRows - 1) : cursorRow < i <=> i > cursorRow
    BY <1>1, <1>2
  <2> HIDE DEF spare
  <2> QED BY <2>1, <2>2, <2>3, <2>4, <1>3
<1>5. Screen!Shift(newRows)
        = IF newRows <= Len(Scr)
          THEN Screen!Greater(0, Len(Scr) - newRows - Cardinality(spare))
          ELSE -Screen!Lesser(newRows - Len(Scr), Len(Hist))
  <2>1. Screen!Rows = 0..(Len(Scr) - 1)  BY Zenon DEF Screen!Rows, Scr
  <2>2. spare = {i \in Screen!Rows : /\ i > cursorRow /\ i > 0
                                     /\ Scr[i + 1] = Blank}
    BY <2>1
  <2>3. Screen!Shift(newRows)
          = LET c == Cardinality({i \in Screen!Rows : /\ i > cursorRow /\ i > 0
                                                      /\ Scr[i + 1] = Blank})
            IN IF newRows <= Len(Scr)
               THEN Screen!Greater(0, Len(Scr) - newRows - c)
               ELSE -Screen!Lesser(newRows - Len(Scr), Len(Hist))
    BY SameCount, Zenon DEF Screen!Shift, Scr, Hist
  <2> HIDE DEF spare
  <2> QED BY <2>2, <2>3, Zenon
<1>6. Cardinality(SpareRows) \in Nat
  <2>1. IsFiniteSet(1..(mScreenRows - 1))  BY <1>1, FS_Interval
  <2>2. SpareRows \subseteq 1..(mScreenRows - 1)  BY Zenon DEF SpareRows
  <2>3. IsFiniteSet(SpareRows)  BY <2>1, <2>2, FS_Subset
  <2> QED BY <2>3, FS_CardinalityType
<1> HIDE DEF spare
<1>7. Screen!Shift(newRows)
        = IF newRows <= mScreenRows
          THEN Greater(0, mScreenRows - newRows - Cardinality(SpareRows))
          ELSE -Lesser(newRows - mScreenRows, mActiveTranscriptRows)
  BY <1>1, <1>4, <1>5 DEF Screen!Greater, Screen!Lesser, Greater, Lesser
<1> QED BY <1>1, <1>6, <1>7 DEF ShiftDownOfTopRow, Greater, Lesser

\* The main screen is a window that moves over the same lines.
LEMMA FastResizeLines ==
  ASSUME BufferInvariant, NEW newRows \in Nat \ {0}, ~altScreen,
         FastResize(newRows)
  PROVE  LET shift == ShiftDownOfTopRow(newRows)
         IN /\ newRows <= mTotalRows /\ mScreenRows' = newRows
            /\ mActiveTranscriptRows' = mActiveTranscriptRows + shift
            /\ cursorRow' = Greater(0, cursorRow - shift)
            /\ UNCHANGED <<mTotalRows, altScreen>>
            /\ \A row \in ActiveRows' :
                 View'[row] = IF row + shift < mScreenRows THEN View[row + shift]
                              ELSE Blank
<1> DEFINE T == mTotalRows
           first == mScreenFirstRow
           active == mActiveTranscriptRows
           shift == ShiftDownOfTopRow(newRows)
           slots == IF newRows > mScreenRows THEN Revealed(newRows) ELSE {}
<1>0. RingInvariant /\ RingInvariant'  BY FastResizeMain DEF BufferInvariant
<1>1. PICK new \in Allocations(mLines, slots) :
        mLines' = With(mLines, new) /\ text' = Cleared(mLines', slots)
  BY Zenon DEF FastResize, FastResizeClearing
<1>2. /\ newRows <= T
      /\ mScreenFirstRow' = IF first + shift < 0 THEN first + shift + T
                                                 ELSE (first + shift) % T
      /\ mTotalRows' = T /\ mScreenRows' = newRows
      /\ mActiveTranscriptRows' = Greater(0, active + shift)
      /\ cursorRow' = Greater(0, cursorRow - shift) /\ altScreen' = altScreen
  BY Zenon DEF FastResize, FastResizeClearing
<1>3. PICK n \in mTotalRows..TotalRows :
        mScreenFirstRow < n /\ mLines \in [0..(n - 1) -> Objects \cup {Null}]
  BY <1>0, InvariantFacts
<1>4. /\ T \in Nat \ {0} /\ T <= TotalRows /\ T = TotalRows
      /\ mScreenRows \in 1..T /\ active \in 0..(T - mScreenRows)
      /\ first \in 0..(T - 1) /\ cursorRow \in Nat /\ TotalRows \in Nat
      /\ n \in Nat /\ n = T /\ Distinct(mLines)
  BY <1>0, <1>3, InvariantFacts, SizesAssumption
<1>5. /\ shift \in (-active)..mScreenRows
      /\ newRows <= mScreenRows => shift \in 0..(mScreenRows - newRows)
      /\ newRows > mScreenRows => shift \in (mScreenRows - newRows)..0
      /\ newRows > mScreenRows => shift = mScreenRows - newRows \/ shift = -active
  BY <1>0, ShiftIsBounded
<1> HIDE DEF shift
<1> DEFINE base == first + T
           pos(p) == Slot(base, T, p)
<1>6. mScreenFirstRow' \in 0..(T - 1) /\ mScreenFirstRow' = Position(first, T, shift)
  <2>1. shift \in (1 - T)..T  BY <1>4, <1>5
  <2>2. SlotOf(first, T, shift) = Position(first, T, shift)
    BY <2>1, <1>4, SlotOfPosition
  <2>3. shift \in Int /\ T + (first + shift) = first + shift + T
    BY <1>4, <1>5
  <2>4. mScreenFirstRow' = Position(first, T, shift)  BY <2>2, <2>3, <1>2 DEF SlotOf
  <2> QED BY <2>1, <2>4, <1>4 DEF Position
<1>7. mActiveTranscriptRows' = active + shift
  BY <1>2, <1>4, <1>5 DEF Greater
<1>8. ActiveRows' = (-(active + shift))..(newRows - 1)
      /\ ActiveRows = (-active)..(mScreenRows - 1)
  BY <1>2, <1>7 DEF ActiveRows
<1>9. \A row \in ActiveRows :
        /\ ExternalToInternalRow(row) = pos(row)
        /\ mLines[ExternalToInternalRow(row)] \in Objects
        /\ View[row] = text[mLines[ExternalToInternalRow(row)]]
  <2> TAKE row \in ActiveRows
  <2>1. /\ mLines[ExternalToInternalRow(row)] \in Objects
        /\ View[row] = text[mLines[ExternalToInternalRow(row)]]
    <3>1. View[row] = LineAt(row)  BY Zenon DEF View
    <3> QED BY <3>1, ShownLines
  <2>2. row \in Int /\ -T <= row /\ first \in Nat /\ first < T  BY <1>4, <1>8
  <2>3. ExternalToInternalRow(row) = pos(row)
    BY <2>2, <1>4, RowsAreSlots, SlotsOfRows
  <2> QED BY <2>1, <2>3
<1>10. \A row \in ActiveRows' : ExternalToInternalRow(row)' = pos(row + shift)
  <2> TAKE row \in ActiveRows'
  <2>1. /\ row \in Int /\ row \in (1 - T)..T
        /\ row + shift \in Int /\ row + shift \in (1 - T)..T
    BY <1>2, <1>4, <1>5, <1>8
  <2>2. ExternalToInternalRow(row)' = SlotOf(mScreenFirstRow', T, row)
    BY <1>2, Zenon DEF ExternalToInternalRow, SlotOf
  <2>3. PICK f \in 0..(T - 1) : f = mScreenFirstRow'  BY <1>6
  <2>4. SlotOf(f, T, row) = Position(f, T, row)  BY <2>1, <1>4, SlotOfPosition
  <2>5. Position(f, T, row) = Position(first, T, row + shift)
    BY <2>1, <2>3, <1>2, <1>4, <1>5, <1>6, <1>8 DEF Position
  <2>6. SlotOf(first, T, row + shift) = Position(first, T, row + shift)
    BY <2>1, <1>4, SlotOfPosition
  <2>7. SlotOf(first, T, row + shift) = pos(row + shift)
    <3>1. first \in Nat /\ first < T /\ -T <= row + shift  BY <2>1, <1>4
    <3> QED BY <2>1, <3>1, <1>4, RowsAreSlots
  <2> QED BY <2>2, <2>3, <2>4, <2>5, <2>6, <2>7
<1>11. slots = {pos(p) : p \in mScreenRows..(newRows + shift - 1)}
  <2>1. Revealed(newRows) = {(first + mScreenRows + i) % T :
                               i \in 0..(newRows - mScreenRows + shift - 1)}
    BY DEF Revealed, shift
  <2>2. \A i \in 0..(newRows - mScreenRows + shift - 1) :
          (first + mScreenRows + i) % T = pos(mScreenRows + i)
    <3> TAKE i \in 0..(newRows - mScreenRows + shift - 1)
    <3>1. mScreenRows + i \in Nat
          /\ first + mScreenRows + i = first + (mScreenRows + i)
      BY <1>4, <1>5
    <3>2. \A q \in Nat : (first + q) % T = Slot(base, T, q)
      <4>1. T \in Nat \ {0} /\ first \in Nat  BY <1>4
      <4> QED BY <4>1, SlotFrom
    <3> HIDE DEF base
    <3> QED BY <3>1, <3>2, Zenon
  <2> HIDE DEF pos
  <2>3. {pos(mScreenRows + i) : i \in 0..(newRows - mScreenRows + shift - 1)}
          = {pos(p) : p \in mScreenRows..(newRows + shift - 1)}
    <3>1. \A i \in 0..(newRows - mScreenRows + shift - 1) :
            mScreenRows + i \in mScreenRows..(newRows + shift - 1)
      BY <1>4, <1>5
    <3>2. \A p \in mScreenRows..(newRows + shift - 1) :
            /\ p - mScreenRows \in 0..(newRows - mScreenRows + shift - 1)
            /\ mScreenRows + (p - mScreenRows) = p
      BY <1>4, <1>5
    <3> QED BY <3>1, <3>2
  <2>4. Revealed(newRows) = {pos(p) : p \in mScreenRows..(newRows + shift - 1)}
    BY <2>1, <2>2, <2>3
  <2>5. ~(newRows > mScreenRows) => mScreenRows..(newRows + shift - 1) = {}
    BY <1>4, <1>5
  <2> QED BY <2>4, <2>5
<1> HIDE DEF slots
<1>12. /\ slots \in SUBSET (0..(n - 1))
       /\ \A p \in Int : pos(p) \in 0..(n - 1)
  <2>1. base \in Int  BY <1>4
  <2>2. \A p \in Int : pos(p) \in 0..(n - 1)  BY <2>1, <1>4, SlotInTheRing
  <2>3. \A p \in mScreenRows..(newRows + shift - 1) : p \in Int  BY <1>4, <1>5
  <2> HIDE DEF pos
  <2> QED BY <2>2, <2>3, <1>11
<1>13. /\ mLines' \in [0..(n - 1) -> Objects \cup {Null}] /\ Distinct(mLines')
       /\ \A s \in slots : mLines'[s] # Null
       /\ \A s \in 0..(n - 1) : mLines[s] # Null => mLines'[s] = mLines[s]
  <2>1. /\ With(mLines, new) \in [0..(n - 1) -> Objects \cup {Null}]
        /\ Distinct(With(mLines, new))
        /\ \A s \in slots : With(mLines, new)[s] # Null
        /\ \A s \in 0..(n - 1) : mLines[s] # Null => With(mLines, new)[s] = mLines[s]
    <3> HIDE DEF base, pos
    <3> QED BY <1>1, <1>3, <1>4, <1>12, Allocating, LinesAssumption, SMTT(30)
  <2> QED BY <1>1, <2>1
<1>14. text' = [r \in Objects |-> IF r \in {mLines'[s] : s \in slots}
                                  THEN Blank ELSE text[r]]
  BY <1>1, Zenon DEF Cleared
<1> HIDE DEF base, pos
<1>15. ASSUME NEW row \in ActiveRows'
       PROVE  View'[row] = IF row + shift < mScreenRows THEN View[row + shift]
                           ELSE Blank
  <2> DEFINE p == row + shift
             o == mLines'[pos(p)]
  <2>1. p \in Int /\ p >= -active /\ p <= newRows + shift - 1
    BY <1>4, <1>5, <1>8
  <2>2. CASE p < mScreenRows
    <3>1. p \in ActiveRows  BY <2>1, <2>2, <1>4, <1>8
    <3>2. /\ ExternalToInternalRow(p) = pos(p) /\ mLines[pos(p)] \in Objects
          /\ View[p] = text[mLines[pos(p)]]
      BY <3>1, <1>9
    <3>3. mLines[pos(p)] # Null  BY <3>2, LinesAssumption DEF Objects
    <3>4. pos(p) \in 0..(n - 1)  BY <2>1, <1>12
    <3>5. o = mLines[pos(p)]  BY <3>3, <3>4, <1>13
    <3>6. o \notin {mLines'[s] : s \in slots}
      <4> SUFFICES ASSUME NEW q \in mScreenRows..(newRows + shift - 1),
                          o = mLines'[pos(q)]
                   PROVE  FALSE
        BY <1>11
      <4>1. q \in Int /\ q - p < T /\ p - q < T /\ p # q
        BY <2>1, <2>2, <1>2, <1>4, <1>5
      <4>2. pos(q) \in 0..(n - 1)  BY <4>1, <1>12
      <4>3. pos(p) = pos(q)
        <5>1. DOMAIN mLines' = 0..(n - 1)  BY <1>13
        <5> QED BY <3>3, <3>4, <3>5, <4>2, <5>1, <1>13, Zenon DEF Distinct
      <4>4. base \in Int  BY <1>4 DEF base
      <4>5. Slot(base, T, p) = Slot(base, T, q)  BY <4>3 DEF pos
      <4>6. p = q  BY <2>1, <4>1, <4>4, <4>5, <1>4, SlotsApart
      <4> QED BY <4>1, <4>6
    <3>7. o \in Objects /\ text'[o] = text[o]
      BY <3>2, <3>5, <3>6, <1>14
    <3>8. View'[row] = text'[o]  BY <3>7, <1>10, ViewAfter
    <3> QED BY <2>2, <3>2, <3>5, <3>7, <3>8
  <2>3. CASE ~(p < mScreenRows)
    <3>1. p \in mScreenRows..(newRows + shift - 1)
      BY <2>1, <2>3, <1>4, <1>5
    <3>2. pos(p) \in slots  BY <3>1, <1>11
    <3>3. pos(p) \in 0..(n - 1)  BY <2>1, <1>12
    <3>4. o \in Objects /\ o \in {mLines'[s] : s \in slots}
      BY <3>2, <3>3, <1>13
    <3>5. View'[row] = text'[o]  BY <3>4, <1>10, ViewAfter
    <3>6. text'[o] = Blank  BY <3>4, <1>14
    <3> QED BY <2>3, <3>5, <3>6
  <2> QED BY <2>2, <2>3
<1> QED BY <1>2, <1>7, <1>15, Zenon DEF shift

\* The history and the screen are one sequence of lines.
LEMMA AllLines ==
  ASSUME BufferInvariant
  PROVE  /\ Hist \o Scr \in Seq(Lines)
         /\ Len(Hist \o Scr) = mActiveTranscriptRows + mScreenRows
         /\ \A k \in 1..(mActiveTranscriptRows + mScreenRows) :
              (Hist \o Scr)[k] = View[k - 1 - mActiveTranscriptRows]
<1>1. /\ mScreenRows \in Nat /\ mActiveTranscriptRows \in Nat
      /\ Hist \in Seq(Lines) /\ Len(Hist) = mActiveTranscriptRows
      /\ Scr \in Seq(Lines) /\ Len(Scr) = mScreenRows
      /\ \A i \in 1..mActiveTranscriptRows :
           Hist[i] = View[i - 1 - mActiveTranscriptRows]
      /\ \A i \in 1..mScreenRows : Scr[i] = View[i - 1]
  <2>1. mTotalRows \in Nat /\ mScreenRows \in 1..mTotalRows
        /\ mActiveTranscriptRows \in 0..(mTotalRows - mScreenRows)
    BY ShownBefore
  <2>2. mScreenRows \in Nat /\ mActiveTranscriptRows \in Nat  BY <2>1
  <2> QED BY <2>2, ShownBefore
<1>2. /\ Hist \o Scr \in Seq(Lines)
      /\ Len(Hist \o Scr) = Len(Hist) + Len(Scr)
      /\ \A k \in 1..(Len(Hist) + Len(Scr)) :
           (Hist \o Scr)[k] = IF k <= Len(Hist) THEN Hist[k]
                              ELSE Scr[k - Len(Hist)]
  BY <1>1, ConcatProperties
<1>3. ASSUME NEW k \in 1..(mActiveTranscriptRows + mScreenRows)
      PROVE  (Hist \o Scr)[k] = View[k - 1 - mActiveTranscriptRows]
  <2>1. CASE k <= mActiveTranscriptRows
    <3>1. k \in 1..mActiveTranscriptRows  BY <2>1, <1>1
    <3> QED BY <3>1, <2>1, <1>1, <1>2
  <2>2. CASE ~(k <= mActiveTranscriptRows)
    <3>1. PICK i \in 1..mScreenRows : i = k - mActiveTranscriptRows
      BY <2>2, <1>1
    <3>2. (Hist \o Scr)[k] = Scr[i]  BY <3>1, <2>2, <1>1, <1>2
    <3>3. i - 1 = k - 1 - mActiveTranscriptRows  BY <3>1, <1>1
    <3>4. Scr[i] = View[i - 1]  BY <1>1
    <3> QED BY <3>2, <3>3, <3>4
  <2> QED BY <2>1, <2>2
<1> QED BY <1>1, <1>2, <1>3

\* A fast resize of the main screen moves the window over its lines.
LEMMA ChangeHeightImplements ==
  ASSUME BufferInvariant, BufferInvariant', NEW newRows \in Nat \ {0},
         ~altScreen, FastResize(newRows)
  PROVE  Screen!ChangeHeight(newRows)
<1> DEFINE shift == ShiftDownOfTopRow(newRows)
           active == mActiveTranscriptRows
           rows == mScreenRows
           lines == Hist \o Scr
           top == Len(Hist) + shift
<1>1. /\ newRows <= mTotalRows /\ mScreenRows' = newRows
      /\ mActiveTranscriptRows' = active + shift
      /\ cursorRow' = Greater(0, cursorRow - shift)
      /\ UNCHANGED <<mTotalRows, altScreen>>
      /\ \A row \in ActiveRows' :
           View'[row] = IF row + shift < rows THEN View[row + shift] ELSE Blank
  BY FastResizeLines
<1>2. shift \in (-active)..rows
  BY ShiftIsBounded DEF BufferInvariant
<1>3. Screen!Shift(newRows) = shift  BY ShiftImplements
<1> HIDE DEF shift
<1>4. active \in Nat /\ rows \in Nat /\ Len(Hist) = active /\ Len(Scr) = rows
  <2>1. mTotalRows \in Nat /\ rows \in 1..mTotalRows
        /\ active \in 0..(mTotalRows - rows)
    BY ShownBefore
  <2>2. active \in Nat /\ rows \in Nat  BY <2>1
  <2> QED BY <2>2, ShownBefore
<1>5. /\ lines \in Seq(Lines) /\ Len(lines) = active + rows
      /\ \A k \in 1..(active + rows) : lines[k] = View[k - 1 - active]
  BY AllLines
<1>6. ActiveRows' = (-(active + shift))..(newRows - 1)
  BY <1>1 DEF ActiveRows
<1>7. top = active + shift /\ top \in 0..(active + rows)  BY <1>2, <1>4
<1>8. /\ Hist' \in Seq(Lines) /\ Len(Hist') = top
      /\ \A i \in 1..top : Hist'[i] = View'[i - 1 - top]
  BY <1>1, <1>7, ShownAfter
<1>9. /\ Scr' \in Seq(Lines) /\ Len(Scr') = newRows
      /\ \A i \in 1..newRows : Scr'[i] = View'[i - 1]
  BY <1>1, ShownAfter
<1> HIDE DEF lines, top
<1>10. Hist' = SubSeq(lines, 1, top)
  <2>1. /\ SubSeq(lines, 1, top) \in Seq(Lines)
        /\ Len(SubSeq(lines, 1, top)) = top
        /\ \A i \in 1..top : SubSeq(lines, 1, top)[i] = lines[i]
    <3>1. 1 \in 1..(Len(lines) + 1) /\ top \in 0..Len(lines) /\ 1 <= top + 1
          /\ top \in Nat
      BY <1>4, <1>5, <1>7
    <3>2. /\ SubSeq(lines, 1, top) \in Seq(Lines)
          /\ Len(SubSeq(lines, 1, top)) = top + 1 - 1
          /\ \A i \in 1..(top + 1 - 1) :
               SubSeq(lines, 1, top)[i] = lines[1 - 1 + i]
      BY <3>1, <1>5, Cut
    <3> QED BY <3>1, <3>2
  <2>2. ASSUME NEW i \in 1..top
        PROVE  Hist'[i] = lines[i]
    <3>1. PICK row \in Int : row = i - 1 - top  BY <1>7, <1>4
    <3>2. row \in ActiveRows'  BY <3>1, <1>1, <1>4, <1>6, <1>7
    <3>3. i \in 1..(active + rows) /\ row + shift = i - 1 - active
          /\ row + shift < rows
      BY <3>1, <1>2, <1>4, <1>7
    <3>4. View'[row] = View[row + shift]  BY <3>2, <3>3, <1>1
    <3>5. lines[i] = View[i - 1 - active]  BY <3>3, <1>5
    <3> QED BY <3>1, <3>3, <3>4, <3>5, <1>8
  <2> QED BY <2>1, <2>2, <1>8, SeqEqual
<1>11. Scr' = [i \in 1..newRows |-> IF top + i <= Len(lines) THEN lines[top + i]
                                                             ELSE Blank]
  <2>1. ASSUME NEW i \in 1..newRows
        PROVE  Scr'[i] = IF top + i <= Len(lines) THEN lines[top + i] ELSE Blank
    <3>1. PICK row \in Int : row = i - 1  OBVIOUS
    <3>2. row \in ActiveRows'  BY <3>1, <1>2, <1>4, <1>6
    <3>3. Scr'[i] = View'[row]  BY <3>1, <1>9
    <3>4. row + shift < rows <=> top + i <= Len(lines)
      BY <3>1, <1>2, <1>4, <1>5, <1>7
    <3>5. CASE row + shift < rows
      <4>1. PICK k \in 1..(active + rows) : k = top + i
        BY <3>4, <3>5, <1>4, <1>5, <1>7
      <4>2. k - 1 - active = row + shift  BY <4>1, <3>1, <1>2, <1>4, <1>7
      <4>3. lines[k] = View[row + shift]  BY <4>2, <1>5
      <4>4. View'[row] = View[row + shift]  BY <3>2, <3>5, <1>1
      <4> QED BY <4>1, <4>3, <4>4, <3>3, <3>4, <3>5
    <3>6. CASE ~(row + shift < rows)  BY <3>2, <3>3, <3>4, <3>6, <1>1
    <3> QED BY <3>5, <3>6
  <2>2. Scr' = [i \in 1..newRows |-> Scr'[i]]
    <3>1. Scr' \in [1..newRows -> Lines]
      <4>1. Scr' \in Seq(Lines) /\ Len(Scr') = newRows  BY <1>9
      <4> QED BY <4>1, LenProperties
    <3> QED BY <3>1
  <2> QED BY <2>1, <2>2
<1>12. cursorRow' = Screen!Greater(0, cursorRow - shift)
  BY <1>1, Zenon DEF Greater, Screen!Greater
<1>13. /\ Hist' = SubSeq(Hist \o Scr, 1, Len(Hist) + Screen!Shift(newRows))
       /\ Scr' = [i \in 1..newRows |->
                    IF Len(Hist) + Screen!Shift(newRows) + i <= Len(Hist \o Scr)
                    THEN (Hist \o Scr)[Len(Hist) + Screen!Shift(newRows) + i]
                    ELSE Blank]
  BY <1>3, <1>10, <1>11 DEF lines, top
<1> QED BY <1>1, <1>3, <1>12, <1>13, Zenon DEF Screen!ChangeHeight, Hist, Scr

\* A slot of a ring that is all screen is the slot of one of its rows.
LEMMA RowOfSlot ==
  ASSUME NEW total \in Nat \ {0}, NEW first \in Nat, NEW s \in 0..(total - 1)
  PROVE  \E row \in 0..(total - 1) : SlotOf(first, total, row) = s
<1> DEFINE row == (s - first) % total
           q == (s - first) \div total
           u == (first + row) \div total
<1>1. s - first \in Int  OBVIOUS
<1>2. row \in 0..(total - 1) /\ s - first = total * q + row /\ q \in Int
  BY <1>1, DivMod
<1> HIDE DEF row, q
<1>3. first + row \in Int  BY <1>2
<1>4. /\ (first + row) % total \in 0..(total - 1) /\ u \in Int
      /\ first + row = total * u + ((first + row) % total)
  BY <1>3, DivMod
<1> HIDE DEF u
<1>5. total * (-q) = -(total * q)
  <2>1. q + (-q) = 0 /\ -q \in Int /\ total * 0 = 0  BY <1>2
  <2>2. total * (q + (-q)) = total * q + total * (-q)
    BY <2>1, <1>2, Distributes
  <2> QED BY <2>1, <2>2, <1>2
<1>6. total * (-q) + s = total * u + ((first + row) % total)
  BY <1>2, <1>4, <1>5
<1>7. -q \in Int  BY <1>2
<1>8. s = (first + row) % total  BY <1>4, <1>6, <1>7, RemainderIsUnique
<1>9. ~(first + row < 0)  BY <1>2
<1>10. SlotOf(first, total, row) = s  BY <1>8, <1>9 DEF SlotOf
<1> QED BY <1>2, <1>10

\* The alternative screen: its ring loses slots, and the rest still shows
\* lines that it showed.
LEMMA ShrinkAltImplements ==
  ASSUME BufferInvariant, BufferInvariant', NEW newRows \in Nat \ {0},
         altScreen, FastResize(newRows)
  PROVE  Screen!ShrinkAlt(newRows)
<1> DEFINE T == mTotalRows
           shift == ShiftDownOfTopRow(newRows)
<1>1. newRows <= T /\ mScreenRows = T /\ T \in Nat \ {0} /\ T <= TotalRows
      /\ mScreenFirstRow \in Nat /\ TotalRows \in Nat
      /\ Full(mLines) /\ mActiveTranscriptRows = 0
  BY InvariantFacts, SizesAssumption, Zenon
  DEF FastResize, FastResizeClearing, BufferInvariant
<1>2. shift \in 0..(T - newRows)  BY <1>1, ShiftIsBounded DEF BufferInvariant
<1>3. ~(newRows > mScreenRows) /\ ~(mScreenFirstRow + shift < 0)
  <2> HIDE DEF shift
  <2> QED BY <1>1, <1>2
<1>4. PICK new \in Allocations(mLines, {}) :
        mLines' = With(mLines, new) /\ text' = Cleared(mLines', {})
  BY <1>3, Zenon DEF FastResize, FastResizeClearing
<1>5. /\ mScreenFirstRow' = (mScreenFirstRow + shift) % T
      /\ mTotalRows' = newRows /\ mScreenRows' = newRows
      /\ mActiveTranscriptRows' = 0 /\ altScreen' = altScreen
      /\ cursorRow' = Greater(0, cursorRow - shift)
  BY <1>3, Zenon DEF FastResize, FastResizeClearing
<1>6. PICK n \in mTotalRows..TotalRows :
        mScreenFirstRow < n /\ mLines \in [0..(n - 1) -> Objects \cup {Null}]
  BY InvariantFacts DEF BufferInvariant
<1>7. Screen!Shift(newRows) = shift  BY ShiftImplements
<1> HIDE DEF shift
<1>8. mLines' = mLines
  <2>1. n \in Nat /\ {} \in SUBSET (0..(n - 1))  BY <1>1, <1>6
  <2>2. Distinct(mLines)  BY InvariantFacts DEF BufferInvariant
  <2> QED BY <2>1, <2>2, <1>1, <1>4, <1>6, Allocating, LinesAssumption
<1>9. text' = text
  <2>1. text \in [Objects -> Lines]  BY DEF BufferInvariant
  <2>2. text' = [r \in Objects |-> text[r]]  BY <1>4 DEF Cleared
  <2> QED BY <2>1, <2>2
<1>10. mScreenFirstRow' \in Nat
  <2>1. mScreenFirstRow + shift \in Int  BY <1>1, <1>2
  <2>2. (mScreenFirstRow + shift) % T \in 0..(T - 1)  BY <2>1, <1>1, DivMod
  <2> QED BY <2>2, <1>1, <1>5
<1>11. /\ Scr \in Seq(Lines) /\ Len(Scr) = T
       /\ \A i \in 1..T : Scr[i] = View[i - 1]
  BY <1>1, ShownBefore
<1>12. /\ Scr' \in Seq(Lines) /\ Len(Scr') = newRows
       /\ \A i \in 1..newRows : Scr'[i] = View'[i - 1]
  BY <1>5, ShownAfter
<1>13. ASSUME NEW i \in 1..newRows
       PROVE  Scr'[i] \in {Scr[j] : j \in 1..Len(Scr)}
  <2>1. PICK row \in 0..(newRows - 1) : row = i - 1  OBVIOUS
  <2>2. row \in ActiveRows'  BY <1>5 DEF ActiveRows
  <2>3. ExternalToInternalRow(row)' = SlotOf(mScreenFirstRow', newRows, row)
    BY <1>5, Zenon DEF ExternalToInternalRow, SlotOf
  <2>4. PICK f \in Nat : f = mScreenFirstRow'  BY <1>10
  <2>5. SlotOf(f, newRows, row) \in 0..(newRows - 1)
    <3>1. row \in (-newRows)..newRows  OBVIOUS
    <3> QED BY <3>1, SlotInRing
  <2>6. PICK s \in 0..(T - 1) : s = ExternalToInternalRow(row)'
    BY <2>3, <2>4, <2>5, <1>1
  <2>7. PICK p \in 0..(T - 1) : SlotOf(mScreenFirstRow, T, p) = s
    BY <1>1, RowOfSlot
  <2>8. /\ mLines[ExternalToInternalRow(p)] \in Objects
        /\ View[p] = text[mLines[ExternalToInternalRow(p)]]
    BY <1>1, ScreenRow
  <2>9. ExternalToInternalRow(p) = s  BY <2>7, SlotsOfRows
  <2>10. View'[row] = View[p]
    <3>1. mLines'[ExternalToInternalRow(row)'] = mLines[s]  BY <2>6, <1>8
    <3>2. View'[row] = text'[mLines[s]]  BY <3>1, <2>2, <2>8, <2>9, ViewAfter
    <3> QED BY <3>2, <2>8, <2>9, <1>9
  <2>11. PICK j \in 1..T : j = p + 1  BY <1>1
  <2>12. Scr[j] = View[p]
    <3>1. j - 1 = p  BY <2>11
    <3> QED BY <3>1, <1>11
  <2> QED BY <2>1, <2>10, <2>11, <2>12, <1>11, <1>12
<1>14. Scr' \in [1..newRows -> {Scr[j] : j \in 1..Len(Scr)}]
  <2>1. Scr' \in [1..newRows -> Lines]
    <3>1. Scr' \in Seq(Lines) /\ Len(Scr') = newRows  BY <1>12
    <3> QED BY <3>1, LenProperties
  <2> QED BY <2>1, <1>13
<1>15. Hist' = Hist
  <2>1. Hist \in Seq(Lines) /\ Len(Hist) = 0  BY <1>1, ShownBefore
  <2>2. Hist' \in Seq(Lines) /\ Len(Hist') = 0  BY <1>5, ShownAfter
  <2> QED BY <2>1, <2>2, EmptySeq
<1>16. cursorRow' = Screen!Greater(0, cursorRow - Screen!Shift(newRows))
  BY <1>5, <1>7, Zenon DEF Greater, Screen!Greater
<1> QED BY <1>1, <1>5, <1>14, <1>15, <1>16, Zenon DEF Screen!ShrinkAlt, Hist, Scr

\* A slow resize leaves the new lines open, within the ring.
LEMMA ReflowImplements ==
  ASSUME BufferInvariant, BufferInvariant', NEW newRows \in Nat \ {0},
         newRows <= TotalRows, SlowResize(newRows)
  PROVE  Screen!Reflow(newRows)
<1> DEFINE total == IF altScreen THEN newRows ELSE mTotalRows
           h == mActiveTranscriptRows'
<1>1. /\ mTotalRows' = total /\ mScreenRows' = newRows
      /\ cursorRow' \in 0..(newRows - 1) /\ altScreen' = altScreen
  BY Zenon DEF SlowResize
<1>2. /\ newRows <= total /\ h \in 0..(total - newRows)
  <2>1. TypeOK'  BY DEF BufferInvariant, RingInvariant
  <2>2. mScreenRows' \in 1..mTotalRows' /\ h \in 0..(mTotalRows' - mScreenRows')
    BY <2>1 DEF TypeOK
  <2> HIDE DEF total, h
  <2> QED BY <2>2, <1>1
<1>3. Hist' \in [1..h -> Lines]
  <2>1. Hist' \in Seq(Lines) /\ Len(Hist') = h  BY ShownAfter
  <2> QED BY <2>1, LenProperties
<1>4. Scr' \in [1..newRows -> Lines]
  <2>1. Scr' \in Seq(Lines) /\ Len(Scr') = newRows  BY <1>1, ShownAfter
  <2> QED BY <2>1, LenProperties
<1>5. Screen!Lines = Lines  BY Zenon DEF Screen!Lines, Lines
<1>6. mTotalRows' = (IF altScreen THEN newRows ELSE mTotalRows)  BY <1>1
<1>7. newRows <= mTotalRows'  BY <1>1, <1>2
<1>8. \E k \in 0..(mTotalRows' - newRows) : Hist' \in [1..k -> Lines]
  BY <1>1, <1>2, <1>3
<1> HIDE DEF total, h
<1> QED BY <1>1, <1>4, <1>5, <1>6, <1>7, <1>8, Zenon DEF Screen!Reflow, Hist, Scr

\* The emulator's cursor.
LEMMA MoveCursorImplements ==
  ASSUME BufferInvariant, BufferInvariant', NEW row \in 0..(mScreenRows - 1),
         MoveCursor(row)
  PROVE  Screen!MoveCursor(row)
<1>1. cursorRow' = row /\ UNCHANGED <<mLines, ring, text, altScreen>>
  BY Zenon DEF MoveCursor
<1>2. mTotalRows' = mTotalRows  BY <1>1, Zenon DEF ring
<1>3. Hist' = Hist /\ Scr' = Scr
  BY <1>1, Zenon DEF Hist, Scr, LineAt, ExternalToInternalRow, ring
<1>4. Screen!Rows = 0..(mScreenRows - 1)
  <2>1. Len(Scr) = mScreenRows  BY ShownBefore
  <2>2. Screen!Rows = 0..(Len(Scr) - 1)  BY Zenon DEF Screen!Rows, Scr
  <2> QED BY <2>1, <2>2
<1> QED BY <1>1, <1>2, <1>3, <1>4, Zenon DEF Screen!MoveCursor, Hist, Scr

\* Nothing that is shown changes when no variable does.
LEMMA StutterImplements ==
  ASSUME UNCHANGED vars
  PROVE  UNCHANGED Screen!vars
<1>1. Hist' = Hist /\ Scr' = Scr
  BY Zenon DEF vars, Hist, Scr, LineAt, ExternalToInternalRow, ring
<1> QED BY <1>1, Zenon DEF Screen!vars, vars, ring, Hist, Scr

-----------------------------------------------------------------------------
\* Row objects keep lines in them.
LEMMA TextsStep ==
  ASSUME BufferInvariant, [Next]_vars
  PROVE  text' \in [Objects -> Lines]
<1>1. RingInvariant /\ text \in [Objects -> Lines] /\ Blank \in Lines
  BY DEF BufferInvariant, Lines
<1>2. ASSUME NEW top \in 0..mScreenRows, NEW bottom \in 0..mScreenRows,
             ScrollDownOneLine(top, bottom)
      PROVE  text' \in [Objects -> Lines]
  <2>1. top \in Int /\ bottom \in Int  OBVIOUS
  <2>2. text' = [r \in Objects |->
                   IF r = mLines'[ExternalToInternalRow(bottom - 1)']
                   THEN Blank ELSE text[r]]
    BY <1>1, <1>2, <2>1, ScrollMoves
  <2> QED BY <1>1, <2>2
<1>3. ASSUME NEW sy \in 0..mScreenRows, NEW h \in 0..mScreenRows,
             NEW line \in Lines, BlockSet(sy, h, line)
      PROVE  text' \in [Objects -> Lines]
  <2>1. PICK slots :
          text' = [r \in Objects |-> IF r \in {mLines'[s] : s \in slots}
                                     THEN line ELSE text[r]]
    BY <1>3, Zenon DEF BlockSet
  <2> QED BY <1>1, <2>1
<1>4. ASSUME NEW sy \in 0..mScreenRows, NEW h \in 0..mScreenRows,
             NEW dy \in 0..mScreenRows, BlockCopy(sy, h, dy)
      PROVE  text' \in [Objects -> Lines]
  <2>1. sy \in Nat /\ h \in Nat /\ dy \in Nat  OBVIOUS
  <2> QED BY <1>4, <2>1, CopyLinesMoves
<1>5. ASSUME NEW row \in 0..(mScreenRows - 1), MoveCursor(row)
      PROVE  text' \in [Objects -> Lines]
  BY <1>1, <1>5, Zenon DEF MoveCursor
<1>6. ASSUME NEW newRows \in Heights, Resize(newRows)
      PROVE  text' \in [Objects -> Lines]
  <2>1. CASE FastResize(newRows)
    <3>1. PICK slots : text' = Cleared(mLines', slots)
      BY <2>1, Zenon DEF FastResize, FastResizeClearing
    <3> QED BY <1>1, <3>1 DEF Cleared
  <2>2. CASE SlowResize(newRows)
    <3>1. text' \in Reflows  BY <2>2, Zenon DEF SlowResize
    <3> QED BY <3>1, ReflowsAssumption
  <2> QED BY <1>6, <2>1, <2>2 DEF Resize
<1>7. CASE ClearTranscript  BY <1>1, <1>7, Zenon DEF ClearTranscript
<1>8. CASE UNCHANGED vars  BY <1>1, <1>8, Zenon DEF vars
<1> QED BY <1>2, <1>3, <1>4, <1>5, <1>6, <1>7, <1>8, Zenon DEF Next

\* Every step of the buffer is a step of LineScreen, or none.
LEMMA ScreenStep ==
  ASSUME BufferInvariant, BufferInvariant', [Next]_vars
  PROVE  [Screen!Next]_(Screen!vars)
<1>1. Len(Scr) = mScreenRows /\ mScreenRows \in Nat
  <2>1. mTotalRows \in Nat /\ mScreenRows \in 1..mTotalRows  BY ShownBefore
  <2>2. mScreenRows \in Nat  BY <2>1
  <2> QED BY <2>2, ShownBefore
<1>2. Screen!Lines = Lines  BY Zenon DEF Screen!Lines, Lines
<1>3. Screen!Rows = 0..(mScreenRows - 1)
  <2>1. Screen!Rows = 0..(Len(Scr) - 1)  BY Zenon DEF Screen!Rows, Scr
  <2> QED BY <2>1, <1>1
<1>4. Screen!Next <=>
        \/ \E top, bottom \in 0..mScreenRows : Screen!Scroll(top, bottom)
        \/ \E first, h \in 0..mScreenRows, line \in Lines :
             Screen!Fill(first, h, line)
        \/ \E from, h, to \in 0..mScreenRows : Screen!Copy(from, h, to)
        \/ \E row \in 0..(mScreenRows - 1) : Screen!MoveCursor(row)
        \/ \E n \in Heights : \/ Screen!ChangeHeight(n) \/ Screen!ShrinkAlt(n)
                              \/ Screen!Reflow(n)
        \/ Screen!Forget
  BY <1>1, <1>2, <1>3, Zenon DEF Screen!Next, Scr
<1>5. ASSUME NEW top \in 0..mScreenRows, NEW bottom \in 0..mScreenRows,
             ScrollDownOneLine(top, bottom)
      PROVE  Screen!Next
  <2>1. top \in Int /\ bottom \in Int  OBVIOUS
  <2>2. Screen!Scroll(top, bottom)  BY <1>5, <2>1, ScrollImplements
  <2> QED BY <1>4, <2>2, Zenon
<1>6. ASSUME NEW sy \in 0..mScreenRows, NEW h \in 0..mScreenRows,
             NEW line \in Lines, BlockSet(sy, h, line)
      PROVE  Screen!Next
  <2>1. sy \in Nat /\ h \in Nat  OBVIOUS
  <2>2. Screen!Fill(sy, h, line)  BY <1>6, <2>1, FillImplements
  <2> QED BY <1>4, <2>2, Zenon
<1>7. ASSUME NEW sy \in 0..mScreenRows, NEW h \in 0..mScreenRows,
             NEW dy \in 0..mScreenRows, BlockCopy(sy, h, dy)
      PROVE  Screen!Next
  <2>1. sy \in Nat /\ h \in Nat /\ dy \in Nat  OBVIOUS
  <2>2. Screen!Copy(sy, h, dy)  BY <1>7, <2>1, CopyImplements
  <2> QED BY <1>4, <2>2, Zenon
<1>8. ASSUME NEW row \in 0..(mScreenRows - 1), MoveCursor(row)
      PROVE  Screen!Next
  <2>1. Screen!MoveCursor(row)  BY <1>8, MoveCursorImplements
  <2> QED BY <1>4, <2>1, Zenon
<1>9. ASSUME NEW newRows \in Heights, Resize(newRows)
      PROVE  Screen!Next
  <2>1. newRows \in Nat \ {0} /\ newRows <= TotalRows  BY SizesAssumption
  <2>2. Screen!ChangeHeight(newRows) \/ Screen!ShrinkAlt(newRows)
        \/ Screen!Reflow(newRows)
    <3>1. CASE FastResize(newRows)
      BY <2>1, <3>1, ChangeHeightImplements, ShrinkAltImplements
    <3>2. CASE SlowResize(newRows)  BY <2>1, <3>2, ReflowImplements
    <3> QED BY <1>9, <3>1, <3>2, Zenon DEF Resize
  <2> QED BY <1>4, <2>2, Zenon
<1>10. CASE ClearTranscript
  <2>1. Screen!Forget  BY <1>10, ForgetImplements
  <2> QED BY <1>4, <2>1, Zenon
<1>11. CASE UNCHANGED vars  BY <1>11, StutterImplements, Zenon
<1> QED BY <1>5, <1>6, <1>7, <1>8, <1>9, <1>10, <1>11, Zenon DEF Next

\* Both start with an empty history and blank lines.
LEMMA ScreenInit ==
  ASSUME Init
  PROVE  BufferInvariant /\ Screen!Init
<1>1. RingInvariant  BY InitStep
<1>2. text = [r \in Objects |-> Blank] /\ mActiveTranscriptRows = 0
      /\ mScreenRows \in Heights /\ cursorRow = 0 /\ altScreen \in BOOLEAN
      /\ mTotalRows = IF altScreen THEN mScreenRows ELSE TotalRows
  BY Zenon DEF Init
<1>3. BufferInvariant  BY <1>1, <1>2 DEF BufferInvariant, Lines
<1>4. /\ mTotalRows \in Nat /\ mScreenRows \in Nat /\ mScreenRows <= mTotalRows
      /\ Hist \in Seq(Lines) /\ Len(Hist) = 0
      /\ Scr \in Seq(Lines) /\ Len(Scr) = mScreenRows
      /\ \A i \in 1..mScreenRows : Scr[i] = View[i - 1]
  <2>1. mTotalRows \in Nat /\ mScreenRows \in 1..mTotalRows
    BY <1>3, ShownBefore
  <2>2. mTotalRows \in Nat /\ mScreenRows \in Nat /\ mScreenRows <= mTotalRows
    BY <2>1
  <2> QED BY <2>2, <1>2, <1>3, ShownBefore
<1>5. Hist = <<>>  BY <1>4, EmptySeq
<1>6. Scr = [i \in 1..mScreenRows |-> Blank]
  <2>1. ASSUME NEW i \in 1..mScreenRows
        PROVE  Scr[i] = Blank
    <3>1. PICK row \in 0..(mScreenRows - 1) : row = i - 1  BY <1>4
    <3>2. /\ mLines[ExternalToInternalRow(row)] \in Objects
          /\ View[row] = text[mLines[ExternalToInternalRow(row)]]
      BY <1>3, ScreenRow
    <3>3. text[mLines[ExternalToInternalRow(row)]] = Blank  BY <3>2, <1>2
    <3> QED BY <3>1, <3>2, <3>3, <1>4
  <2>2. Scr = [i \in 1..mScreenRows |-> Scr[i]]  BY Zenon DEF Scr
  <2> QED BY <2>1, <2>2
<1>7. /\ \E n \in Heights : Scr = [i \in 1..n |-> Blank]
      /\ mTotalRows >= Len(Scr) /\ (altScreen => mTotalRows = Len(Scr))
  BY <1>2, <1>4, <1>6
<1> QED BY <1>2, <1>3, <1>4, <1>5, <1>7, Zenon DEF Screen!Init, Hist, Scr

\* The ring is a history and a screen: for every size of the ring, all heights
\* and all texts, TerminalBuffer's operations do to the lines that can be shown
\* what LineScreen says, whatever slots and row objects they go through.
THEOREM RingIsHistoryAndScreen == Spec => ImplementsScreen
<1>1. Init => BufferInvariant /\ Screen!Init  BY ScreenInit
<1>2. BufferInvariant /\ [Next]_vars => BufferInvariant'
  BY RingStep, TextsStep DEF BufferInvariant
<1>3. BufferInvariant /\ BufferInvariant' /\ [Next]_vars
        => [Screen!Next]_(Screen!vars)
  BY ScreenStep
<1> QED BY <1>1, <1>2, <1>3, PTL DEF Spec, ImplementsScreen, Screen!Spec
=============================================================================
