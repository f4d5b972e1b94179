-------------------------- MODULE ByteQueueProofs --------------------------
(***************************************************************************)
(* ByteQueue's safety, for every capacity, every set of request lengths    *)
(* and streams of any length.                                              *)
(***************************************************************************)
EXTENDS ByteQueue, SequenceTheorems, TLAPS

-----------------------------------------------------------------------------
\* Appending the next n numbers to a stretch of consecutive numbers that ends
\* at t gives the stretch that ends at t + n: what one run of read() does to
\* the caller's buffer.
LEMMA ConsecutiveExtends ==
  ASSUME NEW s \in Seq(Nat), NEW u \in Seq(Nat), NEW t \in Nat,
         IsStretch(s, t), \A i \in 1..Len(u) : u[i] = t + i
  PROVE  s \o u \in Seq(Nat) /\ IsStretch(s \o u, t + Len(u))
<1>1. /\ s \o u \in Seq(Nat) /\ Len(s \o u) = Len(s) + Len(u)
      /\ Len(s) \in Nat /\ Len(u) \in Nat
  BY ConcatProperties, LenProperties
<1>2. ASSUME NEW i \in 1..(Len(s) + Len(u))
      PROVE  (s \o u)[i] = t + Len(u) - (Len(s) + Len(u)) + i
  <2>1. CASE i <= Len(s)
    <3>1. (s \o u)[i] = s[i]
      BY <2>1, ConcatProperties
    <3>2. s[i] = t - Len(s) + i
      BY <2>1 DEF IsStretch
    <3> QED
      BY <1>1, <3>1, <3>2
  <2>2. CASE i > Len(s)
    <3>1. (s \o u)[i] = u[i - Len(s)]
      BY <1>1, <2>2, ConcatProperties
    <3>2. i - Len(s) \in 1..Len(u)
      BY <1>1, <2>2
    <3> QED
      BY <1>1, <3>1, <3>2
  <2> QED
    BY <1>1, <2>1, <2>2
<1> QED
  BY <1>1, <1>2 DEF IsStretch

-----------------------------------------------------------------------------
\* The initial state satisfies the inductive invariant.
LEMMA InitInvariant == Init => InductiveInvariant
<1> SUFFICES ASSUME Init PROVE InductiveInvariant
  OBVIOUS
<1> USE CapacityAssumption DEF Init
<1>1. TypeOK
  <2>1. out \in Seq(Nat)
    BY EmptySeq
  <2>2. /\ mBuffer \in [Slots -> Nat] /\ mHead \in Slots
        /\ mStoredBytes \in 0..Capacity
    BY DEF Slots
  <2>3. /\ length \in Nat /\ rret \in Nat \cup {-1} /\ lengthToWrite \in Nat
        /\ chunk \in Nat /\ asked \in Nat /\ sent \in Nat /\ taken \in Nat
    OBVIOUS
  <2>4. /\ mOpen \in BOOLEAN /\ lock \in {"none", "reader", "writer"}
        /\ waitSet \subseteq {"reader", "writer"}
        /\ rpc \in {"idle", "enter", "copy"} /\ block \in BOOLEAN
        /\ wasFull \in BOOLEAN /\ wpc \in {"idle", "outer", "inner"}
        /\ wasEmpty \in BOOLEAN /\ wret \in BOOLEAN
    OBVIOUS
  <2> QED
    BY <2>1, <2>2, <2>3, <2>4, Zenon DEF TypeOK
<1>2. MonitorIsExclusive /\ SignalIsOwed /\ ChunkFits
  BY DEF MonitorIsExclusive, SignalIsOwed, ChunkFits
<1>3. RingHoldsUnreadBytes /\ ReadsAreConsecutive /\ WriteResultIsTruthful
  <2>1. Len(out) = 0
    BY EmptySeq
  <2> QED
    BY <2>1 DEF RingHoldsUnreadBytes, ReadsAreConsecutive, IsStretch,
                WriteResultIsTruthful
<1> QED
  BY <1>1, <1>2, <1>3 DEF InductiveInvariant

-----------------------------------------------------------------------------
\* A step that leaves the ring, its fields and the two counters alone keeps
\* what the ring holds; one that also leaves the caller's buffer alone keeps
\* what read() has copied.
LEMMA RingUntouched ==
  ASSUME RingHoldsUnreadBytes,
         UNCHANGED <<mBuffer, mHead, mStoredBytes, sent, taken>>
  PROVE  RingHoldsUnreadBytes'
BY DEF RingHoldsUnreadBytes, Slot

LEMMA CopyUntouched ==
  ASSUME ReadsAreConsecutive, UNCHANGED <<out, taken>>
  PROVE  ReadsAreConsecutive'
BY DEF ReadsAreConsecutive, IsStretch

\* With at most one thread in the wait set, notify() empties it.
LEMMA NotifyEmpties ==
  ASSUME Notify, TypeOK, OneWaiterAtMost
  PROVE  waitSet' = {}
BY DEF Notify, TypeOK, OneWaiterAtMost

\* The two threads never wait at once: the wait conditions exclude each other
\* and so do the sections in which a signal is owed.
LEMMA InvariantOneWaiter ==
  ASSUME InductiveInvariant
  PROVE  OneWaiterAtMost
<1>1. ~("reader" \in waitSet /\ "writer" \in waitSet)
  BY CapacityAssumption
     DEF InductiveInvariant, TypeOK, MonitorIsExclusive, SignalIsOwed
<1> QED
  BY <1>1 DEF OneWaiterAtMost

-----------------------------------------------------------------------------
\* close() preserves the inductive invariant: its one signal empties the wait
\* set, so nobody is left waiting on a closed queue.
LEMMA CloseStep ==
  ASSUME InductiveInvariant, Close
  PROVE  InductiveInvariant'
<1> USE DEF object, readFrame, writeFrame
<1>1. waitSet' = {}
  BY InvariantOneWaiter, NotifyEmpties DEF InductiveInvariant, Close, CloseThen
<1>2. TypeOK'
  BY <1>1 DEF InductiveInvariant, TypeOK, Close, CloseThen
<1>3. MonitorIsExclusive' /\ SignalIsOwed' /\ ChunkFits'
  BY <1>1 DEF InductiveInvariant, MonitorIsExclusive, SignalIsOwed, ChunkFits, Close, CloseThen
<1>4. WriteResultIsTruthful'
  BY DEF InductiveInvariant, WriteResultIsTruthful, Close, CloseThen
<1>5. RingHoldsUnreadBytes' /\ ReadsAreConsecutive'
  BY RingUntouched, CopyUntouched DEF InductiveInvariant, Close, CloseThen
<1> QED
  BY <1>2, <1>3, <1>4, <1>5 DEF InductiveInvariant

\* A consumer that waits does so on an empty open queue.
LEMMA ReadWaitStep ==
  ASSUME InductiveInvariant, ReadWait
  PROVE  InductiveInvariant'
<1> USE DEF object, readFrame, writeFrame, ReaderEnters, WriterAtLoop
<1>1. TypeOK'
  BY CapacityAssumption DEF InductiveInvariant, TypeOK, ReadWait
<1>2. MonitorIsExclusive' /\ SignalIsOwed' /\ ChunkFits'
  BY CapacityAssumption
     DEF InductiveInvariant, TypeOK, MonitorIsExclusive, SignalIsOwed, ChunkFits, ReadWait
<1>3. WriteResultIsTruthful'
  BY DEF InductiveInvariant, TypeOK, WriteResultIsTruthful, ChunkFits, ReadWait
<1>4. RingHoldsUnreadBytes' /\ ReadsAreConsecutive'
  BY RingUntouched, CopyUntouched DEF InductiveInvariant, ReadWait
<1> QED
  BY <1>1, <1>2, <1>3, <1>4 DEF InductiveInvariant

\* A read() that returns without bytes changes only its own frame.
LEMMA ReadNothingStep ==
  ASSUME InductiveInvariant, ReadNothing
  PROVE  InductiveInvariant'
<1> USE DEF object, readFrame, writeFrame, ReaderEnters, WriterAtLoop
<1>1. TypeOK'
  BY CapacityAssumption DEF InductiveInvariant, TypeOK, ReadNothing
<1>2. MonitorIsExclusive' /\ SignalIsOwed' /\ ChunkFits'
  BY CapacityAssumption
     DEF InductiveInvariant, TypeOK, MonitorIsExclusive, SignalIsOwed, ChunkFits, ReadNothing
<1>3. WriteResultIsTruthful'
  BY DEF InductiveInvariant, TypeOK, WriteResultIsTruthful, ChunkFits, ReadNothing
<1>4. RingHoldsUnreadBytes' /\ ReadsAreConsecutive'
  BY RingUntouched, CopyUntouched DEF InductiveInvariant, ReadNothing
<1> QED
  BY <1>1, <1>2, <1>3, <1>4 DEF InductiveInvariant

\* A read() that begins to copy owns the monitor of an open queue.
LEMMA ReadBeginStep ==
  ASSUME InductiveInvariant, ReadBegin
  PROVE  InductiveInvariant'
<1> USE DEF object, readFrame, writeFrame, ReaderEnters, WriterAtLoop
<1>1. TypeOK'
  BY CapacityAssumption DEF InductiveInvariant, TypeOK, ReadBegin
<1>2. MonitorIsExclusive' /\ SignalIsOwed' /\ ChunkFits'
  <2>1. MonitorIsExclusive' /\ ChunkFits'
    BY DEF InductiveInvariant, TypeOK, MonitorIsExclusive, ChunkFits, ReadBegin
  <2>2. wasFull' <=> mStoredBytes = Capacity
    BY DEF ReadBegin
  <2>3. /\ rpc = "enter" /\ rpc' = "copy" /\ "reader" \notin waitSet
        /\ waitSet' = waitSet /\ mOpen' = mOpen /\ mStoredBytes' = mStoredBytes
        /\ wpc # "inner" /\ wpc' = wpc
    BY DEF InductiveInvariant, MonitorIsExclusive, ReadBegin
  <2>4. mStoredBytes # Capacity => mStoredBytes < Capacity
    BY CapacityAssumption DEF InductiveInvariant, TypeOK
  <2>5. SignalIsOwed'
    BY <2>2, <2>3, <2>4, Zenon DEF InductiveInvariant, SignalIsOwed
  <2> QED
    BY <2>1, <2>5
<1>3. WriteResultIsTruthful'
  BY DEF InductiveInvariant, TypeOK, WriteResultIsTruthful, ChunkFits, ReadBegin
<1>4. RingHoldsUnreadBytes' /\ ReadsAreConsecutive'
  BY RingUntouched, CopyUntouched DEF InductiveInvariant, ReadBegin
<1> QED
  BY <1>1, <1>2, <1>3, <1>4 DEF InductiveInvariant

\* A producer that waits does so on a full open queue.
LEMMA WriteWaitStep ==
  ASSUME InductiveInvariant, WriteWait
  PROVE  InductiveInvariant'
<1> USE DEF object, readFrame, writeFrame, ReaderEnters, WriterAtLoop
<1>1. TypeOK'
  BY CapacityAssumption DEF InductiveInvariant, TypeOK, WriteWait
<1>2. MonitorIsExclusive' /\ SignalIsOwed' /\ ChunkFits'
  BY CapacityAssumption
     DEF InductiveInvariant, TypeOK, MonitorIsExclusive, SignalIsOwed, ChunkFits, WriteWait
<1>3. WriteResultIsTruthful'
  BY DEF InductiveInvariant, TypeOK, WriteResultIsTruthful, ChunkFits, WriteWait
<1>4. RingHoldsUnreadBytes' /\ ReadsAreConsecutive'
  BY RingUntouched, CopyUntouched DEF InductiveInvariant, WriteWait
<1> QED
  BY <1>1, <1>2, <1>3, <1>4 DEF InductiveInvariant

\* write() returns true with nothing left to write, false on a closed queue.
LEMMA WriteReturnStep ==
  ASSUME InductiveInvariant, WriteReturn
  PROVE  InductiveInvariant'
<1> USE DEF object, readFrame, writeFrame, ReaderEnters, WriterAtLoop
<1>1. TypeOK'
  BY CapacityAssumption DEF InductiveInvariant, TypeOK, WriteReturn, WriteReturnWith
<1>2. MonitorIsExclusive' /\ SignalIsOwed' /\ ChunkFits'
  BY CapacityAssumption
     DEF InductiveInvariant, TypeOK, MonitorIsExclusive, SignalIsOwed, ChunkFits,
        WriteReturn, WriteReturnWith
<1>3. WriteResultIsTruthful'
  <2>1. /\ wret' <=> lengthToWrite = 0
        /\ lengthToWrite = 0 \/ ~mOpen
        /\ sent' = sent /\ asked' = asked /\ mOpen' = mOpen
    BY Zenon DEF WriteReturn, WriteReturnWith
  <2>2. /\ asked = sent + chunk + lengthToWrite /\ lengthToWrite \in Nat /\ sent \in Nat
        /\ chunk = 0
    BY DEF InductiveInvariant, TypeOK, ChunkFits, WriteReturn, WriteReturnWith
  <2>3. CASE lengthToWrite = 0
    BY <2>1, <2>2, <2>3 DEF WriteResultIsTruthful
  <2>4. CASE lengthToWrite # 0
    <3>1. sent' < asked' /\ ~mOpen' /\ ~wret'
      BY <2>1, <2>2, <2>4
    <3> QED
      BY <3>1, Zenon DEF WriteResultIsTruthful
  <2> QED
    BY <2>3, <2>4
<1>4. RingHoldsUnreadBytes' /\ ReadsAreConsecutive'
  BY RingUntouched, CopyUntouched DEF InductiveInvariant, WriteReturn, WriteReturnWith
<1> QED
  BY <1>1, <1>2, <1>3, <1>4 DEF InductiveInvariant

\* The chunk fits into the room that is left.
LEMMA WriteBeginStep ==
  ASSUME InductiveInvariant, WriteBegin
  PROVE  InductiveInvariant'
<1> USE DEF object, readFrame, writeFrame, WriterAtLoop
<1>0. PICK c \in Nat, rest \in Nat :
        /\ chunk' = c /\ lengthToWrite' = rest
        /\ c + rest = lengthToWrite /\ c <= Capacity - mStoredBytes
  <2> DEFINE c == Lesser(lengthToWrite, Capacity - mStoredBytes)
  <2>1. chunk' = c /\ lengthToWrite' = lengthToWrite - c /\ mStoredBytes < Capacity
    BY DEF WriteBegin, WriteBeginIf
  <2>2. /\ c \in Nat /\ lengthToWrite - c \in Nat
        /\ c + (lengthToWrite - c) = lengthToWrite
        /\ c <= Capacity - mStoredBytes
    BY <2>1, CapacityAssumption DEF InductiveInvariant, TypeOK, Lesser
  <2> HIDE DEF c
  <2> QED
    BY <2>1, <2>2
<1>1. TypeOK'
  <2>1. wasEmpty' \in BOOLEAN
    BY DEF WriteBegin, WriteBeginIf
  <2> QED
    BY <1>0, <2>1 DEF InductiveInvariant, TypeOK, WriteBegin, WriteBeginIf
<1>2. MonitorIsExclusive' /\ SignalIsOwed' /\ ChunkFits'
  <2>1. /\ wpc = "outer" /\ wpc' = "inner" /\ "writer" \notin waitSet
        /\ lock \in {"none", "writer"} /\ lock' = "writer" /\ mOpen
        /\ mOpen' = mOpen /\ mStoredBytes' = mStoredBytes
        /\ UNCHANGED <<waitSet, rpc, wasFull, sent, asked>>
    BY DEF WriteBegin, WriteBeginIf
  <2>2. rpc # "copy"
    BY <2>1 DEF InductiveInvariant, MonitorIsExclusive
  <2>3. MonitorIsExclusive'
    BY <2>1, <2>2 DEF InductiveInvariant, TypeOK, MonitorIsExclusive
  <2>4. wasEmpty' <=> mStoredBytes = 0
    BY DEF WriteBegin, WriteBeginIf
  <2>5. SignalIsOwed'
    BY <2>1, <2>2, <2>4, CapacityAssumption DEF InductiveInvariant, TypeOK, SignalIsOwed
  <2>6. ChunkFits'
    BY <1>0, <2>1, CapacityAssumption DEF InductiveInvariant, TypeOK, ChunkFits
  <2> QED
    BY <2>3, <2>5, <2>6
<1>3. WriteResultIsTruthful'
  BY DEF InductiveInvariant, TypeOK, WriteResultIsTruthful, ChunkFits, WriteBegin, WriteBeginIf
<1>4. RingHoldsUnreadBytes' /\ ReadsAreConsecutive'
  BY RingUntouched, CopyUntouched DEF InductiveInvariant, WriteBegin, WriteBeginIf
<1> QED
  BY <1>1, <1>2, <1>3, <1>4 DEF InductiveInvariant

\* A thread that wakes up unsignalled evaluates its condition again.
LEMMA SpuriousWakeupStep ==
  ASSUME InductiveInvariant, SpuriousWakeup
  PROVE  InductiveInvariant'
<1> USE DEF object, readFrame, writeFrame, ReaderEnters, WriterAtLoop
<1>1. TypeOK'
  BY CapacityAssumption DEF InductiveInvariant, TypeOK, SpuriousWakeup
<1>2. MonitorIsExclusive' /\ SignalIsOwed' /\ ChunkFits'
  BY CapacityAssumption
     DEF InductiveInvariant, TypeOK, MonitorIsExclusive, SignalIsOwed, ChunkFits, SpuriousWakeup
<1>3. WriteResultIsTruthful'
  BY DEF InductiveInvariant, TypeOK, WriteResultIsTruthful, ChunkFits, SpuriousWakeup
<1>4. RingHoldsUnreadBytes' /\ ReadsAreConsecutive'
  BY RingUntouched, CopyUntouched DEF InductiveInvariant, SpuriousWakeup
<1> QED
  BY <1>1, <1>2, <1>3, <1>4 DEF InductiveInvariant

-----------------------------------------------------------------------------
\* A new call sets up its frame and touches nothing that is shared.
LEMMA ReadCallStep ==
  ASSUME InductiveInvariant, ReadCall
  PROVE  InductiveInvariant'
<1> USE DEF object, readFrame, writeFrame
<1>1. length' \in Nat /\ block' \in BOOLEAN /\ out' = <<>>
  BY LengthsAssumption, ModesAssumption DEF ReadCall
<1>2. out' \in Seq(Nat)
  BY <1>1, EmptySeq
<1>3. TypeOK'
  BY <1>1, <1>2 DEF InductiveInvariant, TypeOK, ReadCall
<1>4. MonitorIsExclusive' /\ SignalIsOwed' /\ ChunkFits'
  BY DEF InductiveInvariant, TypeOK, MonitorIsExclusive, SignalIsOwed, ChunkFits, ReadCall
<1>5. WriteResultIsTruthful' /\ RingHoldsUnreadBytes'
  BY RingUntouched DEF InductiveInvariant, WriteResultIsTruthful, ReadCall
<1>6. ReadsAreConsecutive'
  <2>1. Len(out') = 0
    BY <1>1, EmptySeq
  <2> QED
    BY <2>1 DEF ReadsAreConsecutive, IsStretch
<1> QED
  BY <1>3, <1>4, <1>5, <1>6 DEF InductiveInvariant

LEMMA WriteCallStep ==
  ASSUME InductiveInvariant, WriteCall
  PROVE  InductiveInvariant'
<1> USE DEF object, readFrame, writeFrame
<1>1. PICK n \in WriteLengths : lengthToWrite' = n /\ asked' = sent + n
  BY DEF WriteCall
<1>2. n \in Nat
  BY LengthsAssumption
<1>3. TypeOK'
  BY <1>1, <1>2 DEF InductiveInvariant, TypeOK, WriteCall
<1>4. MonitorIsExclusive' /\ SignalIsOwed'
  BY DEF InductiveInvariant, TypeOK, MonitorIsExclusive, SignalIsOwed, WriteCall
<1>5. ChunkFits'
  BY <1>1, <1>2 DEF InductiveInvariant, TypeOK, ChunkFits, WriteCall
<1>6. WriteResultIsTruthful' /\ RingHoldsUnreadBytes' /\ ReadsAreConsecutive'
  BY RingUntouched, CopyUntouched
     DEF InductiveInvariant, WriteResultIsTruthful, WriteCall
<1> QED
  BY <1>3, <1>4, <1>5, <1>6 DEF InductiveInvariant

-----------------------------------------------------------------------------
\* The ends of a read() and of a chunk pay the signal they owe, which empties
\* the wait set; if they owe none, the other thread's condition is false.
LEMMA ReadReturnStep ==
  ASSUME InductiveInvariant, ReadReturn
  PROVE  InductiveInvariant'
<1> USE DEF object, readFrame, writeFrame
<1>1. waitSet' = {} \/ (~wasFull /\ waitSet' = waitSet)
  BY InvariantOneWaiter, NotifyEmpties DEF InductiveInvariant, ReadReturn, ReadReturnThen
<1>2. "reader" \notin waitSet /\ (~wasFull => "writer" \notin waitSet)
  <2>1. rpc = "copy" /\ "reader" \notin waitSet
    BY DEF InductiveInvariant, MonitorIsExclusive, ReadReturn, ReadReturnThen
  <2>2. ~wasFull => mStoredBytes < Capacity
    BY <2>1 DEF InductiveInvariant, SignalIsOwed
  <2>3. mStoredBytes < Capacity => mStoredBytes # Capacity
    BY CapacityAssumption DEF InductiveInvariant, TypeOK
  <2> QED
    BY <2>1, <2>2, <2>3 DEF InductiveInvariant, SignalIsOwed
<1>3. waitSet' = {}
  BY <1>1, <1>2 DEF InductiveInvariant, TypeOK
<1>4. Len(out) \in Nat
  BY LenProperties DEF InductiveInvariant, TypeOK
<1>5. TypeOK'
  BY <1>3, <1>4 DEF InductiveInvariant, TypeOK, ReadReturn, ReadReturnThen
<1>6. MonitorIsExclusive' /\ SignalIsOwed' /\ ChunkFits'
  BY <1>3 DEF InductiveInvariant, TypeOK, MonitorIsExclusive, SignalIsOwed,
              ChunkFits, ReadReturn, ReadReturnThen
<1>7. WriteResultIsTruthful' /\ RingHoldsUnreadBytes' /\ ReadsAreConsecutive'
  BY RingUntouched, CopyUntouched
     DEF InductiveInvariant, WriteResultIsTruthful, ReadReturn, ReadReturnThen
<1> QED
  BY <1>5, <1>6, <1>7 DEF InductiveInvariant

LEMMA WriteChunkDoneStep ==
  ASSUME InductiveInvariant, WriteChunkDone
  PROVE  InductiveInvariant'
<1> USE DEF object, readFrame, writeFrame
<1>1. waitSet' = {} \/ (~wasEmpty /\ waitSet' = waitSet)
  BY InvariantOneWaiter, NotifyEmpties DEF InductiveInvariant, WriteChunkDone,
     WriteChunkDoneThen
<1>2. "writer" \notin waitSet /\ (~wasEmpty => "reader" \notin waitSet)
  <2>1. wpc = "inner" /\ "writer" \notin waitSet
    BY DEF InductiveInvariant, MonitorIsExclusive, WriteChunkDone, WriteChunkDoneThen
  <2>2. ~wasEmpty => mStoredBytes > 0
    BY <2>1 DEF InductiveInvariant, SignalIsOwed
  <2> QED
    BY <2>1, <2>2 DEF InductiveInvariant, TypeOK, SignalIsOwed
<1>3. waitSet' = {}
  BY <1>1, <1>2 DEF InductiveInvariant, TypeOK
<1>4. TypeOK'
  BY <1>3 DEF InductiveInvariant, TypeOK, WriteChunkDone, WriteChunkDoneThen
<1>5. MonitorIsExclusive' /\ SignalIsOwed' /\ ChunkFits'
  BY <1>3 DEF InductiveInvariant, TypeOK, MonitorIsExclusive, SignalIsOwed,
              ChunkFits, WriteChunkDone, WriteChunkDoneThen
<1>6. WriteResultIsTruthful' /\ RingHoldsUnreadBytes' /\ ReadsAreConsecutive'
  BY RingUntouched, CopyUntouched
     DEF InductiveInvariant, WriteResultIsTruthful, WriteChunkDone, WriteChunkDoneThen
<1> QED
  BY <1>4, <1>5, <1>6 DEF InductiveInvariant

-----------------------------------------------------------------------------
\* One run of read() takes the n oldest bytes and moves the head past them,
\* back to slot 0 when it reaches the end of the ring.
LEMMA ReadRunStep ==
  ASSUME InductiveInvariant, ReadRun
  PROVE  InductiveInvariant'
<1> USE DEF object, readFrame, writeFrame
<1> DEFINE n == Lesser(length, Lesser(Capacity - mHead, mStoredBytes))
           run == [i \in 1..n |-> mBuffer[mHead + i - 1]]
<1>1. /\ mHead \in Nat /\ mHead < Capacity /\ Capacity \in Nat
      /\ mStoredBytes \in Nat /\ mStoredBytes <= Capacity
      /\ length \in Nat /\ taken \in Nat /\ sent \in Nat /\ out \in Seq(Nat)
      /\ mBuffer \in [0..(Capacity - 1) -> Nat]
  BY CapacityAssumption DEF InductiveInvariant, TypeOK, Slots
<1>2. /\ n \in Nat /\ n > 0 /\ n <= length /\ n <= mStoredBytes
      /\ n <= Capacity - mHead
  BY <1>1 DEF ReadRun, Lesser
<1>3. /\ out' = out \o run
      /\ mHead' = IF mHead + n >= Capacity THEN 0 ELSE mHead + n
      /\ mStoredBytes' = mStoredBytes - n
      /\ length' = length - n
      /\ taken' = taken + n
      /\ rpc = "copy"
      /\ UNCHANGED <<mBuffer, mOpen, lock, waitSet, rpc, block, wasFull, rret,
                     wpc, lengthToWrite, chunk, wasEmpty, wret, asked, sent>>
  BY DEF ReadRun
<1> HIDE DEF n
<1>4. \A i \in 1..n : mBuffer[mHead + i - 1] = taken + i
  <2> SUFFICES ASSUME NEW i \in 1..n PROVE mBuffer[mHead + i - 1] = taken + i
    OBVIOUS
  <2>1. i - 1 \in 0..(mStoredBytes - 1) /\ mHead + (i - 1) < Capacity
    BY <1>1, <1>2
  <2>2. mBuffer[Slot(i - 1)] = taken + (i - 1) + 1
    BY <2>1 DEF InductiveInvariant, RingHoldsUnreadBytes
  <2>3. Slot(i - 1) = mHead + i - 1
    BY <1>1, <1>2, <2>1 DEF Slot
  <2> QED
    BY <1>1, <2>2, <2>3
<1>5. run \in Seq(Nat) /\ Len(run) = n /\ \A i \in 1..n : run[i] = taken + i
  <2>1. ASSUME NEW i \in 1..n PROVE run[i] = taken + i
    BY <1>4
  <2>2. run \in [1..n -> Nat]
    BY <1>1, <1>2, <1>4
  <2>3. run \in Seq(Nat)
    BY <1>2, <2>2, SeqDef
  <2> QED
    BY <1>2, <2>1, <2>2, <2>3, LenProperties
<1>6. out' \in Seq(Nat) /\ IsStretch(out', taken')
  <2>1. IsStretch(out, taken)
    BY DEF InductiveInvariant, ReadsAreConsecutive
  <2> HIDE DEF run
  <2>2. out \o run \in Seq(Nat) /\ IsStretch(out \o run, taken + n)
    BY <1>1, <1>5, <2>1, ConsecutiveExtends
  <2> QED
    BY <1>3, <2>2, Zenon
<1>7. TypeOK'
  <2>1. mHead' \in Slots /\ mStoredBytes' \in 0..Capacity
    BY <1>1, <1>2, <1>3 DEF Slots
  <2>2. length' \in Nat /\ taken' \in Nat
    BY <1>1, <1>2, <1>3
  <2> QED
    BY <1>3, <1>6, <2>1, <2>2, Zenon DEF InductiveInvariant, TypeOK, Slots
<1>8. MonitorIsExclusive' /\ SignalIsOwed' /\ ChunkFits'
  <2>1. lock = "reader" /\ wpc # "inner" /\ mOpen /\ "reader" \notin waitSet
    BY <1>3 DEF InductiveInvariant, MonitorIsExclusive
  <2>2. MonitorIsExclusive'
    BY <1>3, <2>1 DEF InductiveInvariant, MonitorIsExclusive
  <2>3. "writer" \in waitSet => wasFull
    BY <1>1, <1>3 DEF InductiveInvariant, SignalIsOwed
  <2>4. mStoredBytes' < Capacity
    BY <1>1, <1>2, <1>3
  <2>5. SignalIsOwed'
    BY <1>3, <2>1, <2>3, <2>4 DEF SignalIsOwed
  <2>6. ChunkFits'
    BY <1>1, <1>2, <1>3, <2>1 DEF InductiveInvariant, ChunkFits
  <2> QED
    BY <2>2, <2>5, <2>6
<1>9. RingHoldsUnreadBytes'
  <2>1. sent = taken + mStoredBytes
    BY DEF InductiveInvariant, RingHoldsUnreadBytes
  <2>2. ASSUME NEW i \in 0..(mStoredBytes - n - 1)
        PROVE  mBuffer'[Slot(i)'] = taken' + i + 1
    <3>1. n + i \in 0..(mStoredBytes - 1)
      BY <1>1, <1>2
    <3>2. mBuffer[Slot(n + i)] = taken + (n + i) + 1
      BY <3>1 DEF InductiveInvariant, RingHoldsUnreadBytes
    <3>3. Slot(i)' = Slot(n + i)
      BY <1>1, <1>2, <1>3, <3>1 DEF Slot
    <3>4. taken' + i + 1 = taken + (n + i) + 1
      BY <1>1, <1>2, <1>3
    <3> QED
      BY <1>3, <3>2, <3>3, <3>4
  <2>3. sent' = taken' + mStoredBytes'
    BY <1>1, <1>2, <1>3, <2>1
  <2>4. 0..(mStoredBytes' - 1) = 0..(mStoredBytes - n - 1)
    BY <1>1, <1>2, <1>3
  <2> QED
    BY <2>2, <2>3, <2>4 DEF RingHoldsUnreadBytes
<1>10. ReadsAreConsecutive' /\ WriteResultIsTruthful'
  BY <1>3, <1>6, Zenon DEF InductiveInvariant, ReadsAreConsecutive, WriteResultIsTruthful
<1> QED
  BY <1>7, <1>8, <1>9, <1>10 DEF InductiveInvariant

\* One run of write() fills the n slots from the tail on, which are free.
LEMMA WriteRunStep ==
  ASSUME InductiveInvariant, WriteRun
  PROVE  InductiveInvariant'
<1> USE DEF object, readFrame, writeFrame
<1> DEFINE end == mHead + mStoredBytes
           tail == IF end >= Capacity THEN end - Capacity ELSE end
           oneRun == IF end >= Capacity THEN mHead - tail ELSE Capacity - tail
           n == Lesser(oneRun, chunk)
           filled == [k \in Slots |-> IF tail <= k /\ k < tail + n
                                      THEN sent + 1 + (k - tail)
                                      ELSE mBuffer[k]]
<1>1. /\ mHead \in Nat /\ mHead < Capacity /\ Capacity \in Nat
      /\ mStoredBytes \in Nat /\ mStoredBytes + chunk <= Capacity
      /\ chunk \in Nat /\ chunk > 0 /\ taken \in Nat /\ sent \in Nat
      /\ asked \in Nat /\ lengthToWrite \in Nat
      /\ mBuffer \in [Slots -> Nat]
  BY SMTT(30), CapacityAssumption DEF InductiveInvariant, TypeOK, ChunkFits, Slots, WriteRun,
     WriteRunWrapping
<1>2. /\ tail \in Nat /\ n \in Nat /\ n > 0 /\ n <= chunk
      /\ tail + n <= Capacity
      /\ end >= Capacity => tail = end - Capacity /\ tail + n <= mHead
      /\ end < Capacity => tail = end
  BY <1>1 DEF Lesser
<1>3. /\ mBuffer' = filled
      /\ chunk' = chunk - n
      /\ mStoredBytes' = mStoredBytes + n
      /\ sent' = sent + n
      /\ wpc = "inner"
      /\ UNCHANGED <<mHead, mOpen, lock, waitSet, rpc, block, length, out, wasFull,
                     rret, wpc, lengthToWrite, wasEmpty, wret, asked, taken>>
  BY DEF WriteRun, WriteRunWrapping
<1> HIDE DEF n, tail
<1>4. TypeOK'
  <2>1. ASSUME NEW k \in Slots PROVE filled[k] \in Nat
    BY <1>1, <1>2 DEF Slots
  <2>2. filled \in [Slots -> Nat]
    BY <2>1
  <2>3. mBuffer' \in [Slots -> Nat]
    BY <1>3, <2>2
  <2>4. chunk' \in Nat /\ mStoredBytes' \in 0..Capacity /\ sent' \in Nat
    BY <1>1, <1>2, <1>3
  <2> QED
    BY <1>3, <2>3, <2>4, Zenon DEF InductiveInvariant, TypeOK, Slots
<1>5. MonitorIsExclusive' /\ SignalIsOwed' /\ ChunkFits'
  <2>1. /\ lock = "writer" /\ rpc # "copy" /\ mOpen
        /\ "writer" \notin waitSet
    BY <1>3 DEF InductiveInvariant, MonitorIsExclusive
  <2>2. MonitorIsExclusive'
    BY <1>3, <2>1 DEF InductiveInvariant, MonitorIsExclusive
  <2>3. "reader" \in waitSet => wasEmpty
    BY <1>1, <1>3 DEF InductiveInvariant, SignalIsOwed
  <2>4. mStoredBytes' > 0
    BY <1>1, <1>2, <1>3
  <2>5. SignalIsOwed'
    BY <1>3, <2>1, <2>3, <2>4 DEF SignalIsOwed
  <2>6. asked = sent + chunk + lengthToWrite
    BY <1>3 DEF InductiveInvariant, ChunkFits
  <2>7. ChunkFits'
    BY <1>1, <1>2, <1>3, <2>6 DEF ChunkFits
  <2> QED
    BY <2>2, <2>5, <2>7
<1>6. RingHoldsUnreadBytes'
  <2>1. sent = taken + mStoredBytes
    BY DEF InductiveInvariant, RingHoldsUnreadBytes
  <2>2. ASSUME NEW i \in 0..(mStoredBytes + n - 1)
        PROVE  filled[Slot(i)] = taken + i + 1
    <3>1. Slot(i) \in Slots
      BY <1>1, <1>2 DEF Slot, Slots
    <3>2. CASE i < mStoredBytes
      <4>1. ~(tail <= Slot(i) /\ Slot(i) < tail + n)
        BY <1>1, <1>2, <3>2 DEF Slot
      <4>2. mBuffer[Slot(i)] = taken + i + 1
        BY <1>1, <3>2 DEF InductiveInvariant, RingHoldsUnreadBytes
      <4> QED
        BY <3>1, <4>1, <4>2
    <3>3. CASE i >= mStoredBytes
      <4>1. /\ tail <= Slot(i) /\ Slot(i) < tail + n
            /\ Slot(i) - tail = i - mStoredBytes
        BY <1>1, <1>2, <3>3 DEF Slot
      <4>2. filled[Slot(i)] = sent + 1 + (Slot(i) - tail)
        BY <3>1, <4>1
      <4> QED
        BY <1>1, <2>1, <4>1, <4>2
    <3> QED
      BY <1>1, <3>2, <3>3
  <2>3. sent' = taken' + mStoredBytes'
    BY <1>1, <1>2, <1>3, <2>1
  <2>4. 0..(mStoredBytes' - 1) = 0..(mStoredBytes + n - 1)
    BY <1>1, <1>2, <1>3
  <2>5. \A i : Slot(i)' = Slot(i)
    BY <1>3 DEF Slot
  <2> HIDE DEF filled
  <2>6. \A i \in 0..(mStoredBytes' - 1) : mBuffer'[Slot(i)'] = taken' + i + 1
    BY <1>3, <2>2, <2>4, <2>5
  <2> QED
    BY <2>3, <2>6 DEF RingHoldsUnreadBytes
<1>7. ReadsAreConsecutive' /\ WriteResultIsTruthful'
  BY <1>3, CopyUntouched DEF InductiveInvariant, WriteResultIsTruthful
<1> QED
  BY <1>4, <1>5, <1>6, <1>7 DEF InductiveInvariant

-----------------------------------------------------------------------------
\* A step that changes no variable preserves the invariant.
LEMMA StutterStep ==
  ASSUME InductiveInvariant, UNCHANGED vars
  PROVE  InductiveInvariant'
<1> USE DEF vars, object, readFrame, writeFrame
<1>1. TypeOK' /\ MonitorIsExclusive' /\ SignalIsOwed' /\ ChunkFits'
  BY DEF InductiveInvariant, TypeOK, MonitorIsExclusive, SignalIsOwed, ChunkFits
<1>2. RingHoldsUnreadBytes' /\ ReadsAreConsecutive' /\ WriteResultIsTruthful'
  BY RingUntouched, CopyUntouched DEF InductiveInvariant, WriteResultIsTruthful
<1> QED
  BY <1>1, <1>2 DEF InductiveInvariant

\* The conjunction of the type invariant, the monitor's discipline, the owed
\* signals, the room for the chunk and the contents of the ring and of the
\* caller's buffer is an invariant of ByteQueue.
THEOREM InvariantHolds == Spec => []InductiveInvariant
<1>1. ASSUME InductiveInvariant, [Next]_vars PROVE InductiveInvariant'
  <2>1. CASE ReadCall BY <1>1, <2>1, ReadCallStep
  <2>2. CASE ReaderStep
    BY <1>1, <2>2, ReadWaitStep, ReadNothingStep, ReadBeginStep, ReadRunStep,
       ReadReturnStep DEF ReaderStep
  <2>3. CASE WriteCall BY <1>1, <2>3, WriteCallStep
  <2>4. CASE WriterStep
    BY <1>1, <2>4, WriteWaitStep, WriteReturnStep, WriteBeginStep, WriteRunStep,
       WriteChunkDoneStep DEF WriterStep
  <2>5. CASE Close BY <1>1, <2>5, CloseStep
  <2>6. CASE SpuriousWakeup BY <1>1, <2>6, SpuriousWakeupStep
  <2>7. CASE UNCHANGED vars BY <1>1, <2>7, StutterStep
  <2> QED
    BY <1>1, <2>1, <2>2, <2>3, <2>4, <2>5, <2>6, <2>7 DEF Next
<1> QED
  BY <1>1, InitInvariant, PTL DEF Spec

\* Every variable keeps its type; in particular mHead stays inside the array
\* and mStoredBytes between 0 and the capacity.
THEOREM TypeCorrect == Spec => []TypeOK
<1>1. InductiveInvariant => TypeOK
  BY DEF InductiveInvariant
<1> QED
  BY <1>1, InvariantHolds, PTL

\* The ring holds exactly the bytes written and not yet read, in order.
THEOREM RingIsFifo == Spec => []RingHoldsUnreadBytes
<1>1. InductiveInvariant => RingHoldsUnreadBytes
  BY DEF InductiveInvariant
<1> QED
  BY <1>1, InvariantHolds, PTL

\* Every read() delivers the next stretch of the producer's stream.
THEOREM ReadsInOrder == Spec => []ReadsAreConsecutive
<1>1. InductiveInvariant => ReadsAreConsecutive
  BY DEF InductiveInvariant
<1> QED
  BY <1>1, InvariantHolds, PTL

\* No thread waits for a condition that already holds, although close() and
\* the ends of the two copies signal a single thread.
THEOREM NoSignalIsMissed == Spec => []NoMissedSignal
<1>1. InductiveInvariant => NoMissedSignal
  BY DEF InductiveInvariant, MonitorIsExclusive, SignalIsOwed, NoMissedSignal
<1> QED
  BY <1>1, InvariantHolds, PTL

\* Consumer and producer never wait at the same time.
THEOREM NeverBothWait == Spec => []OneWaiterAtMost
BY InvariantOneWaiter, InvariantHolds, PTL

\* write() returns true exactly when the ring took every byte it was handed.
THEOREM WriteIsTruthful == Spec => []WriteResultIsTruthful
<1>1. InductiveInvariant => WriteResultIsTruthful
  BY DEF InductiveInvariant
<1> QED
  BY <1>1, InvariantHolds, PTL

\* A closed queue neither takes nor gives a byte.
THEOREM ClosedQueueIsFrozen == Spec => ClosedIsFrozen
<1> USE DEF vars, object, readFrame, writeFrame, ReaderEnters, WriterAtLoop
<1>1. ASSUME InductiveInvariant, [Next]_vars, ~mOpen
      PROVE  ~mOpen' /\ sent' = sent /\ taken' = taken
  <2>1. rpc # "copy" /\ wpc # "inner"
    BY <1>1 DEF InductiveInvariant, MonitorIsExclusive
  <2>2. ~ReadRun /\ ~WriteRun
    BY <2>1 DEF ReadRun, WriteRun, WriteRunWrapping
  <2>3. CASE ReadCall BY <1>1, <2>3 DEF ReadCall
  <2>4. CASE ReaderStep
    BY <1>1, <2>2, <2>4 DEF ReaderStep, ReadWait, ReadNothing, ReadBegin,
       ReadReturn, ReadReturnThen
  <2>5. CASE WriteCall BY <1>1, <2>5 DEF WriteCall
  <2>6. CASE WriterStep
    BY <1>1, <2>2, <2>6
       DEF WriterStep, WriteWait, WriteReturn, WriteReturnWith, WriteBegin, WriteBeginIf,
          WriteChunkDone, WriteChunkDoneThen
  <2>7. CASE Close \/ SpuriousWakeup BY <1>1, <2>7 DEF Close, CloseThen, SpuriousWakeup
  <2>8. CASE UNCHANGED vars BY <1>1, <2>8
  <2> QED
    BY <1>1, <2>3, <2>4, <2>5, <2>6, <2>7, <2>8 DEF Next
<1>2. InductiveInvariant /\ [Next]_vars =>
        [~mOpen => ~mOpen' /\ sent' = sent /\ taken' = taken]_vars
  BY <1>1
<1> QED
  BY <1>2, InvariantHolds, PTL DEF Spec, ClosedIsFrozen

-----------------------------------------------------------------------------
(* The refinement: what the ring stores is a stretch of the stream, from   *)
(* whose front read() takes and at whose end write() puts.                 *)

Stretch(t, n) == [i \in 1..n |-> t + i]
Stored == [i \in 1..mStoredBytes |-> mBuffer[Slot(i - 1)]]

LEMMA StretchIsSeq ==
  ASSUME NEW t \in Nat, NEW n \in Nat
  PROVE  /\ Stretch(t, n) \in Seq(Nat) /\ Len(Stretch(t, n)) = n
         /\ \A i \in 1..n : Stretch(t, n)[i] = t + i
<1>1. Stretch(t, n) \in [1..n -> Nat]  BY DEF Stretch
<1>2. Stretch(t, n) \in Seq(Nat)  BY <1>1, SeqDef
<1> QED BY <1>1, <1>2, LenProperties DEF Stretch

\* Two stretches that follow each other are one, and one can be cut into two.
LEMMA StretchesJoin ==
  ASSUME NEW t \in Nat, NEW n \in Nat, NEW m \in Nat
  PROVE  Stretch(t, n) \o Stretch(t + n, m) = Stretch(t, n + m)
<1> DEFINE s == Stretch(t, n)
           u == Stretch(t + n, m)
           v == Stretch(t, n + m)
<1>1. /\ s \in Seq(Nat) /\ Len(s) = n /\ \A i \in 1..n : s[i] = t + i
      /\ u \in Seq(Nat) /\ Len(u) = m /\ \A i \in 1..m : u[i] = t + n + i
      /\ v \in Seq(Nat) /\ Len(v) = n + m /\ \A i \in 1..(n + m) : v[i] = t + i
  <2>1. t + n \in Nat /\ n + m \in Nat  OBVIOUS
  <2>2. s \in Seq(Nat) /\ Len(s) = n /\ \A i \in 1..n : s[i] = t + i
    BY StretchIsSeq, Zenon
  <2>3. u \in Seq(Nat) /\ Len(u) = m /\ \A i \in 1..m : u[i] = t + n + i
    BY <2>1, StretchIsSeq, Zenon
  <2>4. v \in Seq(Nat) /\ Len(v) = n + m /\ \A i \in 1..(n + m) : v[i] = t + i
    BY <2>1, StretchIsSeq, Zenon
  <2> QED BY <2>2, <2>3, <2>4
<1> HIDE DEF s, u, v
<1>2. /\ s \o u \in Seq(Nat) /\ Len(s \o u) = n + m
      /\ \A i \in 1..(n + m) : (s \o u)[i] = IF i <= n THEN s[i] ELSE u[i - n]
  BY <1>1, ConcatProperties
<1>3. ASSUME NEW i \in 1..(n + m) PROVE (s \o u)[i] = v[i]
  <2>1. CASE i <= n  BY <1>1, <1>2, <2>1
  <2>2. CASE ~(i <= n)
    <3>1. i - n \in 1..m  BY <2>2
    <3> QED BY <1>1, <1>2, <2>2, <3>1
  <2> QED BY <2>1, <2>2
<1>4. s \o u = v  BY <1>1, <1>2, <1>3, SeqEqual
<1> QED BY <1>4 DEF s, u, v

LEMMA StretchIsCut ==
  ASSUME NEW t \in Nat, NEW n \in Nat, NEW m \in Nat
  PROVE  /\ SubSeq(Stretch(t, n + m), 1, n) = Stretch(t, n)
         /\ SubSeq(Stretch(t, n + m), n + 1, n + m) = Stretch(t + n, m)
<1> DEFINE s == Stretch(t, n)
           u == Stretch(t + n, m)
           v == Stretch(t, n + m)
           front == SubSeq(v, 1, n)
           back == SubSeq(v, n + 1, n + m)
<1>1. /\ s \in Seq(Nat) /\ Len(s) = n /\ \A i \in 1..n : s[i] = t + i
      /\ u \in Seq(Nat) /\ Len(u) = m /\ \A i \in 1..m : u[i] = t + n + i
      /\ v \in Seq(Nat) /\ Len(v) = n + m /\ \A i \in 1..(n + m) : v[i] = t + i
  <2>1. t + n \in Nat /\ n + m \in Nat  OBVIOUS
  <2>2. s \in Seq(Nat) /\ Len(s) = n /\ \A i \in 1..n : s[i] = t + i
    BY StretchIsSeq, Zenon
  <2>3. u \in Seq(Nat) /\ Len(u) = m /\ \A i \in 1..m : u[i] = t + n + i
    BY <2>1, StretchIsSeq, Zenon
  <2>4. v \in Seq(Nat) /\ Len(v) = n + m /\ \A i \in 1..(n + m) : v[i] = t + i
    BY <2>1, StretchIsSeq, Zenon
  <2> QED BY <2>2, <2>3, <2>4
<1> HIDE DEF s, u, v
<1>2. \A i \in 1..(n + m) : v[i] \in Nat  BY <1>1
<1>3. front \in Seq(Nat) /\ Len(front) = n /\ \A i \in 1..n : front[i] = v[i]
  <2>1. \A i \in 1..n : v[i] \in Nat  BY <1>2
  <2>2. /\ front \in Seq(Nat) /\ Len(front) = (IF 1 <= n THEN n - 1 + 1 ELSE 0)
        /\ \A i \in 1..(n - 1 + 1) : front[i] = v[1 + i - 1]
    BY <2>1, SubSeqProperties
  <2> QED BY <2>2
<1>4. back \in Seq(Nat) /\ Len(back) = m /\ \A i \in 1..m : back[i] = v[n + i]
  <2>1. \A i \in (n + 1)..(n + m) : v[i] \in Nat  BY <1>2
  <2>2. /\ back \in Seq(Nat)
        /\ Len(back) = (IF n + 1 <= n + m THEN n + m - (n + 1) + 1 ELSE 0)
        /\ \A i \in 1..(n + m - (n + 1) + 1) : back[i] = v[n + 1 + i - 1]
    BY <2>1, SubSeqProperties
  <2>3. n + m - (n + 1) + 1 = m  OBVIOUS
  <2>4. \A i \in 1..m : n + 1 + i - 1 = n + i  OBVIOUS
  <2> QED BY <2>2, <2>3, <2>4
<1> HIDE DEF front, back
<1>5. front = s  BY <1>1, <1>3, SeqEqual
<1>6. back = u  BY <1>1, <1>4, SeqEqual
<1> QED BY <1>5, <1>6 DEF front, back, s, u, v

\* What the ring stores.
LEMMA StoredIsStretch == InductiveInvariant => Stored = Stretch(taken, mStoredBytes)
<1> SUFFICES ASSUME InductiveInvariant PROVE Stored = Stretch(taken, mStoredBytes)
  OBVIOUS
<1>1. mStoredBytes \in Nat /\ taken \in Nat
  BY CapacityAssumption DEF InductiveInvariant, TypeOK
<1>2. ASSUME NEW i \in 1..mStoredBytes PROVE mBuffer[Slot(i - 1)] = taken + i
  <2>1. i - 1 \in 0..(mStoredBytes - 1)  BY <1>1
  <2>2. mBuffer[Slot(i - 1)] = taken + (i - 1) + 1
    BY <2>1 DEF InductiveInvariant, RingHoldsUnreadBytes
  <2> QED BY <1>1, <2>2
<1> QED BY <1>2 DEF Stored, Stretch

\* One run of read() takes the front of what is stored.
LEMMA ReadRunTakes ==
  ASSUME InductiveInvariant, InductiveInvariant', ReadRun
  PROVE  Channel!Take
<1> DEFINE n == Lesser(length, Lesser(Capacity - mHead, mStoredBytes))
           run == [i \in 1..n |-> mBuffer[mHead + i - 1]]
<1>1. /\ mHead \in Nat /\ mHead < Capacity /\ Capacity \in Nat
      /\ mStoredBytes \in Nat /\ mStoredBytes <= Capacity
      /\ length \in Nat /\ taken \in Nat
  BY CapacityAssumption DEF InductiveInvariant, TypeOK, Slots
<1>2. /\ n \in Nat /\ n > 0 /\ n <= mStoredBytes /\ n <= Capacity - mHead
  BY <1>1 DEF ReadRun, Lesser
<1>3. /\ out' = out \o run /\ mStoredBytes' = mStoredBytes - n /\ taken' = taken + n
      /\ rpc = "copy" /\ mOpen' = mOpen /\ sent' = sent
  BY DEF ReadRun
<1> HIDE DEF n
<1>4. run = Stretch(taken, n)
  <2>1. ASSUME NEW i \in 1..n PROVE mBuffer[mHead + i - 1] = taken + i
    <3>1. i - 1 \in 0..(mStoredBytes - 1) /\ mHead + (i - 1) < Capacity
      BY <1>1, <1>2
    <3>2. mBuffer[Slot(i - 1)] = taken + (i - 1) + 1
      BY <3>1 DEF InductiveInvariant, RingHoldsUnreadBytes
    <3>3. Slot(i - 1) = mHead + i - 1
      BY <1>1, <1>2, <3>1 DEF Slot
    <3> QED
      BY <1>1, <3>2, <3>3
  <2> QED BY <2>1 DEF Stretch
<1>5. PICK m \in Nat : mStoredBytes = n + m /\ mStoredBytes' = m
  BY <1>1, <1>2, <1>3
<1>6. Stored = Stretch(taken, n + m) /\ Stored' = Stretch(taken + n, m)
  <2>1. Stored = Stretch(taken, mStoredBytes)  BY StoredIsStretch
  <2>2. (Stored = Stretch(taken, mStoredBytes))'  BY StoredIsStretch, PTL
  <2> QED BY <1>3, <1>5, <2>1, <2>2, Zenon
<1>7. Len(Stored) = n + m  BY <1>1, <1>2, <1>6, StretchIsSeq
<1>8. n \in 1..Len(Stored)  BY <1>2, <1>7
<1>9. /\ out' = out \o SubSeq(Stored, 1, n)
      /\ Stored' = SubSeq(Stored, n + 1, Len(Stored))
  <2>1. /\ SubSeq(Stretch(taken, n + m), 1, n) = Stretch(taken, n)
        /\ SubSeq(Stretch(taken, n + m), n + 1, n + m) = Stretch(taken + n, m)
    <3>1. taken \in Nat /\ n \in Nat /\ m \in Nat  BY <1>1, <1>2
    <3> QED BY <3>1, StretchIsCut
  <2> QED BY <2>1, <1>3, <1>4, <1>6, <1>7, Zenon
<1>10. mOpen  BY <1>3 DEF InductiveInvariant, MonitorIsExclusive
<1> QED BY <1>3, <1>8, <1>9, <1>10, Zenon DEF Channel!Take, Stored

\* One run of write() puts as many bytes as the ring has room for, or fewer.
LEMMA WriteRunPuts ==
  ASSUME InductiveInvariant, InductiveInvariant', WriteRun
  PROVE  Channel!Put
<1> DEFINE end == mHead + mStoredBytes
           tail == IF end >= Capacity THEN end - Capacity ELSE end
           oneRun == IF end >= Capacity THEN mHead - tail ELSE Capacity - tail
           n == Lesser(oneRun, chunk)
<1>1. /\ mHead \in Nat /\ mHead < Capacity /\ Capacity \in Nat
      /\ mStoredBytes \in Nat /\ mStoredBytes + chunk <= Capacity
      /\ chunk \in Nat /\ chunk > 0 /\ taken \in Nat /\ sent \in Nat
  BY SMTT(30), CapacityAssumption DEF InductiveInvariant, TypeOK, ChunkFits, Slots, WriteRun,
     WriteRunWrapping
<1>2. n \in Nat /\ n > 0 /\ n <= chunk
  BY <1>1 DEF Lesser
<1>3. /\ mStoredBytes' = mStoredBytes + n /\ sent' = sent + n
      /\ wpc = "inner" /\ UNCHANGED <<mOpen, out, taken>>
  BY DEF WriteRun, WriteRunWrapping, readFrame
<1> HIDE DEF n
<1>4. sent = taken + mStoredBytes
  BY DEF InductiveInvariant, RingHoldsUnreadBytes
<1>5. /\ Stored = Stretch(taken, mStoredBytes)
      /\ Stored' = Stretch(taken, mStoredBytes + n)
  <2>1. (Stored = Stretch(taken, mStoredBytes))'  BY StoredIsStretch, PTL
  <2> QED BY <1>3, <2>1, StoredIsStretch, Zenon
<1>6. Stored' = Stored \o Stretch(sent, n)
  BY <1>1, <1>2, <1>4, <1>5, StretchesJoin, Zenon
<1>7. n \in 1..(Capacity - Len(Stored))
  <2>1. Len(Stored) = mStoredBytes  BY <1>1, <1>5, StretchIsSeq
  <2> QED BY <1>1, <1>2, <2>1
<1>8. mOpen  BY <1>3 DEF InductiveInvariant, MonitorIsExclusive
<1> QED BY <1>3, <1>6, <1>7, <1>8, Zenon DEF Channel!Put, Stored, Stretch

\* Every other step leaves the channel alone, begins a call or closes it.
LEMMA OthersImplement ==
  ASSUME [Next]_vars, ~ReadRun, ~WriteRun
  PROVE  [Channel!Next]_(Channel!chanVars)
<1>1. ASSUME UNCHANGED <<mBuffer, mHead, mStoredBytes>> PROVE Stored' = Stored
  BY <1>1 DEF Stored, Slot
<1>2. CASE ReadCall
  <2>1. out' = <<>> /\ UNCHANGED <<mBuffer, mHead, mStoredBytes, mOpen, sent>>
    BY <1>2, Zenon DEF ReadCall, object
  <2> QED BY <1>1, <2>1, Zenon DEF Channel!Next, Channel!Begin, Stored
<1>3. CASE Close
  <2>1. mOpen' = FALSE /\ UNCHANGED <<mBuffer, mHead, mStoredBytes, sent, out>>
    BY <1>3, Zenon DEF Close, CloseThen, readFrame
  <2> QED BY <1>1, <2>1, Zenon DEF Channel!Next, Channel!Close, Stored
<1>4. CASE WriteCall \/ SpuriousWakeup \/ UNCHANGED vars \/ ReaderStep \/ WriterStep
  <2>1. UNCHANGED <<mBuffer, mHead, mStoredBytes, mOpen, sent, out>>
    BY <1>4, Zenon
    DEF WriteCall, SpuriousWakeup, vars, ReaderStep, WriterStep, ReadWait, ReadNothing, ReadBegin,
        ReadReturn, ReadReturnThen, WriteWait, WriteReturn, WriteReturnWith, WriteBegin,
        WriteBeginIf, WriteChunkDone, WriteChunkDoneThen, object, readFrame
  <2> QED BY <1>1, <2>1, Zenon DEF Channel!chanVars, Stored
<1> QED BY <1>2, <1>3, <1>4, Zenon DEF Next

\* The queue is a bounded first-in first-out channel: every step of the two threads,
\* of the monitor and of close() is a step of the channel or leaves it alone.
THEOREM QueueIsChannel == Spec => ImplementsChannel
<1>1. Init => Channel!Init
  <2> SUFFICES ASSUME Init PROVE Channel!Init
    OBVIOUS
  <2>1. Stored = <<>>  BY DEF Init, Stored
  <2> QED BY <2>1 DEF Init, Channel!Init, Stored
<1>2. InductiveInvariant /\ InductiveInvariant' /\ [Next]_vars
        => [Channel!Next]_(Channel!chanVars)
  BY ReadRunTakes, WriteRunPuts, OthersImplement, Zenon DEF Channel!Next
<1> QED BY <1>1, <1>2, InvariantHolds, PTL DEF Spec, ImplementsChannel, Channel!Spec

-----------------------------------------------------------------------------
\* What a read() that goes on has still to give: it asks for bytes, and from the
\* moment it has found some until its return there are some, in the ring or out.
ReadFrameInvariant ==
  /\ rpc = "enter" => length > 0
  /\ rpc = "copy" => Len(out) > 0 \/ (length > 0 /\ mStoredBytes > 0)
  /\ BlockingReadIsNeverEmpty

LEMMA ReadFrameStep ==
  ASSUME InductiveInvariant, ReadFrameInvariant, [Next]_vars
  PROVE  ReadFrameInvariant'
<1>1. /\ length \in Nat /\ mStoredBytes \in Nat /\ out \in Seq(Nat) /\ Len(out) \in Nat
      /\ Capacity \in Nat /\ mHead \in Nat /\ mHead < Capacity
  BY CapacityAssumption, LenProperties DEF InductiveInvariant, TypeOK, Slots
<1>2. CASE ReadCall
  <2>1. rpc' = "enter" /\ length' \in ReadLengths
    BY <1>2, Zenon DEF ReadCall
  <2>2. length' > 0  BY <2>1, LengthsAssumption
  <2> QED BY <2>1, <2>2 DEF ReadFrameInvariant, BlockingReadIsNeverEmpty
<1>3. CASE ReadNothing
  <2>1. rpc' = "idle" /\ block' = block /\ mOpen' = mOpen
        /\ (~block \/ ~mOpen) /\ (block => rret' = -1)
    BY <1>3 DEF ReadNothing, object
  <2> QED BY <2>1 DEF ReadFrameInvariant, BlockingReadIsNeverEmpty
<1>4. CASE ReadBegin
  <2>1. rpc = "enter" /\ rpc' = "copy" /\ mStoredBytes > 0
        /\ UNCHANGED <<mStoredBytes, length, out>>
    BY <1>4 DEF ReadBegin, ReaderEnters, object
  <2> QED BY <2>1 DEF ReadFrameInvariant, BlockingReadIsNeverEmpty
<1>5. CASE ReadRun
  <2> DEFINE n == Lesser(length, Lesser(Capacity - mHead, mStoredBytes))
             run == [i \in 1..n |-> mBuffer[mHead + i - 1]]
  <2>1. rpc = "copy" /\ rpc' = "copy" /\ out' = out \o run
    BY <1>5 DEF ReadRun
  <2>2. n \in Nat /\ n > 0  BY <1>1, <1>5 DEF ReadRun, Lesser
  <2> HIDE DEF n
  <2>3. Len(out') > 0
    <3>1. \A i \in 1..n : mHead + i - 1 \in Slots
      <4>1. n <= Capacity - mHead  BY <1>1, <1>5 DEF n, Lesser
      <4> QED BY <1>1, <2>2, <4>1 DEF Slots
    <3>2. mBuffer \in [Slots -> Nat]  BY DEF InductiveInvariant, TypeOK
    <3>3. run \in [1..n -> Nat]  BY <3>1, <3>2
    <3>4. run \in Seq(Nat) /\ Len(run) = n  BY <2>2, <3>3, SeqDef, LenProperties
    <3> HIDE DEF run
    <3>5. Len(out \o run) = Len(out) + n  BY <1>1, <3>4, ConcatProperties
    <3> QED BY <1>1, <2>1, <2>2, <3>5
  <2> QED BY <2>1, <2>3 DEF ReadFrameInvariant, BlockingReadIsNeverEmpty
<1>6. CASE ReadReturn
  <2>1. rpc = "copy" /\ (length = 0 \/ mStoredBytes = 0) /\ rpc' = "idle" /\ rret' = Len(out)
    BY <1>6 DEF ReadReturn, ReadReturnThen
  <2> QED BY <1>1, <2>1 DEF ReadFrameInvariant, BlockingReadIsNeverEmpty
<1>7. CASE ReadWait \/ Close \/ WriteCall \/ WriterStep \/ SpuriousWakeup \/ UNCHANGED vars
  <2>1. /\ UNCHANGED <<rpc, block, length, out, rret>>
        /\ rpc = "copy" => mStoredBytes' = mStoredBytes
        /\ ~mOpen => ~mOpen'
    <3>1. CASE WriteRun
      <4>1. wpc = "inner" /\ UNCHANGED <<rpc, block, length, out, rret, mOpen>>
        BY <3>1, Zenon DEF WriteRun, WriteRunWrapping, readFrame
      <4> QED BY <4>1 DEF InductiveInvariant, MonitorIsExclusive
    <3>2. CASE Close
      <4>1. ~mOpen' /\ UNCHANGED <<rpc, block, length, out, rret, mStoredBytes>>
        BY <3>2, Zenon DEF Close, CloseThen, readFrame
      <4> QED BY <4>1
    <3>3. CASE ~WriteRun /\ ~Close
      <4>1. UNCHANGED <<rpc, block, length, out, rret, mOpen, mStoredBytes>>
        BY <1>7, <3>3, Zenon
        DEF ReadWait, WriteCall, WriterStep, WriteWait, WriteReturn, WriteReturnWith, WriteBegin,
            WriteBeginIf, WriteChunkDone, WriteChunkDoneThen, SpuriousWakeup, vars, object, readFrame
      <4> QED BY <4>1
    <3> QED BY <3>1, <3>2, <3>3
  <2> QED BY <2>1 DEF ReadFrameInvariant, BlockingReadIsNeverEmpty
<1> QED BY <1>2, <1>3, <1>4, <1>5, <1>6, <1>7, Zenon DEF Next, ReaderStep

\* A blocking read() never comes back without bytes from an open queue, whoever
\* woke it: the thread that forwards the bytes to the process relies on it.
THEOREM BlockingReadsReturnBytes == Spec => []BlockingReadIsNeverEmpty
<1>1. Init => ReadFrameInvariant
  BY DEF Init, ReadFrameInvariant, BlockingReadIsNeverEmpty
<1>2. InductiveInvariant /\ ReadFrameInvariant /\ [Next]_vars => ReadFrameInvariant'
  BY ReadFrameStep
<1>3. ReadFrameInvariant => BlockingReadIsNeverEmpty
  BY DEF ReadFrameInvariant
<1> QED BY <1>1, <1>2, <1>3, InvariantHolds, PTL DEF Spec
=============================================================================
