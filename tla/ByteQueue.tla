----------------------------- MODULE ByteQueue -----------------------------
(***************************************************************************)
(* com.pangbai.terminal.ByteQueue: a circular byte buffer guarded by the   *)
(* object's monitor, used by one producer thread and one consumer thread   *)
(* and closed by any thread.                                               *)
(*                                                                         *)
(* The producer's bytes are numbered 1, 2, 3, ... in the order in which it *)
(* passes them to write(), so a slot of the ring holds the number of the   *)
(* byte stored in it: what is stored never matters to this class, only     *)
(* which byte it is.  Every iteration of the two copying loops, every      *)
(* wait(), notify() and monitor entry is a step of its own.                *)
(***************************************************************************)
EXTENDS Integers, Sequences

CONSTANTS
  Capacity,     \* mBuffer.length
  WriteLengths, \* the lengths the producer passes to write()
  ReadLengths,  \* the lengths of the buffers the consumer passes to read()
  BlockModes,   \* the values the consumer passes as read()'s block argument
  MaxBytes      \* bound: the producer offers no byte with a larger number

ASSUME CapacityAssumption == Capacity \in Nat \ {0}
ASSUME LengthsAssumption == /\ WriteLengths \subseteq Nat \ {0}
                            /\ ReadLengths \subseteq Nat \ {0}
ASSUME ModesAssumption == BlockModes \subseteq BOOLEAN
ASSUME MaxBytesAssumption == MaxBytes \in Nat

VARIABLES
  mBuffer, mHead, mStoredBytes, mOpen, \* the fields of the object
  lock,           \* who owns the monitor: "none", "reader" or "writer"
  waitSet,        \* the monitor's wait set
  rpc, block, length, out, wasFull, rret, \* the consumer's frame in read()
  wpc, lengthToWrite, chunk, wasEmpty, wret, \* the producer's frame in write()
  asked,          \* history: bytes handed to write() by calls begun so far
  sent,           \* history: bytes copied into the ring so far
  taken           \* history: bytes copied out of the ring so far

object == <<mBuffer, mHead, mStoredBytes, mOpen>>
readFrame == <<rpc, block, length, out, wasFull, rret>>
writeFrame == <<wpc, lengthToWrite, chunk, wasEmpty, wret, asked>>
vars == <<object, lock, waitSet, readFrame, writeFrame, sent, taken>>

Slots == 0..(Capacity - 1)
Lesser(a, b) == IF a <= b THEN a ELSE b

\* notify(): one waiting thread, if there is any, leaves the wait set.
Notify == \/ waitSet = {} /\ UNCHANGED waitSet
          \/ \E t \in waitSet : waitSet' = waitSet \ {t}

-----------------------------------------------------------------------------
(* Some operations have a parameter in the place of what a plausible       *)
(* mistake would change; a variant that makes it is named for it.          *)

\* public synchronized void close()
CloseThen(signal) ==
  /\ lock = "none"
  /\ mOpen' = FALSE
  /\ signal
  /\ UNCHANGED <<mBuffer, mHead, mStoredBytes, lock, readFrame, writeFrame,
                 sent, taken>>
CloseSilent == CloseThen(UNCHANGED waitSet)
Close == CloseThen(Notify)

-----------------------------------------------------------------------------
\* public synchronized int read(byte[] buffer, boolean block)
ReadCall ==
  /\ rpc = "idle"
  /\ \E n \in ReadLengths : length' = n
  /\ \E b \in BlockModes : block' = b
  /\ rpc' = "enter"
  /\ out' = <<>>
  /\ UNCHANGED <<object, lock, waitSet, wasFull, rret, writeFrame, sent, taken>>

\* The consumer owns the monitor, for the first time or again after a wait().
ReaderEnters ==
  /\ rpc = "enter"
  /\ lock = "none"
  /\ "reader" \notin waitSet

ReadWait ==
  /\ ReaderEnters
  /\ mStoredBytes = 0 /\ mOpen /\ block
  /\ waitSet' = waitSet \cup {"reader"}
  /\ UNCHANGED <<object, lock, readFrame, writeFrame, sent, taken>>

ReadNothing ==
  /\ ReaderEnters
  /\ \/ mStoredBytes = 0 /\ mOpen /\ ~block /\ rret' = 0
     \/ ~mOpen /\ rret' = -1
  /\ rpc' = "idle"
  /\ UNCHANGED <<object, lock, waitSet, block, length, out, wasFull,
                 writeFrame, sent, taken>>

ReadBegin ==
  /\ ReaderEnters
  /\ mStoredBytes > 0 /\ mOpen
  /\ lock' = "reader"
  /\ wasFull' = (mStoredBytes = Capacity)
  /\ rpc' = "copy"
  /\ UNCHANGED <<object, waitSet, block, length, out, rret, writeFrame,
                 sent, taken>>

\* One iteration of the copying loop: a run that ends at the ring's end, at
\* the last stored byte or at the end of the caller's buffer.
ReadRun ==
  /\ rpc = "copy" /\ length > 0 /\ mStoredBytes > 0
  /\ LET oneRun == Lesser(Capacity - mHead, mStoredBytes)
         n == Lesser(length, oneRun)
     IN /\ out' = out \o [i \in 1..n |-> mBuffer[mHead + i - 1]]
        /\ mHead' = IF mHead + n >= Capacity THEN 0 ELSE mHead + n
        /\ mStoredBytes' = mStoredBytes - n
        /\ length' = length - n
        /\ taken' = taken + n
  /\ UNCHANGED <<mBuffer, mOpen, lock, waitSet, rpc, block, wasFull, rret,
                 writeFrame, sent>>

ReadReturnThen(signal) ==
  /\ rpc = "copy" /\ (length = 0 \/ mStoredBytes = 0)
  /\ signal
  /\ lock' = "none"
  /\ rpc' = "idle"
  /\ rret' = Len(out)
  /\ UNCHANGED <<object, block, length, out, wasFull, writeFrame, sent, taken>>
ReadReturnSilent == ReadReturnThen(UNCHANGED waitSet)
ReadReturn == ReadReturnThen(IF wasFull THEN Notify ELSE UNCHANGED waitSet)

-----------------------------------------------------------------------------
\* public boolean write(byte[] buffer, int offset, int lengthToWrite), called
\* with the positive, in-range lengths that do not throw.
WriteCall ==
  /\ wpc = "idle"
  /\ \E n \in WriteLengths :
       /\ sent + n <= MaxBytes
       /\ lengthToWrite' = n
       /\ asked' = sent + n
  /\ wpc' = "outer"
  /\ UNCHANGED <<object, lock, waitSet, readFrame, chunk, wasEmpty, wret,
                 sent, taken>>

\* The producer is at the head of the outer loop and owns the monitor, or
\* takes it: at the call and after a wait().
WriterAtLoop ==
  /\ wpc = "outer"
  /\ lock \in {"none", "writer"}
  /\ "writer" \notin waitSet

WriteWait ==
  /\ WriterAtLoop
  /\ lengthToWrite > 0 /\ mStoredBytes = Capacity /\ mOpen
  /\ waitSet' = waitSet \cup {"writer"}
  /\ lock' = "none"
  /\ UNCHANGED <<object, readFrame, writeFrame, sent, taken>>

WriteReturnWith(result) ==
  /\ WriterAtLoop
  /\ lengthToWrite = 0 \/ ~mOpen
  /\ wret' = result
  /\ wpc' = "idle"
  /\ lock' = "none"
  /\ UNCHANGED <<object, waitSet, readFrame, lengthToWrite, chunk, wasEmpty,
                 asked, sent, taken>>
WriteReturnAlwaysTrue == WriteReturnWith(TRUE)
WriteReturn == WriteReturnWith(lengthToWrite = 0)

WriteBeginIf(open) ==
  /\ WriterAtLoop
  /\ lengthToWrite > 0 /\ mStoredBytes < Capacity /\ open
  /\ lock' = "writer"
  /\ wasEmpty' = (mStoredBytes = 0)
  /\ chunk' = Lesser(lengthToWrite, Capacity - mStoredBytes)
  /\ lengthToWrite' = lengthToWrite - chunk'
  /\ wpc' = "inner"
  /\ UNCHANGED <<object, waitSet, readFrame, wret, asked, sent, taken>>
\* mOpen is not looked at again after the wait().
WriteBeginUnchecked == WriteBeginIf(TRUE)
WriteBegin == WriteBeginIf(mOpen)

\* One iteration of the inner loop: a run that ends at the ring's end, at the
\* head or at the end of the chunk.
WriteRunWrapping(by) ==
  /\ wpc = "inner" /\ chunk > 0
  /\ LET end == mHead + mStoredBytes
         tail == IF end >= Capacity THEN end - by ELSE end
         oneRun == IF end >= Capacity THEN mHead - tail ELSE Capacity - tail
         n == Lesser(oneRun, chunk)
     IN /\ mBuffer' = [k \in Slots |-> IF tail <= k /\ k < tail + n
                                       THEN sent + 1 + (k - tail)
                                       ELSE mBuffer[k]]
        /\ chunk' = chunk - n
        /\ mStoredBytes' = mStoredBytes + n
        /\ sent' = sent + n
  /\ UNCHANGED <<mHead, mOpen, lock, waitSet, readFrame, wpc, lengthToWrite,
                 wasEmpty, wret, asked, taken>>
WriteRunOffByOne == WriteRunWrapping(Capacity - 1)
WriteRun == WriteRunWrapping(Capacity)

WriteChunkDoneThen(signal) ==
  /\ wpc = "inner" /\ chunk = 0
  /\ signal
  /\ wpc' = "outer"
  /\ UNCHANGED <<object, lock, readFrame, lengthToWrite, chunk, wasEmpty, wret,
                 asked, sent, taken>>
WriteChunkDoneSilent == WriteChunkDoneThen(UNCHANGED waitSet)
WriteChunkDone == WriteChunkDoneThen(IF wasEmpty THEN Notify ELSE UNCHANGED waitSet)

-----------------------------------------------------------------------------
\* wait() may return without a notify(): spuriously, or with the
\* InterruptedException that both loops swallow.
SpuriousWakeup ==
  /\ \E t \in waitSet : waitSet' = waitSet \ {t}
  /\ UNCHANGED <<object, lock, readFrame, writeFrame, sent, taken>>

-----------------------------------------------------------------------------
Init ==
  /\ mBuffer = [k \in Slots |-> 0]
  /\ mHead = 0 /\ mStoredBytes = 0 /\ mOpen = TRUE
  /\ lock = "none" /\ waitSet = {}
  /\ rpc = "idle" /\ block = FALSE /\ length = 0 /\ out = <<>>
  /\ wasFull = FALSE /\ rret = 0
  /\ wpc = "idle" /\ lengthToWrite = 0 /\ chunk = 0
  /\ wasEmpty = FALSE /\ wret = TRUE
  /\ asked = 0 /\ sent = 0 /\ taken = 0

ReaderStep == ReadWait \/ ReadNothing \/ ReadBegin \/ ReadRun \/ ReadReturn
WriterStep == WriteWait \/ WriteReturn \/ WriteBegin \/ WriteRun \/ WriteChunkDone

Next == ReadCall \/ ReaderStep \/ WriteCall \/ WriterStep \/ Close \/ SpuriousWakeup

Spec == Init /\ [][Next]_vars

(***************************************************************************)
(* Fairness.  A thread in a call goes on with it: the monitor is released  *)
(* and taken over and over, so entering it needs strong fairness (a lock   *)
(* that starves nobody).  The consumer calls read() again and again, as    *)
(* the loop of the TermSessionOutputWriter thread does; the producer and   *)
(* the closer owe nothing.                                                 *)
(***************************************************************************)
Fairness == /\ WF_vars(ReadCall)
            /\ SF_vars(ReaderStep)
            /\ SF_vars(WriterStep)

FairSpec == Spec /\ Fairness

-----------------------------------------------------------------------------
\* The types of the variables, and the fields in their ranges.
TypeOK ==
  /\ mBuffer \in [Slots -> Nat]
  /\ mHead \in Slots /\ mStoredBytes \in 0..Capacity /\ mOpen \in BOOLEAN
  /\ lock \in {"none", "reader", "writer"}
  /\ waitSet \subseteq {"reader", "writer"}
  /\ rpc \in {"idle", "enter", "copy"} /\ block \in BOOLEAN
  /\ length \in Nat /\ out \in Seq(Nat) /\ wasFull \in BOOLEAN
  /\ rret \in Nat \cup {-1}
  /\ wpc \in {"idle", "outer", "inner"} /\ lengthToWrite \in Nat
  /\ chunk \in Nat /\ wasEmpty \in BOOLEAN /\ wret \in BOOLEAN
  /\ asked \in Nat /\ sent \in Nat /\ taken \in Nat

\* The slot i places after the head, wrapping at the ring's end.
Slot(i) == IF mHead + i >= Capacity THEN mHead + i - Capacity ELSE mHead + i

\* The stored bytes are exactly those written and not yet read, in the order
\* in which they were written: no run of either copying loop overwrites,
\* skips or repeats a byte, wherever the head and the tail are.
RingHoldsUnreadBytes ==
  /\ sent = taken + mStoredBytes
  /\ \A i \in 0..(mStoredBytes - 1) : mBuffer[Slot(i)] = taken + i + 1

\* s is the stretch of Len(s) consecutive numbers that ends at t.
IsStretch(s, t) == \A i \in 1..Len(s) : s[i] = t - Len(s) + i

\* What a read() has copied to its caller so far is the unbroken stretch of
\* the stream that ends at the last byte taken: reads deliver the producer's
\* bytes in order, without loss or repetition.
ReadsAreConsecutive == IsStretch(out, taken)

\* With a single notify() per event, no thread sleeps through what it waits
\* for: when the monitor is free, the consumer waits only on an empty open
\* queue and the producer only on a full open one.
NoMissedSignal ==
  lock = "none" => /\ "reader" \in waitSet => mStoredBytes = 0 /\ mOpen
                   /\ "writer" \in waitSet => mStoredBytes = Capacity /\ mOpen

\* notify() instead of notifyAll() is enough: the two threads never wait at
\* the same time, so the signal cannot go to the wrong one.
OneWaiterAtMost == waitSet # {"reader", "writer"}

\* "Returns whether the output was totally written, false if it was closed
\* before": an idle producer's last call returned true exactly when the ring
\* has taken every byte it was handed.
WriteResultIsTruthful ==
  wpc = "idle" => /\ wret => sent = asked
                  /\ ~wret => sent < asked /\ ~mOpen

\* A blocking read() comes back with bytes, or with -1 because the queue was
\* closed, and never with 0, whatever woke its wait(): the thread that
\* forwards the bytes to the process relies on it.
BlockingReadIsNeverEmpty ==
  rpc = "idle" /\ block => rret > 0 \/ (rret = -1 /\ ~mOpen)

\* Once closed, the queue neither takes nor gives a byte, and stays closed:
\* what it still stores is dropped.
ClosedIsFrozen ==
  [][~mOpen => ~mOpen' /\ sent' = sent /\ taken' = taken]_vars

\* Every byte the ring has taken reaches the consumer, unless a close() comes
\* first.
BytesAreDelivered ==
  \A k \in 1..MaxBytes : sent >= k ~> taken >= k \/ ~mOpen

\* A write() always ends: the consumer makes room or the queue is closed.
WritesReturn == wpc # "idle" ~> wpc = "idle"

\* close() releases the consumer too, although it signals one thread only.
ReadsReturnAfterClose == rpc # "idle" /\ ~mOpen ~> rpc = "idle"

-----------------------------------------------------------------------------
(***************************************************************************)
(* The inductive invariant behind these properties.  Between the steps     *)
(* that hold the monitor the conditions above may be broken for a while;   *)
(* what is added says who holds it and which signal is still owed.         *)
(***************************************************************************)
MonitorIsExclusive ==
  /\ rpc = "copy" <=> lock = "reader"
  /\ wpc = "inner" => lock = "writer"
  /\ lock = "writer" => wpc \in {"outer", "inner"} /\ "writer" \notin waitSet
  /\ "reader" \in waitSet => rpc = "enter"
  /\ "writer" \in waitSet => wpc = "outer"
  /\ rpc = "copy" \/ wpc = "inner" => mOpen

SignalIsOwed ==
  /\ "reader" \in waitSet =>
       mOpen /\ (mStoredBytes = 0 \/ (wpc = "inner" /\ wasEmpty))
  /\ "writer" \in waitSet =>
       mOpen /\ (mStoredBytes = Capacity \/ (rpc = "copy" /\ wasFull))
  /\ rpc = "copy" /\ ~wasFull => mStoredBytes < Capacity
  /\ wpc = "inner" /\ ~wasEmpty => mStoredBytes > 0

ChunkFits ==
  /\ mStoredBytes + chunk <= Capacity
  /\ wpc # "inner" => chunk = 0
  /\ wpc # "idle" => asked = sent + chunk + lengthToWrite

InductiveInvariant ==
  /\ TypeOK
  /\ MonitorIsExclusive
  /\ SignalIsOwed
  /\ ChunkFits
  /\ RingHoldsUnreadBytes
  /\ ReadsAreConsecutive
  /\ WriteResultIsTruthful

-----------------------------------------------------------------------------
\* The queue implements a bounded first-in first-out channel.
Channel == INSTANCE ByteChannel WITH
             chan <- [i \in 1..mStoredBytes |-> mBuffer[Slot(i - 1)]],
             open <- mOpen
ImplementsChannel == Channel!Spec
=============================================================================
