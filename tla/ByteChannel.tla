---------------------------- MODULE ByteChannel ----------------------------
(***************************************************************************)
(* What ByteQueue promises, without ring, monitor or wait set: a bounded   *)
(* first-in first-out channel between one producer and one consumer that   *)
(* anyone may close.  Bytes enter at the end, in the producer's order, and *)
(* leave from the front into the consumer's buffer; after the close        *)
(* nothing enters or leaves.                                               *)
(***************************************************************************)
EXTENDS Integers, Sequences

CONSTANT Capacity

VARIABLES
  chan, \* the bytes in the channel, by their number in the producer's stream
  open, \* FALSE once the channel is closed
  sent, \* how many bytes have entered
  out   \* what the consumer's current call has received

chanVars == <<chan, open, sent, out>>

Init == chan = <<>> /\ open = TRUE /\ sent = 0 /\ out = <<>>

\* The producer's next n bytes enter.
Put == \E n \in 1..(Capacity - Len(chan)) :
         /\ open
         /\ chan' = chan \o [i \in 1..n |-> sent + i]
         /\ sent' = sent + n
         /\ UNCHANGED <<open, out>>

\* The n oldest bytes leave.
Take == \E n \in 1..Len(chan) :
          /\ open
          /\ out' = out \o SubSeq(chan, 1, n)
          /\ chan' = SubSeq(chan, n + 1, Len(chan))
          /\ UNCHANGED <<open, sent>>

\* The consumer begins another call, with an empty buffer.
Begin == out' = <<>> /\ UNCHANGED <<chan, open, sent>>

Close == open' = FALSE /\ UNCHANGED <<chan, sent, out>>

Next == Put \/ Take \/ Begin \/ Close

Spec == Init /\ [][Next]_chanVars
=============================================================================
