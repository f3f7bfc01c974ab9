---------------------------- MODULE BoundedFifo -----------------------------
(***************************************************************************)
(* What a buffer between two threads promises: a bounded first-in first-out*)
(* channel.  The k-th item that went in comes out as the k-th, and no more *)
(* than Capacity items are inside.                                         *)
(***************************************************************************)
EXTENDS Integers, Sequences

CONSTANT Capacity

VARIABLES
  accepted,    \* number of items that went in; item k is represented by k
  delivered    \* the items that came out, in order

Init == accepted = 0 /\ delivered = << >>

Accept ==
  /\ \E n \in 0..Capacity : accepted' = accepted + n
  /\ accepted' - Len(delivered) <= Capacity
  /\ UNCHANGED delivered

Deliver ==
  /\ Len(delivered) < accepted
  /\ delivered' = Append(delivered, Len(delivered) + 1)
  /\ UNCHANGED accepted

Next == Accept \/ Deliver

Spec == Init /\ [][Next]_<<accepted, delivered>>
=============================================================================
