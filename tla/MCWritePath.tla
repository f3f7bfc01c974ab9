---------------------------- MODULE MCWritePath -----------------------------
(***************************************************************************)
(* Instances of WritePath for TLC.                                         *)
(***************************************************************************)
EXTENDS WritePath

\* async_send from the callbacks of the processor thread.
OnlyProc == {Proc}

Accepted(mark) == [nonBlocking |-> TRUE, lowWater |-> mark]
Connected(mark) == [nonBlocking |-> FALSE, lowWater |-> mark]

\* EPOLLOUT of an accepted socket means room for a full buffer, or for a byte.
AllSockets == {Accepted(BufferSize - 1), Accepted(1), Connected(1)}
SmallMark == {Accepted(1)}
=============================================================================
