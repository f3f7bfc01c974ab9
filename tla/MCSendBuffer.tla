---------------------------- MODULE MCSendBuffer ----------------------------
(***************************************************************************)
(* Instances of SendBuffer for TLC.                                       *)
(***************************************************************************)
EXTENDS SendBuffer

CONSTANT other   \* a thread that is not the processor

\* Lengths on both sides of the two comparisons of push: 0, the free cells, all
\* of the buffer, and more than the buffer (NDEBUG removes the assert on it).
MCPushLens == 0..BufferSize+1

\* The processor's callbacks and a second thread call push (on_connect runs in the accepting thread).
ProcAndOther == {Proc, other}
=============================================================================
