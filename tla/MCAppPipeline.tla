--------------------------- MODULE MCAppPipeline ----------------------------
(***************************************************************************)
(* An instance of AppPipeline for TLC: peers that stream to one processor  *)
(* or to two, and peers that wait for their replies.                       *)
(***************************************************************************)
EXTENDS AppPipeline

MCThreads == 0..2
MCWrappers == 1..4

Load(first, second, waits) ==
  [messages |-> [p \in 0..1 |-> IF p = 0 THEN first ELSE second], lockstep |-> waits]

MCWorkloads == {Load(3, 0, FALSE), Load(1, 1, FALSE), Load(2, 1, TRUE)}
=============================================================================
