-------------------------- MODULE MCKqueueSession ---------------------------
(***************************************************************************)
(* An instance of KqueueSession for TLC: two sessions, which live together *)
(* on two descriptors or one after the other on the same.                  *)
(***************************************************************************)
EXTENDS KqueueSession

TwoFds == 1..2
TwoSessions == 1..2
OneOrTwo == 1..2
Requests == [s \in TwoSessions |-> IF s = 1 THEN 2 ELSE 0]
Ends == [s \in TwoSessions |-> IF s = 1 THEN {"fin", "rst"} ELSE {"fin"}]
Stalls == [s \in TwoSessions |-> IF s = 1 THEN 1 ELSE 0]
=============================================================================
