--------------------------- MODULE MCSessionLife ----------------------------
(***************************************************************************)
(* Instances of SessionLife for TLC: fewer descriptors than sessions, so   *)
(* that descriptors are reused.                                            *)
(***************************************************************************)
EXTENDS SessionLife

TwoSessions == 1..2
ThreeSessions == 1..3
TwoFds == 7..8

Listening == {"listener"}
ListeningAndConnecting == {"listener", "main"}

Never == {FALSE}
MaybeOrNever == BOOLEAN

Served == {"fin", "rst"}
AllEndings == {"fin", "rst", "hup"}
=============================================================================
