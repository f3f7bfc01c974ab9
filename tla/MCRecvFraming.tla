--------------------------- MODULE MCRecvFraming ----------------------------
(***************************************************************************)
(* Instances of RecvFraming for TLC.                                       *)
(***************************************************************************)
EXTENDS RecvFraming

CONSTANT FrameLens   \* the lengths of the peer's packets, repeated in a cycle

\* The length of packet k and the position of its last byte.
FrameLen(k) == FrameLens[((k - 1) % Len(FrameLens)) + 1]
FrameEnd[k \in 0..MaxStream] == IF k = 0 THEN 0 ELSE FrameEnd[k - 1] + FrameLen(k)
PacketEnds == {FrameEnd[k] : k \in 0..MaxStream}

\* A read_packet that finds the length in the first byte of a packet and
\* waits for the rest.
FramedReadPacket(s) ==
  LET starts == {k \in 1..MaxStream : FrameEnd[k - 1] + 1 = s[1]}
  IN  IF starts = {} THEN -1
      ELSE LET len == FrameLen(CHOOSE k \in starts : TRUE)
           IN  IF Len(s) < len THEN -1 ELSE len

FittingFrames == <<1, 4, 2>>

ASSUME InstanceFrames == ReadPacketWaits /\ ReadPacketFrames
=============================================================================
