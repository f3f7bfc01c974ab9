---------------------------- MODULE RecvFraming -----------------------------
(***************************************************************************)
(* The input side of a session: the EPOLLIN branch of Processor::run       *)
(* (detail/epollnet.hpp) with the receive buffer of EventHandler.          *)
(*                                                                         *)
(* The peer's k-th byte is represented by k.  recv hands over any non-empty*)
(* part of what is in flight, so packets arrive cut and merged in every    *)
(* way.  ReadPacket is the virtual read_packet applied to the bytes it may *)
(* look at: the length of the packet at their start, or a number <= 0 when *)
(* they hold no complete packet.                                           *)
(***************************************************************************)
EXTENDS Integers, Sequences

CONSTANTS
  RecvBufSize,     \* template parameter
  ReadPacket(_),
  FrameEnds,       \* the positions in the peer's stream at which its packets end
  MaxStream        \* bound: bytes that the peer sends

ASSUME FramingAssumption ==
  /\ RecvBufSize \in Nat \ {0}
  /\ MaxStream \in Nat
  /\ \A n \in 1..RecvBufSize : \A s \in [1..n -> 0..MaxStream] : ReadPacket(s) \in Int

\* What the sessions of test/test.cpp and test/test1.cpp do: never announce a
\* packet longer than the bytes at hand.
ReadPacketWaits ==
  \A n \in 1..RecvBufSize : \A s \in [1..n -> 0..MaxStream] : ReadPacket(s) <= n

\* A read_packet for the protocol of the peer: given bytes that start with a packet
\* it returns the length of that packet, or a number <= 0 when it is incomplete;
\* and every packet fits recvBuf.
ReadPacketFrames ==
  /\ 0 \in FrameEnds /\ FrameEnds \subseteq Nat
  /\ \A e \in FrameEnds, n \in 1..RecvBufSize :
       LET ends == {k \in 1..n : e + k \in FrameEnds}
           len == ReadPacket([i \in 1..n |-> e + i]) IN
       e + n <= MaxStream =>
         IF ends = {} THEN len <= 0 /\ n < RecvBufSize
                      ELSE len \in ends /\ \A k \in ends : len <= k

VARIABLES
  recvBuf, recvBufPos,   \* members of EventHandler
  readPos, pkgLen,       \* locals of the EPOLLIN branch
  pc,                    \* "wait" (epoll_wait), "loop", "closing", "closed"
  peer,                  \* "open", "shut" (FIN) or "reset"
  wire,                  \* bytes the peer has sent
  received,              \* bytes recv has returned
  delivered,             \* history: all bytes passed to on_recv
  cuts                   \* history: the positions at which these packets ended

recvVars == <<recvBuf, recvBufPos, readPos, pkgLen>>
history == <<delivered, cuts>>
vars == <<recvVars, pc, peer, wire, received, history>>

Init ==
  /\ recvBuf = [i \in 0..RecvBufSize-1 |-> 0]
  /\ recvBufPos = 0
  /\ readPos = 0
  /\ pkgLen = 0
  /\ pc = "wait"
  /\ peer = "open"
  /\ wire = 0
  /\ received = 0
  /\ delivered = << >>
  /\ cuts = {}

\* The n cells of recvBuf from position pos, as read_packet and on_recv see them.
Cells(buf, pos, n) == [i \in 1..n |-> buf[pos + i - 1]]

recv_size == RecvBufSize - recvBufPos

-----------------------------------------------------------------------------
PeerSends ==
  /\ peer = "open" /\ wire < MaxStream
  /\ wire' = wire + 1
  /\ UNCHANGED <<recvVars, pc, peer, received, history>>

PeerEnds ==
  /\ peer = "open"
  /\ peer' \in {"shut", "reset"}
  /\ UNCHANGED <<recvVars, pc, wire, received, history>>

\* recv returned n > 0 bytes; read_packet looks at the whole buffer.
Filled(n) ==
  [i \in 0..RecvBufSize-1 |->
     IF recvBufPos <= i /\ i < recvBufPos + n THEN received + 1 + i - recvBufPos
                                              ELSE recvBuf[i]]

RecvData(n) ==
  /\ pc = "wait"
  /\ n <= wire - received /\ n <= recv_size
  /\ recvBuf' = Filled(n)
  /\ received' = received + n
  /\ recvBufPos' = recvBufPos + n
  /\ readPos' = 0
  /\ pkgLen' = ReadPacket(Cells(recvBuf', 0, recvBufPos'))
  /\ pc' = IF pkgLen' > 0 THEN "loop" ELSE "wait"
  /\ UNCHANGED <<peer, wire, history>>

\* recv returned 0: end of the stream, or a request for no bytes while the
\* session is readable.  recv returned -1: the connection was reset.
RecvEnds ==
  /\ pc = "wait"
  /\ \/ peer = "shut" /\ received = wire
     \/ wire > received /\ recv_size = 0
     \/ peer = "reset"
  /\ pc' = "closing"
  /\ UNCHANGED <<recvVars, peer, wire, received, history>>

\* epoll_ctl(DEL), close, on_disconnect, release: the buffer is gone.
CloseSession ==
  /\ pc = "closing"
  /\ pc' = "closed"
  /\ UNCHANGED <<recvVars, peer, wire, received, history>>

-----------------------------------------------------------------------------
(***************************************************************************)
(* One iteration of while (pkgLen > 0).                                    *)
(***************************************************************************)
BugCompleteStrict == readPos + pkgLen < recvBufPos
Complete == readPos + pkgLen <= recvBufPos

\* readPos after the delivery, if there is one.
NextPos == IF Complete THEN readPos + pkgLen ELSE readPos

Deliver ==
  IF Complete
    THEN /\ delivered' = delivered \o Cells(recvBuf, readPos, pkgLen)
         /\ cuts' = cuts \cup {Len(delivered')}
    ELSE UNCHANGED history

\* Everything in the buffer was delivered: recvBufPos = 0, leave the loop.
LoopDrained ==
  /\ pc = "loop"
  /\ NextPos >= recvBufPos
  /\ Deliver
  /\ recvBufPos' = 0
  /\ readPos' = 0
  /\ pc' = "wait"
  /\ UNCHANGED <<recvBuf, pkgLen, peer, wire, received>>

BugRestSameLength == pkgLen
Rest == ReadPacket(Cells(recvBuf, NextPos, recvBufPos - NextPos))

\* Another packet follows.
LoopContinues ==
  /\ pc = "loop"
  /\ NextPos < recvBufPos /\ Rest > 0
  /\ Deliver
  /\ readPos' = NextPos
  /\ pkgLen' = Rest
  /\ UNCHANGED <<recvBuf, recvBufPos, pc, peer, wire, received>>

\* The buffer after memmove to its start and the 0 after the remaining bytes.
BugShiftedFromReadPos ==
  [i \in 0..RecvBufSize-1 |->
     IF i < recvBufPos - NextPos THEN recvBuf[i + readPos]
     ELSE IF i = recvBufPos - NextPos THEN 0 ELSE recvBuf[i]]
Shifted ==
  [i \in 0..RecvBufSize-1 |->
     IF i < recvBufPos - NextPos THEN recvBuf[i + NextPos]
     ELSE IF i = recvBufPos - NextPos THEN 0 ELSE recvBuf[i]]

\* An incomplete packet follows: move it to the front, leave the loop.
BugLoopShiftsKeepsPos ==
  /\ pc = "loop"
  /\ NextPos < recvBufPos /\ Rest <= 0
  /\ Deliver
  /\ recvBuf' = Shifted
  /\ readPos' = 0
  /\ pkgLen' = Rest
  /\ pc' = "wait"
  /\ UNCHANGED <<recvBufPos, peer, wire, received>>
BugLoopShiftsReversed ==
  /\ pc = "loop"
  /\ NextPos < recvBufPos /\ Rest <= 0
  /\ Deliver
  /\ recvBuf' = Shifted
  /\ recvBufPos' = NextPos - recvBufPos
  /\ readPos' = 0
  /\ pkgLen' = Rest
  /\ pc' = "wait"
  /\ UNCHANGED <<peer, wire, received>>
LoopShifts ==
  /\ pc = "loop"
  /\ NextPos < recvBufPos /\ Rest <= 0
  /\ Deliver
  /\ recvBuf' = Shifted
  /\ recvBufPos' = recvBufPos - NextPos
  /\ readPos' = 0
  /\ pkgLen' = Rest
  /\ pc' = "wait"
  /\ UNCHANGED <<peer, wire, received>>

Loop == LoopDrained \/ LoopContinues \/ LoopShifts

Recv == \E n \in 1..RecvBufSize : RecvData(n)

Next == PeerSends \/ PeerEnds \/ Recv \/ RecvEnds \/ CloseSession \/ Loop

\* The processor thread runs whenever the session is readable or in its loop.
Spec == Init /\ [][Next]_vars /\ WF_vars(Recv \/ RecvEnds \/ CloseSession \/ Loop)

-----------------------------------------------------------------------------
\* Every variable of the input side has its type; recvBufPos and readPos are
\* positions of recvBuf.
TypeOK ==
  /\ recvBuf \in [0..RecvBufSize-1 -> 0..MaxStream]
  /\ recvBufPos \in 0..RecvBufSize
  /\ readPos \in 0..recvBufPos
  /\ pkgLen \in Int
  /\ pc \in {"wait", "loop", "closing", "closed"}
  /\ peer \in {"open", "shut", "reset"}
  /\ wire \in 0..MaxStream
  /\ received \in 0..wire
  /\ delivered \in Seq(0..MaxStream)
  /\ cuts \subseteq Nat

\* However recv cuts the stream, on_recv has been given its bytes in order, each
\* once, and the bytes still in recvBuf are the ones that follow.
StreamPreserved ==
  /\ \A i \in 1..Len(delivered) : delivered[i] = i
  /\ Len(delivered) + recvBufPos - readPos = received
  /\ \A i \in 0..RecvBufSize-1 : readPos <= i /\ i < recvBufPos =>
       recvBuf[i] = Len(delivered) + 1 + i - readPos

\* The processor closes a session only after the peer has ended the connection:
\* a result 0 of recv means what the comment "client close" says.
ClosedByPeer == pc \in {"closing", "closed"} => peer # "open"

\* The packets given to on_recv are the peer's packets, one by one, whatever the
\* segmentation of the stream.
PacketsAreFrames == cuts = {e \in FrameEnds : 0 < e /\ e <= Len(delivered)}

\* A packet whose bytes are all sent reaches on_recv, unless the peer resets the
\* connection.
FramesArrive ==
  \A e \in FrameEnds \ {0} : (wire >= e) ~> (e \in cuts \/ peer = "reset")
=============================================================================
