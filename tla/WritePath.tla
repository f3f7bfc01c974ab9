----------------------------- MODULE WritePath ------------------------------
(***************************************************************************)
(* The way of a byte from a session to its socket (detail/epollnet.hpp):   *)
(* async_send fills the session's SendBuffer and arms EPOLLOUT; the        *)
(* processor thread, when epoll_wait reports EPOLLOUT without EPOLLIN, pops*)
(* the buffer into ::send and then keeps or drops EPOLLOUT by looking at   *)
(* errno.  send writes to the socket directly.                             *)
(*                                                                         *)
(* One session, its processor thread Proc, and the threads that call       *)
(* async_send (Pushers).  External: the kernel's output queue, which has   *)
(* SocketRoom bytes and reports EPOLLOUT when lowWater of them are free.   *)
(* Accepted sockets are nonBlocking (Listener::run), connected ones are not*)
(* (Connector::connect never calls setSockNonBlock).                       *)
(***************************************************************************)
EXTENDS SendBuffer

CONSTANTS
  SocketRoom,
  Sockets,       \* the sockets the session may have got
  DirectLens,    \* the lengths passed to send
  MaxRequests    \* bound: messages that the peer sends

ASSUME WritePathAssumption ==
  /\ SocketRoom \in Nat \ {0}
  /\ Sockets \subseteq [nonBlocking : BOOLEAN, lowWater : 1..SocketRoom]
  /\ DirectLens \subseteq Nat \ {0}
  /\ MaxRequests \in Nat

VARIABLES
  socket,       \* the session's socket
  armed,        \* EPOLLOUT is in the interest set of the session
  errnoAgain,   \* errno of the processor thread is EAGAIN
  room,         \* free bytes of the kernel's output queue
  requests,     \* messages of the peer that wait in the socket
  arrived,      \* messages the peer has sent
  direct,       \* send: the bytes of this call, and those not yet taken
  shortSend     \* history: some send returned sntLen # dataLen

bufferVars == <<members, dataMutex, pushLen, popVars, pushed>>
peerVars == <<requests, arrived>>
directVars == <<direct, shortSend>>
socketVars == <<socket, armed, errnoAgain, room, peerVars, directVars>>
wvars == <<vars, socketVars>>

WriteInit ==
  /\ Init
  /\ socket \in Sockets
  /\ armed = FALSE
  /\ errnoAgain = FALSE
  /\ room = SocketRoom
  /\ requests = 0
  /\ arrived = 0
  /\ direct = [len |-> 0, left |-> 0]
  /\ shortSend = FALSE

\* A thread is between two calls: Proc inside a callback, others anywhere.
Calling(t) == pc[t] = IF t = Proc THEN "on_recv" ELSE "idle"
CallReturns(t) == Goto(t, IF t = Proc THEN "on_recv" ELSE "idle")

-----------------------------------------------------------------------------
(***************************************************************************)
(* async_send: push, then epoll_ctl(MOD) whatever push returned.           *)
(***************************************************************************)
AsyncSend(t) ==
  /\ Calling(t)
  /\ \E n \in PushLens : Push(t, n, "mod")
  /\ UNCHANGED socketVars

AsyncSendPush(t) ==
  /\ PushMove(t, "mod") \/ PushCopy(t, "mod")
  /\ UNCHANGED socketVars

BugAsyncSendNeverArms(t) ==
  /\ pc[t] = "mod"
  /\ CallReturns(t)
  /\ UNCHANGED <<bufferVars, socketVars>>
AsyncSendArm(t) ==
  /\ pc[t] = "mod"
  /\ armed' = TRUE
  /\ CallReturns(t)
  /\ UNCHANGED <<bufferVars, socket, errnoAgain, room, peerVars, directVars>>

(***************************************************************************)
(* send, from a callback: the socket takes what it has room for, and waits *)
(* for more room only when it is blocking.                                 *)
(***************************************************************************)
DirectSend ==
  /\ pc[Proc] = "on_recv"
  /\ \E n \in DirectLens : direct' = [len |-> n, left |-> n]
  /\ Goto(Proc, "direct")
  /\ UNCHANGED <<bufferVars, socket, armed, errnoAgain, room, peerVars, shortSend>>

DirectByte ==
  /\ pc[Proc] = "direct"
  /\ direct.left > 0 /\ room > 0
  /\ direct' = [direct EXCEPT !.left = @ - 1]
  /\ room' = room - 1
  /\ UNCHANGED <<vars, socket, armed, errnoAgain, peerVars, shortSend>>

BugDirectReturnsWhenFull ==
  /\ pc[Proc] = "direct"
  /\ direct.left = 0 \/ room = 0
  /\ shortSend' = (shortSend \/ direct.left > 0)
  /\ errnoAgain' = (errnoAgain \/ direct.left = direct.len)
  /\ direct' = [len |-> 0, left |-> 0]
  /\ Goto(Proc, "on_recv")
  /\ UNCHANGED <<bufferVars, socket, armed, room, peerVars>>
DirectReturn ==
  /\ pc[Proc] = "direct"
  /\ direct.left = 0 \/ (socket.nonBlocking /\ room = 0)
  /\ shortSend' = (shortSend \/ direct.left > 0)
  /\ errnoAgain' = (errnoAgain \/ direct.left = direct.len)
  /\ direct' = [len |-> 0, left |-> 0]
  /\ Goto(Proc, "on_recv")
  /\ UNCHANGED <<bufferVars, socket, armed, room, peerVars>>

-----------------------------------------------------------------------------
(***************************************************************************)
(* Processor::run for this session.  EPOLLIN is tested first.              *)
(***************************************************************************)
HandleIn ==
  /\ pc[Proc] = "idle"
  /\ requests > 0
  /\ requests' = requests - 1
  /\ Goto(Proc, "on_recv")
  /\ UNCHANGED <<bufferVars, socket, armed, errnoAgain, room, arrived, directVars>>

OnRecvReturns ==
  /\ pc[Proc] = "on_recv"
  /\ Goto(Proc, "idle")
  /\ UNCHANGED <<bufferVars, socketVars>>

BugHandleOutWithIn ==
  /\ pc[Proc] = "idle"
  /\ requests > 0
  /\ armed /\ room >= socket.lowWater
  /\ Goto(Proc, "pop")
  /\ UNCHANGED <<bufferVars, socketVars>>
HandleOut ==
  /\ pc[Proc] = "idle"
  /\ requests = 0
  /\ armed /\ room >= socket.lowWater
  /\ Goto(Proc, "pop")
  /\ UNCHANGED <<bufferVars, socketVars>>

\* pop with the real socket: a byte needs room; ::send ends when all is taken,
\* or when a non-blocking socket is full.
OutBegin ==
  /\ (pc[Proc] = "pop" /\ PopLength) \/ PopPointer
  /\ UNCHANGED socketVars

OutByte ==
  /\ room > 0
  /\ SendByte
  /\ room' = room - 1
  /\ UNCHANGED <<socket, armed, errnoAgain, peerVars, directVars>>

SendEnds == copied = dataLen \/ (socket.nonBlocking /\ room = 0)

\* ::send fails with EAGAIN when it could take nothing of a non-empty buffer.
OutEnd ==
  /\ SendEnds
  /\ PopNothing("rearm") \/ PopPart("rearm") \/ PopAll("rearm")
  /\ errnoAgain' = (errnoAgain \/ (copied = 0 /\ dataLen > 0))
  /\ UNCHANGED <<socket, armed, room, peerVars, directVars>>

\* The choice between IN|OUT and IN is made from errno, which no successful
\* call resets.
Rearm ==
  /\ pc[Proc] = "rearm"
  /\ armed' = errnoAgain
  /\ Goto(Proc, "idle")
  /\ UNCHANGED <<bufferVars, socket, errnoAgain, room, peerVars, directVars>>

\* The thread serves its other sessions, whose calls leave errno as they like.
OtherSessions ==
  /\ pc[Proc] = "idle"
  /\ errnoAgain' = ~errnoAgain
  /\ UNCHANGED <<vars, socket, armed, room, peerVars, directVars>>

-----------------------------------------------------------------------------
(***************************************************************************)
(* The peer sends messages and reads from the connection.                  *)
(***************************************************************************)
PeerSends ==
  /\ arrived < MaxRequests
  /\ arrived' = arrived + 1
  /\ requests' = requests + 1
  /\ UNCHANGED <<vars, socket, armed, errnoAgain, room, directVars>>

PeerReads ==
  /\ room < SocketRoom
  /\ room' = room + 1
  /\ UNCHANGED <<vars, socket, armed, errnoAgain, peerVars, directVars>>

-----------------------------------------------------------------------------
ProcStep ==
  \/ HandleIn \/ OnRecvReturns \/ HandleOut
  \/ OutBegin \/ OutByte \/ OutEnd \/ Rearm
  \/ DirectSend \/ DirectByte \/ DirectReturn

CallStep(t) == AsyncSend(t) \/ AsyncSendPush(t) \/ AsyncSendArm(t)

WriteNext ==
  \/ ProcStep
  \/ \E t \in Pushers : CallStep(t)
  \/ OtherSessions
  \/ PeerSends
  \/ PeerReads

WriteSpec == WriteInit /\ [][WriteNext]_wvars

(***************************************************************************)
(* A runnable thread runs, a call of async_send or send that has begun goes*)
(* on, a callback returns (it does not call async_send for ever), and the  *)
(* peer reads.                                                             *)
(***************************************************************************)
FairWriteSpec ==
  /\ WriteSpec
  /\ WF_wvars(ProcStep)
  /\ SF_wvars(OnRecvReturns)
  /\ \A t \in Pushers : WF_wvars(AsyncSendPush(t) \/ AsyncSendArm(t))
  /\ WF_wvars(PeerReads)

-----------------------------------------------------------------------------
\* ::send takes all that pop gives it: it waits for room, or EPOLLOUT means that
\* a full buffer fits.
TakesAll == ~socket.nonBlocking \/ socket.lowWater >= BufferSize - 1

\* No lost wakeup: when the processor goes back to epoll_wait and no async_send
\* is under way, buffered bytes imply that EPOLLOUT is armed.
ArmedWhilePending ==
  (/\ TakesAll
   /\ pc[Proc] = "idle"
   /\ \A t \in Pushers : pc[t] \notin PushLabels \cup {"mod"})
    => (dataTail > dataHead => armed)

\* Every byte that async_send accepted reaches the socket, if no partial ::send
\* can happen.
FlushedWhole ==
  \A k \in 1..MaxBytes : (TakesAll /\ pushed >= k) ~> (Len(sent) >= k)

\* Every byte that async_send accepted reaches the socket: what the kernel has
\* no room for is written when the socket is writable again.
Flushed == \A k \in 1..MaxBytes : (pushed >= k) ~> (Len(sent) >= k)

\* The assertion of send, that the socket took all the bytes of the call, holds
\* on a connected socket.
SendTakesAll == ~socket.nonBlocking => ~shortSend
=============================================================================
