-------------------------- MODULE WritePathProofs ---------------------------
(***************************************************************************)
(* Proofs about WritePath, for every buffer size, kernel queue and kind of *)
(* socket: no wakeup is lost, and send is complete on a blocking socket.   *)
(* Then about the SendBuffer it extends, for every set of threads.         *)
(***************************************************************************)
EXTENDS WritePath, TLAPS

(***************************************************************************)
(* Only the processor thread calls async_send.  With a second caller       *)
(* ArmedWhilePending is false: the MOD after pop erases its EPOLLOUT.      *)
(***************************************************************************)
OneCaller == Pushers = {Proc}

WriteLabels == {"idle", "on_recv", "direct", "move", "copy", "mod", "pop",
                "pointer", "send", "rearm"}

Typed ==
  /\ dataHead \in Nat /\ dataTail \in Nat
  /\ dataLen \in Int /\ copied \in Nat
  /\ room \in Nat
  /\ pushLen \in [Pushers -> Nat]
  /\ pc \in [Threads -> WriteLabels]
  /\ socket \in Sockets

\* The window of the buffer, which never holds more than BufferSize - 1 bytes.
Held ==
  /\ dataHead <= dataTail /\ dataTail < BufferSize
  /\ pc[Proc] = "copy" => dataTail + pushLen[Proc] < BufferSize

\* What pop took from the buffer before it ran ::send.
Popping ==
  /\ pc[Proc] \in {"pointer", "send"} => dataLen = dataTail - dataHead
  /\ pc[Proc] = "pointer" => copied = 0
  /\ pc[Proc] = "send" => copied <= dataLen

\* EPOLLOUT was reported with room for all the bytes that ::send is given, and
\* only ::send takes room away.
RoomForAll ==
  TakesAll /\ socket.nonBlocking =>
    /\ pc[Proc] \in {"pop", "pointer"} => room >= BufferSize - 1
    /\ pc[Proc] = "send" => room >= dataLen - copied

\* Bytes are pending without EPOLLOUT only inside async_send; after pop there
\* are none, so that dropping EPOLLOUT is right whatever errno says.
NoneForgotten ==
  TakesAll =>
    /\ pc[Proc] \in {"idle", "on_recv", "direct"} => (dataTail > dataHead => armed)
    /\ pc[Proc] = "rearm" => dataTail = dataHead

WakeInv == Typed /\ Held /\ Popping /\ RoomForAll /\ NoneForgotten

-----------------------------------------------------------------------------
\* The facts about a socket that the steps need.
LEMMA SocketFacts ==
  ASSUME Typed
  PROVE  socket.lowWater \in Nat /\ socket.nonBlocking \in BOOLEAN
  <1>1. socket \in [nonBlocking : BOOLEAN, lowWater : 1..SocketRoom]
    BY WritePathAssumption, Zenon DEF Typed
  <1> QED
    BY <1>1, WritePathAssumption

\* A session starts with an empty buffer.
LEMMA WakeInit ==
  ASSUME OneCaller
  PROVE  WriteInit => WakeInv
  BY BufferAssumption, WritePathAssumption
     DEF OneCaller, WriteInit, Init, WakeInv, Typed, Held, Popping, RoomForAll,
         NoneForgotten, WriteLabels, Threads

\* async_send: push keeps the window, and the MOD after it arms EPOLLOUT.
LEMMA WakeCall ==
  ASSUME OneCaller, WakeInv, CallStep(Proc)
  PROVE  WakeInv'
  <1> USE BufferAssumption
      DEF OneCaller, WakeInv, Typed, Held, Popping, RoomForAll, NoneForgotten,
          WriteLabels, Threads, TakesAll, Goto, socketVars
  <1>1. CASE AsyncSend(Proc)
    <2>1. PICK n \in PushLens : Push(Proc, n, "mod")
      BY <1>1, Zenon DEF AsyncSend
    <2> QED
      BY <1>1, <2>1 DEF AsyncSend, Push, PushRefused, PushCompacts, PushAppends, Fits,
         members, popVars
  <1>2. CASE PushMove(Proc, "mod") /\ UNCHANGED socketVars
    <2>1. LeftSize = dataTail - dataHead
      BY DEF LeftSize
    <2> QED
      BY <1>2, <2>1 DEF PushMove, Fits, popVars
  <1>3. CASE PushCopy(Proc, "mod") /\ UNCHANGED socketVars
    BY <1>3 DEF PushCopy, popVars
  <1>4. CASE AsyncSendArm(Proc)
    BY <1>4, Zenon DEF AsyncSendArm, CallReturns, bufferVars, members, popVars
  <1> QED
    BY <1>1, <1>2, <1>3, <1>4, Zenon DEF CallStep, AsyncSendPush

\* send and the callback around it leave the buffer and EPOLLOUT alone.
LEMMA WakeRecv ==
  ASSUME OneCaller, WakeInv,
         HandleIn \/ OnRecvReturns \/ DirectSend \/ DirectByte \/ DirectReturn
  PROVE  WakeInv'
  <1> USE DEF OneCaller, WakeInv, Typed, Held, Popping, RoomForAll, NoneForgotten,
          WriteLabels, Threads, TakesAll, Goto, socketVars, bufferVars, members,
          popVars
  <1>1. CASE HandleIn
    BY <1>1, Zenon DEF HandleIn
  <1>2. CASE OnRecvReturns
    BY <1>2, Zenon DEF OnRecvReturns
  <1>3. CASE DirectSend
    BY <1>3, Zenon DEF DirectSend
  <1>4. CASE DirectByte
    BY <1>4 DEF DirectByte, vars
  <1>5. CASE DirectReturn
    BY <1>5, Zenon DEF DirectReturn
  <1> QED
    BY <1>1, <1>2, <1>3, <1>4, <1>5, Zenon

\* The EPOLLOUT branch: ::send is given the whole window and takes it, so that
\* nothing is left when the processor chooses the new interest set.
LEMMA WakeOut ==
  ASSUME OneCaller, WakeInv, HandleOut \/ OutBegin \/ OutByte \/ OutEnd \/ Rearm
  PROVE  WakeInv'
  <1> USE BufferAssumption
      DEF OneCaller, WakeInv, Typed, Held, Popping, RoomForAll, NoneForgotten,
          WriteLabels, Threads, TakesAll, Goto, socketVars, members, popVars
  <1>0. socket.lowWater \in Nat /\ socket.nonBlocking \in BOOLEAN
    BY SocketFacts, Zenon
  <1>1. CASE HandleOut
    BY <1>0, <1>1 DEF HandleOut, bufferVars
  <1>2. CASE OutBegin
    BY <1>2 DEF OutBegin, PopLength, PopPointer
  <1>3. CASE OutByte
    BY <1>3 DEF OutByte, SendByte
  <1>4. CASE OutEnd
    <2>1. TakesAll => copied = dataLen
      BY <1>0, <1>4 DEF OutEnd, SendEnds, PopNothing, PopPart, PopAll
    <2>2. CASE PopNothing("rearm")
      BY <1>4, <2>1, <2>2 DEF OutEnd, PopNothing
    <2>3. CASE PopPart("rearm")
      BY <1>4, <2>1, <2>3 DEF OutEnd, PopPart
    <2>4. CASE PopAll("rearm")
      BY <1>4, <2>4 DEF OutEnd, PopAll
    <2> QED
      BY <1>4, <2>2, <2>3, <2>4, Zenon DEF OutEnd
  <1>5. CASE Rearm
    BY <1>5 DEF Rearm, bufferVars
  <1> QED
    BY <1>1, <1>2, <1>3, <1>4, <1>5, Zenon

\* The peer and the other sessions of the thread: errno changes, room grows.
LEMMA WakeOthers ==
  ASSUME OneCaller, WakeInv,
         OtherSessions \/ PeerSends \/ PeerReads \/ UNCHANGED wvars
  PROVE  WakeInv'
  <1> USE DEF WakeInv, Typed, Held, Popping, RoomForAll, NoneForgotten, TakesAll,
          vars, members, popVars
  <1>1. CASE OtherSessions
    BY <1>1, Zenon DEF OtherSessions
  <1>2. CASE PeerSends
    BY <1>2, Zenon DEF PeerSends
  <1>3. CASE PeerReads
    BY <1>3, BufferAssumption DEF PeerReads
  <1>4. CASE UNCHANGED wvars
    BY <1>4, Zenon DEF wvars, socketVars
  <1> QED
    BY <1>1, <1>2, <1>3, <1>4, Zenon

\* WakeInv holds in every state.
LEMMA WakeAlways ==
  ASSUME OneCaller
  PROVE  WriteSpec => []WakeInv
  <1>1. WriteInit => WakeInv
    BY WakeInit, Zenon
  <1>2. WakeInv /\ [WriteNext]_wvars => WakeInv'
    BY WakeCall, WakeRecv, WakeOut, WakeOthers, Zenon DEF WriteNext, ProcStep, OneCaller
  <1> QED
    BY <1>1, <1>2, PTL DEF WriteSpec

-----------------------------------------------------------------------------
\* No lost wakeup, for every buffer size and socket: a processor that goes back
\* to epoll_wait with bytes in the send buffer has EPOLLOUT armed, if ::send takes
\* what it is given and only the callbacks of the processor call async_send.
THEOREM NoLostWakeup ==
  ASSUME OneCaller
  PROVE  WriteSpec => []ArmedWhilePending
  <1>1. WakeInv => ArmedWhilePending
    BY Zenon DEF WakeInv, NoneForgotten, ArmedWhilePending
  <1> QED
    BY <1>1, WakeAlways, PTL

\* On a connected socket, which is blocking, send returns with all the bytes of
\* the call taken, as its assertion says, however full the kernel's queue is and
\* whichever threads call async_send meanwhile.
THEOREM SendIsComplete == WriteSpec => []SendTakesAll
  <1>1. WriteInit => SendTakesAll
    BY Zenon DEF WriteInit, SendTakesAll
  <1>2. ASSUME SendTakesAll, [WriteNext]_wvars
        PROVE  SendTakesAll'
    <2> USE <1>2 DEF SendTakesAll, directVars, socketVars
    <2>1. CASE DirectReturn
      <3>1. ~(0 > 0)
        BY SMT
      <3>2. ~socket.nonBlocking => ~(direct.left > 0)
        BY <2>1, <3>1, Zenon DEF DirectReturn
      <3> QED
        BY <2>1, <3>2, Zenon DEF DirectReturn
    <2>2. CASE UNCHANGED <<socket, shortSend>>
      BY <2>2, Zenon
    <2>3. ProcStep => DirectReturn \/ UNCHANGED <<socket, shortSend>>
      BY Zenon DEF ProcStep, HandleIn, OnRecvReturns, HandleOut, OutBegin, OutByte, OutEnd,
         Rearm, DirectSend, DirectByte
    <2>4. (\E t \in Pushers : CallStep(t)) => UNCHANGED <<socket, shortSend>>
      BY Zenon DEF CallStep, AsyncSend, AsyncSendPush, AsyncSendArm
    <2>5. OtherSessions \/ PeerSends \/ PeerReads \/ UNCHANGED wvars
            => UNCHANGED <<socket, shortSend>>
      BY Zenon DEF OtherSessions, PeerSends, PeerReads, wvars
    <2> QED
      BY <2>1, <2>2, <2>3, <2>4, <2>5, Zenon DEF WriteNext
  <1> QED
    BY <1>1, <1>2, PTL DEF WriteSpec
-----------------------------------------------------------------------------
(***************************************************************************)
(* Index safety.  IndexInRange alone is not inductive: the accounting step *)
(* of pop is safe because the window cannot shrink below dataLen while pop *)
(* runs its handler (Window), and the writes of push because the holder of *)
(* the mutex is alone between its decision and its write (Exclusive).      *)
(***************************************************************************)
Exclusive == \A t \in Pushers : pc[t] \in PushLabels => dataMutex = t

Window ==
  /\ pc[Proc] \in PopLabels => 0 <= dataLen /\ dataLen <= dataTail - dataHead
  /\ pc[Proc] = "pointer" => copied = 0
  /\ pc[Proc] = "send" => /\ 0 <= src /\ src + dataLen <= BufferSize
                          /\ copied <= dataLen

CopyRoom ==
  \A t \in Pushers : pc[t] = "copy" => dataTail + pushLen[t] < BufferSize

IndexInv == TypeOK /\ IndexInRange /\ Exclusive /\ Window /\ CopyRoom

USE BufferAssumption DEF Threads, Labels, PushLabels, PopLabels

\* Every thread of the model keeps the types of the members and of its locals.
LEMMA TypeInit == Init => TypeOK
  BY DEF Init, TypeOK

LEMMA MovedType == TypeOK /\ IndexInRange => Moved \in [0..BufferSize-1 -> Nat]
  BY DEF TypeOK, IndexInRange, Moved, LeftSize

LEMMA CopiedType ==
  ASSUME TypeOK, NEW n \in Nat
  PROVE  Copied(n) \in [0..BufferSize-1 -> Nat]
  BY DEF TypeOK, Copied

LEMMA IndexInit == Init => IndexInv
  BY TypeInit DEF Init, IndexInv, IndexInRange, Exclusive, Window, CopyRoom

\* Every step of a pusher and of the processor preserves IndexInv.
LEMMA IndexStep == IndexInv /\ [Next]_vars => IndexInv'
<1> SUFFICES ASSUME IndexInv, [Next]_vars PROVE IndexInv'
  BY Zenon
<1>0. TypeOK /\ IndexInRange /\ Exclusive /\ Window /\ CopyRoom
  BY Zenon DEF IndexInv
<1> USE DEF Goto, members, popVars
<1>1. ASSUME NEW t \in Pushers, pc[t] = "idle", NEW n \in PushLens,
             Push(t, n, "idle")
      PROVE  IndexInv'
  <2>1. TypeOK'
    BY <1>0, <1>1, Zenon DEF TypeOK, Push, PushRefused, PushCompacts, PushAppends
  <2>2. IndexInRange' /\ Window'
    BY Zenon, <1>0, <1>1 DEF TypeOK, IndexInRange, Window, Push, PushRefused,
       PushCompacts, PushAppends
  <2>3. Exclusive'
    BY <1>0, <1>1 DEF TypeOK, Exclusive, Push, PushRefused, PushCompacts, PushAppends
  <2>4. CopyRoom'
    BY <1>0, <1>1 DEF TypeOK, Exclusive, CopyRoom, Push, PushRefused,
       PushCompacts, PushAppends, Fits
  <2> QED
    BY <2>1, <2>2, <2>3, <2>4, Zenon DEF IndexInv
<1>2. ASSUME NEW t \in Pushers, PushMove(t, "idle") PROVE IndexInv'
  <2>1. /\ dataMutex = t
        /\ \A u \in Pushers : u # t => pc[u] \notin PushLabels
    BY <1>0, <1>2, Zenon DEF Exclusive, PushMove
  <2>2. TypeOK'
    <3>1. dataBuf' \in [0..BufferSize-1 -> Nat]
      BY <1>0, <1>2, MovedType, Zenon DEF PushMove
    <3>2. dataTail' \in Nat /\ dataHead' \in Nat
      BY <1>0, <1>2 DEF TypeOK, PushMove, LeftSize
    <3>3. pc' \in [Threads -> Labels] /\ dataMutex' \in Threads \cup {NoThread}
      BY <1>0, <1>2, Zenon DEF TypeOK, PushMove
    <3> QED
      BY <1>0, <1>2, <3>1, <3>2, <3>3, Zenon DEF TypeOK, PushMove
  <2>3. dataHead' = 0 /\ dataTail' = dataTail - dataHead
    BY <1>0, <1>2 DEF TypeOK, IndexInRange, PushMove, LeftSize
  <2>4. IndexInRange'
    BY <1>0, <2>3 DEF TypeOK, IndexInRange
  <2>5. \A u \in Threads : u # t => pc'[u] = pc[u]
    BY <1>0, <1>2, Zenon DEF TypeOK, PushMove
  <2>6. \/ pc'[t] = "copy" /\ dataMutex' = t /\ Fits(dataTail', pushLen[t])
        \/ pc'[t] = "idle"
    BY <1>0, <1>2, <2>1, Zenon DEF TypeOK, PushMove
  <2>7. Exclusive'
    BY <2>1, <2>5, <2>6, Zenon DEF Exclusive
  <2>8. Window'
    BY <1>0, <1>2, <2>3, <2>5, <2>6 DEF TypeOK, Window, PushMove
  <2>9. CopyRoom'
    <3>1. pushLen' = pushLen /\ pushLen[t] \in Nat /\ dataTail' \in Int
      BY <1>0, <1>2, <2>2 DEF TypeOK, PushMove
    <3>2. pc'[t] = "copy" => dataTail' + pushLen'[t] < BufferSize
      BY <2>6, <3>1 DEF Fits
    <3> QED
      BY <2>1, <2>5, <3>2, Zenon DEF CopyRoom
  <2> QED
    BY <2>2, <2>4, <2>7, <2>8, <2>9, Zenon DEF IndexInv
<1>3. ASSUME NEW t \in Pushers, PushCopy(t, "idle") PROVE IndexInv'
  <2>1. \A u \in Pushers : u # t => pc[u] \notin PushLabels
    BY <1>0, <1>3, Zenon DEF Exclusive, PushCopy
  <2>2. TypeOK'
    <3>1. dataBuf' \in [0..BufferSize-1 -> Nat]
      BY <1>0, <1>3, CopiedType, Zenon DEF TypeOK, PushCopy
    <3> QED
      BY <1>0, <1>3, <3>1, SMTT(30) DEF TypeOK, PushCopy
  <2>3. IndexInRange'
    BY <1>0, <1>3, SMTT(30) DEF TypeOK, IndexInRange, CopyRoom, PushCopy
  <2>4. pc'[t] = "idle" /\ \A u \in Threads : u # t => pc'[u] = pc[u]
    BY <1>0, <1>3, Zenon DEF TypeOK, PushCopy
  <2>5. Exclusive' /\ CopyRoom'
    BY <2>1, <2>4, Zenon DEF Exclusive, CopyRoom
  <2>6. Window'
    BY <1>0, <1>3, <2>4 DEF TypeOK, Window, PushCopy
  <2> QED
    BY <2>2, <2>3, <2>5, <2>6, Zenon DEF IndexInv
<1>4. CASE pc[Proc] = "idle" /\ PopLength
  BY <1>0, <1>4 DEF TypeOK, PopLength, IndexInv, IndexInRange, Exclusive, Window, CopyRoom
<1>5. CASE PopPointer
  <2>1. TypeOK' /\ IndexInRange' /\ Exclusive' /\ CopyRoom'
    BY <1>0, <1>5, Zenon DEF TypeOK, PopPointer, IndexInRange, Exclusive, CopyRoom
  <2>2. Window'
    BY <1>0, <1>5 DEF TypeOK, PopPointer, IndexInRange, Window
  <2> QED
    BY <2>1, <2>2, Zenon DEF IndexInv
<1>6. CASE SendByte
  <2>1. src + copied \in 0..BufferSize-1
    BY <1>0, <1>6 DEF TypeOK, Window, SendByte
  <2>2. Moved[src + copied] \in Nat /\ dataBuf[src + copied] \in Nat
    BY <1>0, <2>1, MovedType, Zenon DEF TypeOK
  <2>3. \A t \in Pushers : Copied(pushLen[t])[src + copied] \in Nat
    <3> SUFFICES ASSUME NEW t \in Pushers
                 PROVE  Copied(pushLen[t])[src + copied] \in Nat
      BY Zenon
    <3>1. pushLen[t] \in Nat
      BY <1>0, Zenon DEF TypeOK
    <3>2. Copied(pushLen[t]) \in [0..BufferSize-1 -> Nat]
      BY <1>0, <3>1, CopiedType, Zenon
    <3> QED
      BY <2>1, <3>2, Zenon
  <2>4. Visible(src + copied) \subseteq Nat
    BY <2>2, <2>3, Zenon DEF Visible
  <2>5. sent' \in Seq(Nat)
    BY <1>0, <1>6, <2>4 DEF TypeOK, SendByte
  <2> QED
    BY <1>0, <1>6, <2>5 DEF TypeOK, SendByte, IndexInv, IndexInRange, Exclusive, Window, CopyRoom
<1>7. CASE PopNothing("idle")
  BY <1>0, <1>7, Zenon DEF TypeOK, PopNothing, IndexInv, IndexInRange, Exclusive, Window, CopyRoom
<1>8. CASE PopPart("idle")
  BY <1>0, <1>8 DEF TypeOK, PopPart, IndexInv, IndexInRange, Exclusive, Window, CopyRoom
<1>9. CASE PopAll("idle")
  BY <1>0, <1>9 DEF TypeOK, PopAll, IndexInv, IndexInRange, Exclusive, Window, CopyRoom
<1>10. CASE UNCHANGED vars
  BY <1>0, <1>10, Zenon DEF TypeOK, vars, IndexInv, IndexInRange, Exclusive, Window, CopyRoom
<1> QED
  BY <1>1, <1>2, <1>3, <1>4, <1>5, <1>6, <1>7, <1>8, <1>9, <1>10, Zenon
     DEF Next, PushStep, PopStep

LEMMA IndexAlways == Spec => []IndexInv
  BY IndexInit, IndexStep, PTL DEF Spec

\* Every reachable state of SendBuffer is well typed, in every interleaving of
\* push and pop.
THEOREM TypeCorrect == Spec => []TypeOK
  BY IndexAlways, PTL DEF IndexInv

\* The members always describe a window inside dataBuf, although pop updates
\* them from a length that it read in an earlier critical section.
THEOREM IndexSafety == Spec => []IndexInRange
  BY IndexAlways, PTL DEF IndexInv

\* Neither the unlocked read of ::send nor the writes of push leave dataBuf.
THEOREM AccessSafety == Spec => []AccessInRange
<1>1. IndexInv => AccessInRange
  BY DEF IndexInv, TypeOK, Window, CopyRoom, AccessInRange
<1> QED
  BY <1>1, IndexAlways, PTL

-----------------------------------------------------------------------------
(***************************************************************************)
(* No uninitialised byte.  A cell below dataTail, or in the range that     *)
(* ::send was given, has been written; compaction and append only replace  *)
(* written values by written values.                                       *)
(***************************************************************************)
Written ==
  /\ \A i \in 0..BufferSize-1 : i < dataTail => dataBuf[i] # 0
  /\ pc[Proc] = "send" =>
       \A i \in 0..BufferSize-1 : i < src + dataLen => dataBuf[i] # 0

WrittenInv == Written /\ NoUninitialisedByte

LEMMA WrittenInit == Init => WrittenInv
  BY DEF Init, WrittenInv, Written, NoUninitialisedByte

LEMMA MovedWritten ==
  ASSUME IndexInv, Written, NEW i \in 0..BufferSize-1
  PROVE  /\ dataBuf[i] # 0 => Moved[i] # 0
         /\ i < dataTail - dataHead => Moved[i] # 0
<1>1. TypeOK /\ IndexInRange
  BY Zenon DEF IndexInv
<1>2. LeftSize = dataTail - dataHead
  BY <1>1 DEF TypeOK, IndexInRange, LeftSize
<1>3. CASE i < LeftSize
  <2>1. i + dataHead \in 0..BufferSize-1 /\ i + dataHead < dataTail
    BY <1>1, <1>2, <1>3 DEF TypeOK, IndexInRange
  <2>2. Moved[i] = dataBuf[i + dataHead]
    BY <1>3, Zenon DEF Moved
  <2> QED
    BY <2>1, <2>2, Zenon DEF Written
<1>4. CASE ~(i < LeftSize)
  BY <1>2, <1>4, Zenon DEF Moved
<1> QED
  BY <1>3, <1>4, Zenon

LEMMA CopiedWritten ==
  ASSUME TypeOK, NEW i \in 0..BufferSize-1, NEW n \in Nat
  PROVE  /\ dataBuf[i] # 0 => Copied(n)[i] # 0
         /\ dataTail <= i /\ i < dataTail + n => Copied(n)[i] # 0
  BY DEF TypeOK, Copied

LEMMA WrittenStep == IndexInv /\ IndexInv' /\ WrittenInv /\ [Next]_vars => WrittenInv'
<1> SUFFICES ASSUME IndexInv, IndexInv', WrittenInv, [Next]_vars PROVE WrittenInv'
  BY Zenon
<1>0. TypeOK /\ IndexInRange /\ Window /\ Written /\ NoUninitialisedByte /\ TypeOK'
  BY Zenon DEF IndexInv, WrittenInv
<1> USE DEF Goto, members, popVars, WrittenInv
<1>1. ASSUME NEW t \in Pushers, pc[t] = "idle", NEW n \in PushLens,
             Push(t, n, "idle")
      PROVE  WrittenInv'
  BY Zenon, <1>0, <1>1 DEF TypeOK, Push, PushRefused, PushCompacts, PushAppends,
     Written, NoUninitialisedByte
<1>2. ASSUME NEW t \in Pushers, PushMove(t, "idle") PROVE WrittenInv'
  <2>1. dataTail' = dataTail - dataHead
    BY <1>0, <1>2 DEF TypeOK, IndexInRange, PushMove, LeftSize
  <2>2. \A i \in 0..BufferSize-1 : /\ dataBuf[i] # 0 => dataBuf'[i] # 0
                                   /\ i < dataTail' => dataBuf'[i] # 0
    BY <1>0, <1>2, <2>1, MovedWritten, Zenon DEF PushMove
  <2>3. pc'[Proc] = "send" => pc[Proc] = "send"
    BY <1>0, <1>2, Zenon DEF TypeOK, PushMove
  <2>4. Written'
    BY <1>0, <1>2, <2>2, <2>3, Zenon DEF Written, PushMove
  <2> QED
    BY <1>0, <1>2, <2>4, Zenon DEF NoUninitialisedByte, PushMove
<1>3. ASSUME NEW t \in Pushers, PushCopy(t, "idle") PROVE WrittenInv'
  <2>1. pushLen[t] \in Nat /\ dataTail' = dataTail + pushLen[t]
    BY <1>0, <1>3, Zenon DEF TypeOK, PushCopy
  <2>2. \A i \in 0..BufferSize-1 :
          /\ dataBuf[i] # 0 => dataBuf'[i] # 0
          /\ dataTail <= i /\ i < dataTail + pushLen[t] => dataBuf'[i] # 0
    BY <1>0, <1>3, <2>1, CopiedWritten, Zenon DEF PushCopy
  <2>3. pc'[Proc] = "send" => pc[Proc] = "send"
    BY <1>0, <1>3, Zenon DEF TypeOK, PushCopy
  <2>4. \A i \in 0..BufferSize-1 : i < dataTail' => dataBuf'[i] # 0
    BY <1>0, <2>1, <2>2 DEF TypeOK, Written
  <2>5. Written'
    BY <1>0, <1>3, <2>2, <2>3, <2>4, Zenon DEF Written, PushCopy
  <2> QED
    BY <1>0, <1>3, <2>5, Zenon DEF NoUninitialisedByte, PushCopy
<1>4. CASE pc[Proc] = "idle" /\ PopLength
  BY <1>0, <1>4, Zenon DEF TypeOK, PopLength, Written, NoUninitialisedByte
<1>5. CASE PopPointer
  <2>1. dataHead + dataLen <= dataTail
    BY <1>0, <1>5 DEF TypeOK, Window, PopPointer, PopLabels
  <2> QED
    BY <1>0, <1>5, <2>1 DEF TypeOK, PopPointer, Written, NoUninitialisedByte
<1>6. CASE SendByte
  <2>1. src + copied \in 0..BufferSize-1 /\ src + copied < src + dataLen
    BY <1>0, <1>6 DEF TypeOK, Window, SendByte
  <2>2. dataBuf[src + copied] # 0
    BY <1>0, <1>6, <2>1, Zenon DEF Written, SendByte
  <2>3. Moved[src + copied] # 0
    BY <1>0, <2>1, <2>2, MovedWritten, Zenon
  <2>4. \A t \in Pushers : Copied(pushLen[t])[src + copied] # 0
    <3> SUFFICES ASSUME NEW t \in Pushers
                 PROVE  Copied(pushLen[t])[src + copied] # 0
      BY Zenon
    <3>1. pushLen[t] \in Nat
      BY <1>0, Zenon DEF TypeOK
    <3> QED
      BY <1>0, <2>1, <2>2, <3>1, CopiedWritten, Zenon
  <2>5. 0 \notin Visible(src + copied)
    BY <2>2, <2>3, <2>4, Zenon DEF Visible
  <2>6. PICK b \in Visible(src + copied) : sent' = Append(sent, b)
    BY <1>6, Zenon DEF SendByte
  <2>7. NoUninitialisedByte'
    <3>1. /\ Len(sent') = Len(sent) + 1
          /\ sent'[Len(sent) + 1] = b
          /\ \A i \in 1..Len(sent) : sent'[i] = sent[i]
      BY <1>0, <2>6 DEF TypeOK
    <3>2. b # 0
      BY <2>5, Zenon
    <3>3. Len(sent) \in Nat
      BY <1>0 DEF TypeOK
    <3> QED
      BY <1>0, <3>1, <3>2, <3>3 DEF NoUninitialisedByte
  <2> QED
    BY <1>0, <1>6, <2>7, Zenon DEF SendByte, Written
<1>7. CASE PopNothing("idle")
  BY <1>0, <1>7, Zenon DEF TypeOK, PopNothing, Written, NoUninitialisedByte
<1>8. CASE PopPart("idle")
  BY <1>0, <1>8, Zenon DEF TypeOK, PopPart, Written, NoUninitialisedByte
<1>9. CASE PopAll("idle")
  BY <1>0, <1>9 DEF TypeOK, PopAll, Written, NoUninitialisedByte
<1>10. CASE UNCHANGED vars
  BY <1>0, <1>10, Zenon DEF vars, Written, NoUninitialisedByte
<1> QED
  BY <1>1, <1>2, <1>3, <1>4, <1>5, <1>6, <1>7, <1>8, <1>9, <1>10, Zenon
     DEF Next, PushStep, PopStep

\* Even when a push races with the unlocked handler of pop, ::send never reads
\* a byte of dataBuf that no push has written.
THEOREM InitialisedOnly == Spec => []NoUninitialisedByte
<1>1. WrittenInv => NoUninitialisedByte
  BY Zenon DEF WrittenInv
<1> QED
  BY <1>1, WrittenInit, WrittenStep, IndexAlways, PTL DEF Spec

-----------------------------------------------------------------------------
(***************************************************************************)
(* The pipe.  When only the processor thread calls push, the window holds  *)
(* the accepted bytes from the first one not yet accounted for; Ahead is   *)
(* what ::send has taken and pop has not yet added to dataHead.            *)
(***************************************************************************)
Ahead == IF pc[Proc] = "send" THEN copied ELSE 0

Pipe ==
  /\ pushed = Len(sent) - Ahead + dataTail - dataHead
  /\ \A i \in 0..BufferSize-1 : dataHead <= i /\ i < dataTail =>
       dataBuf[i] = Len(sent) - Ahead + 1 + i - dataHead
  /\ pc[Proc] \in PopLabels => dataLen = dataTail - dataHead
  /\ pc[Proc] = "send" => src = dataHead

LEMMA PipeInit == Init => Pipe
  BY DEF Init, Pipe, Ahead

\* Every step preserves Pipe, and is a step of the pipe or leaves it alone.
LEMMA PipeStep ==
  ASSUME Pushers = {Proc}, IndexInv, IndexInv', Pipe, [Next]_vars
  PROVE  Pipe' /\ [Stream!Next]_<<pushed, sent>>
<1>0. TypeOK /\ IndexInRange /\ Window /\ CopyRoom /\ TypeOK'
  BY Zenon DEF IndexInv
<1>t. /\ dataHead \in Int /\ dataTail \in Int /\ pushed \in Nat
      /\ copied \in Nat /\ Len(sent) \in Nat
  BY <1>0 DEF TypeOK
<1> USE DEF Goto, members, popVars
<1>1. ASSUME pc[Proc] = "idle", NEW n \in PushLens, Push(Proc, n, "idle")
      PROVE  Pipe' /\ UNCHANGED <<pushed, sent>>
  <2>1. pc'[Proc] \notin PopLabels
    BY <1>0, <1>1, Zenon DEF TypeOK, Push, PushRefused, PushCompacts, PushAppends
  <2> QED
    BY <1>0, <1>1, <2>1, Zenon DEF TypeOK, Push, Pipe, Ahead
<1>2. ASSUME PushMove(Proc, "idle") PROVE Pipe' /\ UNCHANGED <<pushed, sent>>
  <2>1. pc'[Proc] \notin PopLabels /\ Ahead = 0 /\ Ahead' = 0
    BY <1>0, <1>2, Zenon DEF TypeOK, PushMove, Ahead
  <2>2. LeftSize = dataTail - dataHead
    BY <1>0 DEF TypeOK, IndexInRange, LeftSize
  <2>3. ASSUME NEW i \in 0..BufferSize-1, i < LeftSize
        PROVE  dataBuf'[i] = Len(sent) + 1 + i
    <3>1. i + dataHead \in 0..BufferSize-1 /\ i + dataHead < dataTail
      BY <1>0, <2>2, <2>3 DEF TypeOK, IndexInRange
    <3>2. dataBuf'[i] = dataBuf[i + dataHead]
      BY <1>2, <2>3, Zenon DEF PushMove, Moved
    <3> QED
      BY <1>0, <1>t, <2>1, <3>1, <3>2 DEF TypeOK, IndexInRange, Pipe
  <2> QED
    BY <1>0, <1>t, <1>2, <2>1, <2>2, <2>3 DEF TypeOK, PushMove, Pipe
<1>3. ASSUME PushCopy(Proc, "idle") PROVE Pipe' /\ Stream!Accept
  <2>1. pc'[Proc] \notin PopLabels /\ Ahead = 0 /\ Ahead' = 0
    BY <1>0, <1>3, Zenon DEF TypeOK, PushCopy, Ahead
  <2>2. pushLen[Proc] \in Nat /\ dataTail + pushLen[Proc] < BufferSize
    BY <1>0, <1>3, Zenon DEF TypeOK, CopyRoom, PushCopy
  <2>3. ASSUME NEW i \in 0..BufferSize-1, dataHead <= i, i < dataTail'
        PROVE  dataBuf'[i] = Len(sent) + 1 + i - dataHead
    <3>1. dataBuf'[i] = IF dataTail <= i THEN pushed + 1 + i - dataTail ELSE dataBuf[i]
      BY <1>0, <1>3, <2>2, <2>3, Zenon DEF TypeOK, PushCopy, Copied
    <3>2. /\ pushed = Len(sent) + dataTail - dataHead
          /\ i < dataTail => dataBuf[i] = Len(sent) + 1 + i - dataHead
      BY <1>t, <2>1, <2>3 DEF Pipe
    <3> QED
      BY <1>t, <2>3, <3>1, <3>2
  <2>4. PICK n \in Nat : n = pushLen[Proc]
    BY <2>2, Zenon
  <2>5. /\ dataHead' = dataHead /\ dataTail' = dataTail + n /\ sent' = sent
        /\ pushed' = pushed + n
    BY <1>3, <2>4, Zenon DEF PushCopy
  <2>6. pushed = Len(sent) + dataTail - dataHead
    BY <2>1, <1>t DEF Pipe
  <2>7. Pipe'
    <3>1. pushed' = Len(sent') - Ahead' + dataTail' - dataHead'
      BY <1>t, <2>1, <2>5, <2>6
    <3>2. ASSUME NEW i \in 0..BufferSize-1, dataHead' <= i, i < dataTail'
          PROVE  dataBuf'[i] = Len(sent') - Ahead' + 1 + i - dataHead'
      <4>1. dataBuf'[i] = Len(sent) + 1 + i - dataHead
        BY <2>3, <2>5, <3>2, Zenon
      <4> QED
        BY <1>t, <2>1, <2>5, <4>1
    <3> QED
      BY <2>1, <3>1, <3>2, Zenon DEF Pipe
  <2>8. n \in 0..BufferSize-1 /\ pushed' - Len(sent) <= BufferSize - 1
    <3>1. 0 <= dataHead /\ dataHead <= dataTail /\ dataTail + n < BufferSize
      BY <1>0, <2>2, <2>4, Zenon DEF IndexInRange
    <3>2. pushed' - Len(sent) = dataTail + n - dataHead
      BY <1>t, <2>5, <2>6
    <3> QED
      BY <1>t, <3>1, <3>2
  <2> QED
    BY <2>5, <2>7, <2>8, Zenon DEF Stream!Accept
<1>4. ASSUME pc[Proc] = "idle", PopLength PROVE Pipe' /\ UNCHANGED <<pushed, sent>>
  BY <1>0, <1>4, Zenon DEF TypeOK, PopLength, Pipe, Ahead
<1>5. ASSUME PopPointer PROVE Pipe' /\ UNCHANGED <<pushed, sent>>
  BY <1>0, <1>5, Zenon DEF TypeOK, PopPointer, Window, Pipe, Ahead
<1>6. ASSUME SendByte PROVE Pipe' /\ Stream!Deliver
  <2>1. /\ src + copied \in 0..BufferSize-1
        /\ dataHead <= src + copied /\ src + copied < dataTail
    BY <1>0, <1>6 DEF TypeOK, IndexInRange, Window, SendByte, Pipe
  <2>2. dataBuf[src + copied] = Len(sent) + 1
    BY <1>0, <1>t, <1>6, <2>1 DEF TypeOK, SendByte, Pipe, Ahead
  <2>3. Visible(src + copied) = {dataBuf[src + copied]}
    <3>1. pc[Proc] # "move" /\ pc[Proc] # "copy"
      BY <1>6, Zenon DEF SendByte
    <3> QED
      BY <3>1, Zenon DEF Visible
  <2>4. sent' = Append(sent, Len(sent) + 1)
    BY <1>6, <2>2, <2>3, Zenon DEF SendByte
  <2>5. Len(sent') = Len(sent) + 1
    BY <1>0, <2>4 DEF TypeOK
  <2>6. Len(sent) < pushed
    BY <1>0, <1>t, <1>6, <2>1 DEF TypeOK, SendByte, Pipe, Ahead
  <2>7. Pipe'
    BY <1>0, <1>t, <1>6, <2>5 DEF TypeOK, SendByte, Pipe, Ahead
  <2> QED
    BY <1>6, <2>4, <2>6, <2>7, Zenon DEF SendByte, Stream!Deliver
<1>7. ASSUME PopNothing("idle") PROVE Pipe' /\ UNCHANGED <<pushed, sent>>
  BY <1>0, <1>7, Zenon DEF TypeOK, PopNothing, Pipe, Ahead
<1>8. ASSUME PopPart("idle") PROVE Pipe' /\ UNCHANGED <<pushed, sent>>
  BY <1>0, <1>t, <1>8 DEF TypeOK, PopPart, Pipe, Ahead
<1>9. ASSUME PopAll("idle") PROVE Pipe' /\ UNCHANGED <<pushed, sent>>
  <2>1. pc'[Proc] = "idle" /\ Ahead' = 0
    BY <1>0, <1>9, Zenon DEF TypeOK, PopAll, Ahead
  <2>2. pushed = Len(sent)
    BY <1>t, <1>9 DEF PopAll, Pipe, Ahead
  <2> QED
    BY <1>9, <1>t, <2>1, <2>2 DEF PopAll, Pipe
<1>10. ASSUME UNCHANGED vars PROVE Pipe' /\ UNCHANGED <<pushed, sent>>
  BY <1>10, Zenon DEF vars, Pipe, Ahead
<1> QED
  BY <1>1, <1>2, <1>3, <1>4, <1>5, <1>6, <1>7, <1>8, <1>9, <1>10, Zenon
     DEF Next, PushStep, PopStep, Stream!Next

\* When every call of push comes from the processor thread, outside pop the
\* window of dataBuf is exactly the accepted bytes that were not sent yet.
THEOREM NoByteLost == ASSUME Pushers = {Proc} PROVE Spec => []NothingLost
<1>1. IndexInv /\ Pipe => NothingLost
  <2> SUFFICES ASSUME IndexInv, Pipe, pc[Proc] \notin PopLabels PROVE NothingLost
    BY Zenon DEF NothingLost
  <2> QED
    BY DEF IndexInv, TypeOK, IndexInRange, Pipe, Ahead, NothingLost
<1>2. IndexInv /\ IndexInv' /\ Pipe /\ [Next]_vars => Pipe'
  BY PipeStep, Zenon
<1> QED
  BY <1>1, <1>2, PipeInit, IndexAlways, PTL DEF Spec

\* When every call of push comes from the processor thread, push and pop
\* implement the bounded first-in first-out pipe: partial sends, refused pushes
\* and compactions neither lose, repeat nor reorder a byte.
THEOREM StreamRefinement == ASSUME Pushers = {Proc} PROVE Spec => ImplementsStream
<1>1. Init => Stream!Init
  BY Zenon DEF Init, Stream!Init
<1>2. IndexInv /\ IndexInv' /\ Pipe /\ [Next]_vars
        => Pipe' /\ [Stream!Next]_<<pushed, sent>>
  BY PipeStep, Zenon
<1> QED
  BY <1>1, <1>2, PipeInit, IndexAlways, PTL DEF Spec, ImplementsStream, Stream!Spec
=============================================================================
