----------------------------- MODULE SendBuffer -----------------------------
(***************************************************************************)
(* The per-session output buffer of detail/sendbuffer.hpp.                 *)
(*                                                                         *)
(* Threads of Pushers call push; the processor thread Proc calls pop, whose*)
(* handler is ::send.  push runs under dataMutex.  pop takes the mutex     *)
(* twice, to read the amount of data and to account for what was sent, and *)
(* runs the handler in between without it.                                 *)
(*                                                                         *)
(* A byte is represented by its position in the stream of accepted bytes   *)
(* (1, 2, ...); 0 is a cell that no push has written.                      *)
(***************************************************************************)
EXTENDS Integers, Sequences

CONSTANTS
  BufferSize,   \* template parameter
  Proc,         \* the processor thread that owns the session
  Pushers,      \* the threads that call push (Proc may be one of them)
  PushLens,     \* the lengths passed to push
  MaxBytes,     \* bound: accepted bytes in a behaviour
  NoThread      \* dataMutex is free

Threads == Pushers \cup {Proc}

ASSUME BufferAssumption ==
  /\ BufferSize \in Nat \ {0}
  /\ PushLens \subseteq Nat
  /\ MaxBytes \in Nat
  /\ NoThread \notin Threads

VARIABLES
  dataHead, dataTail, dataBuf,  \* the members of SendBuffer
  dataMutex,                    \* the holder of the mutex
  pc,                           \* what each thread is doing
  pushLen,                      \* parameter dataLen of push, per thread
  dataLen,                      \* local of pop
  src,                          \* offset of the pointer pop gave its handler
  copied,                       \* bytes ::send has taken in this call
  pushed,                       \* history: number of bytes accepted by push
  sent                          \* history: the bytes the socket took, in order

members == <<dataHead, dataTail, dataBuf>>
popVars == <<dataLen, src, copied, sent>>
vars == <<members, dataMutex, pc, pushLen, popVars, pushed>>

Init ==
  /\ dataHead = 0
  /\ dataTail = 0
  /\ dataBuf = [i \in 0..BufferSize-1 |-> 0]
  /\ dataMutex = NoThread
  /\ pc = [t \in Threads |-> "idle"]
  /\ pushLen = [t \in Pushers |-> 0]
  /\ dataLen = 0
  /\ src = 0
  /\ copied = 0
  /\ pushed = 0
  /\ sent = << >>

Goto(t, label) == pc' = [pc EXCEPT ![t] = label]

-----------------------------------------------------------------------------
(***************************************************************************)
(* push.  The decisions are taken under the mutex and no variable they read*)
(* changes without it, so each is one step with the lock; the two memory   *)
(* writes are steps of their own, because the handler of pop reads dataBuf *)
(* without the mutex.  ret is where the thread goes after push returns.    *)
(***************************************************************************)
TooSmall(n) == BufferSize - dataTail < n

BugFitsIgnoresTail(tail, n) == BufferSize > n
Fits(tail, n) == BufferSize - tail > n

BugLeftSizeReversed == dataHead - dataTail
LeftSize == IF dataTail > dataHead THEN dataTail - dataHead ELSE 0

\* The buffer after memmove(dataBuf, dataBuf + dataHead, leftSize).
Moved ==
  [i \in 0..BufferSize-1 |->
     IF i < LeftSize THEN dataBuf[i + dataHead] ELSE dataBuf[i]]

\* The buffer after memcpy(dataBuf + dataTail, pData, n).
BugCopiedOneLate(n) ==
  [i \in 0..BufferSize-1 |->
     IF dataTail < i /\ i <= dataTail + n THEN pushed + i - dataTail
                                          ELSE dataBuf[i]]
Copied(n) ==
  [i \in 0..BufferSize-1 |->
     IF dataTail <= i /\ i < dataTail + n THEN pushed + 1 + i - dataTail
                                          ELSE dataBuf[i]]

PushRefused(t, n, ret) ==
  /\ IF TooSmall(n) THEN dataHead = 0 ELSE ~Fits(dataTail, n)
  /\ Goto(t, ret)
  /\ UNCHANGED dataMutex

PushCompacts(t, n) ==
  /\ TooSmall(n) /\ dataHead > 0
  /\ Goto(t, "move")
  /\ dataMutex' = t

PushAppends(t, n) ==
  /\ ~TooSmall(n) /\ Fits(dataTail, n)
  /\ Goto(t, "copy")
  /\ dataMutex' = t

Push(t, n, ret) ==
  /\ dataMutex = NoThread
  /\ pushed + n <= MaxBytes
  /\ pushLen' = [pushLen EXCEPT ![t] = n]
  /\ PushRefused(t, n, ret) \/ PushCompacts(t, n) \/ PushAppends(t, n)
  /\ UNCHANGED <<members, popVars, pushed>>

PushMove(t, ret) ==
  /\ pc[t] = "move"
  /\ dataBuf' = Moved
  /\ dataHead' = 0
  /\ dataTail' = LeftSize
  /\ IF Fits(LeftSize, pushLen[t])
       THEN Goto(t, "copy") /\ UNCHANGED dataMutex
       ELSE Goto(t, ret) /\ dataMutex' = NoThread
  /\ UNCHANGED <<pushLen, popVars, pushed>>

PushCopy(t, ret) ==
  /\ pc[t] = "copy"
  /\ dataBuf' = Copied(pushLen[t])
  /\ dataTail' = dataTail + pushLen[t]
  /\ pushed' = pushed + pushLen[t]
  /\ Goto(t, ret)
  /\ dataMutex' = NoThread
  /\ UNCHANGED <<dataHead, pushLen, popVars>>

-----------------------------------------------------------------------------
(***************************************************************************)
(* pop, run by Proc with ::send as the handler.                            *)
(***************************************************************************)
PopLength ==
  /\ dataMutex = NoThread
  /\ dataLen' = dataTail - dataHead
  /\ copied' = 0
  /\ Goto(Proc, "pointer")
  /\ UNCHANGED <<members, dataMutex, pushLen, src, sent, pushed>>

\* The argument dataBuf + dataHead is evaluated after the unlock.
BugPopPointerAtStart ==
  /\ pc[Proc] = "pointer"
  /\ src' = 0
  /\ Goto(Proc, "send")
  /\ UNCHANGED <<members, dataMutex, pushLen, dataLen, copied, sent, pushed>>
PopPointer ==
  /\ pc[Proc] = "pointer"
  /\ src' = dataHead
  /\ Goto(Proc, "send")
  /\ UNCHANGED <<members, dataMutex, pushLen, dataLen, copied, sent, pushed>>

\* What a read of cell i may see: its value or, while a push is in its memory
\* write, the value that the write leaves there (the accesses race).
Visible(i) ==
  {dataBuf[i]}
    \cup {Moved[i] : t \in {u \in Pushers : pc[u] = "move"}}
    \cup {Copied(pushLen[t])[i] : t \in {u \in Pushers : pc[u] = "copy"}}

\* ::send copies the next byte into the socket.
SendByte ==
  /\ pc[Proc] = "send"
  /\ copied < dataLen
  /\ \E b \in Visible(src + copied) : sent' = Append(sent, b)
  /\ copied' = copied + 1
  /\ UNCHANGED <<members, dataMutex, pc, pushLen, dataLen, src, pushed>>

\* ::send returned 0 or -1: pop returns false.
PopNothing(ret) ==
  /\ pc[Proc] = "send"
  /\ copied = 0
  /\ Goto(Proc, ret)
  /\ UNCHANGED <<members, dataMutex, pushLen, popVars, pushed>>

\* ::send took a part of the data.
BugPopPartFromPointer(ret) ==
  /\ pc[Proc] = "send"
  /\ 0 < copied /\ copied < dataLen
  /\ dataMutex = NoThread
  /\ dataHead' = src + copied
  /\ Goto(Proc, ret)
  /\ UNCHANGED <<dataTail, dataBuf, dataMutex, pushLen, popVars, pushed>>
BugPopPartDropsRest(ret) ==
  /\ pc[Proc] = "send"
  /\ 0 < copied /\ copied < dataLen
  /\ dataMutex = NoThread
  /\ dataHead' = 0
  /\ dataTail' = 0
  /\ Goto(Proc, ret)
  /\ UNCHANGED <<dataBuf, dataMutex, pushLen, popVars, pushed>>
PopPart(ret) ==
  /\ pc[Proc] = "send"
  /\ 0 < copied /\ copied < dataLen
  /\ dataMutex = NoThread
  /\ dataHead' = dataHead + copied
  /\ Goto(Proc, ret)
  /\ UNCHANGED <<dataTail, dataBuf, dataMutex, pushLen, popVars, pushed>>

\* ::send took all of the dataLen bytes it was given.
PopAll(ret) ==
  /\ pc[Proc] = "send"
  /\ 0 < copied /\ copied = dataLen
  /\ dataMutex = NoThread
  /\ dataHead' = 0
  /\ dataTail' = 0
  /\ Goto(Proc, ret)
  /\ UNCHANGED <<dataBuf, dataMutex, pushLen, popVars, pushed>>

-----------------------------------------------------------------------------
PushStep(t) ==
  \/ pc[t] = "idle" /\ \E n \in PushLens : Push(t, n, "idle")
  \/ PushMove(t, "idle")
  \/ PushCopy(t, "idle")

PopStep ==
  \/ pc[Proc] = "idle" /\ PopLength
  \/ PopPointer
  \/ SendByte
  \/ PopNothing("idle")
  \/ PopPart("idle")
  \/ PopAll("idle")

Next == PopStep \/ \E t \in Pushers : PushStep(t)

Spec == Init /\ [][Next]_vars

-----------------------------------------------------------------------------
PushLabels == {"move", "copy"}
PopLabels == {"pointer", "send"}
Labels == {"idle"} \cup PushLabels \cup PopLabels

\* Every variable of SendBuffer has its type.
TypeOK ==
  /\ dataHead \in Nat /\ dataTail \in Nat
  /\ dataBuf \in [0..BufferSize-1 -> Nat]
  /\ dataMutex \in Threads \cup {NoThread}
  /\ pc \in [Threads -> Labels]
  /\ pushLen \in [Pushers -> Nat]
  /\ dataLen \in Nat /\ src \in Nat /\ copied \in Nat
  /\ pushed \in Nat
  /\ sent \in Seq(Nat)

\* The members describe a window of dataBuf that leaves a cell free, in every
\* interleaving of push with the unlocked part of pop (the accounting of pop
\* adds popLen to whatever dataHead a concurrent compaction left).
IndexInRange == 0 <= dataHead /\ dataHead <= dataTail /\ dataTail < BufferSize

\* No access leaves dataBuf: neither the bytes ::send reads from the pointer
\* that pop computed without the mutex, nor the cells that push writes.
AccessInRange ==
  /\ pc[Proc] = "send" => 0 <= src /\ src + dataLen <= BufferSize
  /\ \A t \in Pushers : pc[t] = "copy" => dataTail + pushLen[t] <= BufferSize

\* The socket is never given a cell that no push has written.
NoUninitialisedByte == \A i \in 1..Len(sent) : sent[i] # 0

\* Outside pop, the window holds exactly the accepted bytes not yet sent.
NothingLost ==
  pc[Proc] \notin PopLabels =>
    /\ pushed = Len(sent) + dataTail - dataHead
    /\ \A i \in dataHead..dataTail-1 : dataBuf[i] = Len(sent) + 1 + i - dataHead

Stream == INSTANCE BoundedFifo
            WITH Capacity <- BufferSize - 1, accepted <- pushed, delivered <- sent

\* The buffer implements the bounded pipe when only the processor thread calls
\* push: every byte that pop hands to ::send is the next one push accepted.
ImplementsStream == Stream!Spec
=============================================================================
