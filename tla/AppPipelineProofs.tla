------------------------- MODULE AppPipelineProofs --------------------------
(***************************************************************************)
(* AppPipeline, on top of the owners of the packages (PipelineOwners): the *)
(* order in which on_message sees the messages of a session, alloc that    *)
(* finds an object for a single receiver, and the contents of the messages *)
(* of peers in lockstep.                                                   *)
(***************************************************************************)
EXTENDS PipelineOwners

Packages == [session : Procs, message : Nat, at : Nat]

\* The messages in the packages of a queue.
Contents(pk, q) == [i \in 1..Len(q) |-> pk[q[i]].message]

LEMMA ElementOf == ASSUME NEW S, NEW q \in Seq(S), NEW i \in 1..Len(q) PROVE q[i] \in S
  OBVIOUS

LEMMA ContentsSeq ==
  ASSUME NEW S, NEW pk \in [S -> Packages], NEW q \in Seq(S)
  PROVE  Contents(pk, q) \in Seq(Nat) /\ Len(Contents(pk, q)) = Len(q)
  BY DEF Contents, Packages

LEMMA ContentsSame ==
  ASSUME NEW pk, NEW pl, NEW q, \A i \in 1..Len(q) : pl[q[i]] = pk[q[i]]
  PROVE  Contents(pl, q) = Contents(pk, q)
  BY Zenon DEF Contents

LEMMA ContentsTail ==
  ASSUME NEW S, NEW pk \in [S -> Packages], NEW q \in Seq(S), q # << >>
  PROVE  Contents(pk, q) = <<pk[Head(q)].message>> \o Contents(pk, Tail(q))
  BY DEF Contents, Packages

LEMMA ContentsAppend ==
  ASSUME NEW pk \in [1..MaxObjects -> Packages], NEW q \in Seq(1..MaxObjects),
         NEW o \in 1..MaxObjects
  PROVE  Contents(pk, Append(q, o)) = Append(Contents(pk, q), pk[o].message)
<1> DEFINE S == 1..MaxObjects
<1>1. pk \in [S -> Packages] /\ q \in Seq(S) /\ o \in S
  BY Zenon
<1> HIDE DEF S
<1> QED
  BY <1>1 DEF Contents, Packages

\* The three ways in which messages move on: into the hands of app_run, ...
LEMMA MoveToHands ==
  ASSUME NEW c \in Seq(Nat), NEW m \in Nat
  PROVE  << >> \o (<<m>> \o c) = <<m>> \o c
  OBVIOUS

\* ... to on_message ...
LEMMA MoveToHandled ==
  ASSUME NEW h \in Seq(Nat), NEW c \in Seq(Nat), NEW m \in Nat
  PROVE  h \o (<<m>> \o c) = Append(h, m) \o (<< >> \o c)
<1>1. << >> \o c = c
  OBVIOUS
<1>2. h \o (<<m>> \o c) = (h \o <<m>>) \o c
  <2> DEFINE one == <<m>>
  <2>1. one \in Seq(Nat)
    OBVIOUS
  <2> HIDE DEF one
  <2>2. h \o (one \o c) = (h \o one) \o c
    BY <2>1, SMTT(40)
  <2> QED
    BY <2>2, Zenon DEF one
<1>3. h \o <<m>> = Append(h, m)
  OBVIOUS
<1> QED
  BY <1>1, <1>2, <1>3, Zenon

\* ... and into the queue.
LEMMA MoveToQueue ==
  ASSUME NEW h \in Seq(Nat), NEW i \in Seq(Nat), NEW c \in Seq(Nat), NEW m \in Nat
  PROVE  h \o (i \o Append(c, m)) = Append(h \o (i \o c), m)
<1>1. ASSUME NEW a \in Seq(Nat), NEW b \in Seq(Nat)
      PROVE  a \o Append(b, m) = Append(a \o b, m)
  BY SMTT(40)
<1>2. i \o c \in Seq(Nat)
  OBVIOUS
<1> QED
  BY <1>1, <1>2, Zenon

LEMMA NoneAdded ==
  ASSUME NEW h \in Seq(Nat), NEW i \in Seq(Nat), NEW c \in Seq(Nat),
         Len(h \o (i \o c)) = Len(h)
  PROVE  Len(i) = 0 /\ Len(c) = 0
  OBVIOUS

LEMMA Grown ==
  ASSUME NEW S, NEW q \in Seq(S), NEW x \in S
  PROVE  /\ Len(Append(q, x)) = Len(q) + 1 /\ Len(q) \in Nat
         /\ \A j \in 1..Len(q) : Append(q, x)[j] = q[j]
         /\ Append(q, x)[Len(q) + 1] = x
  OBVIOUS
-----------------------------------------------------------------------------
USE Bounds DEF Nil

(***************************************************************************)
(* End to end.  A package in a queue names the session whose processor put *)
(* it there.                                                               *)
(***************************************************************************)
PackageInv == \A p \in Procs : \A i \in 1..Len(queue[p]) : package[queue[p][i]].session = p

FlowInv == PackageInv /\ EndToEnd

LEMMA Way ==
  ASSUME NEW p
  PROVE  /\ OnTheWay(p) = InHands(p) \o Contents(package, queue[p])
         /\ OnTheWay(p)' = InHands(p)' \o Contents(package', queue'[p])
  BY Zenon DEF OnTheWay, Contents

LEMMA FlowTypes ==
  ASSUME OwnerInv
  PROVE  /\ package \in [1..MaxObjects -> Packages]
         /\ queue \in [Procs -> Seq(1..MaxObjects)]
         /\ handled \in [Procs -> Seq(Nat)] /\ accepted \in [Procs -> Seq(Nat)]
         /\ pc[App] \in {"call", "release"} => item[App] \in 1..MaxObjects
         /\ \A p \in Procs : InHands(p) \in Seq(Nat)
         /\ \A p \in Procs : \A i \in 1..Len(queue[p]) : queue[p][i] \in 1..MaxObjects
<1>1. MessageTypes /\ Control /\ ThreadTypes
  BY OwnerParts, Zenon
<1>2. /\ package \in [1..MaxObjects -> Packages]
      /\ queue \in [Procs -> Seq(1..MaxObjects)]
      /\ handled \in [Procs -> Seq(Nat)] /\ accepted \in [Procs -> Seq(Nat)]
  BY <1>1, Zenon DEF MessageTypes, Packages
<1>3. pc[App] \in {"call", "release"} => item[App] \in 1..MaxObjects
  <2>1. pc[App] \in {"call", "release"} => item[App] # Nil
    BY <1>1, Zenon DEF Control
  <2>2. item[App] \in 0..MaxObjects
    BY <1>1, ThreadSet, Zenon DEF ThreadTypes
  <2> QED
    BY <2>1, <2>2
<1>4. pc[App] = "call" => package[item[App]].message \in Nat
  BY <1>2, <1>3, Zenon DEF Packages
<1>5. \A p \in Procs : InHands(p) \in Seq(Nat)
  BY <1>4 DEF InHands
<1>6. ASSUME NEW p \in Procs, NEW i \in 1..Len(queue[p]) PROVE queue[p][i] \in 1..MaxObjects
  <2>1. queue[p] \in Seq(1..MaxObjects)
    BY <1>2, Zenon
  <2> QED
    BY <1>6, <2>1, ElementOf, Zenon
<1> QED
  BY <1>2, <1>3, <1>5, <1>6, Zenon

\* Packages on their way are not the one in the hands of another thread.
LEMMA WayApart ==
  ASSUME OwnerInv, NEW t \in Threads
  PROVE  /\ \A p \in Procs : \A i \in 1..Len(queue[p]) : queue[p][i] # item[t]
         /\ t # App /\ item[t] # Nil => item[App] # item[t]
<1>1. OwnItems(item, created) /\ ItemsQueues(item, queue)
  BY Zenon DEF OwnerInv, Owned
<1> QED
  BY <1>1, ThreadSet, Zenon DEF OwnItems, ItemsQueues, Queued

LEMMA FlowInit == Init => FlowInv
<1> SUFFICES ASSUME Init PROVE FlowInv
  BY Zenon
<1>1. App \in Threads
  BY ThreadSet, Zenon
<1>2. /\ queue = [p \in Procs |-> << >>] /\ handled = [p \in Procs |-> << >>]
      /\ accepted = [p \in Procs |-> << >>] /\ pc[App] = "poll"
  BY <1>1, Zenon DEF Init
<1>3. PackageInv
  BY <1>2 DEF PackageInv
<1>4. ASSUME NEW p \in Procs PROVE handled[p] \o OnTheWay(p) = accepted[p]
  <2>1. InHands(p) = << >> /\ queue[p] = << >> /\ handled[p] = << >> /\ accepted[p] = << >>
    BY <1>2, Zenon DEF InHands
  <2>2. Contents(package, << >>) = << >>
    BY DEF Contents
  <2>3. OnTheWay(p) = << >> \o << >>
    BY <2>1, <2>2, Way, Zenon
  <2> QED
    BY <2>1, <2>3
<1> QED
  BY <1>3, <1>4, Zenon DEF FlowInv, EndToEnd

LEMMA FlowStep == OwnerInv /\ FlowInv /\ [Next]_vars => FlowInv'
\* A step that leaves the queues, what on_message was given and the packages on their
\* way as they are.
<1>FlowSame. ASSUME OwnerInv, FlowInv, UNCHANGED <<queue, handled, accepted>>,
                    \A p \in Procs : \A i \in 1..Len(queue[p]) :
                      package'[queue[p][i]] = package[queue[p][i]],
                    pc'[App] = "call" <=> pc[App] = "call",
                    pc[App] = "call" => item'[App] = item[App] /\ package'[item[App]] = package[item[App]]
             PROVE  FlowInv'
  <2> USE <1>FlowSame
  <2>1. PackageInv'
    BY Zenon DEF FlowInv, PackageInv
  <2>2. ASSUME NEW p \in Procs PROVE handled'[p] \o OnTheWay(p)' = accepted'[p]
    <3>1. InHands(p)' = InHands(p)
      BY Zenon DEF InHands
    <3>2. Contents(package', queue[p]) = Contents(package, queue[p])
      BY ContentsSame
    <3>3. OnTheWay(p)' = OnTheWay(p)
      BY <3>1, <3>2, Way, Zenon
    <3> QED
      BY <3>3, Zenon DEF FlowInv, EndToEnd
  <2> QED
    BY <2>1, <2>2, Zenon DEF FlowInv, EndToEnd
<1>FlowEnqueue. ASSUME OwnerInv, OwnerInv', FlowInv, NEW p \in Procs, Enqueue(p)
                PROVE  FlowInv'
  <2> USE <1>FlowEnqueue
  <2> DEFINE o == item[p]
             k == readPos[p] + 1
             v == recvBuf[p][k]
             m == [session |-> p, message |-> v, at |-> k]
  <2>1. /\ UNCHANGED handled /\ package' = [package EXCEPT ![o] = m]
        /\ o # Nil /\ pc[p] = "acquired"
        /\ item' = [item EXCEPT ![p] = Nil]
        /\ pc' = [pc EXCEPT ![p] = "alloc"] \/ pc' = [pc EXCEPT ![p] = "wait"]
    BY Zenon DEF Enqueue, Fill, Goto
  <2>2. \/ UNCHANGED <<queue, accepted>>
        \/ /\ queue' = [queue EXCEPT ![p] = Append(queue[p], o)]
           /\ accepted' = [accepted EXCEPT ![p] = Append(accepted[p], v)]
    BY Zenon DEF Enqueue, Offer
  <2>3. ListTypes /\ ThreadTypes /\ SessionTypes /\ MessageTypes /\ Control
    BY OwnerParts, Zenon
  <2>4. p \in Threads /\ App \in Threads /\ p # App
    BY ThreadSet, Zenon
  <2>5. o \in 1..MaxObjects /\ pc'[App] = pc[App] /\ item'[App] = item[App]
    <3>1. item \in [Threads -> 0..MaxObjects] /\ pc \in [Threads -> Labels]
      BY <2>3, Zenon DEF ThreadTypes
    <3>2. o \in 1..MaxObjects
      BY <2>1, <2>4, <3>1
    <3>3. pc'[App] = pc[App] /\ item'[App] = item[App]
      BY <2>1, <2>4, <3>1, Zenon
    <3> QED
      BY <3>2, <3>3, Zenon
  <2>6. v \in Nat
    <3>1. readPos[p] \in Nat /\ recvBuf[p] \in Seq(Nat) /\ readPos[p] < Len(recvBuf[p])
      BY <2>1, <2>3, Zenon DEF SessionTypes, Control
    <3> QED
      BY <3>1
  <2>7. /\ package \in [1..MaxObjects -> Packages] /\ queue \in [Procs -> Seq(1..MaxObjects)]
        /\ handled \in [Procs -> Seq(Nat)] /\ accepted \in [Procs -> Seq(Nat)]
        /\ pc[App] \in {"call", "release"} => item[App] \in 1..MaxObjects
        /\ \A q \in Procs : InHands(q) \in Seq(Nat)
    BY FlowTypes, Zenon
  <2>8. package' \in [1..MaxObjects -> Packages]
    BY OwnerParts, Zenon DEF MessageTypes, Packages
  <2>9. /\ \A q \in Procs : \A i \in 1..Len(queue[q]) : queue[q][i] # o
        /\ item[App] # o
    BY <2>1, <2>4, WayApart, Zenon
  <2>10. \A x \in 1..MaxObjects : x # o => package'[x] = package[x]
    BY <2>1, <2>7, Zenon
  <2>11. package'[o].session = p /\ package'[o].message = v
    BY <2>1, <2>5, <2>7, Zenon
  <2> HIDE DEF o, k, v, m
  <2>12. \A q \in Procs : \A i \in 1..Len(queue[q]) : package'[queue[q][i]] = package[queue[q][i]]
    <3>1. ASSUME NEW q \in Procs, NEW i \in 1..Len(queue[q])
          PROVE  package'[queue[q][i]] = package[queue[q][i]]
      <4>1. queue[q][i] \in 1..MaxObjects
        BY FlowTypes, Zenon
      <4> QED
        BY <2>9, <2>10, <4>1, Zenon
    <3> QED
      BY <3>1, Zenon
  <2>13. pc[App] = "call" => package'[item[App]] = package[item[App]]
    BY <2>7, <2>9, <2>10, Zenon
  <2>14. CASE UNCHANGED <<queue, accepted>>
    BY <2>1, <2>5, <2>12, <2>13, <2>14, <1>FlowSame, Zenon
  <2>15. CASE /\ queue' = [queue EXCEPT ![p] = Append(queue[p], o)]
              /\ accepted' = [accepted EXCEPT ![p] = Append(accepted[p], v)]
    <3>1. queue[p] \in Seq(1..MaxObjects) /\ accepted[p] \in Seq(Nat) /\ handled[p] \in Seq(Nat)
      BY <2>7, Zenon
    <3>2. queue'[p] = Append(queue[p], o) /\ accepted'[p] = Append(accepted[p], v)
      BY <2>7, <2>15, Zenon
    <3>3. \A q \in Procs \ {p} : queue'[q] = queue[q] /\ accepted'[q] = accepted[q]
      BY <2>7, <2>15, Zenon
    <3>4. \A q \in Procs : InHands(q)' = InHands(q)
      BY <2>5, <2>13, Zenon DEF InHands
    <3>5. \A q \in Procs : Contents(package', queue[q]) = Contents(package, queue[q])
      BY <2>12, ContentsSame
    <3>6. PackageInv'
      <4>1. ASSUME NEW q \in Procs, NEW i \in 1..Len(queue'[q])
            PROVE  package'[queue'[q][i]].session = q
        <5>1. CASE i \in 1..Len(queue[q]) /\ queue'[q][i] = queue[q][i]
          BY <2>12, <5>1 DEF FlowInv, PackageInv
        <5>2. CASE q = p /\ queue'[q][i] = o
          BY <2>11, <5>2, Zenon
        <5>3. q = p => (i \in 1..Len(queue[q]) /\ queue'[q][i] = queue[q][i]) \/ queue'[q][i] = o
          <6>1. /\ Len(Append(queue[p], o)) = Len(queue[p]) + 1 /\ Len(queue[p]) \in Nat
                /\ \A j \in 1..Len(queue[p]) : Append(queue[p], o)[j] = queue[p][j]
                /\ Append(queue[p], o)[Len(queue[p]) + 1] = o
            BY <2>5, <3>1, Grown
          <6>2. CASE i = Len(queue[p]) + 1
            BY <3>2, <6>1, <6>2, Zenon
          <6>3. CASE i # Len(queue[p]) + 1 /\ q = p
            <7>1. i \in 1..Len(queue[p])
              BY <3>2, <4>1, <6>1, <6>3
            <7> QED
              BY <3>2, <6>1, <6>3, <7>1, Zenon
          <6> QED
            BY <6>2, <6>3, Zenon
        <5> QED
          BY <3>3, <4>1, <5>1, <5>2, <5>3, Zenon
      <4> QED
        BY <4>1, Zenon DEF PackageInv
    <3>7. handled[p] \o OnTheWay(p)' = accepted'[p]
      <4> DEFINE c == Contents(package, queue[p])
      <4>1. c \in Seq(Nat)
        BY <2>7, <3>1, ContentsSeq, Zenon
      <4>2. Contents(package', queue'[p]) = Append(c, v)
        <5>1. Contents(package', Append(queue[p], o)) = Append(Contents(package', queue[p]), package'[o].message)
          BY <2>5, <2>8, <3>1, ContentsAppend, Zenon
        <5>2. Contents(package', queue[p]) = c
          BY <3>5, Zenon
        <5> QED
          BY <2>11, <3>2, <5>1, <5>2, Zenon
      <4>3. OnTheWay(p)' = InHands(p) \o Append(c, v) /\ OnTheWay(p) = InHands(p) \o c
        BY <3>4, <4>2, Way, Zenon
      <4>4. handled[p] \o (InHands(p) \o Append(c, v)) = Append(handled[p] \o (InHands(p) \o c), v)
        <5> DEFINE h == handled[p]
                   i == InHands(p)
        <5>1. h \in Seq(Nat) /\ i \in Seq(Nat)
          BY <2>7, Zenon
        <5> HIDE Bounds DEF c, h, i
        <5>2. h \o (i \o Append(c, v)) = Append(h \o (i \o c), v)
          BY <2>6, <4>1, <5>1, MoveToQueue, Zenon
        <5> QED
          BY <5>2, Zenon DEF h, i
      <4>5. handled[p] \o OnTheWay(p) = accepted[p]
        BY Zenon DEF FlowInv, EndToEnd
      <4> QED
        BY <3>2, <4>3, <4>4, <4>5, Zenon
    <3>8. ASSUME NEW q \in Procs \ {p} PROVE handled[q] \o OnTheWay(q)' = accepted'[q]
      <4>1. OnTheWay(q)' = OnTheWay(q)
        BY <3>3, <3>4, <3>5, Way, Zenon
      <4> QED
        BY <3>3, <4>1, Zenon DEF FlowInv, EndToEnd
    <3> QED
      BY <2>1, <3>6, <3>7, <3>8, Zenon DEF FlowInv, EndToEnd
  <2> QED
    BY <2>2, <2>14, <2>15, Zenon
<1>FlowPoll. ASSUME OwnerInv, FlowInv, Poll PROVE FlowInv'
  <2> USE <1>FlowPoll
  <2>1. UNCHANGED <<package, handled, accepted>> /\ pc[App] = "poll" /\ turn \in Procs
    BY OwnerParts, Zenon DEF Poll, MessageTypes
  <2>2. ThreadTypes /\ App \in Threads
    BY OwnerParts, ThreadSet, Zenon
  <2>3. /\ package \in [1..MaxObjects -> Packages] /\ queue \in [Procs -> Seq(1..MaxObjects)]
        /\ handled \in [Procs -> Seq(Nat)]
    BY FlowTypes, Zenon
  <2>4. CASE UNCHANGED <<item, queue, pc>>
    BY <2>1, <2>4, <1>FlowSame, Zenon
  <2>5. CASE /\ queue[turn] # << >>
             /\ item' = [item EXCEPT ![App] = Head(queue[turn])]
             /\ queue' = [queue EXCEPT ![turn] = Tail(queue[turn])]
             /\ pc' = [pc EXCEPT ![App] = "call"]
    <3>0. PICK t \in Procs : t = turn
      BY <2>1, Zenon
    <3> DEFINE q == queue[t]
               m == package[Head(q)]
               c == Contents(package, Tail(q))
    <3>1. q \in Seq(1..MaxObjects) /\ q # << >>
      BY <2>3, <2>5, <3>0, Zenon
    <3>2. /\ Head(q) = q[1] /\ 1 \in 1..Len(q) /\ Len(q) \in Nat
          /\ Head(q) \in 1..MaxObjects /\ Tail(q) \in Seq(1..MaxObjects)
          /\ Len(Tail(q)) = Len(q) - 1 /\ \A i \in 1..Len(Tail(q)) : Tail(q)[i] = q[i + 1]
      BY <3>1, FirstAndRest, Zenon
    <3>3. m.session = t /\ m.message \in Nat
      <4>1. package[q[1]].session = t
        BY <3>2, Zenon DEF FlowInv, PackageInv
      <4>2. package[Head(q)] \in Packages
        BY <2>3, <3>2, Zenon
      <4> QED
        BY <3>2, <4>1, <4>2, Zenon DEF Packages
    <3>4. pc'[App] = "call" /\ item'[App] = Head(q)
      BY <2>2, <2>5, <3>0, Zenon DEF ThreadTypes
    <3>5. queue'[t] = Tail(q) /\ \A r \in Procs \ {t} : queue'[r] = queue[r]
      BY <2>3, <2>5, <3>0, Zenon
    <3>6. \A r \in Procs : InHands(r) = << >>
      BY <2>1, Zenon DEF InHands
    <3>7. /\ InHands(t)' = <<m.message>>
          /\ \A r \in Procs \ {t} : InHands(r)' = << >>
      <4>1. package' = package /\ m = package'[item'[App]]
        BY <2>1, <3>4, Zenon
      <4> HIDE DEF m
      <4> QED
        BY <3>3, <3>4, <4>1, Zenon DEF InHands
    <3>8. PackageInv'
      <4>1. ASSUME NEW r \in Procs, NEW i \in 1..Len(queue'[r])
            PROVE  package[queue'[r][i]].session = r
        <5>1. CASE r = t
          <6>1. i \in 1..Len(Tail(q)) /\ queue'[r][i] = Tail(q)[i]
            BY <3>5, <4>1, <5>1, Zenon
          <6>2. i + 1 \in 1..Len(q) /\ queue'[r][i] = q[i + 1]
            BY <3>2, <6>1
          <6> QED
            BY <5>1, <6>2, Zenon DEF FlowInv, PackageInv
        <5>2. CASE r # t
          BY <3>5, <4>1, <5>2, Zenon DEF FlowInv, PackageInv
        <5> QED
          BY <5>1, <5>2, Zenon
      <4> QED
        BY <2>1, <4>1, Zenon DEF PackageInv
    <3>9. Contents(package, q) = <<m.message>> \o c
      BY <2>3, <3>1, ContentsTail, Zenon
    <3>10. OnTheWay(t)' = OnTheWay(t)
      <4>1. c \in Seq(Nat)
        BY <2>3, <3>2, ContentsSeq, Zenon
      <4>2. OnTheWay(t) = << >> \o (<<m.message>> \o c)
        BY <2>1, <3>6, <3>9, Way, Zenon
      <4>3. OnTheWay(t)' = <<m.message>> \o c
        BY <2>1, <3>5, <3>7, Way, Zenon
      <4>4. << >> \o (<<m.message>> \o c) = <<m.message>> \o c
        <5> DEFINE v == m.message
        <5>1. v \in Nat
          BY <3>3, Zenon
        <5> HIDE Bounds DEF c, v
        <5>2. << >> \o (<<v>> \o c) = <<v>> \o c
          BY <4>1, <5>1, MoveToHands, Zenon
        <5> QED
          BY <5>2, Zenon DEF v
      <4> QED
        BY <4>2, <4>3, <4>4, Zenon
    <3>11. ASSUME NEW r \in Procs, r # t PROVE OnTheWay(r)' = OnTheWay(r)
      BY <2>1, <3>5, <3>6, <3>7, <3>11, Way, Zenon
    <3>12. ASSUME NEW r \in Procs PROVE handled'[r] \o OnTheWay(r)' = accepted'[r]
      <4>1. OnTheWay(r)' = OnTheWay(r)
        BY <3>10, <3>11, Zenon
      <4>2. handled[r] \o OnTheWay(r) = accepted[r]
        BY Zenon DEF FlowInv, EndToEnd
      <4> QED
        BY <2>1, <4>1, <4>2, Zenon
    <3> QED
      BY <3>8, <3>12, Zenon DEF FlowInv, EndToEnd
  <2> QED
    BY <2>4, <2>5, Zenon DEF Poll, Goto
<1>FlowOnMessage. ASSUME OwnerInv, FlowInv, OnMessage PROVE FlowInv'
  <2> USE <1>FlowOnMessage
  <2> DEFINE m == package[item[App]]
  <2>1. /\ UNCHANGED <<package, queue, accepted>> /\ pc[App] = "call"
        /\ pc' = [pc EXCEPT ![App] = "release"]
        /\ handled' = [handled EXCEPT ![m.session] = Append(handled[m.session], m.message)]
    BY Zenon DEF OnMessage, Goto
  <2>2. /\ package \in [1..MaxObjects -> Packages] /\ queue \in [Procs -> Seq(1..MaxObjects)]
        /\ handled \in [Procs -> Seq(Nat)] /\ item[App] \in 1..MaxObjects
    BY <2>1, FlowTypes, Zenon
  <2>3. m \in Packages
    BY <2>2, Zenon
  <2>4. PICK s \in Procs, v \in Nat : s = m.session /\ v = m.message
    BY <2>3, Zenon DEF Packages
  <2>5. pc'[App] = "release"
    BY <2>1, OwnerParts, ThreadSet, Zenon DEF ThreadTypes
  <2>6. \A p \in Procs : /\ InHands(p) = IF p = s THEN <<v>> ELSE << >>
                         /\ InHands(p)' = << >>
    BY <2>1, <2>4, <2>5, Zenon DEF InHands
  <2> HIDE DEF m
  <2>7. handled'[s] = Append(handled[s], v) /\ \A p \in Procs \ {s} : handled'[p] = handled[p]
    BY <2>1, <2>2, <2>4, Zenon
  <2>8. handled'[s] \o OnTheWay(s)' = accepted[s]
    <3> DEFINE c == Contents(package, queue[s])
               h == handled[s]
    <3>1. c \in Seq(Nat) /\ h \in Seq(Nat)
      BY <2>2, ContentsSeq, Zenon
    <3>2. InHands(s) = <<v>> /\ InHands(s)' = << >>
      BY <2>6, Zenon
    <3>3. OnTheWay(s) = <<v>> \o c /\ OnTheWay(s)' = << >> \o c
      BY <2>1, <3>2, Way, Zenon
    <3>4. h \o OnTheWay(s) = accepted[s]
      BY Zenon DEF FlowInv, EndToEnd
    <3> HIDE Bounds DEF c, h
    <3>5. h \o (<<v>> \o c) = Append(h, v) \o (<< >> \o c)
      BY <3>1, MoveToHandled, Zenon
    <3> QED
      BY <2>7, <3>3, <3>4, <3>5, Zenon DEF h
  <2>9. ASSUME NEW p \in Procs, p # s PROVE handled'[p] \o OnTheWay(p)' = accepted[p]
    <3>1. InHands(p)' = InHands(p)
      BY <2>6, <2>9, Zenon
    <3>2. OnTheWay(p)' = OnTheWay(p)
      BY <2>1, <3>1, Way, Zenon
    <3>3. handled[p] \o OnTheWay(p) = accepted[p]
      BY Zenon DEF FlowInv, EndToEnd
    <3> QED
      BY <2>7, <2>9, <3>2, <3>3, Zenon
  <2>10. \A p \in Procs : handled'[p] \o OnTheWay(p)' = accepted'[p]
    BY <2>1, <2>8, <2>9, Zenon
  <2>11. PackageInv'
    BY <2>1, Zenon DEF FlowInv, PackageInv
  <2> QED
    BY <2>10, <2>11, Zenon DEF FlowInv, EndToEnd
\* A processor's steps outside enqueue do not touch what is on its way.
<1>FlowProc. ASSUME OwnerInv, FlowInv, NEW p \in Procs, Recv(p) \/ Disconnect(p) \/ NullPackage(p) \/ Acquire(p)
             PROVE  FlowInv'
  <2> USE <1>FlowProc
  <2>1. pc \in [Threads -> Labels] /\ item \in [Threads -> 0..MaxObjects]
    BY OwnerParts, Zenon DEF ThreadTypes
  <2>2. App \in Threads /\ p # App
    BY ThreadSet, Zenon
  <2>3. UNCHANGED <<package, queue, handled, accepted>>
    BY Zenon DEF Recv, Disconnect, NullPackage, Acquire
  <2>4. pc'[App] = pc[App] /\ item'[App] = item[App]
    <3>1. UNCHANGED pc \/ \E l : pc' = [pc EXCEPT ![p] = l]
      BY Zenon DEF Recv, Disconnect, NullPackage, Acquire, AllocTest, Inflate, Wrap, CompareExchange,
             Sweep, Goto
    <3>2. UNCHANGED item \/ \E o : item' = [item EXCEPT ![p] = o]
      BY Zenon DEF Recv, Disconnect, NullPackage, Acquire, AllocTest, Inflate, CompareExchange, Sweep
    <3> QED
      BY <2>1, <2>2, <3>1, <3>2, Zenon
  <2> QED
    BY <2>3, <2>4, <1>FlowSame, Zenon
<1>FlowGiveBack. ASSUME OwnerInv, FlowInv, GiveBack PROVE FlowInv'
  <2> USE <1>FlowGiveBack
  <2>1. /\ pc \in [Threads -> Labels] /\ package \in [1..MaxObjects -> Packages]
        /\ queue \in [Procs -> Seq(1..MaxObjects)] /\ App \in Threads
    BY OwnerParts, FlowTypes, ThreadSet, Zenon DEF ThreadTypes
  <2>2. /\ UNCHANGED <<queue, handled, accepted>> /\ pc[App] \in {"release", "exchange"}
        /\ package' = package \/ package' = [package EXCEPT ![item[App]] = Blank]
    BY Zenon DEF GiveBack, Release, CompareExchange
  <2>3. pc'[App] # "call"
    <3>1. \/ UNCHANGED pc
          \/ \E l \in {"exchange", "inflate", "poll"} : pc' = [pc EXCEPT ![App] = l]
      BY Zenon DEF GiveBack, Release, Wrap, CompareExchange, Goto
    <3> QED
      BY <2>1, <2>2, <3>1, Zenon
  <2>4. ASSUME NEW p \in Procs, NEW i \in 1..Len(queue[p])
        PROVE  package'[queue[p][i]] = package[queue[p][i]]
    <3>1. queue[p][i] \in 1..MaxObjects
      BY FlowTypes, Zenon
    <3>2. queue[p][i] # item[App]
      BY <2>1, WayApart, Zenon
    <3> QED
      BY <2>1, <2>2, <3>1, <3>2, Zenon
  <2> QED
    BY <2>2, <2>3, <2>4, <1>FlowSame, Zenon
<1> SUFFICES ASSUME OwnerInv, OwnerInv', FlowInv, [Next]_vars PROVE FlowInv'
  BY OwnersStep, Zenon
<1>1. CASE UNCHANGED vars
  BY <1>1, <1>FlowSame, Zenon DEF vars
<1>2. ASSUME NEW p \in Procs, Recv(p) \/ Disconnect(p) \/ NullPackage(p) \/ Acquire(p) PROVE FlowInv'
  BY <1>2, <1>FlowProc, Zenon
<1>3. ASSUME NEW p \in Procs, Enqueue(p) PROVE FlowInv'
  BY <1>3, <1>FlowEnqueue, Zenon
<1>4. CASE Poll \/ OnMessage \/ GiveBack
  BY <1>4, <1>FlowPoll, <1>FlowOnMessage, <1>FlowGiveBack, Zenon
<1> QED
  BY <1>1, <1>2, <1>3, <1>4, Zenon DEF Next, ProcStep, AppStep

LEMMA FlowAlways == Spec => []FlowInv
  BY FlowInit, FlowStep, OwnersAlways, PTL DEF Spec

\* For any number of processors and any queue size: what app_run has passed to
\* on_message, then the package in its hands, then the packages in the queue are the
\* messages the processor enqueued, in their order, with the contents it wrote.
THEOREM QueueKeepsOrder == Spec => []EndToEnd
<1>1. FlowInv => EndToEnd
  BY Zenon DEF FlowInv
<1> QED
  BY <1>1, FlowAlways, PTL
-----------------------------------------------------------------------------
(***************************************************************************)
(* alloc with a single receiving processor.  A session that received       *)
(* nothing leaves its processor waiting, and the only processor that does  *)
(* not wait finds the list nonempty, or has an object, when it sweeps.     *)
(***************************************************************************)
Solo(p) == \A q \in Procs \ {p} : arrived[q] = 0

FindsObject(p) ==
  /\ up
  /\ pc[p] = "sweep" => head # Nil \/ item[p] # Nil
  /\ pc[p] = "acquired" => item[p] # Nil

SoloInv ==
  /\ \A p \in Procs : arrived[p] = 0 => pc[p] = "wait"
  /\ \A p \in Procs : Solo(p) => FindsObject(p)

LEMMA SoloInit == Init => SoloInv
<1> SUFFICES ASSUME Init PROVE SoloInv
  BY Zenon
<1>1. \A p \in Procs : pc[p] = "wait"
  BY ThreadSet, Zenon DEF Init
<1> QED
  BY <1>1, Zenon DEF Init, SoloInv, FindsObject

LEMMA SoloStep == OwnerInv /\ SoloInv /\ [Next]_vars => SoloInv'
\* A step of processor q.
<1>SoloProc. ASSUME SoloInv, NEW q \in Procs,
                    \A p \in Procs \ {q} : arrived'[p] = arrived[p] /\ pc'[p] = pc[p],
                    arrived'[q] # 0, Solo(q) => FindsObject(q)'
             PROVE  SoloInv'
  <2> USE <1>SoloProc
  <2>1. \A p \in Procs \ {q} : ~Solo(p)'
    BY Zenon DEF Solo
  <2>2. Solo(q)' => Solo(q)
    BY Zenon DEF Solo
  <2> QED
    BY <2>1, <2>2, Zenon DEF SoloInv
\* A step of app_run, and a step that changes nothing here.
<1>SoloApp. ASSUME SoloInv, UNCHANGED <<arrived, up>>, head' = head \/ head' # Nil,
                   \A p \in Procs : pc'[p] = pc[p] /\ item'[p] = item[p]
            PROVE  SoloInv'
  <2> USE <1>SoloApp
  <2>1. \A p \in Procs : Solo(p)' = Solo(p)
    BY Zenon DEF Solo
  <2>2. \A p \in Procs : FindsObject(p) => FindsObject(p)'
    BY Zenon DEF FindsObject
  <2> QED
    BY <2>1, <2>2, Zenon DEF SoloInv
<1>SoloFinds. ASSUME OwnerInv, NEW p \in Procs, Acquire(p), FindsObject(p)
              PROVE  FindsObject(p)'
  <2> USE <1>SoloFinds
  <2>1. /\ pc \in [Threads -> Labels] /\ item \in [Threads -> 0..MaxObjects] /\ p \in Threads
        /\ up' = up
    BY OwnerParts, ThreadSet, Zenon DEF ThreadTypes, Acquire
  <2>2. CASE AllocTest(p)
    BY <2>1, <2>2, Zenon DEF AllocTest, Goto, list, FindsObject
  <2>3. CASE Inflate(p)
    BY <2>1, <2>3, Zenon DEF Inflate, Wrap, Goto, FindsObject
  <2>4. CASE CompareExchange(p, "sweep")
    <3>1. node[p] # Nil
      BY <2>1, <2>4, OwnerParts, Zenon DEF CompareExchange, Control
    <3> QED
      BY <2>1, <2>4, <3>1, Zenon DEF CompareExchange, Goto, FindsObject
  <2>5. CASE Sweep(p)
    <3>1. CASE head # Nil
      <4>1. head \in Used /\ data[head] # Nil
        <5>1. head \in Wrappers
          BY <3>1, OwnerParts, Zenon DEF ListTypes
        <5>2. head \in Chain(head)
          BY <3>1, <5>1, Zenon DEF Chain, Follows
        <5>3. \A w \in Used : data[w] \in 1..created
          BY Zenon DEF OwnerInv, Owned, OwnWrappers
        <5> QED
          BY <5>2, <5>3 DEF Used
      <4> QED
        BY <2>1, <2>5, <3>1, <4>1, Zenon DEF Sweep, FindsObject
    <3>2. CASE head = Nil
      BY <2>1, <2>5, <3>2, Zenon DEF Sweep, Goto, FindsObject
    <3> QED
      BY <3>1, <3>2, Zenon
  <2> QED
    BY <2>2, <2>3, <2>4, <2>5, Zenon DEF Acquire
<1> SUFFICES ASSUME OwnerInv, SoloInv, [Next]_vars PROVE SoloInv'
  BY Zenon
<1>1. /\ pc \in [Threads -> Labels] /\ item \in [Threads -> 0..MaxObjects]
      /\ arrived \in [Procs -> Nat] /\ App \in Threads /\ App \notin Procs
      /\ Procs \subseteq Threads
  BY OwnerParts, ThreadSet, Zenon DEF ThreadTypes, SessionTypes
<1>2. CASE UNCHANGED vars
  BY <1>2, <1>SoloApp, Zenon DEF vars, pool, list, session
<1>3. ASSUME NEW p \in Procs, Recv(p) PROVE SoloInv'
  <2> DEFINE most == IF peers.lockstep THEN 1 ELSE MaxPackets
  <2>1. /\ up' = up /\ up /\ pc' = [pc EXCEPT ![p] = "alloc"]
        /\ \E n \in 1..most : arrived' = [arrived EXCEPT ![p] = @ + n]
    BY <1>3, Zenon DEF Recv, Goto
  <2>2. arrived'[p] # 0
    BY <1>1, <2>1
  <2>3. pc'[p] = "alloc" /\ \A q \in Procs \ {p} : arrived'[q] = arrived[q] /\ pc'[q] = pc[q]
    BY <1>1, <2>1, Zenon
  <2> QED
    BY <2>1, <2>2, <2>3, <1>SoloProc, Zenon DEF FindsObject
<1>4. ASSUME NEW p \in Procs, Disconnect(p) PROVE SoloInv'
  BY <1>4, <1>SoloApp, Zenon DEF Disconnect, pool, list
<1>5. ASSUME NEW p \in Procs, Enqueue(p) PROVE SoloInv'
  <2>1. /\ UNCHANGED <<up, arrived>> /\ up /\ pc[p] = "acquired"
        /\ \E l \in {"alloc", "wait"} : pc' = [pc EXCEPT ![p] = l]
    BY <1>5, Zenon DEF Enqueue, Goto
  <2>2. arrived'[p] # 0
    BY <2>1, Zenon DEF SoloInv
  <2>3. pc'[p] \in {"alloc", "wait"} /\ \A q \in Procs \ {p} : pc'[q] = pc[q]
    BY <1>1, <2>1, Zenon
  <2> QED
    BY <2>1, <2>2, <2>3, <1>SoloProc, Zenon DEF FindsObject
<1>6. ASSUME NEW p \in Procs, NullPackage(p) PROVE SoloInv'
  <2>1. UNCHANGED <<arrived, pc>> /\ pc[p] = "acquired" /\ item[p] = Nil
    BY <1>6, Zenon DEF NullPackage, session
  <2>2. arrived'[p] # 0 /\ ~Solo(p)
    BY <2>1, Zenon DEF SoloInv, FindsObject
  <2> QED
    BY <2>1, <2>2, <1>SoloProc, Zenon
<1>7. ASSUME NEW p \in Procs, Acquire(p) PROVE SoloInv'
  <2>1. /\ UNCHANGED arrived /\ pc[p] # "wait"
        /\ UNCHANGED pc \/ \E l : pc' = [pc EXCEPT ![p] = l]
    BY <1>7, Zenon DEF Acquire, AllocTest, Inflate, Wrap, CompareExchange, Sweep, Goto, session
  <2>2. arrived'[p] # 0
    BY <2>1, Zenon DEF SoloInv
  <2>3. \A q \in Procs \ {p} : pc'[q] = pc[q]
    BY <1>1, <2>1, Zenon
  <2>4. Solo(p) => FindsObject(p)'
    BY <1>7, <1>SoloFinds, Zenon DEF SoloInv
  <2> QED
    BY <2>1, <2>2, <2>3, <2>4, <1>SoloProc, Zenon
<1>8. ASSUME UNCHANGED <<arrived, up>>, head' = head \/ head' # Nil,
             UNCHANGED pc \/ \E l : pc' = [pc EXCEPT ![App] = l],
             UNCHANGED item \/ \E o : item' = [item EXCEPT ![App] = o]
      PROVE  SoloInv'
  <2>1. \A p \in Procs : pc'[p] = pc[p] /\ item'[p] = item[p]
    BY <1>1, <1>8, Zenon
  <2> QED
    BY <1>8, <2>1, <1>SoloApp, Zenon
<1>9. CASE Poll
  BY <1>8, <1>9, Zenon DEF Poll, Goto, session, pool, list
<1>10. CASE OnMessage
  BY <1>8, <1>10, Zenon DEF OnMessage, Goto, session, pool, list
<1>11. CASE GiveBack
  <2>1. UNCHANGED <<arrived, up>> /\ (Release(App) \/ CompareExchange(App, "poll"))
    BY <1>11, Zenon DEF GiveBack, session
  <2>2. CASE Release(App)
    BY <1>8, <2>1, <2>2, Zenon DEF Release, Wrap, Goto
  <2>3. CASE CompareExchange(App, "poll")
    <3>1. node[App] # Nil
      BY <1>1, <2>3, OwnerParts, Zenon DEF Control, CompareExchange
    <3> QED
      BY <1>8, <2>1, <2>3, <3>1, Zenon DEF CompareExchange, Goto
  <2> QED
    BY <2>1, <2>2, <2>3, Zenon
<1> QED
  BY <1>2, <1>3, <1>4, <1>5, <1>6, <1>7, <1>9, <1>10, <1>11, Zenon DEF Next, ProcStep, AppStep

LEMMA SoloAlways == Spec => []SoloInv
  BY SoloInit, SoloStep, OwnersAlways, PTL DEF Spec

\* For any number of processors of which one receives: between the test of alloc and
\* its sweep nobody else takes the list, so acquire returns an object and the
\* processor writes to no null package.
THEOREM OneReceiverFindsObject == Spec => []NeverNull
<1>1. SoloInv => NeverNull
  BY Zenon DEF SoloInv, FindsObject, Solo, NeverNull
<1> QED
  BY <1>1, SoloAlways, PTL
-----------------------------------------------------------------------------
(***************************************************************************)
(* Peers in lockstep.  A package on its way holds the last message of its  *)
(* session, which is still at the start of recvBuf; a processor that does  *)
(* not wait has one message to enqueue and nothing on its way.             *)
(***************************************************************************)
InAppHands(p) == pc[App] = "call" /\ package[item[App]].session = p

Current(p, m) == live[p] /\ m.at = 1 /\ m.message = arrived[p] /\ arrived[p] > 0

InStep(p) ==
  /\ IF pc[p] = "wait" THEN Len(accepted[p]) = arrived[p]
       ELSE Len(accepted[p]) + 1 = arrived[p] /\ Len(handled[p]) = Len(accepted[p]) /\ live[p]
  /\ Len(handled[p]) + 1 >= arrived[p]
  /\ arrived[p] > 0 => recvBuf[p] = <<arrived[p]>>
  /\ \A i \in 1..Len(queue[p]) : Current(p, package[queue[p][i]])
  /\ InAppHands(p) => Current(p, package[item[App]])

LockInv == peers.lockstep => \A p \in Procs : InStep(p)

\* A session all of whose enqueued messages were handled has nothing on its way.
LEMMA NothingOnTheWay ==
  ASSUME OwnerInv, FlowInv, NEW p \in Procs, Len(handled[p]) = Len(accepted[p])
  PROVE  queue[p] = << >> /\ ~InAppHands(p)
<1> DEFINE c == Contents(package, queue[p])
           h == handled[p]
           i == InHands(p)
<1>1. /\ package \in [1..MaxObjects -> Packages] /\ queue[p] \in Seq(1..MaxObjects)
      /\ h \in Seq(Nat) /\ i \in Seq(Nat)
  BY FlowTypes, Zenon
<1>2. c \in Seq(Nat) /\ Len(c) = Len(queue[p])
  BY <1>1, ContentsSeq, Zenon
<1>3. h \o (i \o c) = accepted[p]
  BY Way, Zenon DEF FlowInv, EndToEnd
<1>4. Len(h) = Len(accepted[p])
  BY Zenon
<1>5. Len(i) = 0 /\ Len(c) = 0
  <2> HIDE Bounds DEF h, i, c
  <2>1. Len(h \o (i \o c)) = Len(h)
    BY <1>3, <1>4, Zenon
  <2>2. h \in Seq(Nat) /\ i \in Seq(Nat) /\ c \in Seq(Nat)
    BY <1>1, <1>2, Zenon
  <2> QED
    BY <2>1, <2>2, NoneAdded
<1>6. queue[p] = << >>
  <2>1. Len(queue[p]) = 0
    BY <1>2, <1>5, Zenon
  <2> QED
    BY <1>1, <2>1
<1>7. ~InAppHands(p)
  BY <1>5 DEF InHands, InAppHands
<1> QED
  BY <1>6, <1>7, Zenon

\* A step that does nothing to session p.
LEMMA InStepSame ==
  ASSUME NEW p \in Procs, InStep(p),
         /\ pc'[p] = "wait" <=> pc[p] = "wait"
         /\ live'[p] = live[p] /\ arrived'[p] = arrived[p] /\ recvBuf'[p] = recvBuf[p]
         /\ accepted'[p] = accepted[p] /\ handled'[p] = handled[p] /\ queue'[p] = queue[p],
         \A i \in 1..Len(queue[p]) : package'[queue[p][i]] = package[queue[p][i]],
         InAppHands(p)' => InAppHands(p) /\ package'[item'[App]] = package[item[App]]
  PROVE  InStep(p)'
<1>1. \A i \in 1..Len(queue'[p]) : Current(p, package[queue[p][i]])'
  BY DEF InStep, Current
<1>2. InAppHands(p)' => Current(p, package[item[App]])'
  BY Zenon DEF InStep, Current
<1>3. /\ IF pc'[p] = "wait" THEN Len(accepted'[p]) = arrived'[p]
           ELSE /\ Len(accepted'[p]) + 1 = arrived'[p] /\ Len(handled'[p]) = Len(accepted'[p])
                /\ live'[p]
      /\ Len(handled'[p]) + 1 >= arrived'[p]
      /\ arrived'[p] > 0 => recvBuf'[p] = <<arrived'[p]>>
  BY Zenon DEF InStep
<1> QED
  BY <1>1, <1>2, <1>3, Zenon DEF InStep
\* A step of a processor q with its own session, app_run staying where it is.
LEMMA InStepOthers ==
  ASSUME OwnerInv, NEW q \in Procs, \A p \in Procs : InStep(p),
         \A p \in Procs \ {q} :
           /\ pc'[p] = pc[p] /\ live'[p] = live[p] /\ arrived'[p] = arrived[p]
           /\ recvBuf'[p] = recvBuf[p] /\ accepted'[p] = accepted[p] /\ queue'[p] = queue[p],
         UNCHANGED handled, pc'[App] = pc[App], item'[App] = item[App],
         \A p \in Procs : \A i \in 1..Len(queue[p]) :
           package'[queue[p][i]] = package[queue[p][i]],
         pc[App] = "call" => package'[item[App]] = package[item[App]],
         InStep(q)'
  PROVE  \A p \in Procs : InStep(p)'
<1>1. ASSUME NEW p \in Procs, p # q PROVE InStep(p)'
  <2>1. InAppHands(p)' => InAppHands(p) /\ package'[item'[App]] = package[item[App]]
    BY Zenon DEF InAppHands
  <2> QED
    BY <1>1, <2>1, InStepSame, Zenon
<1> QED
  BY <1>1, Zenon

\* recv: everything was handled, and the one message that came is in recvBuf.
LEMMA LockRecv ==
  ASSUME OwnerInv, FlowInv, peers.lockstep, \A p \in Procs : InStep(p), NEW p \in Procs, Recv(p)
  PROVE  \A q \in Procs : InStep(q)'
<1>1. /\ pc \in [Threads -> Labels] /\ arrived \in [Procs -> Nat]
      /\ recvBuf \in [Procs -> Seq(Nat)] /\ App \in Threads /\ p # App /\ Procs \subseteq Threads
  BY OwnerParts, ThreadSet, Zenon DEF ThreadTypes, SessionTypes
<1>2. /\ UNCHANGED <<item, package, queue, accepted, handled, live>>
      /\ pc[p] = "wait" /\ live[p] /\ Len(handled[p]) = arrived[p]
      /\ pc' = [pc EXCEPT ![p] = "alloc"]
  BY Zenon DEF Recv, Goto, Answered
<1>3. /\ recvBuf' = [recvBuf EXCEPT ![p] = [i \in 1..1 |-> arrived[p] + i]]
      /\ arrived' = [arrived EXCEPT ![p] = arrived[p] + 1]
  <2>1. PICK n \in 1..1 : /\ recvBuf' = [recvBuf EXCEPT ![p] = [i \in 1..n |-> arrived[p] + i]]
                          /\ arrived' = [arrived EXCEPT ![p] = @ + n]
    BY Zenon DEF Recv
  <2>2. n = 1
    BY <2>1
  <2> QED
    BY <2>1, <2>2, Zenon
<1>4. /\ pc'[p] = "alloc" /\ arrived'[p] = arrived[p] + 1
      /\ recvBuf'[p] = [i \in 1..1 |-> arrived[p] + i] /\ arrived[p] \in Nat
  BY <1>1, <1>2, <1>3, Zenon
<1>5. recvBuf'[p] = <<arrived'[p]>>
  BY <1>4
<1>6. \A q \in Procs \ {p} : pc'[q] = pc[q] /\ arrived'[q] = arrived[q] /\ recvBuf'[q] = recvBuf[q]
  BY <1>1, <1>2, <1>3, Zenon
<1>7. pc'[App] = pc[App]
  BY <1>1, <1>2, Zenon
<1>8. Len(accepted[p]) = arrived[p]
  BY <1>2, Zenon DEF InStep
<1>9. queue[p] = << >> /\ ~InAppHands(p)
  BY <1>2, <1>8, NothingOnTheWay, Zenon
<1>10. InStep(p)'
  <2>1. ~InAppHands(p)' /\ Len(queue'[p]) = 0
    BY <1>2, <1>7, <1>9, Zenon DEF InAppHands
  <2> QED
    BY <1>2, <1>4, <1>5, <1>8, <2>1 DEF InStep
<1> QED
  BY <1>2, <1>6, <1>7, <1>10, InStepOthers, Zenon

LEMMA LockDisconnect ==
  ASSUME OwnerInv, FlowInv, peers.lockstep, \A p \in Procs : InStep(p), NEW p \in Procs,
         Disconnect(p)
  PROVE  \A q \in Procs : InStep(q)'
<1>1. live \in [Procs -> BOOLEAN]
  BY OwnerParts, Zenon DEF SessionTypes
<1>2. /\ UNCHANGED <<pc, item, package, queue, accepted, handled, arrived, recvBuf>>
      /\ pc[p] = "wait" /\ Len(handled[p]) = arrived[p]
      /\ live' = [live EXCEPT ![p] = FALSE]
  BY Zenon DEF Disconnect, Answered
<1>3. \A q \in Procs \ {p} : live'[q] = live[q]
  BY <1>1, <1>2, Zenon
<1>4. Len(accepted[p]) = arrived[p]
  BY <1>2, Zenon DEF InStep
<1>5. queue[p] = << >> /\ ~InAppHands(p)
  BY <1>2, <1>4, NothingOnTheWay, Zenon
<1>6. InStep(p)'
  <2>1. ~InAppHands(p)' /\ Len(queue'[p]) = 0
    BY <1>2, <1>5, Zenon DEF InAppHands
  <2> QED
    BY <1>2, <1>4, <2>1 DEF InStep
<1> QED
  BY <1>2, <1>3, <1>6, InStepOthers, Zenon
\* enqueue: the queue is empty, so the message of recvBuf goes in.
LEMMA LockEnqueue ==
  ASSUME OwnerInv, FlowInv, \A p \in Procs : InStep(p), NEW p \in Procs, Enqueue(p)
  PROVE  \A q \in Procs : InStep(q)'
<1> DEFINE o == item[p]
           m == [session |-> p, message |-> arrived[p], at |-> 1]
<1>1. /\ pc \in [Threads -> Labels] /\ item \in [Threads -> 0..MaxObjects]
      /\ App \in Threads /\ p \in Threads /\ p # App /\ Procs \subseteq Threads
  BY OwnerParts, ThreadSet, Zenon DEF ThreadTypes
<1>2. /\ package \in [1..MaxObjects -> Packages] /\ queue \in [Procs -> Seq(1..MaxObjects)]
      /\ accepted \in [Procs -> Seq(Nat)] /\ handled \in [Procs -> Seq(Nat)]
      /\ pc[App] \in {"call", "release"} => item[App] \in 1..MaxObjects
  BY FlowTypes, Zenon
<1>3. arrived[p] \in Nat /\ readPos[p] \in Nat /\ Len(accepted[p]) \in Nat
  BY <1>2, OwnerParts DEF SessionTypes
<1>4. /\ UNCHANGED <<live, arrived, recvBuf, handled>>
      /\ pc[p] = "acquired" /\ o # Nil /\ item' = [item EXCEPT ![p] = Nil]
  BY Zenon DEF Enqueue
<1>5. /\ Len(accepted[p]) + 1 = arrived[p] /\ Len(handled[p]) = Len(accepted[p]) /\ live[p]
      /\ arrived[p] > 0 => recvBuf[p] = <<arrived[p]>>
  BY <1>4, Zenon DEF InStep
<1>6. recvBuf[p] = <<arrived[p]>> /\ readPos[p] = 0
  <2>1. recvBuf[p] = <<arrived[p]>>
    BY <1>3, <1>5
  <2>2. readPos[p] < Len(recvBuf[p])
    BY <1>4, OwnerParts, Zenon DEF Control
  <2> QED
    BY <1>3, <2>1, <2>2
<1>7. queue[p] = << >> /\ ~InAppHands(p)
  BY <1>5, NothingOnTheWay, Zenon
<1>8. package' = [package EXCEPT ![o] = m] /\ pc' = [pc EXCEPT ![p] = "wait"]
  BY <1>6 DEF Enqueue, Fill, Goto
<1>9. /\ queue' = [queue EXCEPT ![p] = Append(queue[p], o)]
      /\ accepted' = [accepted EXCEPT ![p] = Append(accepted[p], recvBuf[p][readPos[p] + 1])]
  <2>1. Len(queue[p]) < QueueSize
    BY <1>7
  <2> QED
    BY <2>1 DEF Enqueue, Offer
<1>10. o \in 1..MaxObjects /\ pc'[App] = pc[App] /\ item'[App] = item[App] /\ pc'[p] = "wait"
  <2>1. o \in 1..MaxObjects
    BY <1>1, <1>4
  <2>2. pc'[App] = pc[App] /\ item'[App] = item[App] /\ pc'[p] = "wait"
    BY <1>1, <1>4, <1>8, Zenon
  <2> QED
    BY <2>1, <2>2, Zenon
<1>11. /\ \A q \in Procs : \A i \in 1..Len(queue[q]) : queue[q][i] # o
       /\ item[App] # o
  BY <1>1, <1>4, WayApart, Zenon
<1>12. package'[o] = m /\ \A x \in 1..MaxObjects : x # o => package'[x] = package[x]
  BY <1>2, <1>8, <1>10, Zenon
<1>13. \A q \in Procs : \A i \in 1..Len(queue[q]) : package'[queue[q][i]] = package[queue[q][i]]
  <2>1. ASSUME NEW q \in Procs, NEW i \in 1..Len(queue[q])
        PROVE  package'[queue[q][i]] = package[queue[q][i]]
    <3>1. queue[q][i] \in 1..MaxObjects
      BY FlowTypes, Zenon
    <3> QED
      BY <1>11, <1>12, <3>1, Zenon
  <2> QED
    BY <2>1, Zenon
<1>14. pc[App] = "call" => package'[item[App]] = package[item[App]]
  BY <1>2, <1>11, <1>12, Zenon
<1>15. \A q \in Procs \ {p} : pc'[q] = pc[q] /\ queue'[q] = queue[q] /\ accepted'[q] = accepted[q]
  BY <1>1, <1>2, <1>8, <1>9, Zenon
<1>16. InStep(p)'
  <2>1. ~InAppHands(p)'
    BY <1>7, <1>10, <1>14, Zenon DEF InAppHands
  <2>2. queue'[p] = <<o>>
    BY <1>2, <1>7, <1>9
  <2>3. Len(accepted'[p]) = Len(accepted[p]) + 1
    BY <1>2, <1>3, <1>6, <1>9
  <2>4. Current(p, m)'
    BY <1>3, <1>4, <1>5 DEF Current
  <2>5. \A i \in 1..Len(queue'[p]) : package'[queue'[p][i]] = m
    BY <1>12, <2>2
  <2>6. \A i \in 1..Len(queue'[p]) : Current(p, package[queue[p][i]])'
    BY <1>4, <2>4, <2>5, Zenon DEF Current
  <2> HIDE DEF o, m
  <2> QED
    BY <1>3, <1>4, <1>5, <1>6, <1>10, <2>1, <2>3, <2>6 DEF InStep
<1> HIDE DEF o, m
<1> QED
  BY <1>4, <1>10, <1>13, <1>14, <1>15, <1>16, InStepOthers, Zenon

\* acquire, and the end in a null package.
LEMMA LockAcquire ==
  ASSUME OwnerInv, \A p \in Procs : InStep(p), NEW p \in Procs, Acquire(p) \/ NullPackage(p)
  PROVE  \A q \in Procs : InStep(q)'
<1>1. /\ pc \in [Threads -> Labels] /\ item \in [Threads -> 0..MaxObjects]
      /\ App \in Threads /\ p \in Threads /\ p # App /\ Procs \subseteq Threads
  BY OwnerParts, ThreadSet, Zenon DEF ThreadTypes
<1>2. UNCHANGED <<live, arrived, recvBuf, package, queue, accepted, handled>>
  BY Zenon DEF Acquire, NullPackage, session
<1>3. /\ pc[p] # "wait"
      /\ UNCHANGED pc \/ \E l \in Labels \ {"wait"} : pc' = [pc EXCEPT ![p] = l]
  BY Zenon DEF Acquire, NullPackage, AllocTest, Inflate, Wrap, CompareExchange, Sweep, Goto, Labels
<1>4. UNCHANGED item \/ \E x : item' = [item EXCEPT ![p] = x]
  BY Zenon DEF Acquire, NullPackage, AllocTest, Inflate, CompareExchange, Sweep
<1>5. /\ pc'[App] = pc[App] /\ item'[App] = item[App] /\ pc'[p] # "wait"
      /\ \A q \in Procs \ {p} : pc'[q] = pc[q]
  BY <1>1, <1>3, <1>4, Zenon
<1>6. ASSUME NEW q \in Procs PROVE InStep(q)'
  <2>1. pc'[q] = "wait" <=> pc[q] = "wait"
    BY <1>3, <1>5, Zenon
  <2>2. InAppHands(q)' => InAppHands(q) /\ package'[item'[App]] = package[item[App]]
    BY <1>2, <1>5, Zenon DEF InAppHands
  <2> QED
    BY <1>2, <2>1, <2>2, InStepSame, Zenon
<1> QED
  BY <1>6, Zenon
\* app_run takes the first package of a queue.
LEMMA LockPoll ==
  ASSUME OwnerInv, FlowInv, \A p \in Procs : InStep(p), Poll
  PROVE  \A q \in Procs : InStep(q)'
<1>1. /\ pc \in [Threads -> Labels] /\ item \in [Threads -> 0..MaxObjects] /\ turn \in Procs
      /\ App \in Threads /\ App \notin Procs /\ Procs \subseteq Threads
      /\ queue \in [Procs -> Seq(1..MaxObjects)]
  BY OwnerParts, FlowTypes, ThreadSet, Zenon DEF ThreadTypes, MessageTypes
<1>2. /\ UNCHANGED <<live, arrived, recvBuf, package, accepted, handled>> /\ pc[App] = "poll"
  BY Zenon DEF Poll, session
<1>3. CASE UNCHANGED <<item, queue, pc>>
  <2>1. ASSUME NEW q \in Procs PROVE InStep(q)'
    <3>1. ~InAppHands(q)'
      BY <1>2, <1>3, Zenon DEF InAppHands
    <3> QED
      BY <1>2, <1>3, <3>1, InStepSame, Zenon
  <2> QED
    BY <2>1, Zenon
<1>4. CASE /\ queue[turn] # << >>
           /\ item' = [item EXCEPT ![App] = Head(queue[turn])]
           /\ queue' = [queue EXCEPT ![turn] = Tail(queue[turn])]
           /\ pc' = [pc EXCEPT ![App] = "call"]
  <2>1. PICK t \in Procs : t = turn
    BY <1>1, Zenon
  <2> DEFINE s == queue[t]
  <2>2. s \in Seq(1..MaxObjects) /\ s # << >>
    BY <1>1, <1>4, <2>1, Zenon
  <2>3. /\ Head(s) = s[1] /\ 1 \in 1..Len(s) /\ Len(s) \in Nat
        /\ Len(Tail(s)) = Len(s) - 1 /\ \A i \in 1..Len(Tail(s)) : Tail(s)[i] = s[i + 1]
    BY <2>2, FirstAndRest, Zenon
  <2>4. pc'[App] = "call" /\ item'[App] = s[1] /\ \A q \in Procs : pc'[q] = pc[q]
    BY <1>1, <1>4, <2>1, <2>3, Zenon
  <2>5. queue'[t] = Tail(s) /\ \A q \in Procs \ {t} : queue'[q] = queue[q]
    BY <1>1, <1>4, <2>1, Zenon
  <2>6. package[s[1]].session = t
    BY <2>3, Zenon DEF FlowInv, PackageInv
  <2>7. ASSUME NEW q \in Procs, q # t PROVE InStep(q)'
    <3>1. ~InAppHands(q)'
      BY <1>2, <2>4, <2>6, <2>7, Zenon DEF InAppHands
    <3> QED
      BY <1>2, <2>4, <2>5, <2>7, <3>1, InStepSame, Zenon
  <2>8. InStep(t)'
    <3>1. \A i \in 1..Len(s) : Current(t, package[s[i]])
      BY Zenon DEF InStep
    <3>2. \A i \in 1..Len(queue'[t]) : Current(t, package[queue[t][i]])'
      <4>1. ASSUME NEW i \in 1..Len(queue'[t])
            PROVE  queue'[t][i] = s[i + 1] /\ i + 1 \in 1..Len(s)
        BY <2>3, <2>5, <4>1
      <4> QED
        BY <1>2, <3>1, <4>1, SMTT(30) DEF Current
    <3>3. Current(t, package[item[App]])'
      <4>1. Current(t, package[s[1]])
        BY <2>3, <3>1, Zenon
      <4> QED
        BY <1>2, <2>4, <4>1, Zenon DEF Current
    <3> QED
      BY <1>2, <2>4, <3>2, <3>3 DEF InStep
  <2> QED
    BY <2>7, <2>8, Zenon
<1> QED
  BY <1>3, <1>4, Zenon DEF Poll, Goto

\* on_message: a session with a message in the hands of app_run waits for the reply.
LEMMA LockOnMessage ==
  ASSUME OwnerInv, FlowInv, \A p \in Procs : InStep(p), OnMessage
  PROVE  \A q \in Procs : InStep(q)'
<1> DEFINE m == package[item[App]]
<1>1. /\ pc \in [Threads -> Labels] /\ App \in Threads /\ App \notin Procs
      /\ Procs \subseteq Threads
  BY OwnerParts, ThreadSet, Zenon DEF ThreadTypes
<1>2. /\ UNCHANGED <<live, arrived, recvBuf, package, queue, accepted>> /\ pc[App] = "call"
      /\ pc' = [pc EXCEPT ![App] = "release"]
      /\ handled' = [handled EXCEPT ![m.session] = Append(handled[m.session], m.message)]
  BY Zenon DEF OnMessage, Goto, session
<1>3. /\ handled \in [Procs -> Seq(Nat)] /\ m \in Packages
  BY <1>2, FlowTypes, Zenon
<1>4. PICK s \in Procs, v \in Nat : s = m.session /\ v = m.message
  BY <1>3, Zenon DEF Packages
<1>5. InAppHands(s)
  BY <1>2, <1>4, Zenon DEF InAppHands
<1> HIDE DEF m
<1>6. /\ handled'[s] = Append(handled[s], v) /\ \A p \in Procs \ {s} : handled'[p] = handled[p]
      /\ pc'[App] = "release" /\ \A p \in Procs : pc'[p] = pc[p]
  BY <1>1, <1>2, <1>3, <1>4, Zenon
<1>7. \A p \in Procs : ~InAppHands(p)'
  BY <1>6, Zenon DEF InAppHands
<1>8. ASSUME NEW p \in Procs, p # s PROVE InStep(p)'
  BY <1>2, <1>6, <1>7, <1>8, InStepSame, Zenon
<1>9. InStep(s)'
  <2>1. Len(handled[s]) # Len(accepted[s])
    BY <1>5, NothingOnTheWay, Zenon
  <2>2. pc[s] = "wait" /\ Len(accepted[s]) = arrived[s]
    BY <2>1, Zenon DEF InStep
  <2>3. Len(handled'[s]) = Len(handled[s]) + 1 /\ Len(handled[s]) \in Nat /\ arrived[s] \in Nat
    BY <1>3, <1>6, OwnerParts DEF SessionTypes
  <2>4. Len(handled'[s]) + 1 >= arrived'[s]
    BY <1>2, <2>3 DEF InStep
  <2>5. \A i \in 1..Len(queue'[s]) : Current(s, package[queue[s][i]])'
    BY <1>2 DEF InStep, Current
  <2> QED
    BY <1>2, <1>6, <1>7, <2>2, <2>4, <2>5, Zenon DEF InStep
<1> QED
  BY <1>8, <1>9, Zenon

LEMMA LockGiveBack ==
  ASSUME OwnerInv, FlowInv, \A p \in Procs : InStep(p), GiveBack
  PROVE  \A q \in Procs : InStep(q)'
<1>1. /\ pc \in [Threads -> Labels] /\ App \in Threads /\ App \notin Procs
      /\ Procs \subseteq Threads /\ package \in [1..MaxObjects -> Packages]
      /\ queue \in [Procs -> Seq(1..MaxObjects)]
  BY OwnerParts, FlowTypes, ThreadSet, Zenon DEF ThreadTypes
<1>2. /\ UNCHANGED <<live, arrived, recvBuf, queue, handled, accepted>>
      /\ pc[App] \in {"release", "exchange"}
      /\ package' = package \/ package' = [package EXCEPT ![item[App]] = Blank]
  BY Zenon DEF GiveBack, Release, CompareExchange, session
<1>3. pc'[App] # "call" /\ \A p \in Procs : pc'[p] = pc[p]
  <2>1. \/ UNCHANGED pc
        \/ \E l \in {"exchange", "inflate", "poll"} : pc' = [pc EXCEPT ![App] = l]
    BY Zenon DEF GiveBack, Release, Wrap, CompareExchange, Goto
  <2> QED
    BY <1>1, <1>2, <2>1, Zenon
<1>4. ASSUME NEW p \in Procs, NEW i \in 1..Len(queue[p])
      PROVE  package'[queue[p][i]] = package[queue[p][i]]
  <2>1. queue[p][i] \in 1..MaxObjects
    BY FlowTypes, Zenon
  <2>2. queue[p][i] # item[App]
    BY <1>1, WayApart, Zenon
  <2> QED
    BY <1>1, <1>2, <2>1, <2>2, Zenon
<1>5. ASSUME NEW p \in Procs PROVE InStep(p)'
  <2>1. ~InAppHands(p)'
    BY <1>3, Zenon DEF InAppHands
  <2> QED
    BY <1>2, <1>3, <1>4, <2>1, InStepSame, Zenon
<1> QED
  BY <1>5, Zenon

LEMMA LockInit == Init => LockInv
<1> SUFFICES ASSUME Init, NEW p \in Procs PROVE InStep(p)
  BY Zenon DEF LockInv
<1>1. pc[p] = "wait" /\ pc[App] = "poll"
  BY ThreadSet, Zenon DEF Init
<1>2. /\ arrived[p] = 0 /\ handled[p] = << >> /\ accepted[p] = << >> /\ queue[p] = << >>
  BY Zenon DEF Init
<1>3. Len(handled[p]) = 0 /\ Len(accepted[p]) = 0 /\ Len(queue[p]) = 0
  BY <1>2, Zenon
<1>4. ~InAppHands(p)
  BY <1>1, Zenon DEF InAppHands
<1> QED
  BY <1>1, <1>2, <1>3, <1>4 DEF InStep

LEMMA PeersStay == [Next]_vars => peers' = peers
<1>1. ASSUME NEW p \in Procs, Recv(p) \/ Disconnect(p) PROVE peers' = peers
  BY <1>1, Zenon DEF Recv, Disconnect
<1>2. ASSUME NEW p \in Procs, ProcStep(p) PROVE peers' = peers
  BY <1>2, Zenon DEF ProcStep, Acquire, Enqueue, NullPackage
<1>3. CASE AppStep
  BY <1>3, Zenon DEF AppStep, Poll, OnMessage, GiveBack
<1> QED
  BY <1>1, <1>2, <1>3, Zenon DEF Next, vars

LEMMA LockStep == OwnerInv /\ FlowInv /\ LockInv /\ [Next]_vars => LockInv'
<1> SUFFICES ASSUME OwnerInv, FlowInv, LockInv, [Next]_vars, peers'.lockstep
             PROVE  \A q \in Procs : InStep(q)'
  BY Zenon DEF LockInv
<1>1. peers.lockstep /\ \A q \in Procs : InStep(q)
  BY PeersStay, Zenon DEF LockInv
<1>2. CASE UNCHANGED vars
  <2>1. ASSUME NEW q \in Procs PROVE InStep(q)'
    BY <1>1, <1>2, InStepSame, Zenon DEF vars, session, InAppHands
  <2> QED
    BY <2>1, Zenon
<1>3. ASSUME NEW p \in Procs, Recv(p) \/ Disconnect(p) \/ Enqueue(p)
      PROVE  \A q \in Procs : InStep(q)'
  BY <1>1, <1>3, LockRecv, LockDisconnect, LockEnqueue, Zenon
<1>4. ASSUME NEW p \in Procs, Acquire(p) \/ NullPackage(p) PROVE \A q \in Procs : InStep(q)'
  BY <1>1, <1>4, LockAcquire, Zenon
<1>5. CASE AppStep
  BY <1>1, <1>5, LockPoll, LockOnMessage, LockGiveBack, Zenon DEF AppStep
<1> QED
  BY <1>2, <1>3, <1>4, <1>5, Zenon DEF Next, ProcStep

LEMMA LockAlways == Spec => []LockInv
  BY LockInit, LockStep, OwnersAlways, FlowAlways, PTL DEF Spec

\* For any number of processors and any queue size, when every peer waits for the
\* handling of its last message: on_message gets a session that was not released and a
\* pointer to a message that recv has not overwritten, and enqueue never fails.
THEOREM LockstepIsSafe == Spec => []MessageIntact
<1>1. ASSUME OwnerInv, LockInv PROVE MessageIntact
  <2> SUFFICES ASSUME peers.lockstep
               PROVE  /\ pc[App] = "call" =>
                           LET m == package[item[App]]
                           IN  live[m.session] /\ recvBuf[m.session][m.at] = m.message
                      /\ \A p \in Procs : pc[p] = "wait" => Len(accepted[p]) = arrived[p]
    BY Zenon DEF MessageIntact
  <2>1. \A p \in Procs : InStep(p)
    BY <1>1, Zenon DEF LockInv
  <2>2. CASE pc[App] = "call"
    <3> DEFINE m == package[item[App]]
    <3>1. m \in Packages
      BY <1>1, <2>2, FlowTypes, Zenon
    <3>2. m.session \in Procs
      BY <3>1, Zenon DEF Packages
    <3>3. Current(m.session, m) /\ (arrived[m.session] > 0 => recvBuf[m.session] = <<arrived[m.session]>>)
      BY <2>1, <2>2, <3>2, Zenon DEF InStep, InAppHands
    <3> QED
      BY <2>1, <3>3 DEF Current, InStep
  <2> QED
    BY <2>1, <2>2, Zenon DEF InStep
<1> QED
  BY <1>1, OwnersAlways, LockAlways, PTL
=============================================================================
