--------------------------- MODULE PipelineOwners ---------------------------
(***************************************************************************)
(* AppPipeline: every package has one owner.  The invariant says where the *)
(* threads are (Control), what the list of the pool looks like (ListInv)   *)
(* and that wrappers, hands and queues share no package (Owned).  Owned is *)
(* an operator on values, so that what a step does to it is a lemma about  *)
(* sets and functions; the same is done for the chain of wrappers.         *)
(***************************************************************************)
EXTENDS AppPipeline, TLAPS

\* The wrappers on the list that starts at h when the hooks are nx.
ChainOf(nx, h) ==
  {w \in Wrappers :
     \A S \in SUBSET Wrappers :
        (h # Nil => h \in S) /\ (\A v \in S : nx[v] # Nil => nx[v] \in S) => w \in S}

\* Wrappers of U hold packages that were made, each its own.
OwnWrappers(U, d, c) ==
  /\ \A w \in U : d[w] \in 1..c
  /\ \A v, w \in U : d[v] = d[w] => v = w

\* So do the hands of the threads ...
OwnItems(it, c) ==
  /\ \A t \in Threads : it[t] <= c
  /\ \A t, u \in Threads : it[t] = it[u] /\ it[t] # Nil => t = u

\* ... and the queues.
OwnQueues(q, c) ==
  /\ \A p \in Procs : \A i \in 1..Len(q[p]) : q[p][i] <= c
  /\ \A p, r \in Procs : \A i \in 1..Len(q[p]), j \in 1..Len(q[r]) :
       q[p][i] = q[r][j] => p = r /\ i = j

WrappersItems(U, d, it) == \A w \in U, t \in Threads : d[w] # it[t]

Queued(q, o) == \E p \in Procs : \E i \in 1..Len(q[p]) : q[p][i] = o

WrappersQueues(U, d, q) == \A w \in U : ~Queued(q, d[w])

ItemsQueues(it, q) == \A t \in Threads : ~Queued(q, it[t])

Owned(U, d, it, q, c) ==
  /\ OwnWrappers(U, d, c) /\ OwnItems(it, c) /\ OwnQueues(q, c)
  /\ WrappersItems(U, d, it) /\ WrappersQueues(U, d, q) /\ ItemsQueues(it, q)

Control ==
  /\ \A p \in Procs :
       /\ pc[p] \in {"wait", "alloc", "inflate", "exchange", "sweep", "acquired"}
       /\ IF pc[p] = "wait" THEN readPos[p] = 0 ELSE readPos[p] < Len(recvBuf[p])
  /\ pc[App] \in {"poll", "call", "release", "exchange"} /\ left[App] = 0
  /\ pc[App] \in {"call", "release"} => item[App] # Nil
  /\ \A t \in Threads :
       /\ pc[t] = "inflate" => left[t] > 0
       /\ pc[t] = "exchange" => node[t] # Nil
       /\ node[t] # Nil => pc[t] = "exchange"

\* No thread inserts a wrapper that is on the list or that another thread inserts.
ListInv ==
  /\ \A t \in Threads : node[t] \notin Chain(head)
  /\ \A t, u \in Threads : node[t] = node[u] /\ node[t] # Nil => t = u

OwnerInv == TypeOK /\ Control /\ ListInv /\ Owned(Used, data, item, queue, created)

-----------------------------------------------------------------------------
LEMMA Bounds ==
  /\ MaxObjects \in Nat /\ Grow \in Nat \ {0} /\ 0 \notin Wrappers
  /\ MaxPackets \in Nat \ {0} /\ QueueSize \in Nat \ {0}
  BY PipelineAssumption, Zenon

LEMMA ThreadSet == /\ App \in Threads /\ App \notin Procs /\ Procs \subseteq Threads
                   /\ 0 \in Procs /\ \A t \in Threads : t \in Procs \/ t = App
  BY PipelineAssumption DEF App, Procs

LEMMA FirstAndRest ==
  ASSUME NEW S, NEW q \in Seq(S), q # << >>
  PROVE  /\ Len(q) \in Nat /\ 1 \in 1..Len(q) /\ Head(q) = q[1] /\ Head(q) \in S
         /\ Tail(q) \in Seq(S) /\ Len(Tail(q)) = Len(q) - 1
         /\ \A i \in 1..Len(Tail(q)) : Tail(q)[i] = q[i + 1]
<1>1. Len(q) \in Nat /\ Len(q) > 0 /\ Head(q) = q[1]
  OBVIOUS
<1>2. Head(q) \in S
  BY <1>1
<1>3. Tail(q) \in Seq(S) /\ Len(Tail(q)) = Len(q) - 1
  BY <1>1
<1>4. \A i \in 1..Len(Tail(q)) : Tail(q)[i] = q[i + 1]
  BY <1>1
<1> QED
  BY <1>1, <1>2, <1>3, <1>4

USE Bounds DEF Nil

LEMMA ChainIs ==
  /\ \A h : Chain(h) = ChainOf(next, h)
  /\ Used = ChainOf(next, head) \cup ({node[t] : t \in Threads} \ {Nil})
  /\ Used' = ChainOf(next', head') \cup ({node'[t] : t \in Threads} \ {Nil})
  /\ Chain(head)' = ChainOf(next', head')
<1>1. \A h : Chain(h) = ChainOf(next, h)
  BY Zenon DEF Chain, ChainOf, Follows
<1>2. Chain(head)' = ChainOf(next', head')
  BY Zenon DEF Chain, ChainOf, Follows
<1> QED
  BY <1>1, <1>2, Zenon DEF Used, Inserting

\* The chain is within every set of wrappers that is closed under the hooks.
LEMMA ChainLeast ==
  ASSUME NEW nx, NEW h, NEW S \in SUBSET Wrappers, h # Nil => h \in S,
         \A v \in S : nx[v] # Nil => nx[v] \in S
  PROVE  ChainOf(nx, h) \subseteq S
  BY Zenon DEF ChainOf

\* It starts at its head and follows the hooks.
LEMMA ChainClosed ==
  ASSUME NEW nx \in [Wrappers -> Wrappers \cup {Nil}], NEW h \in Wrappers \cup {Nil}
  PROVE  /\ ChainOf(nx, h) \subseteq Wrappers
         /\ h # Nil => h \in ChainOf(nx, h)
         /\ \A v \in ChainOf(nx, h) : nx[v] # Nil => nx[v] \in ChainOf(nx, h)
  BY Zenon DEF ChainOf

\* insertHead puts one wrapper in front of the chain.
LEMMA ChainInsert ==
  ASSUME NEW nx \in [Wrappers -> Wrappers \cup {Nil}], NEW h \in Wrappers \cup {Nil},
         NEW n \in Wrappers
  PROVE  ChainOf([nx EXCEPT ![n] = h], n) \subseteq ChainOf(nx, h) \cup {n}
<1> DEFINE S == ChainOf(nx, h) \cup {n}
           ny == [nx EXCEPT ![n] = h]
<1>1. S \in SUBSET Wrappers /\ n \in S
  BY ChainClosed, Zenon
<1>2. ASSUME NEW v \in S, ny[v] # Nil PROVE ny[v] \in S
  <2>1. CASE v = n
    BY <1>2, <2>1, ChainClosed, Zenon
  <2>2. CASE v # n
    <3>1. v \in ChainOf(nx, h) /\ ny[v] = nx[v]
      BY <2>2, <1>1, Zenon
    <3> QED
      BY <1>2, <3>1, ChainClosed, Zenon
  <2> QED
    BY <2>1, <2>2, Zenon
<1> HIDE DEF S, ny
<1>3. ChainOf(ny, n) \subseteq S
  BY <1>1, <1>2, ChainLeast, Zenon
<1> QED
  BY <1>3, Zenon DEF S, ny

\* The chain of an empty list.
LEMMA ChainEmpty == ASSUME NEW nx PROVE ChainOf(nx, Nil) = {}
<1>1. {} \in SUBSET Wrappers /\ \A v \in {} : nx[v] # Nil => nx[v] \in {}
  BY Zenon
<1> QED
  BY <1>1, Zenon DEF ChainOf

-----------------------------------------------------------------------------
(***************************************************************************)
(* What the steps do to the owners of packages.                            *)
(***************************************************************************)
\* Wrappers that are not used any more.
LEMMA OwnedShrink ==
  ASSUME NEW U, NEW d, NEW it, NEW q, NEW c, Owned(U, d, it, q, c),
         NEW V, V \subseteq U, NEW e, \A w \in V : e[w] = d[w]
  PROVE  Owned(V, e, it, q, c)
<1>1. OwnWrappers(V, e, c)
  BY Zenon DEF Owned, OwnWrappers
<1>2. WrappersItems(V, e, it)
  BY Zenon DEF Owned, WrappersItems
<1>3. WrappersQueues(V, e, q)
  BY Zenon DEF Owned, WrappersQueues
<1> QED
  BY <1>1, <1>2, <1>3, Zenon DEF Owned

\* A thread takes o, which nobody owns, or lets go of what it had (o = Nil).
LEMMA OwnedHold ==
  ASSUME NEW U, NEW d, NEW it \in [Threads -> 0..MaxObjects], NEW q, NEW c \in Nat,
         Owned(U, d, it, q, c), NEW t \in Threads, NEW o \in 0..c,
         NEW ju, ju = [it EXCEPT ![t] = o],
         \A w \in U : d[w] # o, ~Queued(q, o),
         o = Nil \/ \A u \in Threads : it[u] # o
  PROVE  Owned(U, d, ju, q, c)
<1>1. \A u \in Threads : ju[u] = IF u = t THEN o ELSE it[u]
  BY Zenon
<1>2. OwnItems(ju, c)
  BY <1>1 DEF Owned, OwnItems
<1>3. WrappersItems(U, d, ju)
  BY <1>1, Zenon DEF Owned, WrappersItems
<1>4. ItemsQueues(ju, q)
  BY <1>1, Zenon DEF Owned, ItemsQueues
<1> QED
  BY <1>2, <1>3, <1>4, Zenon DEF Owned

LEMMA OwnedLetGo ==
  ASSUME NEW U, NEW d, NEW it \in [Threads -> 0..MaxObjects],
         NEW q \in [Procs -> Seq(1..MaxObjects)], NEW c \in Nat,
         Owned(U, d, it, q, c), NEW t \in Threads
  PROVE  Owned(U, d, [it EXCEPT ![t] = Nil], q, c)
<1> DEFINE ju == [it EXCEPT ![t] = 0]
<1>1. ~Queued(q, Nil)
  <2>1. ASSUME NEW p \in Procs, NEW i \in 1..Len(q[p]) PROVE q[p][i] # Nil
    <3>1. q[p] \in Seq(1..MaxObjects)
      BY Zenon
    <3>2. q[p][i] \in 1..MaxObjects
      BY <3>1
    <3> QED
      BY <3>2
  <2> QED
    BY <2>1, Zenon DEF Queued
<1>2. \A w \in U : d[w] # Nil
  BY DEF Owned, OwnWrappers
<1>3. ju = [it EXCEPT ![t] = 0]
  BY Zenon
<1> HIDE DEF ju
<1>4. Owned(U, d, ju, q, c)
  BY <1>1, <1>2, <1>3, 0 \in 0..c, OwnedHold, ZenonT(20)
<1> QED
  BY <1>4, Zenon DEF ju

\* A package that nobody owns goes into a fresh wrapper; it may be a new one.
LEMMA OwnedWrap ==
  ASSUME NEW U \in SUBSET Wrappers, NEW d \in [Wrappers -> 0..MaxObjects], NEW it, NEW q,
         NEW c \in Nat, NEW b \in Nat, c <= b,
         Owned(U, d, it, q, c), NEW w \in Wrappers \ U, NEW o \in 1..b,
         NEW e, e = [d EXCEPT ![w] = o],
         \A v \in U : d[v] # o, ~Queued(q, o), \A t \in Threads : it[t] # o,
         \A t \in Threads : it[t] \in Nat,
         \A p \in Procs : \A i \in 1..Len(q[p]) : q[p][i] \in Nat
  PROVE  Owned(U \cup {w}, e, it, q, b)
<1>1. e[w] = o /\ \A v \in U : e[v] = d[v]
  BY Zenon
<1>2. OwnWrappers(U \cup {w}, e, b)
  <2>1. \A v \in U : d[v] \in 1..b
    BY DEF Owned, OwnWrappers
  <2> QED
    BY <1>1, <2>1 DEF Owned, OwnWrappers
<1>3. OwnItems(it, b)
  BY DEF Owned, OwnItems
<1>4. OwnQueues(q, b)
  <2>1. \A p \in Procs : \A i \in 1..Len(q[p]) : q[p][i] <= b
    BY DEF Owned, OwnQueues
  <2> QED
    BY <2>1, Zenon DEF Owned, OwnQueues
<1>5. WrappersItems(U \cup {w}, e, it)
  BY <1>1, Zenon DEF Owned, WrappersItems
<1>6. WrappersQueues(U \cup {w}, e, q)
  BY <1>1, Zenon DEF Owned, WrappersQueues
<1> QED
  BY <1>2, <1>3, <1>4, <1>5, <1>6, Zenon DEF Owned

\* A thread takes the head of the list off it; the other wrappers are in V.
LEMMA OwnedTake ==
  ASSUME NEW U, NEW d, NEW it \in [Threads -> 0..MaxObjects], NEW q, NEW c \in Nat,
         Owned(U, d, it, q, c), NEW t \in Threads, NEW h \in U,
         NEW ju, ju = [it EXCEPT ![t] = d[h]],
         NEW V, V \subseteq U \ {h}, NEW e, \A w \in V : e[w] = d[w]
  PROVE  Owned(V, e, ju, q, c)
<1>1. Owned(V, e, it, q, c)
  BY OwnedShrink, Zenon
<1>2. d[h] \in 0..c /\ \A w \in V : e[w] # d[h]
  BY DEF Owned, OwnWrappers
<1>3. ~Queued(q, d[h])
  BY Zenon DEF Owned, WrappersQueues
<1>4. \A u \in Threads : it[u] # d[h]
  BY Zenon DEF Owned, WrappersItems
<1> QED
  BY <1>1, <1>2, <1>3, <1>4, OwnedHold, ZenonT(20)

\* A package that nobody owns goes to the end of a queue.
LEMMA OwnedPut ==
  ASSUME NEW U, NEW d, NEW it, NEW q \in [Procs -> Seq(1..MaxObjects)], NEW c \in Nat,
         Owned(U, d, it, q, c), NEW p \in Procs, NEW o \in 1..MaxObjects, o <= c,
         NEW r, r = [q EXCEPT ![p] = Append(q[p], o)],
         \A w \in U : d[w] # o, ~Queued(q, o), \A t \in Threads : it[t] # o
  PROVE  Owned(U, d, it, r, c)
<1>1. ASSUME NEW s \in Procs, NEW i \in 1..Len(r[s])
      PROVE  \/ i \in 1..Len(q[s]) /\ r[s][i] = q[s][i]
             \/ s = p /\ i = Len(q[p]) + 1 /\ r[s][i] = o
  <2>1. q[p] \in Seq(1..MaxObjects)
    BY Zenon
  <2>2. CASE s = p
    BY <1>1, <2>1, <2>2
  <2>3. CASE s # p
    BY <1>1, <2>3, Zenon
  <2> QED
    BY <2>2, <2>3, Zenon
<1>2. \A x : Queued(r, x) => Queued(q, x) \/ x = o
  BY <1>1 DEF Queued
<1>3. OwnQueues(r, c)
  <2>1. ASSUME NEW s \in Procs, NEW i \in 1..Len(r[s]) PROVE r[s][i] <= c
    BY <1>1, <2>1, Zenon DEF Owned, OwnQueues
  <2>2. ASSUME NEW s \in Procs, NEW u \in Procs, NEW i \in 1..Len(r[s]),
               NEW j \in 1..Len(r[u]), r[s][i] = r[u][j]
        PROVE  s = u /\ i = j
    <3>1. CASE i \in 1..Len(q[s]) /\ r[s][i] = q[s][i]
      <4>1. r[s][i] # o
        BY <3>1, Zenon DEF Queued
      <4>2. j \in 1..Len(q[u]) /\ r[u][j] = q[u][j]
        BY <1>1, <2>2, <4>1, Zenon
      <4> QED
        BY <2>2, <3>1, <4>2, SMTT(30) DEF Owned, OwnQueues
    <3>2. CASE s = p /\ i = Len(q[p]) + 1 /\ r[s][i] = o
      <4>1. ~(j \in 1..Len(q[u]) /\ r[u][j] = q[u][j])
        BY <2>2, <3>2, Zenon DEF Queued
      <4>2. u = p /\ j = Len(q[p]) + 1
        BY <1>1, <4>1, Zenon
      <4> QED
        BY <3>2, <4>2, Zenon
    <3> QED
      BY <1>1, <3>1, <3>2, Zenon
  <2> QED
    BY <2>1, <2>2, Zenon DEF OwnQueues
<1>4. WrappersQueues(U, d, r)
  BY <1>2, Zenon DEF Owned, WrappersQueues
<1>5. ItemsQueues(it, r)
  BY <1>2, Zenon DEF Owned, ItemsQueues
<1> QED
  BY <1>3, <1>4, <1>5, Zenon DEF Owned

\* Nobody owns the package that was taken from the front of a queue.
LEMMA OwnedGet ==
  ASSUME NEW U, NEW d, NEW it, NEW q \in [Procs -> Seq(1..MaxObjects)], NEW c \in Nat,
         Owned(U, d, it, q, c), NEW p \in Procs, q[p] # << >>,
         NEW r, r = [q EXCEPT ![p] = Tail(q[p])]
  PROVE  /\ Owned(U, d, it, r, c)
         /\ Head(q[p]) \in 0..c /\ ~Queued(r, Head(q[p]))
         /\ \A w \in U : d[w] # Head(q[p])
         /\ \A u \in Threads : it[u] # Head(q[p])
<1> DEFINE o == Head(q[p])
<1>1. /\ q[p] \in Seq(1..MaxObjects) /\ Len(q[p]) > 0 /\ o = q[p][1] /\ 1 \in 1..Len(q[p])
      /\ o \in 1..MaxObjects
  OBVIOUS
<1>2. ASSUME NEW s \in Procs, NEW i \in 1..Len(r[s])
      PROVE  /\ s = p => i + 1 \in 1..Len(q[s]) /\ r[s][i] = q[s][i + 1]
             /\ s # p => i \in 1..Len(q[s]) /\ r[s][i] = q[s][i]
  <2>1. CASE s = p
    BY <1>1, <1>2, <2>1
  <2>2. CASE s # p
    BY <1>2, <2>2, Zenon
  <2> QED
    BY <2>1, <2>2, Zenon
<1>3. Queued(q, o) /\ \A x : Queued(r, x) => Queued(q, x)
  BY <1>1, <1>2 DEF Queued
<1>4. ~Queued(r, o)
  <2>1. ASSUME NEW s \in Procs, NEW i \in 1..Len(r[s]), r[s][i] = o PROVE FALSE
    BY <1>1, <1>2, <2>1 DEF Owned, OwnQueues
  <2> QED
    BY <2>1, Zenon DEF Queued
<1>5. o \in 0..c
  BY <1>1 DEF Owned, OwnQueues
<1>6. (\A w \in U : d[w] # o) /\ (\A u \in Threads : it[u] # o)
  BY <1>3, Zenon DEF Owned, WrappersQueues, ItemsQueues
<1>7. Owned(U, d, it, r, c)
  <2>1. OwnQueues(r, c)
    <3>1. ASSUME NEW s \in Procs, NEW i \in 1..Len(r[s]) PROVE r[s][i] <= c
      BY <1>2, <3>1 DEF Owned, OwnQueues
    <3>2. ASSUME NEW s \in Procs, NEW u \in Procs, NEW i \in 1..Len(r[s]),
                 NEW j \in 1..Len(r[u]), r[s][i] = r[u][j]
          PROVE  s = u /\ i = j
      BY <1>2, <3>2 DEF Owned, OwnQueues
    <3> QED
      BY <3>1, <3>2, Zenon DEF OwnQueues
  <2>2. WrappersQueues(U, d, r) /\ ItemsQueues(it, r)
    BY <1>3, Zenon DEF Owned, WrappersQueues, ItemsQueues
  <2> QED
    BY <2>1, <2>2, Zenon DEF Owned
<1> QED
  BY <1>4, <1>5, <1>6, <1>7, Zenon

-----------------------------------------------------------------------------
(***************************************************************************)
(* The steps.                                                              *)
(***************************************************************************)
Labels == {"wait", "alloc", "inflate", "exchange", "sweep", "acquired", "poll", "call",
           "release"}

ListTypes ==
  /\ head \in Wrappers \cup {Nil}
  /\ next \in [Wrappers -> Wrappers \cup {Nil}]
  /\ data \in [Wrappers -> 0..MaxObjects]
  /\ created \in 0..MaxObjects

ThreadTypes ==
  /\ pc \in [Threads -> Labels]
  /\ node \in [Threads -> Wrappers \cup {Nil}]
  /\ oldHead \in [Threads -> Wrappers \cup {Nil}]
  /\ left \in [Threads -> 0..Grow]
  /\ item \in [Threads -> 0..MaxObjects]

SessionTypes ==
  /\ peers \in Workloads /\ up \in BOOLEAN
  /\ live \in [Procs -> BOOLEAN] /\ arrived \in [Procs -> Nat]
  /\ recvBuf \in [Procs -> Seq(Nat)] /\ readPos \in [Procs -> Nat]

MessageTypes ==
  /\ turn \in Procs
  /\ package \in [1..MaxObjects -> [session : Procs, message : Nat, at : Nat]]
  /\ queue \in [Procs -> Seq(1..MaxObjects)]
  /\ accepted \in [Procs -> Seq(Nat)] /\ handled \in [Procs -> Seq(Nat)]

LEMMA TypeParts ==
  /\ TypeOK <=> ListTypes /\ ThreadTypes /\ SessionTypes /\ MessageTypes
  /\ TypeOK' <=> ListTypes' /\ ThreadTypes' /\ SessionTypes' /\ MessageTypes'
  BY Zenon DEF TypeOK, ListTypes, ThreadTypes, SessionTypes, MessageTypes, Labels

OwnedNow == Owned(Used, data, item, queue, created)

LEMMA OwnerParts ==
  /\ OwnerInv <=> /\ ListTypes /\ ThreadTypes /\ SessionTypes /\ MessageTypes
                  /\ Control /\ ListInv /\ OwnedNow
  /\ OwnerInv' <=> /\ ListTypes' /\ ThreadTypes' /\ SessionTypes' /\ MessageTypes'
                   /\ Control' /\ ListInv' /\ OwnedNow'
  BY TypeParts, Zenon DEF OwnerInv, OwnedNow

LEMMA OwnedNext == OwnedNow' <=> Owned(Used', data', item', queue', created')
  BY Zenon DEF OwnedNow

\* The types that the lemmas about owners ask for.
LEMMA PlaceTypes ==
  ASSUME ListTypes, ThreadTypes, MessageTypes
  PROVE  /\ item \in [Threads -> 0..MaxObjects]
         /\ queue \in [Procs -> Seq(1..MaxObjects)]
         /\ data \in [Wrappers -> 0..MaxObjects]
         /\ created \in Nat /\ created <= MaxObjects
         /\ Used \in SUBSET Wrappers
<1>1. item \in [Threads -> 0..MaxObjects]
  BY Zenon DEF ThreadTypes
<1>2. queue \in [Procs -> Seq(1..MaxObjects)]
  BY Zenon DEF MessageTypes
<1>3. data \in [Wrappers -> 0..MaxObjects] /\ created \in 0..MaxObjects
  BY Zenon DEF ListTypes
<1>4. created \in Nat /\ created <= MaxObjects
  BY <1>3
<1>5. \A t \in Threads : node[t] \in Wrappers \cup {Nil}
  BY Zenon DEF ThreadTypes
<1>6. Used \in SUBSET Wrappers
  BY <1>5, Zenon DEF Used, Inserting, Chain
<1> QED
  BY <1>1, <1>2, <1>3, <1>4, <1>6, Zenon

\* A step that touches neither the list nor the places of packages.
LEMMA QuietKeeps ==
  ASSUME ListInv, OwnedNow, UNCHANGED <<head, next, node, data, item, queue, created>>
  PROVE  ListInv' /\ OwnedNow'
<1>1. Used' = Used /\ Chain(head)' = Chain(head)
  BY ChainIs, Zenon
<1> QED
  BY <1>1, OwnedNext, Zenon DEF ListInv, OwnedNow

\* A step that makes no difference to the list.
LEMMA ListSame ==
  ASSUME ListInv, UNCHANGED <<head, next, node>>
  PROVE  ListInv' /\ Used' = Used
<1>1. Used' = Used /\ Chain(head)' = Chain(head)
  BY ChainIs, Zenon
<1> QED
  BY <1>1, Zenon DEF ListInv

\* A step of one thread, t, that leaves it in order keeps all threads in order.
LEMMA ControlKept ==
  ASSUME Control, NEW t \in Threads,
         \A u \in Threads \ {t} : /\ pc'[u] = pc[u] /\ left'[u] = left[u]
                                  /\ node'[u] = node[u] /\ item'[u] = item[u],
         \A q \in Procs \ {t} : readPos'[q] = readPos[q] /\ recvBuf'[q] = recvBuf[q],
         t \in Procs =>
           /\ pc'[t] \in {"wait", "alloc", "inflate", "exchange", "sweep", "acquired"}
           /\ IF pc'[t] = "wait" THEN readPos'[t] = 0 ELSE readPos'[t] < Len(recvBuf'[t]),
         t = App =>
           /\ pc'[t] \in {"poll", "call", "release", "exchange"} /\ left'[t] = 0
           /\ pc'[t] \in {"call", "release"} => item'[t] # Nil,
         pc'[t] = "inflate" => left'[t] > 0,
         pc'[t] = "exchange" => node'[t] # Nil,
         node'[t] # Nil => pc'[t] = "exchange"
  PROVE  Control'
<1>1. ASSUME NEW p \in Procs
      PROVE  /\ pc'[p] \in {"wait", "alloc", "inflate", "exchange", "sweep", "acquired"}
             /\ IF pc'[p] = "wait" THEN readPos'[p] = 0 ELSE readPos'[p] < Len(recvBuf'[p])
  BY ThreadSet DEF Control
<1>2. /\ pc'[App] \in {"poll", "call", "release", "exchange"} /\ left'[App] = 0
      /\ pc'[App] \in {"call", "release"} => item'[App] # Nil
  BY ThreadSet, Zenon DEF Control
<1>3. ASSUME NEW u \in Threads
      PROVE  /\ pc'[u] = "inflate" => left'[u] > 0
             /\ pc'[u] = "exchange" => node'[u] # Nil
             /\ node'[u] # Nil => pc'[u] = "exchange"
  BY DEF Control
<1> QED
  BY <1>1, <1>2, <1>3, Zenon DEF Control

\* What a step of alloc or insertHead leaves alone when the caller is p.
Outside == <<peers, live, arrived, recvBuf, readPos, queue, turn, accepted, handled, up>>

LEMMA AllocTestOwners ==
  ASSUME OwnerInv, NEW p \in Procs, AllocTest(p), UNCHANGED Outside, UNCHANGED package
  PROVE  OwnerInv'
<1>0. /\ ListTypes /\ ThreadTypes /\ SessionTypes /\ MessageTypes
      /\ Control /\ ListInv /\ OwnedNow
  BY OwnerParts, Zenon
<1>1. /\ UNCHANGED <<head, next, data, created, node, oldHead>>
      /\ item' = [item EXCEPT ![p] = Nil] /\ pc[p] = "alloc"
      /\ left' = [left EXCEPT ![p] = IF head = Nil THEN Grow ELSE 0]
      /\ pc' = [pc EXCEPT ![p] = IF head = Nil THEN "inflate" ELSE "sweep"]
  BY Zenon DEF AllocTest, list, Goto
<1>2. ListTypes' /\ SessionTypes' /\ MessageTypes'
  BY <1>0, <1>1, Zenon DEF Outside, ListTypes, SessionTypes, MessageTypes
<1>3. ThreadTypes'
  BY <1>0, <1>1, ThreadSet DEF ThreadTypes, Labels
<1>4. Control'
  <2>1. \A u \in Threads \ {p} : pc'[u] = pc[u] /\ left'[u] = left[u] /\ item'[u] = item[u]
    BY <1>0, <1>1, Zenon DEF ThreadTypes
  <2>2. /\ pc'[p] = IF head = Nil THEN "inflate" ELSE "sweep"
        /\ left'[p] = IF head = Nil THEN Grow ELSE 0
        /\ readPos[p] < Len(recvBuf[p]) /\ node[p] = Nil
    BY <1>0, <1>1, ThreadSet, Zenon DEF ThreadTypes, Control
  <2> QED
    BY <1>0, <1>1, <2>1, <2>2, ThreadSet, ControlKept DEF Outside
<1>5. ListInv' /\ Used' = Used
  BY <1>0, <1>1, ListSame, Zenon
<1>6. OwnedNow'
  <2>1. /\ item \in [Threads -> 0..MaxObjects] /\ queue \in [Procs -> Seq(1..MaxObjects)]
        /\ created \in Nat /\ p \in Threads
    BY <1>0, ThreadSet, PlaceTypes, Zenon
  <2>2. Owned(Used, data, [item EXCEPT ![p] = Nil], queue, created)
    BY <1>0, <2>1, OwnedLetGo, Zenon DEF OwnedNow
  <2> QED
    BY <1>1, <1>5, <2>2, OwnedNext, Zenon DEF Outside
<1> QED
  BY <1>2, <1>3, <1>4, <1>5, <1>6, OwnerParts, Zenon

\* Wrap: the wrapper is fresh, so it is neither on the list nor another thread's.
LEMMA WrapKeeps ==
  ASSUME OwnerInv, NEW t \in Threads, NEW o \in 1..MaxObjects, Wrap(t, o),
         node[t] = Nil, NEW w \in Fresh, node' = [node EXCEPT ![t] = w],
         data' = [data EXCEPT ![w] = o]
  PROVE  /\ w \in Wrappers \ Used /\ Used' = Used \cup {w}
         /\ ListInv' /\ data' \in [Wrappers -> 0..MaxObjects]
         /\ node' \in [Threads -> Wrappers \cup {Nil}]
         /\ oldHead' \in [Threads -> Wrappers \cup {Nil}]
<1>0. /\ ListTypes /\ ThreadTypes /\ SessionTypes /\ MessageTypes
      /\ Control /\ ListInv /\ OwnedNow
  BY OwnerParts, Zenon
<1>1. UNCHANGED <<head, next>> /\ oldHead' = [oldHead EXCEPT ![t] = head]
  BY Zenon DEF Wrap
<1>2. w \in Wrappers \ Used
  BY Zenon DEF Fresh
<1>3. \A u \in Threads : node'[u] = IF u = t THEN w ELSE node[u]
  BY <1>0, Zenon DEF ThreadTypes
<1>4. Used' = Used \cup {w}
  <2>1. {node'[u] : u \in Threads} \ {Nil} = ({node[u] : u \in Threads} \ {Nil}) \cup {w}
    BY <1>2, <1>3, Zenon
  <2> QED
    BY <1>1, <2>1, ChainIs, Zenon
<1>5. ListInv'
  <2>1. Chain(head)' = Chain(head)
    BY <1>1, ChainIs, Zenon
  <2>2. w \notin Chain(head) /\ \A u \in Threads : node[u] # w
    BY <1>2, Zenon DEF Used, Inserting
  <2> QED
    BY <1>0, <1>3, <2>1, <2>2 DEF ListInv
<1>6. /\ data' \in [Wrappers -> 0..MaxObjects]
      /\ node' \in [Threads -> Wrappers \cup {Nil}]
      /\ oldHead' \in [Threads -> Wrappers \cup {Nil}]
  BY <1>0, <1>1, <1>2 DEF ListTypes, ThreadTypes
<1> QED
  BY <1>2, <1>4, <1>5, <1>6, Zenon

LEMMA InflateOwners ==
  ASSUME OwnerInv, NEW p \in Procs, Inflate(p), UNCHANGED Outside, UNCHANGED package
  PROVE  OwnerInv'
<1>0. /\ ListTypes /\ ThreadTypes /\ SessionTypes /\ MessageTypes
      /\ Control /\ ListInv /\ OwnedNow
  BY OwnerParts, Zenon
<1> DEFINE o == created + 1
<1>1. /\ UNCHANGED <<head, next, item>>
      /\ created' = o /\ created < MaxObjects /\ pc[p] = "inflate"
      /\ left' = [left EXCEPT ![p] = @ - 1]
      /\ pc' = [pc EXCEPT ![p] = "exchange"]
      /\ Wrap(p, o)
  BY Zenon DEF Inflate, Wrap, Goto
<1>2. PICK w \in Fresh : node' = [node EXCEPT ![p] = w] /\ data' = [data EXCEPT ![w] = o]
  BY <1>1, Zenon DEF Wrap
<1>3. p \in Threads /\ node[p] = Nil /\ left[p] \in 1..Grow /\ readPos[p] < Len(recvBuf[p])
  BY <1>0, <1>1, ThreadSet DEF Control, ThreadTypes
<1>4. o \in 1..MaxObjects
  BY <1>0, <1>1 DEF ListTypes
<1>5. /\ w \in Wrappers \ Used /\ Used' = Used \cup {w}
      /\ ListInv' /\ data' \in [Wrappers -> 0..MaxObjects]
      /\ node' \in [Threads -> Wrappers \cup {Nil}]
      /\ oldHead' \in [Threads -> Wrappers \cup {Nil}]
  BY <1>1, <1>2, <1>3, <1>4, WrapKeeps, Zenon
<1>6. ListTypes' /\ SessionTypes' /\ MessageTypes'
  <2>1. ListTypes'
    BY <1>0, <1>1, <1>4, <1>5 DEF ListTypes
  <2>2. SessionTypes' /\ MessageTypes'
    BY <1>0, Zenon DEF Outside, SessionTypes, MessageTypes
  <2> QED
    BY <2>1, <2>2, Zenon
<1>7. ThreadTypes'
  <2>1. pc' \in [Threads -> Labels]
    BY <1>0, <1>1, Zenon DEF ThreadTypes, Labels
  <2>2. left' \in [Threads -> 0..Grow] /\ item' \in [Threads -> 0..MaxObjects]
    BY <1>0, <1>1, <1>3 DEF ThreadTypes
  <2> QED
    BY <1>5, <2>1, <2>2, Zenon DEF ThreadTypes
<1>8. Control'
  <2>1. \A u \in Threads \ {p} : /\ pc'[u] = pc[u] /\ left'[u] = left[u] /\ item'[u] = item[u]
                                 /\ node'[u] = node[u]
    BY <1>0, <1>1, <1>2, Zenon DEF ThreadTypes
  <2>2. pc'[p] = "exchange" /\ node'[p] # Nil
    BY <1>0, <1>1, <1>2, <1>3, <1>5, Zenon DEF ThreadTypes
  <2>3. UNCHANGED <<readPos, recvBuf>>
    BY Zenon DEF Outside
  <2> QED
    BY <1>0, <1>3, <2>1, <2>2, <2>3, ThreadSet, ControlKept, Zenon
<1>9. OwnedNow'
  <2>1. /\ \A v \in Used : data[v] # o
        /\ \A t \in Threads : item[t] # o /\ item[t] \in Nat
    BY <1>0, PlaceTypes DEF OwnedNow, Owned, OwnWrappers, OwnItems
  <2>2. \A q \in Procs : \A i \in 1..Len(queue[q]) : queue[q][i] \in Nat /\ queue[q][i] # o
    <3>1. ASSUME NEW q \in Procs, NEW i \in 1..Len(queue[q])
          PROVE  queue[q][i] \in Nat /\ queue[q][i] <= created
      <4>1. queue[q] \in Seq(1..MaxObjects)
        BY <1>0, PlaceTypes, Zenon
      <4>2. queue[q][i] \in 1..MaxObjects
        BY <4>1
      <4>3. queue[q][i] <= created
        BY <1>0, Zenon DEF OwnedNow, Owned, OwnQueues
      <4> QED
        BY <4>2, <4>3
    <3> QED
      BY <1>0, <3>1, PlaceTypes
  <2>3. ~Queued(queue, o)
    BY <2>2, Zenon DEF Queued
  <2>4. created \in Nat /\ o \in Nat /\ created <= o /\ o \in 1..o
    BY <1>0, PlaceTypes
  <2>5. Used \in SUBSET Wrappers /\ data \in [Wrappers -> 0..MaxObjects]
    BY <1>0, PlaceTypes, Zenon
  <2> HIDE DEF o
  <2>6. Owned(Used \cup {w}, data', item, queue, o)
    BY <1>0, <1>2, <1>5, <2>1, <2>2, <2>3, <2>4, <2>5, OwnedWrap, ZenonT(20) DEF OwnedNow
  <2> QED
    BY <1>1, <1>5, <2>6, OwnedNext, Zenon DEF Outside
<1> QED
  BY <1>5, <1>6, <1>7, <1>8, <1>9, OwnerParts, Zenon

LEMMA ReleaseOwners ==
  ASSUME OwnerInv, Release(App), package' = [package EXCEPT ![item[App]] = Blank],
         UNCHANGED Outside
  PROVE  OwnerInv'
<1>0. /\ ListTypes /\ ThreadTypes /\ SessionTypes /\ MessageTypes
      /\ Control /\ ListInv /\ OwnedNow
  BY OwnerParts, Zenon
<1> DEFINE o == item[App]
           ju == [item EXCEPT ![App] = Nil]
<1>1. /\ UNCHANGED <<head, next, created, left>> /\ pc[App] = "release"
      /\ pc' = [pc EXCEPT ![App] = "exchange"]
      /\ item' = ju /\ Wrap(App, o)
  BY Zenon DEF Release, Wrap, Goto
<1>2. PICK w \in Fresh : node' = [node EXCEPT ![App] = w] /\ data' = [data EXCEPT ![w] = o]
  BY <1>1, Zenon DEF Wrap
<1>3. App \in Threads /\ node[App] = Nil /\ left[App] = 0 /\ o \in 1..MaxObjects
  BY <1>0, <1>1, ThreadSet DEF Control, ThreadTypes
<1>5. /\ w \in Wrappers \ Used /\ Used' = Used \cup {w}
      /\ ListInv' /\ data' \in [Wrappers -> 0..MaxObjects]
      /\ node' \in [Threads -> Wrappers \cup {Nil}]
      /\ oldHead' \in [Threads -> Wrappers \cup {Nil}]
  BY <1>1, <1>2, <1>3, WrapKeeps, Zenon
<1>6. ListTypes' /\ SessionTypes' /\ MessageTypes'
  <2>1. ListTypes'
    BY <1>0, <1>1, <1>5, Zenon DEF ListTypes
  <2>2. SessionTypes'
    BY <1>0, Zenon DEF Outside, SessionTypes
  <2>3. package' \in [1..MaxObjects -> [session : Procs, message : Nat, at : Nat]]
    <3>1. Blank \in [session : Procs, message : Nat, at : Nat]
      BY ThreadSet, Zenon DEF Blank
    <3> QED
      BY <1>0, <1>3, <3>1, Zenon DEF MessageTypes
  <2>4. MessageTypes'
    BY <1>0, <2>3, Zenon DEF Outside, MessageTypes
  <2> QED
    BY <2>1, <2>2, <2>4, Zenon
<1>7. ThreadTypes'
  <2>1. pc' \in [Threads -> Labels]
    BY <1>0, <1>1, Zenon DEF ThreadTypes, Labels
  <2>2. left' \in [Threads -> 0..Grow] /\ item' \in [Threads -> 0..MaxObjects]
    BY <1>0, <1>1, <1>3 DEF ThreadTypes
  <2> QED
    BY <1>5, <2>1, <2>2, Zenon DEF ThreadTypes
<1>8. Control'
  <2>1. \A u \in Threads \ {App} : /\ pc'[u] = pc[u] /\ left'[u] = left[u]
                                   /\ item'[u] = item[u] /\ node'[u] = node[u]
    BY <1>0, <1>1, <1>2, Zenon DEF ThreadTypes
  <2>2. pc'[App] = "exchange" /\ node'[App] # Nil
    BY <1>0, <1>1, <1>2, <1>3, <1>5, Zenon DEF ThreadTypes
  <2>3. UNCHANGED <<readPos, recvBuf>>
    BY Zenon DEF Outside
  <2> QED
    BY <1>0, <1>1, <1>3, <2>1, <2>2, <2>3, ThreadSet, ControlKept
<1>9. OwnedNow'
  <2>1. Owned(Used, data, ju, queue, created)
    BY <1>0, <1>3, PlaceTypes, OwnedLetGo, Zenon DEF OwnedNow
  <2>2. \A t \in Threads : ju[t] # o /\ ju[t] \in Nat
    BY <1>0, <1>3, PlaceTypes DEF OwnedNow, Owned, OwnItems
  <2>3. \A q \in Procs : \A i \in 1..Len(queue[q]) : queue[q][i] \in Nat
    <3>1. ASSUME NEW q \in Procs, NEW i \in 1..Len(queue[q]) PROVE queue[q][i] \in Nat
      <4>1. queue[q] \in Seq(1..MaxObjects)
        BY <1>0, PlaceTypes, Zenon
      <4> QED
        BY <4>1
    <3> QED
      BY <3>1, Zenon
  <2>4. ~Queued(queue, o) /\ \A v \in Used : data[v] # o
    BY <1>0, <1>3, Zenon DEF OwnedNow, Owned, ItemsQueues, WrappersItems
  <2>5. Used \in SUBSET Wrappers /\ data \in [Wrappers -> 0..MaxObjects] /\ created \in Nat
    BY <1>0, PlaceTypes, Zenon
  <2>6. o \in 1..created /\ created <= created
    BY <1>0, <1>3, PlaceTypes DEF OwnedNow, Owned, OwnItems
  <2> HIDE DEF o, ju
  <2>7. Owned(Used \cup {w}, data', ju, queue, created)
    BY <1>2, <1>5, <2>1, <2>2, <2>3, <2>4, <2>5, <2>6, OwnedWrap, ZenonT(20)
  <2> QED
    BY <1>1, <1>5, <2>7, OwnedNext, Zenon DEF Outside
<1> QED
  BY <1>5, <1>6, <1>7, <1>8, <1>9, OwnerParts, Zenon

\* insertHead publishes its wrapper only in front of the head it linked to.
LEMMA ExchangeOwners ==
  ASSUME OwnerInv, NEW t \in Threads, NEW done, CompareExchange(t, done),
         \/ t \in Procs /\ done = "sweep"
         \/ t = App /\ done = "poll",
         UNCHANGED Outside, UNCHANGED package
  PROVE  OwnerInv'
<1>0. /\ ListTypes /\ ThreadTypes /\ SessionTypes /\ MessageTypes
      /\ Control /\ ListInv /\ OwnedNow
  BY OwnerParts, Zenon
<1>1. UNCHANGED <<data, created, left, item>> /\ pc[t] = "exchange"
  BY Zenon DEF CompareExchange
<1>2. SessionTypes' /\ MessageTypes' /\ UNCHANGED <<readPos, recvBuf, queue>>
  BY <1>0, Zenon DEF Outside, SessionTypes, MessageTypes
<1>3. CASE /\ head # oldHead[t] /\ oldHead' = [oldHead EXCEPT ![t] = head]
           /\ UNCHANGED <<head, next, node, pc>>
  <2>1. ListTypes' /\ ThreadTypes'
    BY <1>0, <1>1, <1>3, Zenon DEF ListTypes, ThreadTypes
  <2>2. Control'
    BY <1>0, <1>1, <1>2, <1>3, Zenon DEF Control
  <2>3. ListInv' /\ OwnedNow'
    BY <1>0, <1>1, <1>2, <1>3, QuietKeeps, Zenon
  <2> QED
    BY <1>2, <2>1, <2>2, <2>3, OwnerParts, Zenon
<1>4. CASE /\ head = oldHead[t] /\ head' = node[t]
           /\ next' = [next EXCEPT ![node[t]] = oldHead[t]]
           /\ node' = [node EXCEPT ![t] = Nil]
           /\ oldHead' = [oldHead EXCEPT ![t] = Nil]
           /\ pc' = [pc EXCEPT ![t] = IF left[t] > 0 THEN "inflate" ELSE done]
  <2> DEFINE n == node[t]
  <2>1. n \in Wrappers
    BY <1>0, <1>1, Zenon DEF Control, ThreadTypes
  <2>2. /\ next \in [Wrappers -> Wrappers \cup {Nil}] /\ head \in Wrappers \cup {Nil}
        /\ next' = [next EXCEPT ![n] = head] /\ head' = n
    BY <1>0, <1>4, Zenon DEF ListTypes
  <2>3. ListTypes'
    BY <1>0, <1>1, <2>1, <2>2, Zenon DEF ListTypes
  <2>4. pc' \in [Threads -> Labels]
    BY <1>0, <1>4, Zenon DEF ThreadTypes, Labels
  <2>5. ThreadTypes'
    <3>1. node' \in [Threads -> Wrappers \cup {Nil}] /\ oldHead' \in [Threads -> Wrappers \cup {Nil}]
      BY <1>0, <1>4, Zenon DEF ThreadTypes
    <3> QED
      BY <1>0, <1>1, <2>4, <3>1, Zenon DEF ThreadTypes
  <2>6. \A u \in Threads : node'[u] = IF u = t THEN Nil ELSE node[u]
    BY <1>0, <1>4, Zenon DEF ThreadTypes
  <2>7. Control'
    <3>1. \A u \in Threads \ {t} : pc'[u] = pc[u] /\ node'[u] = node[u]
      BY <1>0, <1>4, Zenon DEF ThreadTypes
    <3>2. pc'[t] = (IF left[t] > 0 THEN "inflate" ELSE done) /\ node'[t] = Nil
      BY <1>0, <1>4, Zenon DEF ThreadTypes
    <3>3. /\ t = App => left[t] = 0
          /\ t \in Procs => readPos[t] < Len(recvBuf[t])
      BY <1>0, <1>1, Zenon DEF Control
    <3> QED
      BY <1>0, <1>1, <1>2, <3>1, <3>2, <3>3, ThreadSet, ControlKept
  <2>8. ChainOf(next', head') \subseteq ChainOf(next, head) \cup {n}
    BY <2>1, <2>2, ChainInsert, Zenon
  <2>9. ListInv'
    <3>1. \A u \in Threads : node'[u] # Nil => u # t /\ node[u] # n /\ node'[u] = node[u]
      BY <1>0, <2>1, <2>6, Zenon DEF ListInv
    <3>2. \A u \in Threads : node'[u] \notin Chain(head)'
      <4>1. 0 \notin ChainOf(next', head')
        BY Zenon DEF ChainOf
      <4> QED
        BY <1>0, <2>8, <3>1, <4>1, ChainIs DEF ListInv
    <3> QED
      BY <1>0, <2>6, <3>2, Zenon DEF ListInv
  <2>10. OwnedNow'
    <3>1. Used' \subseteq Used
      BY <2>1, <2>6, <2>8, ChainIs, Zenon
    <3>2. Owned(Used', data, item, queue, created)
      BY <1>0, <3>1, OwnedShrink, Zenon DEF OwnedNow
    <3> QED
      BY <1>1, <1>2, <3>2, OwnedNext, Zenon
  <2> QED
    BY <1>2, <2>3, <2>5, <2>7, <2>9, <2>10, OwnerParts, Zenon
<1> QED
  BY <1>3, <1>4, Zenon DEF CompareExchange, Goto

\* sweep takes the whole list, of which the thread keeps the package at the head.
LEMMA SweepOwners ==
  ASSUME OwnerInv, NEW p \in Procs, Sweep(p), UNCHANGED Outside, UNCHANGED package
  PROVE  OwnerInv'
<1>0. /\ ListTypes /\ ThreadTypes /\ SessionTypes /\ MessageTypes
      /\ Control /\ ListInv /\ OwnedNow
  BY OwnerParts, Zenon
<1>1. UNCHANGED <<created, node, oldHead, left>> /\ pc[p] = "sweep"
  BY Zenon DEF Sweep, locals
<1>2. SessionTypes' /\ MessageTypes' /\ UNCHANGED <<readPos, recvBuf, queue>>
  BY <1>0, Zenon DEF Outside, SessionTypes, MessageTypes
<1>3. CASE /\ head = Nil /\ pc' = [pc EXCEPT ![p] = "acquired"]
           /\ UNCHANGED <<head, next, data, item>>
  <2>1. ListTypes' /\ ThreadTypes'
    BY <1>0, <1>1, <1>3, Zenon DEF ListTypes, ThreadTypes, Labels
  <2>2. Control'
    <3>1. \A u \in Threads \ {p} : pc'[u] = pc[u]
      BY <1>0, <1>3, Zenon DEF ThreadTypes
    <3>2. pc'[p] = "acquired" /\ node[p] = Nil /\ readPos[p] < Len(recvBuf[p])
      BY <1>0, <1>1, <1>3, ThreadSet, Zenon DEF ThreadTypes, Control
    <3> QED
      BY <1>0, <1>1, <1>2, <1>3, <3>1, <3>2, ThreadSet, ControlKept, Zenon
  <2>3. ListInv' /\ OwnedNow'
    BY <1>0, <1>1, <1>2, <1>3, QuietKeeps, Zenon
  <2> QED
    BY <1>2, <2>1, <2>2, <2>3, OwnerParts, Zenon
<1>4. CASE /\ head # Nil /\ head' = Nil /\ pc' = pc
           /\ next' = [w \in Wrappers |-> IF w \in Chain(head) THEN Nil ELSE next[w]]
           /\ data' = [w \in Wrappers |-> IF w \in Chain(head) THEN Nil ELSE data[w]]
           /\ item' = [item EXCEPT ![p] = data[head]]
  <2>1. ListTypes'
    BY <1>0, <1>1, <1>4 DEF ListTypes
  <2>2. head \in Wrappers /\ head \in Chain(head) /\ data[head] \in 0..MaxObjects
    BY <1>0, <1>4, ChainIs, ChainClosed, Zenon DEF ListTypes
  <2>3. ThreadTypes'
    BY <1>0, <1>1, <1>4, <2>2, Zenon DEF ThreadTypes
  <2>4. Control'
    <3>1. \A u \in Threads \ {p} : item'[u] = item[u]
      BY <1>0, <1>4, Zenon DEF ThreadTypes
    <3>2. node[p] = Nil /\ readPos[p] < Len(recvBuf[p])
      BY <1>0, <1>1, ThreadSet, Zenon DEF Control
    <3> QED
      BY <1>0, <1>1, <1>2, <1>4, <3>1, <3>2, ThreadSet, ControlKept, Zenon
  <2>5. Chain(head)' = {} /\ Used' = {node[u] : u \in Threads} \ {Nil}
    BY <1>1, <1>4, ChainIs, ChainEmpty, Zenon
  <2>6. ListInv'
    BY <1>0, <1>1, <2>5, Zenon DEF ListInv
  <2>7. OwnedNow'
    <3>1. Used' \subseteq Used \ {head} /\ head \in Used
      BY <1>0, <2>2, <2>5 DEF ListInv, Used, Inserting
    <3>2. \A w \in Used' : data'[w] = data[w]
      <4>1. ASSUME NEW w \in Used' PROVE w \in Wrappers /\ w \notin Chain(head)
        BY <1>0, <2>5, <4>1, Zenon DEF ListInv, ThreadTypes
      <4> QED
        BY <1>4, <4>1, Zenon
    <3>3. item \in [Threads -> 0..MaxObjects] /\ created \in Nat /\ p \in Threads
      BY <1>0, PlaceTypes, ThreadSet, Zenon
    <3>4. Owned(Used', data', item', queue, created)
      BY <1>0, <1>4, <3>1, <3>2, <3>3, OwnedTake, ZenonT(20) DEF OwnedNow
    <3> QED
      BY <1>1, <1>2, <3>4, OwnedNext, Zenon
  <2> QED
    BY <1>2, <2>1, <2>3, <2>4, <2>6, <2>7, OwnerParts, Zenon
<1> QED
  BY <1>3, <1>4, Zenon DEF Sweep, Goto, list

-----------------------------------------------------------------------------
LEMMA OwnersInit == Init => OwnerInv
<1> SUFFICES ASSUME Init PROVE OwnerInv
  BY Zenon
<1>1. ListTypes /\ ThreadTypes
  BY ThreadSet DEF Init, PoolInit, ListTypes, ThreadTypes, Labels
<1>2. SessionTypes /\ MessageTypes
  BY ThreadSet DEF Init, SessionTypes, MessageTypes, Blank
<1>3. Control
  BY ThreadSet, Zenon DEF Init, PoolInit, Control
<1>4. Used = {} /\ Chain(head) = {}
  BY ChainIs, ChainEmpty, Zenon DEF Init, PoolInit
<1>5. ListInv
  BY <1>4, Zenon DEF ListInv, Init, PoolInit
<1>6. OwnedNow
  <2>1. /\ \A p \in Procs : 1..Len(queue[p]) = {}
        /\ \A t \in Threads : item[t] = Nil
        /\ created = 0
    BY DEF Init, PoolInit
  <2>2. \A o : ~Queued(queue, o)
    BY <2>1, Zenon DEF Queued
  <2>3. OwnItems(item, created) /\ OwnQueues(queue, created)
    BY <2>1 DEF OwnItems, OwnQueues
  <2> QED
    BY Zenon, <1>4, <2>2, <2>3 DEF OwnedNow, Owned, OwnWrappers, WrappersItems, WrappersQueues,
                            ItemsQueues
<1> QED
  BY <1>1, <1>2, <1>3, <1>5, <1>6, OwnerParts, Zenon

-----------------------------------------------------------------------------
LEMMA OwnersStep == OwnerInv /\ [Next]_vars => OwnerInv'
<1>RecvOwners. ASSUME OwnerInv, NEW p \in Procs, Recv(p) PROVE OwnerInv'
  <2> USE <1>RecvOwners
  <2>0. /\ ListTypes /\ ThreadTypes /\ SessionTypes /\ MessageTypes
        /\ Control /\ ListInv /\ OwnedNow
    BY OwnerParts, Zenon
  <2>1. /\ UNCHANGED <<head, next, data, created, node, oldHead, left, item, peers, live,
                       readPos, package, queue, turn, accepted, handled, up>>
        /\ pc' = [pc EXCEPT ![p] = "alloc"] /\ pc[p] = "wait"
    BY Zenon DEF Recv, pool, list, locals, Goto
  <2>2. PICK n \in 1..(IF peers.lockstep THEN 1 ELSE MaxPackets) :
          /\ recvBuf' = [recvBuf EXCEPT ![p] = [i \in 1..n |-> arrived[p] + i]]
          /\ arrived' = [arrived EXCEPT ![p] = @ + n]
    BY Zenon DEF Recv
  <2>3. n \in Nat /\ n > 0
    OBVIOUS
  <2>4. [i \in 1..n |-> arrived[p] + i] \in Seq(Nat) /\ Len([i \in 1..n |-> arrived[p] + i]) = n
    <3>1. arrived[p] \in Nat
      BY <2>0, Zenon DEF SessionTypes
    <3> QED
      BY <2>3, <3>1
  <2>5. ListTypes' /\ ThreadTypes' /\ MessageTypes'
    BY <2>0, <2>1, Zenon DEF ListTypes, ThreadTypes, MessageTypes, Labels
  <2>6. SessionTypes'
    BY <2>0, <2>1, <2>2, <2>3, <2>4 DEF SessionTypes
  <2>7. Control'
    <3>1. \A q \in Procs : q # p => pc'[q] = pc[q] /\ recvBuf'[q] = recvBuf[q]
      BY <2>0, <2>1, <2>2, ThreadSet, Zenon DEF SessionTypes, ThreadTypes
    <3>2. pc'[p] = "alloc" /\ Len(recvBuf'[p]) = n /\ pc'[App] = pc[App] /\ readPos[p] = 0
      BY <2>0, <2>1, <2>2, <2>4, ThreadSet, Zenon DEF SessionTypes, ThreadTypes, Control
    <3> QED
      BY <2>0, <2>1, <2>3, <3>1, <3>2, ThreadSet DEF Control
  <2>8. ListInv' /\ OwnedNow'
    BY <2>0, <2>1, QuietKeeps, Zenon
  <2> QED
    BY <2>5, <2>6, <2>7, <2>8, OwnerParts, Zenon
<1>QuietOwners. ASSUME OwnerInv,
                       \/ \E p \in Procs : Disconnect(p) \/ NullPackage(p)
                       \/ UNCHANGED vars
                PROVE  OwnerInv'
  <2> USE <1>QuietOwners
  <2>0. /\ ListTypes /\ ThreadTypes /\ SessionTypes /\ MessageTypes
        /\ Control /\ ListInv /\ OwnedNow
    BY OwnerParts, Zenon
  <2>1. /\ UNCHANGED <<head, next, data, created, node, oldHead, left, item, pc, peers,
                       arrived, recvBuf, readPos, package, queue, turn, accepted, handled>>
        /\ live' = live \/ \E p \in Procs : live' = [live EXCEPT ![p] = FALSE]
        /\ up' = up \/ up' = FALSE
    BY Zenon DEF Disconnect, NullPackage, vars, pool, list, locals, session
  <2>2. ListTypes' /\ ThreadTypes' /\ MessageTypes'
    BY <2>0, <2>1, Zenon DEF ListTypes, ThreadTypes, MessageTypes
  <2>3. SessionTypes'
    BY <2>0, <2>1, Zenon DEF SessionTypes
  <2>4. Control'
    BY <2>0, <2>1, Zenon DEF Control
  <2>5. ListInv' /\ OwnedNow'
    BY <2>0, <2>1, QuietKeeps, Zenon
  <2> QED
    BY <2>2, <2>3, <2>4, <2>5, OwnerParts
<1>OnMessageOwners. ASSUME OwnerInv, OnMessage PROVE OwnerInv'
  <2> USE <1>OnMessageOwners
  <2>0. /\ ListTypes /\ ThreadTypes /\ SessionTypes /\ MessageTypes
        /\ Control /\ ListInv /\ OwnedNow
    BY OwnerParts, Zenon
  <2> DEFINE m == package[item[App]]
  <2>1. /\ UNCHANGED <<head, next, data, created, node, oldHead, left, item, peers, live,
                       arrived, recvBuf, readPos, package, queue, turn, accepted, up>>
        /\ pc' = [pc EXCEPT ![App] = "release"] /\ pc[App] = "call"
        /\ handled' = [handled EXCEPT ![m.session] = Append(@, m.message)]
    BY Zenon DEF OnMessage, pool, list, locals, session, Goto
  <2>2. m.session \in Procs /\ m.message \in Nat
    <3>1. item[App] \in 1..MaxObjects
      BY <2>0, <2>1, ThreadSet DEF Control, ThreadTypes
    <3> QED
      BY <2>0, <3>1, Zenon DEF MessageTypes
  <2>3. MessageTypes'
    <3>1. handled[m.session] \in Seq(Nat)
      BY <2>0, <2>2, Zenon DEF MessageTypes
    <3>2. Append(handled[m.session], m.message) \in Seq(Nat)
      BY <2>2, <3>1
    <3> HIDE DEF m
    <3>3. handled' \in [Procs -> Seq(Nat)]
      BY <2>0, <2>1, <2>2, <3>2, Zenon DEF MessageTypes
    <3> QED
      BY <2>0, <2>1, <3>3, Zenon DEF MessageTypes
  <2>4. ListTypes' /\ ThreadTypes' /\ SessionTypes'
    BY <2>0, <2>1, Zenon DEF ListTypes, ThreadTypes, SessionTypes, Labels
  <2>5. Control'
    BY <2>0, <2>1, ThreadSet, Zenon DEF Control, ThreadTypes
  <2>6. ListInv' /\ OwnedNow'
    BY <2>0, <2>1, QuietKeeps, Zenon
  <2> QED
    BY <2>3, <2>4, <2>5, <2>6, OwnerParts
<1>EnqueueOwners. ASSUME OwnerInv, NEW p \in Procs, Enqueue(p) PROVE OwnerInv'
  <2> USE <1>EnqueueOwners
  <2>0. /\ ListTypes /\ ThreadTypes /\ SessionTypes /\ MessageTypes
        /\ Control /\ ListInv /\ OwnedNow
    BY OwnerParts, Zenon
  <2> DEFINE o == item[p]
             k == readPos[p] + 1
             ju == [item EXCEPT ![p] = Nil]
  <2>1. /\ UNCHANGED <<head, next, data, created, node, oldHead, left, peers, live, arrived,
                       recvBuf, turn, handled, up>>
        /\ pc[p] = "acquired" /\ o # Nil /\ item' = ju /\ Fill(p, o) /\ Offer(p, o)
    BY Zenon DEF Enqueue, pool, list, locals
  <2>2. p \in Threads /\ o \in 1..MaxObjects /\ k \in 1..Len(recvBuf[p]) /\ node[p] = Nil
    <3>1. p \in Threads /\ pc[p] = "acquired" /\ o # Nil
      BY <2>1, ThreadSet, Zenon
    <3>2. o \in 0..MaxObjects
      BY <2>0, <3>1, Zenon DEF ThreadTypes
    <3>3. readPos[p] < Len(recvBuf[p]) /\ node[p] = Nil
      BY <2>0, <3>1, Zenon DEF Control
    <3>4. readPos[p] \in Nat /\ Len(recvBuf[p]) \in Nat
      BY <2>0 DEF SessionTypes
    <3> QED
      BY <3>1, <3>2, <3>3, <3>4
  <2>3. recvBuf[p][k] \in Nat /\ k \in Nat
    <3>1. recvBuf[p] \in Seq(Nat)
      BY <2>0, Zenon DEF SessionTypes
    <3> QED
      BY <2>2, <3>1
  <2>4. \/ /\ k < Len(recvBuf[p]) /\ readPos' = [readPos EXCEPT ![p] = k]
           /\ pc' = [pc EXCEPT ![p] = "alloc"]
        \/ /\ readPos' = [readPos EXCEPT ![p] = 0]
           /\ pc' = [pc EXCEPT ![p] = "wait"]
    BY Zenon DEF Enqueue, Goto
  <2>5. \/ UNCHANGED <<queue, accepted>>
        \/ /\ queue' = [queue EXCEPT ![p] = Append(queue[p], o)]
           /\ accepted' = [accepted EXCEPT ![p] = Append(accepted[p], recvBuf[p][k])]
    BY <2>1, Zenon DEF Offer
  <2>6. ListTypes'
    BY <2>0, <2>1, Zenon DEF ListTypes
  <2>7. ThreadTypes'
    <3>1. pc' \in [Threads -> Labels]
      BY <2>0, <2>4, Zenon DEF ThreadTypes, Labels
    <3>2. item' \in [Threads -> 0..MaxObjects]
      <4>1. item' = [item EXCEPT ![p] = 0]
        BY <2>1, Zenon
      <4>2. item \in [Threads -> 0..MaxObjects] /\ 0 \in 0..MaxObjects
        BY <2>0, PlaceTypes
      <4> QED
        BY <4>1, <4>2, Zenon
    <3> QED
      BY <2>0, <2>1, <3>1, <3>2, Zenon DEF ThreadTypes
  <2>8. SessionTypes'
    <3>1. readPos' \in [Procs -> Nat]
      BY <2>0, <2>3, <2>4, SMTT(30) DEF SessionTypes
    <3> QED
      BY <2>0, <2>1, <3>1, Zenon DEF SessionTypes
  <2>9. MessageTypes'
    <3> DEFINE m == [session |-> p, message |-> recvBuf[p][k], at |-> k]
    <3>1. m \in [session : Procs, message : Nat, at : Nat] /\ package' = [package EXCEPT ![o] = m]
      BY <2>1, <2>3, Zenon DEF Fill
    <3> HIDE DEF m
    <3>2. package' \in [1..MaxObjects -> [session : Procs, message : Nat, at : Nat]]
      BY <2>0, <2>2, <3>1, Zenon DEF MessageTypes
    <3>3. queue \in [Procs -> Seq(1..MaxObjects)] /\ accepted \in [Procs -> Seq(Nat)]
      BY <2>0, Zenon DEF MessageTypes
    <3> HIDE DEF o, k
    <3>4. Append(queue[p], o) \in Seq(1..MaxObjects) /\ Append(accepted[p], recvBuf[p][k]) \in Seq(Nat)
      BY <2>2, <2>3, <3>3
    <3>5. queue' \in [Procs -> Seq(1..MaxObjects)] /\ accepted' \in [Procs -> Seq(Nat)]
      BY <2>5, <3>3, <3>4, Zenon
    <3> QED
      BY <2>0, <2>1, <3>2, <3>5, Zenon DEF MessageTypes
  <2>10. Control'
    <3>1. \A u \in Threads \ {p} : pc'[u] = pc[u] /\ item'[u] = item[u]
      BY <2>0, <2>1, <2>4, Zenon DEF ThreadTypes
    <3>2. \A q \in Procs \ {p} : readPos'[q] = readPos[q]
      BY <2>0, <2>4, Zenon DEF SessionTypes
    <3>3. \/ pc'[p] = "alloc" /\ readPos'[p] < Len(recvBuf[p])
          \/ pc'[p] = "wait" /\ readPos'[p] = 0
      BY <2>0, <2>2, <2>4, Zenon DEF ThreadTypes, SessionTypes
    <3> HIDE DEF o, k, ju
    <3> QED
      BY <2>0, <2>1, <2>2, <3>1, <3>2, <3>3, ThreadSet, ControlKept
  <2>11. ListInv' /\ Used' = Used
    BY <2>0, <2>1, ListSame, Zenon
  <2>12. OwnedNow'
    <3>1. Owned(Used, data, ju, queue, created)
      BY <2>0, <2>2, PlaceTypes, OwnedLetGo, Zenon DEF OwnedNow
    <3>2. \A t \in Threads : ju[t] # o
      BY <2>0, <2>2, PlaceTypes DEF OwnedNow, Owned, OwnItems
    <3>3. ~Queued(queue, o) /\ (\A w \in Used : data[w] # o) /\ o <= created
      BY <2>0, <2>2, Zenon DEF OwnedNow, Owned, ItemsQueues, WrappersItems, OwnItems
    <3>4. queue \in [Procs -> Seq(1..MaxObjects)] /\ created \in Nat
      BY <2>0, PlaceTypes, Zenon
    <3> HIDE DEF o, ju
    <3>5. Owned(Used, data, ju, queue', created)
      <4>1. CASE queue' = [queue EXCEPT ![p] = Append(queue[p], o)]
        BY <2>2, <3>1, <3>2, <3>3, <3>4, <4>1, OwnedPut, ZenonT(20)
      <4>2. CASE queue' = queue
        BY <3>1, <4>2, Zenon
      <4> QED
        BY <2>5, <4>1, <4>2, Zenon
    <3> QED
      BY <2>1, <2>11, <3>5, OwnedNext, Zenon
  <2> QED
    BY <2>6, <2>7, <2>8, <2>9, <2>10, <2>11, <2>12, OwnerParts, Zenon
<1>PollOwners. ASSUME OwnerInv, Poll PROVE OwnerInv'
  <2> USE <1>PollOwners
  <2>0. /\ ListTypes /\ ThreadTypes /\ SessionTypes /\ MessageTypes
        /\ Control /\ ListInv /\ OwnedNow
    BY OwnerParts, Zenon
  <2>1. /\ UNCHANGED <<head, next, data, created, node, oldHead, left, peers, live, arrived,
                       recvBuf, readPos, package, accepted, handled, up>>
        /\ pc[App] = "poll" /\ turn' = After
    BY Zenon DEF Poll, pool, list, locals, session
  <2>2. turn \in Procs /\ turn' \in Procs /\ queue \in [Procs -> Seq(1..MaxObjects)]
    <3>1. turn \in Procs /\ queue \in [Procs -> Seq(1..MaxObjects)]
      BY <2>0, Zenon DEF MessageTypes
    <3>2. (turn + 1) % Processors \in Procs
      BY <3>1, PipelineAssumption DEF Procs
    <3> QED
      BY <2>1, <3>1, <3>2, Zenon DEF After
  <2>3. ListTypes' /\ SessionTypes'
    BY <2>0, <2>1, Zenon DEF ListTypes, SessionTypes
  <2>4. ListInv' /\ Used' = Used
    BY <2>0, <2>1, ListSame, Zenon
  <2>5. CASE UNCHANGED <<item, queue, pc>>
    <3>1. ThreadTypes' /\ Control'
      BY <2>0, <2>1, <2>5, Zenon DEF ThreadTypes, Control
    <3>2. MessageTypes'
      BY <2>0, <2>1, <2>2, <2>5, Zenon DEF MessageTypes
    <3>3. OwnedNow'
      BY <2>0, <2>1, <2>5, QuietKeeps, Zenon
    <3> QED
      BY <2>3, <2>4, <3>1, <3>2, <3>3, OwnerParts, Zenon
  <2>6. CASE /\ queue[turn] # << >>
             /\ item' = [item EXCEPT ![App] = Head(queue[turn])]
             /\ queue' = [queue EXCEPT ![turn] = Tail(queue[turn])]
             /\ pc' = [pc EXCEPT ![App] = "call"]
    <3> DEFINE o == Head(queue[turn])
    <3>1. o \in 1..MaxObjects /\ Tail(queue[turn]) \in Seq(1..MaxObjects)
      <4>1. queue[turn] \in Seq(1..MaxObjects) /\ queue[turn] # << >>
        BY <2>2, <2>6, Zenon
      <4> QED
        BY <4>1, FirstAndRest, Zenon
    <3>2. queue' \in [Procs -> Seq(1..MaxObjects)]
      BY <2>2, <2>6, <3>1, Zenon
    <3>3. MessageTypes'
      BY <2>0, <2>1, <2>2, <3>2, Zenon DEF MessageTypes
    <3>4. pc' \in [Threads -> Labels] /\ item' \in [Threads -> 0..MaxObjects]
      <4> HIDE DEF o
      <4>1. item' = [item EXCEPT ![App] = o]
        BY <2>6, Zenon DEF o
      <4>2. pc' = [pc EXCEPT ![App] = "call"]
        BY <2>6, Zenon
      <4>3. pc' \in [Threads -> Labels]
        BY <2>0, <4>2, Zenon DEF ThreadTypes, Labels
      <4>4. item \in [Threads -> 0..MaxObjects] /\ o \in 0..MaxObjects
        BY <2>0, <3>1, PlaceTypes
      <4> QED
        BY <4>1, <4>3, <4>4, Zenon
    <3>5. ThreadTypes'
      BY <2>0, <2>1, <3>4, Zenon DEF ThreadTypes
    <3>6. Control'
      <4>1. \A u \in Threads \ {App} : pc'[u] = pc[u] /\ item'[u] = item[u]
        BY <2>0, <2>6, Zenon DEF ThreadTypes
      <4>2. pc'[App] = "call" /\ item'[App] # Nil /\ node[App] = Nil /\ left[App] = 0
        BY <2>0, <2>1, <2>6, <3>1, ThreadSet DEF ThreadTypes, Control
      <4> QED
        BY <2>0, <2>1, <4>1, <4>2, ThreadSet, ControlKept, Zenon
    <3>7. OwnedNow'
      <4>1. created \in Nat /\ item \in [Threads -> 0..MaxObjects] /\ App \in Threads
        BY <2>0, PlaceTypes, ThreadSet, Zenon
      <4>2. /\ Owned(Used, data, item, queue', created)
            /\ o \in 0..created /\ ~Queued(queue', o)
            /\ \A w \in Used : data[w] # o
            /\ \A u \in Threads : item[u] # o
        BY <2>0, <2>2, <2>6, <4>1, OwnedGet, ZenonT(60) DEF OwnedNow
      <4> HIDE DEF o
      <4>3. item' = [item EXCEPT ![App] = o]
        BY <2>6, Zenon DEF o
      <4>4. Owned(Used, data, item', queue', created)
        BY <4>1, <4>2, <4>3, OwnedHold, ZenonT(20)
      <4> QED
        BY <2>1, <2>4, <4>4, OwnedNext, Zenon
    <3> QED
      BY <2>3, <2>4, <3>3, <3>5, <3>6, <3>7, OwnerParts, Zenon
  <2> QED
    BY <2>5, <2>6, Zenon DEF Poll, Goto
<1> SUFFICES ASSUME OwnerInv, [Next]_vars PROVE OwnerInv'
  BY Zenon
<1>1. CASE UNCHANGED vars
  BY <1>1, <1>QuietOwners, Zenon
<1>2. ASSUME NEW p \in Procs, Recv(p) \/ Disconnect(p) \/ Enqueue(p) \/ NullPackage(p)
      PROVE  OwnerInv'
  BY <1>2, <1>RecvOwners, <1>QuietOwners, <1>EnqueueOwners, Zenon
<1>3. ASSUME NEW p \in Procs, Acquire(p) PROVE OwnerInv'
  <2>1. /\ AllocTest(p) \/ Inflate(p) \/ CompareExchange(p, "sweep") \/ Sweep(p)
        /\ UNCHANGED Outside /\ UNCHANGED package /\ p \in Threads
    BY <1>3, ThreadSet, Zenon DEF Acquire, Outside, session
  <2> QED
    BY <2>1, AllocTestOwners, InflateOwners, ExchangeOwners, SweepOwners, Zenon
<1>4. CASE Poll \/ OnMessage
  BY <1>4, <1>PollOwners, <1>OnMessageOwners, Zenon
<1>5. CASE GiveBack
  <2>1. /\ \/ Release(App) /\ package' = [package EXCEPT ![item[App]] = Blank]
           \/ CompareExchange(App, "poll") /\ UNCHANGED package
        /\ UNCHANGED Outside /\ App \in Threads
    BY <1>5, ThreadSet, Zenon DEF GiveBack, Outside, session
  <2> QED
    BY <2>1, ReleaseOwners, ExchangeOwners, Zenon
<1> QED
  BY <1>1, <1>2, <1>3, <1>4, <1>5, Zenon DEF Next, ProcStep, AppStep

LEMMA OwnersAlways == Spec => []OwnerInv
  BY OwnersInit, OwnersStep, PTL DEF Spec

\* For any number of processors, objects and list nodes, the threads, the pool, the
\* packages and the queues keep their types.
THEOREM PipelineTypes == Spec => []TypeOK
<1>1. OwnerInv => TypeOK
  BY Zenon DEF OwnerInv
<1> QED
  BY <1>1, OwnersAlways, PTL

\* For any number of processors, whatever the interleaving of insertHead and sweep and
\* however soon operator new returns the address of a swept wrapper: a MsgPackage is
\* in one wrapper, in the hands of one thread or once in one queue.
THEOREM OneOwnerEach == Spec => []OneOwner
<1>1. ASSUME OwnerInv PROVE OneOwner
  <2>1. /\ OwnWrappers(Used, data, created) /\ OwnItems(item, created)
        /\ OwnQueues(queue, created) /\ WrappersItems(Used, data, item)
        /\ WrappersQueues(Used, data, queue) /\ ItemsQueues(item, queue)
    BY <1>1, Zenon DEF OwnerInv, Owned
  <2>2. ASSUME NEW p \in Procs, NEW i \in 1..Len(queue[p])
        PROVE  /\ \A w \in Used : data[w] # queue[p][i]
               /\ \A t \in Threads : item[t] # queue[p][i]
    BY <2>1, Zenon DEF WrappersQueues, ItemsQueues, Queued
  <2> QED
    BY <2>1, <2>2, Zenon DEF OneOwner, OwnWrappers, OwnItems, OwnQueues, WrappersItems
<1>2. OwnerInv => OneOwner
  BY <1>1, Zenon
<1> QED
  BY <1>2, OwnersAlways, PTL
=============================================================================
