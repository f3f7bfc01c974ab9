----------------------------- MODULE ObjectPool -----------------------------
(***************************************************************************)
(* ObjectPool with AtomicAlloc (libs/object_pool.hpp) over the lock-free   *)
(* list AtomicLinkedList / AtomicIntrusiveLinkedList.  The free objects    *)
(* hang in wrapper nodes on a singly linked list; alloc sweeps the whole   *)
(* list and keeps the object it saw last.                                  *)
(*                                                                         *)
(* One action per access to the shared head.  A wrapper is private to its  *)
(* thread before the compare-exchange that publishes it and after the      *)
(* exchange that takes it, so the writes to it go with those steps; its    *)
(* address is free again once it was swept and may come back at once.  A   *)
(* spurious failure of compare_exchange_weak changes nothing.  The callers *)
(* are in AppPipeline.                                                     *)
(***************************************************************************)
EXTENDS Integers, FiniteSets

CONSTANTS
  Threads,     \* the threads that use the pool
  Wrappers,    \* addresses of list nodes
  Grow,        \* objects made when the list is empty: 20 in the code
  MaxObjects   \* bound: objects made

Nil == 0

VARIABLES
  head,              \* head_
  next, data,        \* hook.next and data of a Wrapper
  created,           \* number of objects made; they are 1..created
  pc,                \* control of a thread
  node, oldHead,     \* insertHead: the wrapper to insert, the expected head
  left,              \* alloc: objects still to be made
  item               \* the object in the hands of a thread

list == <<head, next, data>>
locals == <<node, oldHead, left>>
pool == <<list, created, locals>>

PoolInit ==
  /\ head = Nil
  /\ next = [w \in Wrappers |-> Nil]
  /\ data = [w \in Wrappers |-> Nil]
  /\ created = 0
  /\ node = [t \in Threads |-> Nil]
  /\ oldHead = [t \in Threads |-> Nil]
  /\ left = [t \in Threads |-> 0]
  /\ item = [t \in Threads |-> Nil]

\* A set of wrappers that contains h and with a wrapper its successor.
Follows(h, S) ==
  /\ h # Nil => h \in S
  /\ \A w \in S : next[w] # Nil => next[w] \in S

\* The wrappers on the list that starts at h.
Chain(h) ==
  LET closed == {S \in SUBSET Wrappers : Follows(h, S)}
  IN  {w \in Wrappers : \A S \in closed : w \in S}

Inserting == {node[t] : t \in Threads} \ {Nil}
Used == Chain(head) \cup Inserting

Goto(t, label) == pc' = [pc EXCEPT ![t] = label]

-----------------------------------------------------------------------------
\* alloc: empty() decides whether objects are made first.
BugAllocNoTest(t) ==
  /\ pc[t] = "alloc"
  /\ Goto(t, "sweep")
  /\ UNCHANGED <<list, created, locals, item>>
AllocTest(t) ==
  /\ pc[t] = "alloc"
  /\ item' = [item EXCEPT ![t] = Nil]
  /\ left' = [left EXCEPT ![t] = IF head = Nil THEN Grow ELSE 0]
  /\ Goto(t, IF head = Nil THEN "inflate" ELSE "sweep")
  /\ UNCHANGED <<list, created, node, oldHead>>

\* The addresses operator new may return.  Those that no thread remembers as a head
\* are interchangeable, so one of them stands for all.
Fresh ==
  LET free == Wrappers \ Used
      remembered == {oldHead[t] : t \in Threads}
  IN  {w \in free : w \in remembered \/ \A v \in free \ remembered : w <= v}

\* insertHead up to the loop: the wrapper is made, the head is loaded.
Wrap(t, object) ==
  /\ \E w \in Fresh :
       /\ node' = [node EXCEPT ![t] = w]
       /\ data' = [data EXCEPT ![w] = object]
  /\ oldHead' = [oldHead EXCEPT ![t] = head]
  /\ Goto(t, "exchange")
  /\ UNCHANGED <<head, next>>

\* alloc: one object of the loop that fills the list.
Inflate(t) ==
  /\ pc[t] = "inflate" /\ created < MaxObjects
  /\ created' = created + 1
  /\ left' = [left EXCEPT ![t] = @ - 1]
  /\ Wrap(t, created')
  /\ UNCHANGED item

\* release: the object goes back to the list.
Release(t) ==
  /\ pc[t] = "release"
  /\ Wrap(t, item[t])
  /\ item' = [item EXCEPT ![t] = Nil]
  /\ UNCHANGED <<created, left>>

\* insertHead, one round of the loop; done is where a release continues.
BugExchangeUnchecked(t, done) ==
  /\ pc[t] = "exchange"
  /\ head' = node[t]
  /\ next' = [next EXCEPT ![node[t]] = oldHead[t]]
  /\ node' = [node EXCEPT ![t] = Nil]
  /\ oldHead' = [oldHead EXCEPT ![t] = Nil]
  /\ Goto(t, IF left[t] > 0 THEN "inflate" ELSE done)
  /\ UNCHANGED <<data, created, left, item>>
CompareExchange(t, done) ==
  /\ pc[t] = "exchange"
  /\ \/ /\ head = oldHead[t]
        /\ head' = node[t]
        /\ next' = [next EXCEPT ![node[t]] = oldHead[t]]
        /\ node' = [node EXCEPT ![t] = Nil]
        /\ oldHead' = [oldHead EXCEPT ![t] = Nil]
        /\ Goto(t, IF left[t] > 0 THEN "inflate" ELSE done)
     \/ /\ head # oldHead[t]
        /\ oldHead' = [oldHead EXCEPT ![t] = head]
        /\ UNCHANGED <<head, next, node, pc>>
  /\ UNCHANGED <<data, created, left, item>>

\* sweep: take the list, unlink it and call the function from the tail to the
\* head, until the list is found empty.  The function keeps the last object; the
\* others are in nobody's hands any more.
Sweep(t) ==
  LET taken == Chain(head) IN
  /\ pc[t] = "sweep"
  /\ \/ /\ head # Nil
        /\ head' = Nil
        /\ next' = [w \in Wrappers |-> IF w \in taken THEN Nil ELSE next[w]]
        /\ data' = [w \in Wrappers |-> IF w \in taken THEN Nil ELSE data[w]]
        /\ item' = [item EXCEPT ![t] = data[head]]
        /\ UNCHANGED pc
     \/ /\ head = Nil
        /\ Goto(t, "acquired")
        /\ UNCHANGED <<list, item>>
  /\ UNCHANGED <<created, locals>>
=============================================================================
