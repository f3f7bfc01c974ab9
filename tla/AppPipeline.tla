---------------------------- MODULE AppPipeline -----------------------------
(***************************************************************************)
(* The application pipeline of detail/epollnet.hpp (config.app_run): each  *)
(* processor puts its messages, as pooled MsgPackages, into its own queue, *)
(* and one application thread takes them out, calls on_message and gives   *)
(* the packages back to the pool.                                          *)
(*                                                                         *)
(* The queues are bounded first-in first-out channels, which is what       *)
(* SpscQueue is shown to implement.  One session per processor; its        *)
(* recvBuf holds the packets of the last recv, and parse_message returns   *)
(* a pointer into it, as EventHandler does.  Message k of a session is     *)
(* represented by k.                                                       *)
(***************************************************************************)
EXTENDS ObjectPool, Sequences

CONSTANTS
  Processors,    \* number of processor threads
  QueueSize,     \* slots of a MsgQueue: 100 in the code
  MaxPackets,    \* packets that fit in recvBuf
  Workloads      \* what the peers may do: the messages each of them has for its
                 \* session (a bound), and whether they wait for replies

Procs == 0..Processors-1
App == Processors

ASSUME PipelineAssumption ==
  /\ Processors \in Nat \ {0} /\ Threads = 0..Processors
  /\ Wrappers \subseteq Nat \ {0}
  /\ Grow \in Nat \ {0} /\ MaxObjects \in Nat
  /\ QueueSize \in Nat \ {0} /\ MaxPackets \in Nat \ {0}
  /\ Workloads \subseteq [messages : [Procs -> Nat], lockstep : BOOLEAN]

VARIABLES
  peers,         \* the workload of this behaviour
  live,          \* the session has not been released
  arrived,       \* messages received on a session
  recvBuf,       \* the packets in recvBuf
  readPos,       \* packets of recvBuf already taken
  package,       \* MsgPackage: the session, the message and where it is stored
  queue,         \* msgQueues: pointers to packages
  turn,          \* the queue app_run looks at next
  accepted,      \* history: the messages enqueued
  handled,       \* history: the messages passed to on_message
  up             \* no null pointer was dereferenced

Blank == [session |-> 0, message |-> 0, at |-> 0]

session == <<live, arrived, recvBuf, readPos>>
vars == <<pool, pc, item, peers, session, package, queue, turn, accepted, handled, up>>

Init ==
  /\ PoolInit
  /\ pc = [t \in Threads |-> IF t = App THEN "poll" ELSE "wait"]
  /\ peers \in Workloads
  /\ live = [p \in Procs |-> TRUE]
  /\ arrived = [p \in Procs |-> 0]
  /\ recvBuf = [p \in Procs |-> << >>]
  /\ readPos = [p \in Procs |-> 0]
  /\ package = [o \in 1..MaxObjects |-> Blank]
  /\ queue = [p \in Procs |-> << >>]
  /\ turn = 0
  /\ accepted = [p \in Procs |-> << >>]
  /\ handled = [p \in Procs |-> << >>]
  /\ up = TRUE

-----------------------------------------------------------------------------
\* A peer in lockstep has nothing more to say until its last message was handled.
Answered(p) == peers.lockstep => Len(handled[p]) = arrived[p]

\* recv fills recvBuf with the next packets of the session.
Recv(p) ==
  /\ up /\ pc[p] = "wait" /\ live[p] /\ Answered(p)
  /\ \E n \in 1..(IF peers.lockstep THEN 1 ELSE MaxPackets) :
       /\ arrived[p] + n <= peers.messages[p]
       /\ recvBuf' = [recvBuf EXCEPT ![p] = [i \in 1..n |-> arrived[p] + i]]
       /\ arrived' = [arrived EXCEPT ![p] = @ + n]
  /\ Goto(p, "alloc")
  /\ UNCHANGED <<pool, item, peers, live, readPos, package, queue, turn, accepted, handled, up>>

\* recv returns 0: the session is closed and released.
Disconnect(p) ==
  /\ up /\ pc[p] = "wait" /\ live[p] /\ Answered(p)
  /\ live' = [live EXCEPT ![p] = FALSE]
  /\ UNCHANGED <<pool, pc, item, peers, arrived, recvBuf, readPos, package, queue,
                 turn, accepted, handled, up>>

\* The package o gets the message at the read position.
BugFillNothing(p, o) == UNCHANGED package
Fill(p, o) ==
  LET at == readPos[p] + 1 IN
  package' = [package EXCEPT ![o] = [session |-> p, message |-> recvBuf[p][at], at |-> at]]

\* The queue takes the package o unless it is full.
BugOfferOneShort(p, o) ==
  \/ /\ Len(queue[p]) + 1 < QueueSize
     /\ queue' = [queue EXCEPT ![p] = Append(@, o)]
     /\ accepted' = [accepted EXCEPT ![p] = Append(@, recvBuf[p][readPos[p] + 1])]
  \/ /\ Len(queue[p]) + 1 >= QueueSize
     /\ UNCHANGED <<queue, accepted>>
Offer(p, o) ==
  \/ /\ Len(queue[p]) < QueueSize
     /\ queue' = [queue EXCEPT ![p] = Append(@, o)]
     /\ accepted' = [accepted EXCEPT ![p] = Append(@, recvBuf[p][readPos[p] + 1])]
  \/ /\ Len(queue[p]) >= QueueSize
     /\ UNCHANGED <<queue, accepted>>

\* The package is filled in and enqueued; whether that worked is not looked at.
Enqueue(p) ==
  /\ up /\ pc[p] = "acquired" /\ item[p] # Nil
  /\ Fill(p, item[p])
  /\ Offer(p, item[p])
  /\ item' = [item EXCEPT ![p] = Nil]
  /\ \/ /\ readPos[p] + 1 < Len(recvBuf[p])
        /\ readPos' = [readPos EXCEPT ![p] = @ + 1]
        /\ Goto(p, "alloc")
     \/ /\ readPos[p] + 1 = Len(recvBuf[p])
        /\ readPos' = [readPos EXCEPT ![p] = 0]
        /\ Goto(p, "wait")
  /\ UNCHANGED <<pool, peers, live, arrived, recvBuf, turn, handled, up>>

\* acquire returned null, and the package is written to all the same.
NullPackage(p) ==
  /\ up /\ pc[p] = "acquired" /\ item[p] = Nil
  /\ up' = FALSE
  /\ UNCHANGED <<pool, pc, item, peers, session, package, queue, turn, accepted, handled>>

-----------------------------------------------------------------------------
\* app_run looks at one queue after the other; it sleeps when one is empty.
BugAfterStays == IF queue[turn] = << >> THEN turn ELSE (turn + 1) % Processors
BugAfterNoWrap == turn + 1
After == (turn + 1) % Processors

Poll ==
  /\ up /\ pc[App] = "poll"
  /\ turn' = After
  /\ \/ /\ queue[turn] # << >>
        /\ item' = [item EXCEPT ![App] = Head(queue[turn])]
        /\ queue' = [queue EXCEPT ![turn] = Tail(@)]
        /\ Goto(App, "call")
     \/ /\ queue[turn] = << >>
        /\ UNCHANGED <<item, queue, pc>>
  /\ UNCHANGED <<pool, peers, session, package, accepted, handled, up>>

OnMessage ==
  LET m == package[item[App]] IN
  /\ up /\ pc[App] = "call"
  /\ handled' = [handled EXCEPT ![m.session] = Append(@, m.message)]
  /\ Goto(App, "release")
  /\ UNCHANGED <<pool, item, peers, session, package, queue, turn, accepted, up>>

-----------------------------------------------------------------------------
Acquire(p) ==
  /\ up
  /\ AllocTest(p) \/ Inflate(p) \/ CompareExchange(p, "sweep") \/ Sweep(p)
  /\ UNCHANGED <<peers, session, package, queue, turn, accepted, handled, up>>

\* release destroys the package before it inserts it in the list.
GiveBack ==
  /\ up
  /\ \/ /\ Release(App)
        /\ package' = [package EXCEPT ![item[App]] = Blank]
     \/ /\ CompareExchange(App, "poll")
        /\ UNCHANGED package
  /\ UNCHANGED <<peers, session, queue, turn, accepted, handled, up>>

ProcStep(p) == Acquire(p) \/ Enqueue(p) \/ NullPackage(p)
AppStep == Poll \/ OnMessage \/ GiveBack

Next ==
  \/ \E p \in Procs : Recv(p) \/ Disconnect(p) \/ ProcStep(p)
  \/ AppStep

Spec == Init /\ [][Next]_vars

\* The threads keep running; peers may stop at any time.
FairSpec == Spec /\ WF_vars(AppStep) /\ \A p \in Procs : WF_vars(ProcStep(p))

-----------------------------------------------------------------------------
\* Every variable has its type.
TypeOK ==
  /\ head \in Wrappers \cup {Nil}
  /\ next \in [Wrappers -> Wrappers \cup {Nil}]
  /\ data \in [Wrappers -> 0..MaxObjects]
  /\ created \in 0..MaxObjects
  /\ pc \in [Threads -> {"wait", "alloc", "inflate", "exchange", "sweep", "acquired",
                         "poll", "call", "release"}]
  /\ node \in [Threads -> Wrappers \cup {Nil}]
  /\ oldHead \in [Threads -> Wrappers \cup {Nil}]
  /\ left \in [Threads -> 0..Grow]
  /\ item \in [Threads -> 0..MaxObjects]
  /\ peers \in Workloads /\ up \in BOOLEAN
  /\ live \in [Procs -> BOOLEAN] /\ arrived \in [Procs -> Nat] /\ turn \in Procs
  /\ recvBuf \in [Procs -> Seq(Nat)] /\ readPos \in [Procs -> Nat]
  /\ package \in [1..MaxObjects -> [session : Procs, message : Nat, at : Nat]]
  /\ queue \in [Procs -> Seq(1..MaxObjects)]
  /\ accepted \in [Procs -> Seq(Nat)] /\ handled \in [Procs -> Seq(Nat)]

\* A package is in one place at a time: in one wrapper of the list or about to go
\* there, in the hands of one thread, or once in one queue.  The pool never gives
\* out an object that someone still uses, whatever the interleaving of insertHead
\* and sweep and however soon the addresses of wrappers come back.
OneOwner ==
  LET used == Used IN
  /\ \A v, w \in used : data[v] = data[w] => v = w
  /\ \A t, u \in Threads : item[t] = item[u] /\ item[t] # Nil => t = u
  /\ \A w \in used, t \in Threads : data[w] # item[t]
  /\ \A p, q \in Procs : \A i \in 1..Len(queue[p]), j \in 1..Len(queue[q]) :
       queue[p][i] = queue[q][j] => p = q /\ i = j
  /\ \A p \in Procs : \A i \in 1..Len(queue[p]) :
       /\ \A w \in used : data[w] # queue[p][i]
       /\ \A t \in Threads : item[t] # queue[p][i]

\* The messages of session p that are on their way to on_message.
InHands(p) ==
  IF pc[App] = "call" /\ package[item[App]].session = p
    THEN <<package[item[App]].message>> ELSE << >>
OnTheWay(p) == InHands(p) \o [i \in 1..Len(queue[p]) |-> package[queue[p][i]].message]

\* End to end: on_message gets the enqueued messages of a session, each once and
\* in their order, with the package contents the processor wrote.
EndToEnd == \A p \in Procs : handled[p] \o OnTheWay(p) = accepted[p]

\* With one processor that receives, acquire never returns null: only the sweep of
\* another processor can empty the list between the test and the sweep of alloc.
NeverNull == (\E p \in Procs : \A q \in Procs \ {p} : arrived[q] = 0) => up

\* With peers in lockstep, on_message is called on a session that exists with a
\* message that is still in recvBuf, and no message is refused by a full queue.
MessageIntact ==
  peers.lockstep =>
    /\ pc[App] = "call" =>
         LET m == package[item[App]] IN live[m.session] /\ recvBuf[m.session][m.at] = m.message
    /\ \A p \in Procs : pc[p] = "wait" => Len(accepted[p]) = arrived[p]

\* Every message that was enqueued reaches on_message.
AllHandled ==
  \A p \in Procs :
    (Len(handled[p]) < Len(accepted[p])) ~> (handled[p] = accepted[p] \/ ~up)
=============================================================================
