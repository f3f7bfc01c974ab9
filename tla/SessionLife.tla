---------------------------- MODULE SessionLife -----------------------------
(***************************************************************************)
(* The life of a session in detail/epollnet.hpp: Listener::run and         *)
(* Connector::connect create it, Scheduler::push hands it to a processor,  *)
(* Processor::run serves its events, closes its socket and releases it.    *)
(*                                                                         *)
(* The kernel is modelled as far as the code depends on it: a socket call  *)
(* takes the lowest free descriptor, closing a descriptor removes it from  *)
(* its epoll set, and epoll is level-triggered.  A connection is named by  *)
(* the session it was made for.  What a session receives and sends is in   *)
(* RecvFraming and WritePath; here it only counts that data is there.      *)
(***************************************************************************)
EXTENDS Integers, FiniteSets

CONSTANTS
  Threads,          \* Scheduler::threads, the number of processors
  Fds,              \* the descriptors sessions can get
  Sessions,         \* session objects, in the order the factory makes them
  Acceptors,        \* the threads that make sessions: "listener", "main"
  Endings,          \* how a connection may end: "fin", "rst", "hup"
  MaxWaitEvent,     \* MAX_WAIT_EVENT
  OnConnectSends,   \* the application's on_connect calls async_send
  FewSessions,      \* bound: the sessions made when the application closes, too
  AppCloses         \* whether the application may call close() or TCPService::stop

ASSUME LifeAssumption ==
  /\ Threads \in Nat \ {0} /\ MaxWaitEvent \in Nat \ {0}
  /\ Fds \subseteq Nat /\ Sessions \subseteq Nat \ {0}
  /\ Acceptors \subseteq {"listener", "main"}
  /\ Endings \subseteq {"fin", "rst", "hup"}
  /\ OnConnectSends \in BOOLEAN /\ AppCloses \subseteq BOOLEAN
  /\ FewSessions \subseteq Sessions

Procs == 0..Threads-1
None == 0      \* no session: a free descriptor, or one that is not watched
Bare == -1     \* a socket that has no session (yet)
NoFd == -1

VARIABLES
  status,           \* of a session object: "none", "live", "released"
  fdOf, passive,    \* EventHandler::fd, EventHandler::isPassive
  owner,            \* whose connection a descriptor refers to
  watch, armed,     \* epoll: the session registered for a descriptor; for EPOLLOUT too
  inbox, ended,     \* unread data on a connection; how the peer ended it
  acc,              \* control of an acceptor and the session it works on
  conFd,            \* Connector::fd
  batch,            \* events returned by epoll_wait, not yet handled
  cur,              \* control of a processor and the session it works on
  appCloses,        \* in this behaviour the application may close
  up                \* the process has not been terminated

kernel == <<owner, watch, armed>>
peer == <<inbox, ended>>
object == <<status, fdOf, passive>>
vars == <<object, kernel, peer, acc, conFd, batch, cur, appCloses, up>>

Idle == [pc |-> "idle", s |-> None]

Init ==
  /\ status = [s \in Sessions |-> "none"]
  /\ fdOf = [s \in Sessions |-> NoFd]
  /\ passive = [s \in Sessions |-> FALSE]
  /\ owner = [fd \in Fds |-> None]
  /\ watch = [fd \in Fds |-> None]
  /\ armed = [fd \in Fds |-> FALSE]
  /\ inbox = [s \in Sessions |-> FALSE]
  /\ ended = [s \in Sessions |-> "no"]
  /\ acc = [a \in Acceptors |-> Idle]
  /\ conFd = NoFd
  /\ batch = [p \in Procs |-> {}]
  /\ cur = [p \in Procs |-> Idle]
  /\ appCloses \in AppCloses
  /\ up = TRUE

-----------------------------------------------------------------------------
FreeFds == {fd \in Fds : owner[fd] = None}
Unmade == {s \in (IF appCloses THEN FewSessions ELSE Sessions) : status[s] = "none"}

Lowest(x, S) == x \in S /\ \A y \in S : x <= y

\* factory->create, and the fields the acceptor sets.
Create(a, s, fd) ==
  /\ status' = [status EXCEPT ![s] = "live"]
  /\ fdOf' = [fdOf EXCEPT ![s] = fd]
  /\ passive' = [passive EXCEPT ![s] = (a = "listener")]
  /\ owner' = [owner EXCEPT ![fd] = s]
  /\ acc' = [acc EXCEPT ![a] = [pc |-> "push", s |-> s]]

Accept ==
  /\ up /\ "listener" \in Acceptors
  /\ acc["listener"].pc = "idle"
  /\ \E s \in Sessions, fd \in Fds :
       Lowest(s, Unmade) /\ Lowest(fd, FreeFds) /\ Create("listener", s, fd)
  /\ UNCHANGED <<watch, armed, peer, conFd, batch, cur, appCloses, up>>

\* Any error of accept but EAGAIN is thrown out of the thread.
AcceptThrows ==
  /\ up /\ "listener" \in Acceptors
  /\ acc["listener"].pc = "idle"
  /\ up' = FALSE
  /\ UNCHANGED <<object, kernel, peer, acc, conFd, batch, cur, appCloses>>

Connect ==
  /\ up /\ "main" \in Acceptors
  /\ acc["main"].pc = "idle"
  /\ Unmade # {}
  /\ \E fd \in Fds : Lowest(fd, FreeFds) /\ conFd' = fd
  /\ owner' = [owner EXCEPT ![conFd'] = Bare]
  /\ acc' = [acc EXCEPT !["main"].pc = "connect"]
  /\ UNCHANGED <<object, watch, armed, peer, batch, cur, appCloses, up>>

Connected ==
  /\ up /\ "main" \in Acceptors
  /\ acc["main"].pc = "connect"
  /\ \E s \in Sessions : Lowest(s, Unmade) /\ Create("main", s, conFd)
  /\ UNCHANGED <<watch, armed, peer, conFd, batch, cur, appCloses, up>>

\* The socket of a failed connect is not closed.
ConnectFails ==
  /\ up /\ "main" \in Acceptors
  /\ acc["main"].pc = "connect"
  /\ acc' = [acc EXCEPT !["main"] = Idle]
  /\ UNCHANGED <<object, kernel, peer, conFd, batch, cur, appCloses, up>>

-----------------------------------------------------------------------------
\* epoll_ctl(EPOLL_CTL_MOD) for the session's descriptor.
Mod(s, out) ==
  LET fd == fdOf[s] IN
  IF watch[fd] = None
    THEN UNCHANGED <<watch, armed>>
    ELSE /\ watch' = [watch EXCEPT ![fd] = s]
         /\ armed' = [armed EXCEPT ![fd] = out]

\* Scheduler::push, the registration.  The result of epoll_ctl is ignored.
Push(a) ==
  LET s == acc[a].s
      fd == fdOf[s] IN
  /\ up /\ acc[a].pc = "push"
  /\ IF owner[fd] = None \/ watch[fd] # None
       THEN UNCHANGED <<watch, armed>>
       ELSE /\ watch' = [watch EXCEPT ![fd] = s]
            /\ armed' = [armed EXCEPT ![fd] = FALSE]
  /\ acc' = [acc EXCEPT ![a].pc = "on_connect"]
  /\ UNCHANGED <<object, owner, peer, conFd, batch, cur, appCloses, up>>

\* Scheduler::push, the callback.
OnConnect(a) ==
  /\ up /\ acc[a].pc = "on_connect"
  /\ IF OnConnectSends THEN Mod(acc[a].s, TRUE) ELSE UNCHANGED <<watch, armed>>
  /\ acc' = [acc EXCEPT ![a] = Idle]
  /\ UNCHANGED <<object, owner, peer, conFd, batch, cur, appCloses, up>>

-----------------------------------------------------------------------------
Connection(s) == status[s] = "live" /\ owner[fdOf[s]] = s

PeerSends(s) ==
  /\ up /\ Connection(s) /\ ended[s] = "no"
  /\ inbox' = [inbox EXCEPT ![s] = TRUE]
  /\ UNCHANGED <<object, kernel, ended, acc, conFd, batch, cur, appCloses, up>>

PeerEnds(s) ==
  /\ up /\ Connection(s) /\ ended[s] = "no"
  /\ \E how \in Endings : ended' = [ended EXCEPT ![s] = how]
  /\ inbox' = [inbox EXCEPT ![s] = @ /\ ended'[s] = "fin"]
  /\ UNCHANGED <<object, kernel, acc, conFd, batch, cur, appCloses, up>>

\* The branch of Processor::run that the events of a descriptor lead to.  A poll
\* during a reset can see the error before the end of the stream.
Reported(fd) ==
  LET o == owner[fd]
      is(e, condition) == IF condition THEN {e} ELSE {} IN
  IF o \notin Sessions \/ watch[fd] = None THEN {}
  ELSE is("in", inbox[o] \/ ended[o] \in {"fin", "rst"})
       \cup is("out", armed[fd] /\ ~inbox[o] /\ ended[o] # "fin")
       \cup is("err", ended[o] = "rst")
       \cup is("other", ended[o] = "hup" /\ ~armed[fd])

\* epoll_wait: some of the ready descriptors, no more than fit.
BugWaitAnyProcessor(p, ready) ==
  /\ up /\ cur[p].pc = "idle" /\ batch[p] = {}
  /\ ready # {} /\ Cardinality(ready) <= MaxWaitEvent
  /\ \E event \in [ready -> {"in", "out", "err", "other"}] :
       /\ \A fd \in ready : event[fd] \in Reported(fd)
       /\ batch' = [batch EXCEPT ![p] = {<<watch[fd], event[fd]>> : fd \in ready}]
  /\ UNCHANGED <<object, kernel, peer, acc, conFd, cur, appCloses, up>>
Wait(p, ready) ==
  /\ up /\ cur[p].pc = "idle" /\ batch[p] = {}
  /\ ready # {} /\ Cardinality(ready) <= MaxWaitEvent
  /\ \A fd \in ready : fd % Threads = p
  /\ \E event \in [ready -> {"in", "out", "err", "other"}] :
       /\ \A fd \in ready : event[fd] \in Reported(fd)
       /\ batch' = [batch EXCEPT ![p] = {<<watch[fd], event[fd]>> : fd \in ready}]
  /\ UNCHANGED <<object, kernel, peer, acc, conFd, cur, appCloses, up>>

-----------------------------------------------------------------------------
\* The loop of Processor::run takes the next event of the batch.
BugHandleKeepsEvent(p, s, event) ==
  /\ up /\ cur[p].pc = "idle"
  /\ <<s, event>> \in batch[p]
  /\ UNCHANGED batch
Handle(p, s, event) ==
  /\ up /\ cur[p].pc = "idle"
  /\ <<s, event>> \in batch[p]
  /\ batch' = [batch EXCEPT ![p] = @ \ {<<s, event>>}]

\* recv on a descriptor finds data; or it blocks, for the socket of a connector
\* is not made non-blocking.
HasData(fd) == owner[fd] \in Sessions /\ inbox[owner[fd]]
Blocks(fd) ==
  /\ owner[fd] \in Sessions /\ ~passive[owner[fd]]
  /\ ended[owner[fd]] = "no" /\ ~inbox[owner[fd]]

\* recv returns data; on_recv may call async_send.
HandleData(p, s) ==
  /\ Handle(p, s, "in")
  /\ HasData(fdOf[s])
  /\ inbox' = [inbox EXCEPT ![owner[fdOf[s]]] = FALSE]
  /\ Mod(s, TRUE) \/ UNCHANGED <<watch, armed>>
  /\ UNCHANGED <<object, owner, ended, acc, conFd, cur, appCloses, up>>

\* recv returns 0 or -1.
BugHandleEndOnData(p, s) ==
  /\ Handle(p, s, "in")
  /\ ~Blocks(fdOf[s])
  /\ cur' = [cur EXCEPT ![p] = [pc |-> "del", s |-> s]]
  /\ UNCHANGED <<object, kernel, peer, acc, conFd, appCloses, up>>
BugHandleEndByFd(p, s) ==
  /\ Handle(p, s, "in")
  /\ ~HasData(fdOf[s]) /\ ~Blocks(fdOf[s])
  /\ cur' = [cur EXCEPT ![p] = [pc |-> "del", s |-> fdOf[s]]]
  /\ UNCHANGED <<object, kernel, peer, acc, conFd, appCloses, up>>
HandleEnd(p, s) ==
  /\ Handle(p, s, "in")
  /\ ~HasData(fdOf[s]) /\ ~Blocks(fdOf[s])
  /\ cur' = [cur EXCEPT ![p] = [pc |-> "del", s |-> s]]
  /\ UNCHANGED <<object, kernel, peer, acc, conFd, appCloses, up>>

\* The pending data is sent; EPOLLOUT stays on after EAGAIN.
HandleOut(p, s) ==
  /\ Handle(p, s, "out")
  /\ \E again \in BOOLEAN : Mod(s, again)
  /\ UNCHANGED <<object, owner, peer, acc, conFd, cur, appCloses, up>>

BugHandleErrReleasesOnly(p, s) ==
  /\ Handle(p, s, "err")
  /\ cur' = [cur EXCEPT ![p] = [pc |-> "release", s |-> s]]
  /\ UNCHANGED <<object, kernel, peer, acc, conFd, appCloses, up>>
BugHandleErrUnwatchesOnly(p, s) ==
  /\ Handle(p, s, "err")
  /\ watch' = [watch EXCEPT ![fdOf[s]] = None]
  /\ UNCHANGED <<object, owner, armed, peer, acc, conFd, cur, appCloses, up>>
HandleErr(p, s) ==
  /\ Handle(p, s, "err")
  /\ cur' = [cur EXCEPT ![p] = [pc |-> "del", s |-> s]]
  /\ UNCHANGED <<object, kernel, peer, acc, conFd, appCloses, up>>

Unwatch(fd) ==
  /\ watch' = [watch EXCEPT ![fd] = None]
  /\ armed' = [armed EXCEPT ![fd] = FALSE]

\* Any other event: the descriptor is no longer watched, and that is all.
HandleOther(p, s) ==
  /\ Handle(p, s, "other")
  /\ Unwatch(fdOf[s])
  /\ UNCHANGED <<object, owner, peer, acc, conFd, cur, appCloses, up>>

Del(p) ==
  /\ up /\ cur[p].pc = "del"
  /\ Unwatch(fdOf[cur[p].s])
  /\ cur' = [cur EXCEPT ![p].pc = "close"]
  /\ UNCHANGED <<object, owner, peer, acc, conFd, batch, appCloses, up>>

\* ::close: the descriptor is free and leaves its epoll set.
CloseFd(fd) ==
  /\ owner' = [owner EXCEPT ![fd] = None]
  /\ Unwatch(fd)

Close(p) ==
  /\ up /\ cur[p].pc = "close"
  /\ CloseFd(fdOf[cur[p].s])
  /\ cur' = [cur EXCEPT ![p].pc = "release"]
  /\ UNCHANGED <<object, peer, acc, conFd, batch, appCloses, up>>

\* on_disconnect (not after EPOLLERR), factory->release and the event.
Release(p) ==
  /\ up /\ cur[p].pc = "release"
  /\ status' = [status EXCEPT ![cur[p].s] = "released"]
  /\ cur' = [cur EXCEPT ![p] = Idle]
  /\ UNCHANGED <<fdOf, passive, kernel, peer, acc, conFd, batch, appCloses, up>>

-----------------------------------------------------------------------------
\* EventHandler::close, called by the application.
SessionClose(s) ==
  /\ up /\ appCloses /\ status[s] = "live"
  /\ CloseFd(fdOf[s])
  /\ UNCHANGED <<object, peer, acc, conFd, batch, cur, appCloses, up>>

\* Connector::stop closes the descriptor the connector got, whoever has it now.
ConnectorStop ==
  /\ up /\ appCloses /\ conFd # NoFd
  /\ acc["main"].pc = "idle"
  /\ CloseFd(conFd)
  /\ UNCHANGED <<object, peer, acc, conFd, batch, cur, appCloses, up>>

-----------------------------------------------------------------------------
AcceptorStep(a) == Push(a) \/ OnConnect(a)

ProcStep(p) ==
  \/ \E s \in Sessions : \/ HandleData(p, s) \/ HandleEnd(p, s) \/ HandleOut(p, s)
                         \/ HandleErr(p, s) \/ HandleOther(p, s)
  \/ Del(p) \/ Close(p) \/ Release(p)

Next ==
  \/ Accept \/ AcceptThrows \/ Connect \/ Connected \/ ConnectFails
  \/ \E a \in Acceptors : AcceptorStep(a)
  \/ \E s \in Sessions : PeerSends(s) \/ PeerEnds(s) \/ SessionClose(s)
  \/ ConnectorStop
  \/ \E p \in Procs : ProcStep(p) \/ \E ready \in SUBSET Fds : Wait(p, ready)

Spec == Init /\ [][Next]_vars

\* epoll_wait returns a descriptor that stays readable: epoll takes ready
\* descriptors in turn.
Serves(fd) ==
  \E p \in Procs, ready \in SUBSET Fds :
    fd \in ready /\ Wait(p, ready) /\ <<watch[fd], "in">> \in batch'[p]

\* Every thread keeps running.
FairSpec ==
  /\ Spec
  /\ \A a \in Acceptors : WF_vars(AcceptorStep(a))
  /\ \A p \in Procs : WF_vars(ProcStep(p))
  /\ \A fd \in Fds : SF_vars(Serves(fd))

-----------------------------------------------------------------------------
\* Every variable has its type.
TypeOK ==
  /\ status \in [Sessions -> {"none", "live", "released"}]
  /\ fdOf \in [Sessions -> Fds \cup {NoFd}]
  /\ passive \in [Sessions -> BOOLEAN]
  /\ owner \in [Fds -> Sessions \cup {None, Bare}]
  /\ watch \in [Fds -> Sessions \cup {None}]
  /\ armed \in [Fds -> BOOLEAN]
  /\ inbox \in [Sessions -> BOOLEAN]
  /\ ended \in [Sessions -> Endings \cup {"no"}]
  /\ acc \in [Acceptors -> [pc : {"idle", "connect", "push", "on_connect"},
                            s : Sessions \cup {None}]]
  /\ conFd \in Fds \cup {NoFd}
  /\ batch \in [Procs -> SUBSET (Sessions \X {"in", "out", "err", "other"})]
  /\ cur \in [Procs -> [pc : {"idle", "del", "close", "release"},
                        s : Sessions \cup {None}]]
  /\ appCloses \in AppCloses /\ up \in BOOLEAN

\* The sessions a processor is working on or will take from its batch.
Held(p) == ({cur[p].s} \ {None}) \cup {e[1] : e \in batch[p]}

\* No processor touches a session object that was released, though events were
\* collected before and descriptors are reused at once.
ProcessorUsesLive == \A p \in Procs : \A s \in Held(p) : status[s] = "live"

\* A session is served by one processor at a time: its descriptor chooses one.
SessionExclusive == \A p, q \in Procs : p # q => Held(p) \cap Held(q) = {}

\* An epoll registration always leads to the live session of that descriptor,
\* and no released session keeps a descriptor, as long as only the processors
\* close descriptors.
WatchConsistent ==
  ~appCloses => \A fd \in Fds :
    /\ watch[fd] # None => owner[fd] = watch[fd] /\ fdOf[watch[fd]] = fd
    /\ owner[fd] \in Sessions => status[owner[fd]] = "live"

\* A processor closes only the session's own socket, and only after the peer
\* ended that connection, as long as only the processors close descriptors.
ClosesOwnEnded ==
  ~appCloses => \A p \in Procs : cur[p].pc \in {"del", "close"} =>
    owner[fdOf[cur[p].s]] = cur[p].s /\ ended[cur[p].s] # "no"

\* on_connect is called on a session that still exists, as the on_connect of
\* client.cpp, which sends on the session, relies on.
OnConnectAlive ==
  \A a \in Acceptors : acc[a].pc = "on_connect" => status[acc[a].s] = "live"

\* A connection that the peer ended is closed and its session released.
EndedIsReleased ==
  \A s \in Sessions :
    (ended[s] \in {"fin", "rst"}) ~> (status[s] = "released" \/ ~up)
=============================================================================
