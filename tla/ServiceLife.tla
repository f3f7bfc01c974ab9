---------------------------- MODULE ServiceLife -----------------------------
(***************************************************************************)
(* Starting and stopping a TCPService (detail/epollnet.hpp): the main      *)
(* thread starts the scheduler, the processors and the listeners, stops    *)
(* the listeners again and destroys the service; every listener runs       *)
(* Listener::run on the one epoll descriptor of the scheduler.             *)
(*                                                                         *)
(* A thread inside epoll_wait keeps waiting when another thread closes the *)
(* epoll descriptor.  Closing a listening socket removes it from the set.  *)
(***************************************************************************)
EXTENDS Integers, FiniteSets

CONSTANTS
  Count,         \* number of listeners; they are started and stopped in order
  MayFail,       \* socket, bind, listen or the start of a thread may fail
  MaxPending,    \* bound: connections waiting at one listener
  MaxArrivals    \* bound: connections that arrive at one listener

ASSUME ServiceAssumption ==
  /\ Count \in Nat /\ MayFail \in BOOLEAN
  /\ MaxPending \in Nat /\ MaxArrivals \in Nat

Listeners == 1..Count

VARIABLES
  main, at,                   \* control of the main thread, the listener it is at
  processors,                 \* procThreads is not empty
  epollOpen, lisOpen,         \* Scheduler::epollFd and Listener::lisFd are open
  registered,                 \* lisFd is in the epoll set
  isRunning,                  \* Listener::isRunning
  thread, own,                \* control of a listener thread; its event is there
  pending, arrived, accepted, \* connections of a listener
  terminated                  \* std::terminate was called

net == <<pending, arrived, accepted>>
threads == <<thread, own>>
fds == <<epollOpen, lisOpen, registered>>
vars == <<main, at, processors, fds, isRunning, threads, net, terminated>>

Init ==
  /\ main = "start" /\ at = 1
  /\ processors = FALSE
  /\ epollOpen = FALSE
  /\ lisOpen = [l \in Listeners |-> FALSE]
  /\ registered = [l \in Listeners |-> FALSE]
  /\ isRunning = [l \in Listeners |-> FALSE]
  /\ thread = [l \in Listeners |-> "none"]
  /\ own = [l \in Listeners |-> FALSE]
  /\ pending = [l \in Listeners |-> 0]
  /\ arrived = [l \in Listeners |-> 0]
  /\ accepted = [l \in Listeners |-> 0]
  /\ terminated = FALSE

-----------------------------------------------------------------------------
\* TCPService::start: Scheduler::start opens the epoll descriptors ...
StartScheduler ==
  /\ ~terminated /\ main = "start"
  /\ epollOpen' = TRUE
  /\ main' = "process"
  /\ UNCHANGED <<at, processors, lisOpen, registered, isRunning, threads, net, terminated>>

\* ... and Processor::start starts at least one thread.
StartProcessors ==
  /\ ~terminated /\ main = "process"
  /\ processors' = TRUE
  /\ main' = "listen"
  /\ UNCHANGED <<at, fds, isRunning, threads, net, terminated>>

\* Listener::start.  When it fails the socket is closed and there is no thread,
\* but isRunning is set.
StartListener ==
  /\ ~terminated /\ main = "listen" /\ at \in Listeners
  /\ \E ok \in {TRUE} \cup {~MayFail} :
       /\ lisOpen' = [lisOpen EXCEPT ![at] = ok]
       /\ thread' = [thread EXCEPT ![at] = IF ok THEN "register" ELSE "none"]
  /\ isRunning' = [isRunning EXCEPT ![at] = TRUE]
  /\ at' = at + 1
  /\ UNCHANGED <<main, processors, epollOpen, registered, own, net, terminated>>

Started ==
  /\ ~terminated /\ main = "listen" /\ at \notin Listeners
  /\ main' = "running" /\ at' = 1
  /\ UNCHANGED <<processors, fds, isRunning, threads, net, terminated>>

\* The application calls TCPService::stop.
Stop ==
  /\ ~terminated /\ main = "running"
  /\ main' = IF Count = 0 THEN "stopped" ELSE "stop"
  /\ UNCHANGED <<at, processors, fds, isRunning, threads, net, terminated>>

\* Listener::stop; its test of isRunning assigns what is already there.
StopClosesLis ==
  /\ ~terminated /\ main = "stop"
  /\ lisOpen' = [lisOpen EXCEPT ![at] = FALSE]
  /\ registered' = [registered EXCEPT ![at] = FALSE]
  /\ main' = "close"
  /\ UNCHANGED <<at, processors, epollOpen, isRunning, threads, net, terminated>>

StopClosesEpoll ==
  /\ ~terminated /\ main = "close"
  /\ epollOpen' = FALSE
  /\ main' = "join"
  /\ UNCHANGED <<at, processors, lisOpen, registered, isRunning, threads, net, terminated>>

\* runThread.join() throws when there is no thread.
BugJoinDetaches ==
  /\ ~terminated /\ main = "join"
  /\ terminated' = FALSE
  /\ main' = IF at = Count THEN "stopped" ELSE "stop"
  /\ at' = IF at = Count THEN at ELSE at + 1
  /\ UNCHANGED <<processors, fds, isRunning, threads, net>>
Join ==
  /\ ~terminated /\ main = "join"
  /\ thread[at] \in {"done", "none"}
  /\ terminated' = (thread[at] = "none")
  /\ main' = IF at = Count THEN "stopped" ELSE "stop"
  /\ at' = IF at = Count THEN at ELSE at + 1
  /\ UNCHANGED <<processors, fds, isRunning, threads, net>>

\* main returns after stop: the destructor of a std::thread that was not joined
\* calls std::terminate, and nobody calls Processor::stop.
Destroy ==
  /\ ~terminated /\ main = "stopped"
  /\ main' = "exit"
  /\ terminated' = processors
  /\ UNCHANGED <<at, processors, fds, isRunning, threads, net>>

-----------------------------------------------------------------------------
\* Listener::run registers the socket; an error is thrown out of the thread.
Register(l) ==
  /\ ~terminated /\ thread[l] = "register"
  /\ IF epollOpen /\ lisOpen[l]
       THEN /\ registered' = [registered EXCEPT ![l] = TRUE]
            /\ thread' = [thread EXCEPT ![l] = "loop"]
            /\ UNCHANGED terminated
       ELSE /\ terminated' = TRUE
            /\ UNCHANGED <<registered, thread>>
  /\ UNCHANGED <<main, at, processors, epollOpen, lisOpen, isRunning, own, net>>

\* The loop test and the call of epoll_wait, which fails on a closed descriptor.
Loop(l) ==
  /\ ~terminated /\ thread[l] = "loop"
  /\ thread' = [thread EXCEPT ![l] = IF isRunning[l] /\ epollOpen THEN "wait" ELSE "done"]
  /\ UNCHANGED <<main, at, processors, fds, isRunning, own, net, terminated>>

\* epoll_wait returns events of any of the listeners.
WaitReturns(l) ==
  /\ ~terminated /\ thread[l] = "wait"
  /\ \E ready \in SUBSET {m \in Listeners : registered[m] /\ pending[m] > 0} :
       /\ ready # {}
       /\ own' = [own EXCEPT ![l] = l \in ready]
  /\ thread' = [thread EXCEPT ![l] = "handle"]
  /\ UNCHANGED <<main, at, processors, fds, isRunning, net, terminated>>

\* The listener's own event: accept, which fails on a closed descriptor.
HandleOwn(l) ==
  /\ ~terminated /\ thread[l] = "handle" /\ own[l]
  /\ IF lisOpen[l]
       THEN /\ pending' = [pending EXCEPT ![l] = IF @ > 0 THEN @ - 1 ELSE 0]
            /\ accepted' = [accepted EXCEPT ![l] = IF pending[l] > 0 THEN @ + 1 ELSE @]
            /\ thread' = [thread EXCEPT ![l] = "loop"]
            /\ UNCHANGED terminated
       ELSE /\ terminated' = TRUE
            /\ UNCHANGED <<pending, accepted, thread>>
  /\ UNCHANGED <<main, at, processors, fds, isRunning, own, arrived>>

\* The event of another listener is ignored.
BugHandleForeignReturns(l) ==
  /\ ~terminated /\ thread[l] = "handle" /\ ~own[l]
  /\ thread' = [thread EXCEPT ![l] = "done"]
  /\ UNCHANGED <<main, at, processors, fds, isRunning, own, net, terminated>>
HandleForeign(l) ==
  /\ ~terminated /\ thread[l] = "handle" /\ ~own[l]
  /\ thread' = [thread EXCEPT ![l] = "loop"]
  /\ UNCHANGED <<main, at, processors, fds, isRunning, own, net, terminated>>

Arrive(l) ==
  /\ ~terminated /\ lisOpen[l]
  /\ pending[l] < MaxPending /\ arrived[l] < MaxArrivals
  /\ pending' = [pending EXCEPT ![l] = @ + 1]
  /\ arrived' = [arrived EXCEPT ![l] = @ + 1]
  /\ UNCHANGED <<main, at, processors, fds, isRunning, threads, accepted, terminated>>

-----------------------------------------------------------------------------
MainStarts == StartScheduler \/ StartProcessors \/ StartListener \/ Started
MainStops == StopClosesLis \/ StopClosesEpoll \/ Join

ListenerStep(l) ==
  \/ Register(l) \/ Loop(l) \/ WaitReturns(l) \/ HandleOwn(l) \/ HandleForeign(l)

Next ==
  \/ MainStarts \/ Stop \/ MainStops \/ Destroy
  \/ \E l \in Listeners : ListenerStep(l) \/ Arrive(l)

\* Threads that can run do run.  epoll_wait hands an event that stays ready to
\* every waiting thread in the end (level-triggered); nobody has to stop the
\* service.
Spec ==
  /\ Init /\ [][Next]_vars
  /\ WF_vars(MainStarts) /\ WF_vars(MainStops)
  /\ \A l \in Listeners : WF_vars(ListenerStep(l)) /\ SF_vars(WaitReturns(l) /\ own'[l])

-----------------------------------------------------------------------------
\* When stop has returned no listener thread is left running.
StoppedMeansJoined ==
  main \in {"stopped", "exit"} /\ ~terminated =>
    \A l \in Listeners : thread[l] = "done"

\* A connection to a started listener is accepted unless the service is stopped,
\* though all listener threads wait on the same epoll descriptor and take each
\* other's events.
PendingAccepted ==
  \A l \in Listeners :
    (pending[l] > 0) ~> (pending[l] = 0 \/ main \notin {"listen", "running"} \/ terminated)

\* A call of stop returns, as test.cpp, which returns from main after it, expects.
StopReturns == (main = "stop") ~> (main = "stopped" \/ terminated)
=============================================================================
