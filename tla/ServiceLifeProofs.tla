------------------------- MODULE ServiceLifeProofs -------------------------
(***************************************************************************)
(* ServiceLife: TCPService::stop joins the listener threads one after the  *)
(* other, so the ones before the listener it is at have ended, and a       *)
(* thread that has ended does not run again.                               *)
(***************************************************************************)
EXTENDS ServiceLife, TLAPS

JoinInv ==
  /\ at \in Nat /\ at > 0
  /\ thread \in [Listeners -> {"none", "register", "loop", "wait", "handle", "done"}]
  /\ main = "running" => at = 1
  /\ ~terminated /\ main \in {"stop", "close", "join"} =>
       /\ at \in Listeners
       /\ \A l \in Listeners : l < at => thread[l] = "done"
  /\ StoppedMeansJoined

LEMMA JoinInit == Init => JoinInv
  BY DEF Init, JoinInv, StoppedMeansJoined, Listeners

\* Once a listener thread has returned from Listener::run nothing but a new start
\* changes its state.
LEMMA DoneIsFinal ==
  ASSUME JoinInv, NEW l \in Listeners, ListenerStep(l) \/ Arrive(l)
  PROVE  /\ UNCHANGED <<main, at>> /\ ~terminated
         /\ thread' \in [Listeners -> {"none", "register", "loop", "wait", "handle", "done"}]
         /\ \A m \in Listeners : thread[m] = "done" => thread'[m] = "done"
<1>1. CASE Arrive(l)
  BY <1>1, Zenon DEF Arrive, JoinInv, threads
<1>2. CASE Register(l)
  BY <1>2, Zenon DEF Register, JoinInv
<1>3. CASE Loop(l)
  BY <1>3, Zenon DEF Loop, JoinInv
<1>4. CASE WaitReturns(l)
  BY <1>4, Zenon DEF WaitReturns, JoinInv
<1>5. CASE HandleOwn(l)
  BY <1>5, Zenon DEF HandleOwn, JoinInv
<1>6. CASE HandleForeign(l)
  BY <1>6, Zenon DEF HandleForeign, JoinInv
<1> QED
  BY <1>1, <1>2, <1>3, <1>4, <1>5, <1>6, Zenon DEF ListenerStep

LEMMA JoinStep == JoinInv /\ [Next]_vars => JoinInv'
<1> SUFFICES ASSUME JoinInv, [Next]_vars PROVE JoinInv'
  BY Zenon
<1>1. CASE UNCHANGED vars
  BY <1>1, Zenon DEF vars, threads, JoinInv, StoppedMeansJoined
<1>2. CASE StartScheduler
  BY <1>2, Zenon DEF StartScheduler, threads, JoinInv, StoppedMeansJoined
<1>3. CASE StartProcessors
  BY <1>3, Zenon DEF StartProcessors, threads, JoinInv, StoppedMeansJoined
<1>4. CASE StartListener
  <2>1. /\ at' = at + 1 /\ main' = main /\ main = "listen"
        /\ thread' \in [Listeners -> {"none", "register", "loop", "wait", "handle", "done"}]
    BY <1>4, Zenon DEF StartListener, JoinInv
  <2> QED
    BY <2>1 DEF JoinInv, StoppedMeansJoined
<1>5. CASE Started
  BY <1>5 DEF Started, threads, JoinInv, StoppedMeansJoined
<1>6. CASE Stop
  <2>1. UNCHANGED <<at, thread>> /\ at = 1 /\ main' = IF Count = 0 THEN "stopped" ELSE "stop"
    BY <1>6, Zenon DEF Stop, threads, JoinInv
  <2>2. CASE Count = 0
    BY <2>1, <2>2, ServiceAssumption DEF JoinInv, StoppedMeansJoined, Listeners
  <2>3. CASE Count # 0
    BY <2>1, <2>3, ServiceAssumption DEF JoinInv, StoppedMeansJoined, Listeners
  <2> QED
    BY <2>2, <2>3, Zenon
<1>7. CASE StopClosesLis
  BY <1>7, Zenon DEF StopClosesLis, threads, JoinInv, StoppedMeansJoined
<1>8. CASE StopClosesEpoll
  BY <1>8, Zenon DEF StopClosesEpoll, threads, JoinInv, StoppedMeansJoined
<1>9. CASE Join
  <2>1. /\ ~terminated /\ main = "join" /\ thread' = thread
        /\ terminated' = (thread[at] = "none")
        /\ thread[at] \in {"done", "none"}
        /\ main' = IF at = Count THEN "stopped" ELSE "stop"
        /\ at' = IF at = Count THEN at ELSE at + 1
    BY <1>9, Zenon DEF Join, threads
  <2>2. at \in Listeners /\ \A l \in Listeners : l < at => thread[l] = "done"
    BY <2>1, Zenon DEF JoinInv
  <2>3. ~terminated' => \A l \in Listeners : l <= at => thread[l] = "done"
    <3>1. ~terminated' => thread[at] = "done"
      BY <2>1, Zenon
    <3> QED
      BY <2>2, <3>1 DEF Listeners
  <2>4. CASE at = Count
    BY <2>1, <2>2, <2>3, <2>4, ServiceAssumption DEF JoinInv, StoppedMeansJoined, Listeners
  <2>5. CASE at # Count
    BY <2>1, <2>2, <2>3, <2>5, ServiceAssumption DEF JoinInv, StoppedMeansJoined, Listeners
  <2> QED
    BY <2>4, <2>5, Zenon
<1>10. CASE Destroy
  BY <1>10, Zenon DEF Destroy, threads, JoinInv, StoppedMeansJoined
<1>11. ASSUME NEW l \in Listeners, ListenerStep(l) \/ Arrive(l)
       PROVE  JoinInv'
  BY <1>11, DoneIsFinal, Zenon DEF JoinInv, StoppedMeansJoined
<1> QED
  BY <1>1, <1>2, <1>3, <1>4, <1>5, <1>6, <1>7, <1>8, <1>9, <1>10, <1>11, Zenon
  DEF Next, MainStarts, MainStops

\* For any number of listeners and whatever the connections and events they meet:
\* when TCPService::stop has returned, and no exception ended the program, no
\* listener thread is left running.
THEOREM StopJoins == Spec => []StoppedMeansJoined
<1>1. JoinInv => StoppedMeansJoined
  BY Zenon DEF JoinInv
<1>2. JoinInv /\ [Next]_vars => JoinInv'
  BY JoinStep, Zenon
<1> QED
  BY <1>1, <1>2, JoinInit, PTL DEF Spec
=============================================================================
