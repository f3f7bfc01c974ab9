------------------------- MODULE SessionLifeProofs -------------------------
(***************************************************************************)
(* Proofs about SessionLife, for any number of processors, descriptors and *)
(* sessions.                                                               *)
(*                                                                         *)
(* What the processors hold is not an invariant by itself: a session must  *)
(* be with the one processor its descriptor chooses, there once, known to  *)
(* no processor before it is pushed, and not registered any more when it   *)
(* is released.  Owning the descriptor is a second layer, which holds as   *)
(* long as only processors close descriptors.                              *)
(***************************************************************************)
EXTENDS SessionLife, TLAPS

Events == {"in", "out", "err", "other"}

\* Processor p works on session s; p has an event of s in its batch.
Busy(p, s) == cur[p].pc # "idle" /\ cur[p].s = s
Waits(p, s) == \E e \in Events : <<s, e>> \in batch[p]

\* A processor that is not idle works on a session.
CurInv == \A p \in Procs : cur[p].pc = "idle" <=> cur[p].s = None

\* Two acceptors never work on the same session.
Past == {"push", "on_connect"}
AccInv ==
  /\ \A a \in Acceptors : acc[a].pc \in Past =>
       acc[a].s \in Sessions /\ status[acc[a].s] # "none"
  /\ \A a, b \in Acceptors :
       a # b /\ acc[a].pc \in Past /\ acc[b].pc \in Past => acc[a].s # acc[b].s

ConInv == "main" \in Acceptors /\ acc["main"].pc = "connect" => conFd \in Fds

FdInv == \A s \in Sessions : status[s] # "none" => fdOf[s] \in Fds

\* A registration leads to a live session of that descriptor.
WatchInv ==
  \A fd \in Fds : watch[fd] # None => fdOf[watch[fd]] = fd /\ status[watch[fd]] = "live"

\* A session is with the one processor its descriptor chooses, and there once.
HeldInv ==
  \A p \in Procs, s \in Sessions : Busy(p, s) \/ Waits(p, s) =>
    status[s] = "live" /\ fdOf[s] % Threads = p
OnceInv ==
  /\ \A p \in Procs, s \in Sessions : Busy(p, s) => ~Waits(p, s)
  /\ \A p \in Procs, s \in Sessions, e, f \in Events :
       <<s, e>> \in batch[p] /\ <<s, f>> \in batch[p] => e = f

\* A session that is to be released is not registered any more.
GoneInv == \A p \in Procs : cur[p].pc = "release" => watch[fdOf[cur[p].s]] # cur[p].s

\* A session is unknown to epoll and to the processors before it is pushed.
PushInv ==
  \A a \in Acceptors, s \in Sessions : acc[a].pc = "push" /\ acc[a].s = s =>
    /\ status[s] = "live"
    /\ \A p \in Procs : ~Busy(p, s) /\ ~Waits(p, s)
    /\ \A fd \in Fds : watch[fd] # s

\* The session s is between the close of its descriptor and its release.
Leaving(s) == \E p \in Procs : cur[p].pc = "release" /\ cur[p].s = s

\* As long as only processors close descriptors, a live session owns its descriptor
\* until a processor has closed it, which happens after the peer ended.
OwnInv ==
  ~appCloses =>
    /\ \A s \in Sessions : status[s] = "live" => owner[fdOf[s]] = s \/ Leaving(s)
    /\ \A fd \in Fds : owner[fd] \in Sessions =>
         status[owner[fd]] = "live" /\ fdOf[owner[fd]] = fd
    /\ \A p \in Procs : cur[p].pc = "release" => owner[fdOf[cur[p].s]] # cur[p].s
OwnWatch == ~appCloses => \A fd \in Fds : watch[fd] # None => owner[fd] = watch[fd]
OwnCur ==
  ~appCloses => \A p \in Procs : cur[p].pc \in {"del", "close"} =>
    owner[fdOf[cur[p].s]] = cur[p].s /\ ended[cur[p].s] # "no"
OwnBatch ==
  ~appCloses => \A p \in Procs, s \in Sessions :
    /\ <<s, "in">> \in batch[p] => inbox[s] = TRUE \/ ended[s] # "no"
    /\ <<s, "err">> \in batch[p] => ended[s] # "no"
OwnCon ==
  ~appCloses => ("main" \in Acceptors /\ acc["main"].pc = "connect" => owner[conFd] = Bare)
OwnSend ==
  ~appCloses => \A a \in Acceptors : OnConnectSends /\ acc[a].pc = "on_connect" =>
    watch[fdOf[acc[a].s]] \in {None, acc[a].s}

LifeInv ==
  /\ TypeOK /\ CurInv /\ AccInv /\ ConInv /\ FdInv /\ WatchInv
  /\ HeldInv /\ OnceInv /\ GoneInv /\ PushInv
  /\ OwnInv /\ OwnWatch /\ OwnCur /\ OwnBatch /\ OwnCon /\ OwnSend

\* on_connect sends only where a single thread makes the sessions and the application
\* does not close them: otherwise the descriptor of a session that was released
\* meanwhile may belong to another one.
Calm == OnConnectSends => AppCloses \subseteq {FALSE} /\ \A a, b \in Acceptors : a = b

-----------------------------------------------------------------------------
(***************************************************************************)
(* Each part of the invariant depends on a few variables only.             *)
(***************************************************************************)
\* A step that leaves what a processor works on alone keeps CurInv.
LEMMA CurInvFrame == ASSUME CurInv, UNCHANGED <<cur>> PROVE CurInv'
  BY Zenon DEF CurInv
\* A step that leaves what the acceptors do alone keeps AccInv.
LEMMA AccInvFrame == ASSUME AccInv, UNCHANGED <<acc, status>> PROVE AccInv'
  BY Zenon DEF AccInv
\* A step that leaves the connector alone keeps ConInv.
LEMMA ConInvFrame == ASSUME ConInv, UNCHANGED <<acc, conFd>> PROVE ConInv'
  BY Zenon DEF ConInv
\* A step that leaves the sessions' descriptors alone keeps FdInv.
LEMMA FdInvFrame == ASSUME FdInv, UNCHANGED <<status, fdOf>> PROVE FdInv'
  BY Zenon DEF FdInv
\* A step that leaves the registrations alone keeps WatchInv.
LEMMA WatchInvFrame == ASSUME WatchInv, UNCHANGED <<watch, fdOf, status>> PROVE WatchInv'
  BY Zenon DEF WatchInv
\* A step that leaves what the processors hold alone keeps HeldInv.
LEMMA HeldInvFrame == ASSUME HeldInv, UNCHANGED <<cur, batch, status, fdOf>> PROVE HeldInv'
  BY Zenon DEF HeldInv, Busy, Waits
\* A step that leaves the events held alone keeps OnceInv.
LEMMA OnceInvFrame == ASSUME OnceInv, UNCHANGED <<cur, batch>> PROVE OnceInv'
  BY Zenon DEF OnceInv, Busy, Waits
\* A step that leaves sessions on their way out alone keeps GoneInv.
LEMMA GoneInvFrame == ASSUME GoneInv, UNCHANGED <<cur, watch, fdOf>> PROVE GoneInv'
  BY Zenon DEF GoneInv
\* A step that leaves sessions not pushed yet alone keeps PushInv.
LEMMA PushInvFrame == ASSUME PushInv, UNCHANGED <<acc, status, cur, batch, watch>> PROVE PushInv'
  BY Zenon DEF PushInv, Busy, Waits
\* A step that leaves who owns a descriptor alone keeps OwnInv.
LEMMA OwnInvFrame == ASSUME OwnInv, UNCHANGED <<status, owner, fdOf, cur, appCloses>> PROVE OwnInv'
  BY ZenonT(30) DEF OwnInv, Leaving
\* A step that leaves the owner of what is registered alone keeps OwnWatch.
LEMMA OwnWatchFrame == ASSUME OwnWatch, UNCHANGED <<watch, owner, appCloses>> PROVE OwnWatch'
  BY Zenon DEF OwnWatch
\* A step that leaves the owner of what is being closed alone keeps OwnCur.
LEMMA OwnCurFrame == ASSUME OwnCur, UNCHANGED <<cur, owner, fdOf, ended, appCloses>> PROVE OwnCur'
  BY Zenon DEF OwnCur
\* A step that leaves why an event is in a batch alone keeps OwnBatch.
LEMMA OwnBatchFrame == ASSUME OwnBatch, UNCHANGED <<batch, inbox, ended, appCloses>> PROVE OwnBatch'
  BY Zenon DEF OwnBatch
\* A step that leaves the connector's descriptor alone keeps OwnCon.
LEMMA OwnConFrame == ASSUME OwnCon, UNCHANGED <<acc, owner, conFd, appCloses>> PROVE OwnCon'
  BY Zenon DEF OwnCon
\* A step that leaves sessions in on_connect alone keeps OwnSend.
LEMMA OwnSendFrame == ASSUME OwnSend, UNCHANGED <<acc, watch, fdOf, appCloses>> PROVE OwnSend'
  BY Zenon DEF OwnSend

\* The placeholders are no sessions and no descriptors.
LEMMA Placeholders ==
  None \notin Sessions /\ Bare \notin Sessions /\ None # Bare /\ NoFd \notin Fds
  BY LifeAssumption DEF None, Bare, NoFd

\* A session that a processor holds is with no other, and has a descriptor.
LEMMA HeldFacts ==
  ASSUME LifeInv
  PROVE  /\ \A p \in Procs : cur[p].pc # "idle" =>
              cur[p].s \in Sessions /\ fdOf[cur[p].s] \in Fds /\ Busy(p, cur[p].s)
         /\ \A p \in Procs, s \in Sessions : Busy(p, s) \/ Waits(p, s) =>
              status[s] = "live" /\ fdOf[s] \in Fds /\ fdOf[s] % Threads = p
         /\ \A p, q \in Procs, s \in Sessions :
              (Busy(p, s) \/ Waits(p, s)) /\ (Busy(q, s) \/ Waits(q, s)) => p = q
  <1>1. \A p \in Procs : cur[p].pc # "idle" => cur[p].s \in Sessions /\ Busy(p, cur[p].s)
    BY Zenon DEF LifeInv, TypeOK, CurInv, Busy
  <1>2. \A p \in Procs, s \in Sessions : Busy(p, s) \/ Waits(p, s) =>
          status[s] = "live" /\ fdOf[s] \in Fds /\ fdOf[s] % Threads = p
    BY Zenon DEF LifeInv, HeldInv, FdInv
  <1>3. ASSUME NEW p \in Procs, NEW q \in Procs, NEW s \in Sessions,
               Busy(p, s) \/ Waits(p, s), Busy(q, s) \/ Waits(q, s)
        PROVE  p = q
    BY <1>2, <1>3, Zenon
  <1> QED
    BY <1>1, <1>2, <1>3, Zenon

\* A processor goes on to its next step with the same session.
LEMMA NextPc ==
  ASSUME TypeOK, NEW p \in Procs, NEW c \in {"del", "close", "release"},
         cur' = [cur EXCEPT ![p].pc = c]
  PROVE  /\ cur' \in [Procs -> [pc : {"idle", "del", "close", "release"},
                                s : Sessions \cup {None}]]
         /\ \A q \in Procs : cur'[q].s = cur[q].s /\ cur'[q].pc = IF q = p THEN c ELSE cur[q].pc
  <1>1. [cur[p] EXCEPT !.pc = c] = [pc |-> c, s |-> cur[p].s] /\ cur[p].s \in Sessions \cup {None}
    BY DEF TypeOK
  <1>2. cur' = [cur EXCEPT ![p] = [pc |-> c, s |-> cur[p].s]]
    BY <1>1, Zenon
  <1> QED
    BY <1>1, <1>2 DEF TypeOK

-----------------------------------------------------------------------------
\* AcceptThrows keeps the invariant.
LEMMA AcceptThrowsKeeps == ASSUME LifeInv, AcceptThrows PROVE LifeInv'
  <1> USE Placeholders DEF Events, Past
  <1>1. UNCHANGED <<status, fdOf, passive, owner, watch, armed, inbox, ended, acc, conFd,
                    batch, cur, appCloses>>
    BY Zenon DEF AcceptThrows, object, kernel, peer
  <1>2. TypeOK'
    BY <1>1, Zenon DEF LifeInv, TypeOK, AcceptThrows
  <1>3. CurInv' /\ AccInv' /\ ConInv' /\ FdInv' /\ WatchInv' /\ HeldInv' /\ OnceInv' /\
        GoneInv' /\ PushInv' /\ OwnInv' /\ OwnWatch' /\ OwnCur' /\ OwnBatch' /\ OwnCon' /\
        OwnSend'
    BY <1>1, CurInvFrame, AccInvFrame, ConInvFrame, FdInvFrame, WatchInvFrame, HeldInvFrame,
       OnceInvFrame, GoneInvFrame, PushInvFrame, OwnInvFrame, OwnWatchFrame, OwnCurFrame,
       OwnBatchFrame, OwnConFrame, OwnSendFrame, Zenon DEF LifeInv
  <1> QED
    BY <1>1, <1>2, <1>3, Zenon DEF LifeInv

\* ConnectFails keeps the invariant.
LEMMA ConnectFailsKeeps == ASSUME LifeInv, ConnectFails PROVE LifeInv'
  <1> USE Placeholders DEF Events, Past
  <1>1. UNCHANGED <<status, fdOf, passive, owner, watch, armed, inbox, ended, conFd, batch,
                    cur, appCloses, up>>
    BY Zenon DEF ConnectFails, object, kernel, peer
  <1>2. \A a \in Acceptors : acc'[a].pc \in Past => acc'[a] = acc[a]
    BY Zenon DEF ConnectFails, Idle, LifeInv, TypeOK
  <1>3. \A q \in Procs, t \in Sessions : Busy(q, t)' <=> Busy(q, t)
    BY <1>1, Zenon DEF Busy
  <1>4. \A q \in Procs, t \in Sessions : Waits(q, t)' <=> Waits(q, t)
    BY <1>1, Zenon DEF Waits
  <1>5. TypeOK'
    BY <1>1, Zenon DEF LifeInv, TypeOK, ConnectFails, Idle
  <1>6. AccInv'
    BY <1>1, <1>2 DEF LifeInv, AccInv
  <1>7. ConInv'
    BY <1>1, Zenon DEF LifeInv, TypeOK, ConInv, ConnectFails, Idle
  <1>8. PushInv'
    BY <1>1, <1>2, <1>3, <1>4 DEF LifeInv, PushInv
  <1>9. OwnCon'
    BY <1>1, Zenon DEF LifeInv, TypeOK, OwnCon, ConnectFails, Idle
  <1>10. OwnSend'
    BY <1>1 DEF LifeInv, TypeOK, OwnSend, ConnectFails, Idle
  <1>11. CurInv' /\ FdInv' /\ WatchInv' /\ HeldInv' /\ OnceInv' /\ GoneInv' /\ OwnInv' /\
         OwnWatch' /\ OwnCur' /\ OwnBatch'
    BY <1>1, CurInvFrame, FdInvFrame, WatchInvFrame, HeldInvFrame, OnceInvFrame,
       GoneInvFrame, OwnInvFrame, OwnWatchFrame, OwnCurFrame, OwnBatchFrame,
       Zenon DEF LifeInv
  <1> QED
    BY <1>1, <1>2, <1>3, <1>4, <1>5, <1>6, <1>7, <1>8, <1>9, <1>10, <1>11, Zenon DEF LifeInv

\* What making a session leaves alone.
Untouched == <<watch, armed, inbox, ended, conFd, batch, cur, appCloses, up>>

\* A new session in the hands of acceptor a, for a descriptor no session has, keeps
\* the invariant.
LEMMA CreateKeeps ==
  ASSUME LifeInv, NEW a \in Acceptors, NEW s \in Sessions, NEW fd \in Fds,
         status[s] = "none", acc[a].pc \notin Past,
         ~appCloses => owner[fd] = IF a = "main" THEN Bare ELSE None,
         Create(a, s, fd),
         UNCHANGED Untouched
  PROVE  LifeInv'
  <1> USE Placeholders DEF Events, Past
  <1>1. UNCHANGED <<watch, armed, inbox, ended, conFd, batch, cur, appCloses, up>>
    BY Zenon DEF Untouched
  <1>2. \A t \in Sessions : /\ status'[t] = IF t = s THEN "live" ELSE status[t]
                            /\ fdOf'[t] = IF t = s THEN fd ELSE fdOf[t]
    BY Zenon DEF Create, LifeInv, TypeOK
  <1>3. \A f \in Fds : owner'[f] = IF f = fd THEN s ELSE owner[f]
    BY Zenon DEF Create, LifeInv, TypeOK
  <1>4. /\ acc'[a].pc = "push" /\ acc'[a].s = s
        /\ \A c \in Acceptors \ {a} : acc'[c] = acc[c]
    BY Zenon DEF Create, LifeInv, TypeOK
  <1>5. \A q \in Procs, t \in Sessions : Busy(q, t)' <=> Busy(q, t)
    BY <1>1, Zenon DEF Busy
  <1>6. \A q \in Procs, t \in Sessions : Waits(q, t)' <=> Waits(q, t)
    BY <1>1, Zenon DEF Waits
  <1>7. \A q \in Procs : ~Busy(q, s) /\ ~Waits(q, s) /\ (cur[q].pc # "idle" => cur[q].s # s)
    BY HeldFacts, Zenon
  <1>8. \A f \in Fds : watch[f] # s
    BY DEF LifeInv, WatchInv
  <1>9. TypeOK'
    BY <1>1, Zenon DEF LifeInv, TypeOK, Create
  <1>10. AccInv'
    BY <1>1, <1>2, <1>4 DEF LifeInv, AccInv
  <1>11. ConInv'
    BY <1>1, <1>4, Zenon DEF LifeInv, ConInv
  <1>12. FdInv'
    BY <1>1, <1>2, Zenon DEF LifeInv, FdInv
  <1>13. WatchInv'
    BY <1>1, <1>2 DEF LifeInv, WatchInv, TypeOK
  <1>14. HeldInv'
    BY <1>1, <1>2, <1>5, <1>6, <1>7 DEF LifeInv, HeldInv
  <1>15. GoneInv'
    <2>1. \A q \in Procs : cur[q].pc = "release" => fdOf'[cur[q].s] = fdOf[cur[q].s]
      BY <1>2, <1>7, HeldFacts, Zenon
    <2> QED
      BY <1>1, <2>1, Zenon DEF LifeInv, GoneInv
  <1>16. PushInv'
    <2>1. ASSUME NEW c \in Acceptors, NEW t \in Sessions, acc'[c].pc = "push", acc'[c].s = t
          PROVE  (c = a /\ t = s) \/ (acc[c].pc = "push" /\ acc[c].s = t)
      BY <1>4, <2>1, Zenon
    <2>2. \A t \in Sessions : status[t] = "live" => status'[t] = "live"
      BY <1>2, Zenon
    <2>3. status'[s] = "live"
      BY <1>2, Zenon
    <2> QED
      BY <1>1, <1>5, <1>6, <1>7, <1>8, <2>1, <2>2, <2>3, ZenonT(40) DEF LifeInv, PushInv
  <1>17. OwnInv'
    <2> SUFFICES ASSUME ~appCloses
                 PROVE  OwnInv'
      BY <1>1, Zenon DEF OwnInv
    <2>1. ASSUME NEW t \in Sessions, status'[t] = "live"
          PROVE  owner'[fdOf'[t]] = t \/ Leaving(t)'
      <3>1. CASE t = s
        BY <1>2, <1>3, <3>1, Zenon
      <3>2. CASE t # s /\ Leaving(t)
        BY <1>1, <3>2, Zenon DEF Leaving
      <3>3. CASE t # s /\ owner[fdOf[t]] = t
        <4>1. fdOf[t] \in Fds /\ fdOf[t] # fd
          BY <1>2, <2>1, <3>3 DEF LifeInv, FdInv
        <4> QED
          BY <1>2, <1>3, <3>3, <4>1, Zenon
      <3> QED
        BY <1>2, <2>1, <3>1, <3>2, <3>3, Zenon DEF LifeInv, OwnInv
    <2>2. \A f \in Fds : owner'[f] \in Sessions =>
            status'[owner'[f]] = "live" /\ fdOf'[owner'[f]] = f
      BY <1>2, <1>3 DEF LifeInv, OwnInv
    <2>3. ASSUME NEW q \in Procs, cur[q].pc = "release"
          PROVE  owner'[fdOf'[cur[q].s]] # cur[q].s
      <3>1. cur[q].s \in Sessions /\ cur[q].s # s /\ fdOf[cur[q].s] \in Fds
        BY <1>7, <2>3, HeldFacts, Zenon
      <3> QED
        BY <1>2, <1>3, <2>3, <3>1 DEF LifeInv, OwnInv
    <2> QED
      BY <1>1, <2>1, <2>2, <2>3, Zenon DEF OwnInv
  <1>18. OwnWatch'
    BY <1>1, <1>3 DEF LifeInv, OwnWatch, TypeOK
  <1>19. OwnCur'
    <2>1. ASSUME ~appCloses, NEW q \in Procs, cur[q].pc \in {"del", "close"}
          PROVE  owner'[fdOf'[cur[q].s]] = cur[q].s /\ ended[cur[q].s] # "no"
      <3>1. cur[q].s \in Sessions /\ cur[q].s # s /\ fdOf[cur[q].s] \in Fds
        BY <1>7, <2>1, HeldFacts, Zenon
      <3>2. /\ owner[fdOf[cur[q].s]] = cur[q].s /\ ended[cur[q].s] # "no"
            /\ fdOf'[cur[q].s] = fdOf[cur[q].s]
        BY <1>2, <2>1, <3>1, Zenon DEF LifeInv, OwnCur
      <3>3. fdOf[cur[q].s] # fd
        BY <2>1, <3>1, <3>2, Zenon
      <3> QED
        BY <1>3, <3>1, <3>2, <3>3, Zenon
    <2> QED
      BY <1>1, <2>1, Zenon DEF OwnCur
  <1>20. OwnCon'
    BY <1>1, <1>3, <1>4, Zenon DEF LifeInv, OwnCon, ConInv
  <1>21. OwnSend'
    BY <1>1, <1>2, <1>4 DEF LifeInv, OwnSend, AccInv
  <1>22. CurInv' /\ OnceInv' /\ OwnBatch'
    BY <1>1, CurInvFrame, OnceInvFrame, OwnBatchFrame, Zenon DEF LifeInv
  <1> QED
    BY <1>1, <1>2, <1>3, <1>4, <1>5, <1>6, <1>7, <1>8, <1>9, <1>10, <1>11, <1>12, <1>13,
       <1>14, <1>15, <1>16, <1>17, <1>18, <1>19, <1>20, <1>21, <1>22, Zenon DEF LifeInv

\* Accept and Connected keep the invariant.
LEMMA AcceptKeeps == ASSUME LifeInv, Accept PROVE LifeInv'
  <1>1. PICK s \in Sessions, fd \in Fds :
          Lowest(s, Unmade) /\ Lowest(fd, FreeFds) /\ Create("listener", s, fd)
    BY Zenon DEF Accept
  <1>2. status[s] = "none" /\ owner[fd] = None
    BY <1>1, Zenon DEF Lowest, Unmade, FreeFds
  <1>3. /\ "listener" \in Acceptors /\ acc["listener"].pc \notin Past
        /\ UNCHANGED Untouched
    BY Zenon DEF Untouched, Accept, Past, peer
  <1> QED
    BY <1>1, <1>2, <1>3, CreateKeeps, Zenon

\* Connecting and making the session keeps the invariant.
LEMMA ConnectedKeeps == ASSUME LifeInv, Connected PROVE LifeInv'
  <1>1. PICK s \in Sessions : Lowest(s, Unmade) /\ Create("main", s, conFd)
    BY Zenon DEF Connected
  <1>2. status[s] = "none" /\ conFd \in Fds /\ (~appCloses => owner[conFd] = Bare)
    BY <1>1, Zenon DEF Lowest, Unmade, LifeInv, ConInv, OwnCon, Connected
  <1>3. /\ "main" \in Acceptors /\ acc["main"].pc \notin Past
        /\ UNCHANGED Untouched
    BY Zenon DEF Connected, Past, Untouched, peer
  <1> QED
    BY <1>1, <1>2, <1>3, CreateKeeps, Zenon

\* Connect keeps the invariant.
LEMMA ConnectKeeps == ASSUME LifeInv, Connect PROVE LifeInv'
  <1> USE Placeholders DEF Events, Past
  <1>1. UNCHANGED <<status, fdOf, passive, watch, armed, inbox, ended, batch, cur,
                    appCloses, up>>
    BY Zenon DEF Connect, object, kernel, peer
  <1>2. conFd' \in Fds /\ owner[conFd'] = None /\ "main" \in Acceptors
    BY Zenon DEF Connect, Lowest, FreeFds
  <1>3. \A f \in Fds : owner'[f] = IF f = conFd' THEN Bare ELSE owner[f]
    BY Zenon DEF Connect, LifeInv, TypeOK
  <1>4. /\ acc' \in [Acceptors -> [pc : {"idle", "connect", "push", "on_connect"},
                                s : Sessions \cup {None}]]
        /\ acc'["main"].pc = "connect" /\ \A c \in Acceptors \ {"main"} : acc'[c] = acc[c]
    <2>1. [acc["main"] EXCEPT !.pc = "connect"] = [pc |-> "connect", s |-> acc["main"].s]
      BY <1>2 DEF LifeInv, TypeOK
    <2>2. acc' = [acc EXCEPT !["main"] = [pc |-> "connect", s |-> acc["main"].s]]
      BY <2>1, Zenon DEF Connect
    <2> QED
      BY <1>2, <2>2 DEF LifeInv, TypeOK
  <1>5. \A q \in Procs, t \in Sessions : Busy(q, t)' <=> Busy(q, t)
    BY <1>1, Zenon DEF Busy
  <1>6. \A q \in Procs, t \in Sessions : Waits(q, t)' <=> Waits(q, t)
    BY <1>1, Zenon DEF Waits
  <1>7. TypeOK'
    BY <1>1, <1>2, <1>4 DEF LifeInv, TypeOK, Connect
  <1>8. AccInv'
    BY <1>1, <1>4 DEF LifeInv, AccInv
  <1>9. ConInv'
    BY <1>2, Zenon DEF LifeInv, ConInv
  <1>10. PushInv'
    <2>1. \A c \in Acceptors : acc'[c].pc = "push" => acc[c].pc = "push" /\ acc'[c].s = acc[c].s
      BY <1>4, Zenon
    <2> QED
      BY <1>1, <1>5, <1>6, <2>1, ZenonT(40) DEF LifeInv, PushInv
  <1>11. OwnInv'
    <2>1. \A q \in Procs : cur[q].pc # "idle" => fdOf[cur[q].s] \in Fds /\ cur[q].s \in Sessions
      BY HeldFacts, Zenon
    <2>2. \A t \in Sessions : status[t] = "live" => fdOf[t] \in Fds
      BY Zenon DEF LifeInv, FdInv
    <2> QED
      BY <1>1, <1>2, <1>3, <2>1, <2>2 DEF LifeInv, OwnInv, Leaving
  <1>12. OwnWatch'
    BY <1>1, <1>2, <1>3, Zenon DEF LifeInv, OwnWatch, TypeOK
  <1>13. OwnCur'
    <2>1. \A q \in Procs : cur[q].pc # "idle" => fdOf[cur[q].s] \in Fds /\ cur[q].s \in Sessions
      BY HeldFacts, Zenon
    <2> QED
      BY <1>1, <1>2, <1>3, <2>1 DEF LifeInv, OwnCur
  <1>14. OwnCon'
    BY <1>2, <1>3, Zenon DEF LifeInv, OwnCon
  <1>15. OwnSend'
    BY <1>1, <1>4, Zenon DEF LifeInv, OwnSend
  <1>16. CurInv' /\ FdInv' /\ WatchInv' /\ HeldInv' /\ OnceInv' /\ GoneInv' /\ OwnBatch'
    BY <1>1, CurInvFrame, FdInvFrame, WatchInvFrame, HeldInvFrame, OnceInvFrame,
       GoneInvFrame, OwnBatchFrame, Zenon DEF LifeInv
  <1> QED
    BY Zenon, <1>1, <1>2, <1>3, <1>4, <1>5, <1>6, <1>7, <1>8, <1>9, <1>10, <1>11, <1>12, <1>13,
       <1>14, <1>15, <1>16, Zenon DEF LifeInv

-----------------------------------------------------------------------------
\* Processor p takes the event e of session s: no other processor has s, and p has no
\* other event of it.
LEMMA HandleFacts ==
  ASSUME LifeInv, NEW p \in Procs, NEW s \in Sessions, NEW e \in Events, Handle(p, s, e)
  PROVE  /\ <<s, e>> \in batch[p] /\ cur[p].pc = "idle"
         /\ status[s] = "live" /\ fdOf[s] \in Fds /\ fdOf[s] % Threads = p
         /\ \A q \in Procs : Busy(q, s) \/ Waits(q, s) => q = p
         /\ \A a \in Acceptors : acc[a].pc = "push" => acc[a].s # s
         /\ batch' \in [Procs -> SUBSET (Sessions \X Events)]
         /\ \A q \in Procs : batch'[q] \subseteq batch[q]
         /\ \A q \in Procs, t \in Sessions : Waits(q, t)' => Waits(q, t) /\ t # s
         /\ ~appCloses => owner[fdOf[s]] = s
  <1>1. <<s, e>> \in batch[p] /\ cur[p].pc = "idle" /\ Waits(p, s)
    BY Zenon DEF Handle, Waits
  <1>2. /\ status[s] = "live" /\ fdOf[s] \in Fds /\ fdOf[s] % Threads = p
        /\ \A q \in Procs : Busy(q, s) \/ Waits(q, s) => q = p
    BY <1>1, HeldFacts, Zenon
  <1>3. \A a \in Acceptors : acc[a].pc = "push" => acc[a].s # s
    BY <1>1, Zenon DEF LifeInv, PushInv
  <1>4. /\ batch' \in [Procs -> SUBSET (Sessions \X Events)]
        /\ \A q \in Procs : batch'[q] = IF q = p THEN batch[p] \ {<<s, e>>} ELSE batch[q]
    BY Zenon DEF Handle, LifeInv, TypeOK, Events
  <1>5. ASSUME NEW q \in Procs, NEW f \in Events, <<s, f>> \in batch'[q] PROVE FALSE
    <2>1. q = p /\ <<s, f>> \in batch[p]
      BY <1>2, <1>4, <1>5, Zenon DEF Waits
    <2> QED
      BY <1>1, <1>4, <1>5, <2>1, Zenon DEF LifeInv, OnceInv
  <1>6. \A q \in Procs, t \in Sessions : Waits(q, t)' => Waits(q, t) /\ t # s
    BY <1>4, <1>5, Zenon DEF Waits
  <1>7. ~appCloses => owner[fdOf[s]] = s
    <2>1. ~Leaving(s)
      BY <1>1, <1>2, Zenon DEF Leaving, Busy
    <2> QED
      BY <1>2, <2>1, Zenon DEF LifeInv, OwnInv
  <1> QED
    BY <1>1, <1>2, <1>3, <1>4, <1>6, <1>7, Zenon

\* Handling the event without closing keeps the invariant: the registration of s stays,
\* leads to s again or is dropped, and only data of s is consumed.
LEMMA HandleKeeps ==
  ASSUME LifeInv, NEW p \in Procs, NEW s \in Sessions, NEW e \in Events, Handle(p, s, e),
         watch' \in [Fds -> Sessions \cup {None}], armed' \in [Fds -> BOOLEAN],
         \A fd \in Fds : \/ watch'[fd] \in {watch[fd], None}
                         \/ fd = fdOf[s] /\ watch[fd] # None /\ watch'[fd] = s,
         inbox' \in [Sessions -> BOOLEAN],
         ~appCloses => \A t \in Sessions \ {s} : inbox'[t] = inbox[t],
         UNCHANGED <<status, fdOf, passive, owner, ended, acc, conFd, cur, appCloses, up>>
  PROVE  LifeInv'
  <1> USE Placeholders DEF Past
  <1>1. UNCHANGED <<status, fdOf, passive, owner, ended, acc, conFd, cur, appCloses, up>>
    BY Zenon
  <1>2. /\ status[s] = "live" /\ fdOf[s] \in Fds /\ cur[p].pc = "idle"
        /\ \A q \in Procs : Busy(q, s) \/ Waits(q, s) => q = p
        /\ \A a \in Acceptors : acc[a].pc = "push" => acc[a].s # s
        /\ ~appCloses => owner[fdOf[s]] = s
    BY HandleFacts, Zenon
  <1>3. /\ batch' \in [Procs -> SUBSET (Sessions \X Events)]
        /\ \A q \in Procs : batch'[q] \subseteq batch[q]
        /\ \A q \in Procs, t \in Sessions : Waits(q, t)' => Waits(q, t) /\ t # s
    BY HandleFacts, Zenon
  <1>4. \A q \in Procs, t \in Sessions : Busy(q, t)' <=> Busy(q, t)
    BY <1>1, Zenon DEF Busy
  <1>5. TypeOK'
    BY <1>1, <1>3, SMTT(30) DEF LifeInv, TypeOK, Events
  <1>6. WatchInv'
    BY <1>1, <1>2, SMTT(30) DEF LifeInv, WatchInv
  <1>7. HeldInv'
    BY <1>1, <1>3, <1>4 DEF LifeInv, HeldInv
  <1>8. OnceInv'
    BY <1>3, <1>4, Zenon DEF LifeInv, OnceInv
  <1>9. GoneInv'
    BY <1>1, <1>2, HeldFacts, SMTT(30) DEF LifeInv, GoneInv
  <1>10. PushInv'
    BY <1>1, <1>2, <1>3, <1>4, SMTT(30) DEF LifeInv, PushInv
  <1>11. OwnWatch'
    BY <1>1, <1>2 DEF LifeInv, OwnWatch
  <1>12. OwnBatch'
    <2> SUFFICES ASSUME ~appCloses', NEW q \in Procs, NEW t \in Sessions
                 PROVE  /\ <<t, "in">> \in batch'[q] => inbox'[t] = TRUE \/ ended'[t] # "no"
                        /\ <<t, "err">> \in batch'[q] => ended'[t] # "no"
      BY Zenon DEF OwnBatch
    <2>1. ASSUME NEW f \in {"in", "err"}, <<t, f>> \in batch'[q]
          PROVE  /\ f = "in" => inbox'[t] = TRUE \/ ended'[t] # "no"
                 /\ f = "err" => ended'[t] # "no"
      <3>1. Waits(q, t)'
        BY <2>1, Zenon DEF Waits, Events
      <3>2. <<t, f>> \in batch[q] /\ t # s
        BY <1>3, <2>1, <3>1, Zenon
      <3>3. inbox'[t] = inbox[t] /\ ended'[t] = ended[t] /\ ~appCloses
        BY <1>1, <3>2
      <3>4. /\ f = "in" => inbox[t] = TRUE \/ ended[t] # "no"
            /\ f = "err" => ended[t] # "no"
        BY <2>1, <3>2, <3>3, Zenon DEF LifeInv, OwnBatch
      <3> QED
        BY <3>3, <3>4, Zenon
    <2> QED
      BY <2>1, Zenon
  <1>13. OwnSend'
    BY <1>1, <1>2, SMTT(30) DEF LifeInv, OwnSend, OwnWatch, AccInv, FdInv
  <1>14. CurInv' /\ AccInv' /\ ConInv' /\ FdInv' /\ OwnInv' /\ OwnCur' /\ OwnCon'
    BY <1>1, CurInvFrame, AccInvFrame, ConInvFrame, FdInvFrame, OwnInvFrame, OwnCurFrame,
       OwnConFrame, Zenon DEF LifeInv
  <1> QED
    BY Zenon, <1>1, <1>2, <1>3, <1>4, <1>5, <1>6, <1>7, <1>8, <1>9, <1>10, <1>11, <1>12, <1>13,
       <1>14, Zenon DEF LifeInv

\* Processor p goes on to close session s.
GoesToClose(p, s) ==
  /\ cur' = [cur EXCEPT ![p] = [pc |-> "del", s |-> s]]
  /\ UNCHANGED <<status, fdOf, passive, owner, watch, armed, inbox, ended, acc, conFd,
                 appCloses, up>>

\* Handling the event by going on to close the session keeps the invariant.
LEMMA EndKeeps ==
  ASSUME LifeInv, NEW p \in Procs, NEW s \in Sessions, NEW e \in Events, Handle(p, s, e),
         GoesToClose(p, s), ~appCloses => ended[s] # "no"
  PROVE  LifeInv'
  <1> USE Placeholders DEF Past
  <1>1. UNCHANGED <<status, fdOf, passive, owner, watch, armed, inbox, ended, acc, conFd,
                    appCloses, up>>
    BY Zenon DEF GoesToClose
  <1>2. /\ status[s] = "live" /\ fdOf[s] \in Fds /\ fdOf[s] % Threads = p /\ cur[p].pc = "idle"
        /\ \A q \in Procs : Busy(q, s) \/ Waits(q, s) => q = p
        /\ \A a \in Acceptors : acc[a].pc = "push" => acc[a].s # s
        /\ ~appCloses => owner[fdOf[s]] = s
    BY HandleFacts, Zenon
  <1>3. /\ batch' \in [Procs -> SUBSET (Sessions \X Events)]
        /\ \A q \in Procs : batch'[q] \subseteq batch[q]
        /\ \A q \in Procs, t \in Sessions : Waits(q, t)' => Waits(q, t) /\ t # s
    BY HandleFacts, ZenonT(40)
  <1>4. /\ cur' \in [Procs -> [pc : {"idle", "del", "close", "release"}, s : Sessions \cup {None}]]
        /\ cur'[p].pc = "del" /\ cur'[p].s = s /\ \A q \in Procs \ {p} : cur'[q] = cur[q]
    BY Zenon DEF GoesToClose, LifeInv, TypeOK
  <1>5. \A q \in Procs, t \in Sessions : Busy(q, t)' <=> Busy(q, t) \/ (q = p /\ t = s)
    BY <1>2, <1>4, SMTT(30) DEF Busy
  <1>6. TypeOK'
    BY <1>1, <1>3, <1>4, SMTT(30) DEF LifeInv, TypeOK, Events
  <1>7. CurInv'
    BY <1>4 DEF LifeInv, CurInv
  <1>8. HeldInv'
    BY <1>1, <1>2, <1>3, <1>5, Zenon DEF LifeInv, HeldInv
  <1>9. OnceInv'
    BY <1>3, <1>5, Zenon DEF LifeInv, OnceInv
  <1>10. GoneInv'
    BY <1>1, <1>4, ZenonT(30) DEF LifeInv, GoneInv
  <1>11. PushInv'
    BY <1>1, <1>2, <1>3, <1>5, SMTT(30) DEF LifeInv, PushInv
  <1>12. OwnInv'
    BY <1>1, <1>2, <1>4, SMTT(30) DEF LifeInv, OwnInv, Leaving
  <1>13. OwnCur'
    BY <1>1, <1>2, <1>4 DEF LifeInv, OwnCur
  <1>14. OwnBatch'
    <2> SUFFICES ASSUME ~appCloses', NEW q \in Procs, NEW t \in Sessions
                 PROVE  /\ <<t, "in">> \in batch'[q] => inbox'[t] = TRUE \/ ended'[t] # "no"
                        /\ <<t, "err">> \in batch'[q] => ended'[t] # "no"
      BY Zenon DEF OwnBatch
    <2>1. ASSUME NEW f \in {"in", "err"}, <<t, f>> \in batch'[q]
          PROVE  /\ f = "in" => inbox'[t] = TRUE \/ ended'[t] # "no"
                 /\ f = "err" => ended'[t] # "no"
      <3>1. Waits(q, t)'
        BY <2>1, Zenon DEF Waits, Events
      <3>2. <<t, f>> \in batch[q] /\ t # s
        BY <1>3, <2>1, <3>1, Zenon
      <3>3. inbox'[t] = inbox[t] /\ ended'[t] = ended[t] /\ ~appCloses
        BY <1>1, <3>2, Zenon
      <3>4. /\ f = "in" => inbox[t] = TRUE \/ ended[t] # "no"
            /\ f = "err" => ended[t] # "no"
        BY <2>1, <3>2, <3>3, Zenon DEF LifeInv, OwnBatch
      <3> QED
        BY <3>3, <3>4, Zenon
    <2> QED
      BY <2>1, Zenon
  <1>15. AccInv' /\ ConInv' /\ FdInv' /\ WatchInv' /\ OwnWatch' /\ OwnCon' /\ OwnSend'
    BY <1>1, AccInvFrame, ConInvFrame, FdInvFrame, WatchInvFrame, OwnWatchFrame,
       OwnConFrame, OwnSendFrame, Zenon DEF LifeInv
  <1> QED
    BY <1>1, <1>2, <1>3, <1>4, <1>5, <1>6, <1>7, <1>8, <1>9, <1>10, <1>11, <1>12, <1>13,
       <1>14, <1>15, Zenon DEF LifeInv

\* The handlers keep the invariant.
LEMMA HandleModKeeps ==
  ASSUME LifeInv, NEW p \in Procs, NEW s \in Sessions,
         HandleData(p, s) \/ HandleOut(p, s) \/ HandleOther(p, s)
  PROVE  LifeInv'
  <1> DEFINE Registers ==
               /\ watch' \in [Fds -> Sessions \cup {None}] /\ armed' \in [Fds -> BOOLEAN]
               /\ \A fd \in Fds : \/ watch'[fd] \in {watch[fd], None}
                                  \/ fd = fdOf[s] /\ watch[fd] # None /\ watch'[fd] = s
  <1>1. ASSUME NEW b \in BOOLEAN, Mod(s, b), fdOf[s] \in Fds PROVE Registers
    BY <1>1 DEF Mod, LifeInv, TypeOK
  <1>2. CASE HandleData(p, s)
    <2>1. Handle(p, s, "in") /\ "in" \in Events
      BY <1>2, Zenon DEF HandleData, Events
    <2>2. fdOf[s] \in Fds /\ (~appCloses => owner[fdOf[s]] = s)
      BY <2>1, HandleFacts, Zenon
    <2>3. Registers
      <3>1. Mod(s, TRUE) \/ UNCHANGED <<watch, armed>>
        BY <1>2, Zenon DEF HandleData
      <3>2. CASE UNCHANGED <<watch, armed>>
        BY <3>2, Zenon DEF LifeInv, TypeOK
      <3> HIDE DEF Registers
      <3> QED
        BY <1>1, <2>2, <3>1, <3>2, Zenon
    <2>4. /\ inbox' \in [Sessions -> BOOLEAN]
          /\ ~appCloses => \A t \in Sessions \ {s} : inbox'[t] = inbox[t]
      BY <1>2, <2>2, Zenon DEF HandleData, LifeInv, TypeOK
    <2>5. UNCHANGED <<status, fdOf, passive, owner, ended, acc, conFd, cur, appCloses, up>>
      BY <1>2, Zenon DEF HandleData, object
    <2> QED
      BY <2>1, <2>3, <2>4, <2>5, HandleKeeps, Zenon
  <1>3. CASE HandleOut(p, s) \/ HandleOther(p, s)
    <2>1. PICK e \in {"out", "other"} : Handle(p, s, e)
      BY <1>3, Zenon DEF HandleOut, HandleOther
    <2>2. e \in Events
      BY Zenon DEF Events
    <2>3. fdOf[s] \in Fds
      BY <2>1, <2>2, HandleFacts, Zenon
    <2>4. Registers
      <3>1. CASE HandleOut(p, s)
        <4>1. PICK again \in BOOLEAN : Mod(s, again)
          BY <3>1, Zenon DEF HandleOut
        <4> HIDE DEF Registers
        <4> QED
          BY <1>1, <2>3, <4>1, Zenon
      <3>2. CASE HandleOther(p, s)
        BY <2>3, <3>2, Zenon DEF HandleOther, Unwatch, LifeInv, TypeOK
      <3> QED
        BY <1>3, <3>1, <3>2, Zenon
    <2>5. /\ UNCHANGED <<status, fdOf, passive, owner, ended, acc, conFd, cur, appCloses, up>>
          /\ inbox' = inbox
      BY <1>3, Zenon DEF HandleOut, HandleOther, object, peer
    <2>6. inbox \in [Sessions -> BOOLEAN]
      BY Zenon DEF LifeInv, TypeOK
    <2> QED
      BY <2>1, <2>2, <2>4, <2>5, <2>6, HandleKeeps, Zenon
  <1> QED
    BY <1>2, <1>3, Zenon

\* Handling the end of the input or an error keeps the invariant: the peer has ended.
LEMMA HandleCloseKeeps ==
  ASSUME LifeInv, NEW p \in Procs, NEW s \in Sessions, HandleEnd(p, s) \/ HandleErr(p, s)
  PROVE  LifeInv'
  <1>1. PICK e \in {"in", "err"} :
          /\ Handle(p, s, e) /\ (e = "in" => ~HasData(fdOf[s]))
          /\ GoesToClose(p, s)
    BY Zenon DEF HandleEnd, HandleErr, GoesToClose, object, kernel, peer
  <1>2. e \in Events
    BY Zenon DEF Events
  <1>3. <<s, e>> \in batch[p] /\ (~appCloses => owner[fdOf[s]] = s)
    BY <1>1, <1>2, HandleFacts, Zenon
  <1>4. ~appCloses => ended[s] # "no"
    BY <1>1, <1>3, ZenonT(40) DEF HasData, LifeInv, OwnBatch
  <1> QED
    BY <1>1, <1>2, <1>4, EndKeeps, Zenon

\* Wait keeps the invariant.
LEMMA WaitKeeps ==
  ASSUME LifeInv, NEW p \in Procs, NEW ready \in SUBSET Fds, Wait(p, ready)
  PROVE  LifeInv'
  <1> USE Placeholders DEF Events, Past
  <1>1. UNCHANGED <<status, fdOf, passive, owner, watch, armed, inbox, ended, acc, conFd,
                    cur, appCloses, up>>
    BY Zenon DEF Wait, object, kernel, peer
  <1>2. PICK event \in [ready -> Events] :
          /\ \A fd \in ready : event[fd] \in Reported(fd)
          /\ batch' = [batch EXCEPT ![p] = {<<watch[fd], event[fd]>> : fd \in ready}]
    BY Zenon DEF Wait
  <1>3. \A fd \in ready : /\ fd \in Fds /\ fd % Threads = p /\ watch[fd] \in Sessions
                          /\ fdOf[watch[fd]] = fd /\ status[watch[fd]] = "live"
    <2>1. \A fd \in ready : fd % Threads = p
      BY Zenon DEF Wait
    <2>2. \A fd \in ready : watch[fd] # None
      BY <1>2, Zenon DEF Reported
    <2> QED
      BY <2>1, <2>2 DEF LifeInv, WatchInv, TypeOK
  <1>4. /\ batch' \in [Procs -> SUBSET (Sessions \X {"in", "out", "err", "other"})]
        /\ \A q \in Procs : q # p => batch'[q] = batch[q]
    BY <1>2, <1>3 DEF LifeInv, TypeOK
  <1>5. \A t \in Sessions, e \in Events : <<t, e>> \in batch'[p] =>
          fdOf[t] \in ready /\ watch[fdOf[t]] = t /\ event[fdOf[t]] = e
    <2>1. ASSUME NEW t \in Sessions, NEW e \in Events, <<t, e>> \in batch'[p]
          PROVE  fdOf[t] \in ready /\ watch[fdOf[t]] = t /\ event[fdOf[t]] = e
      <3>1. PICK fd \in ready : watch[fd] = t /\ event[fd] = e
        <4>1. batch'[p] = {<<watch[fd], event[fd]>> : fd \in ready}
          BY <1>2, Zenon DEF LifeInv, TypeOK
        <4>2. PICK fd \in ready : <<t, e>> = <<watch[fd], event[fd]>>
          BY <2>1, <4>1, Zenon
        <4> QED
          BY <4>2, Zenon
      <3> QED
        BY <1>3, <3>1, Zenon
    <2> QED
      BY <2>1, Zenon
  <1>6. \A q \in Procs, t \in Sessions : Busy(q, t)' <=> Busy(q, t)
    BY <1>1, Zenon DEF Busy
  <1>7. \A q \in Procs, t \in Sessions : Waits(q, t)' =>
          Waits(q, t) \/ (q = p /\ fdOf[t] \in ready /\ watch[fdOf[t]] = t)
    BY <1>4, <1>5, Zenon DEF Waits
  <1>8. \A t \in Sessions : ~Busy(p, t)
    BY Zenon DEF Wait, Busy
  <1>9. TypeOK'
    BY <1>1, <1>4, Zenon DEF LifeInv, TypeOK
  <1>10. HeldInv'
    <2>1. ASSUME NEW q \in Procs, NEW t \in Sessions, (Busy(q, t) \/ Waits(q, t))'
          PROVE  status[t] = "live" /\ fdOf[t] % Threads = q
      <3>1. CASE Busy(q, t) \/ Waits(q, t)
        BY <3>1, Zenon DEF LifeInv, HeldInv
      <3>2. CASE q = p /\ fdOf[t] \in ready /\ watch[fdOf[t]] = t
        BY <1>3, <3>2, Zenon
      <3> QED
        BY <1>6, <1>7, <2>1, <3>1, <3>2, Zenon
    <2> QED
      BY <1>1, <2>1, Zenon DEF HeldInv
  <1>11. OnceInv'
    BY <1>1, <1>4, <1>5, <1>6, <1>7, <1>8, SMTT(30) DEF LifeInv, OnceInv
  <1>12. PushInv'
    <2>1. \A t \in Sessions : (\A f \in Fds : watch[f] # t) =>
            fdOf[t] \notin ready \/ watch[fdOf[t]] # t
      BY <1>3, Zenon
    <2> QED
      BY <1>1, <1>6, <1>7, <2>1 DEF LifeInv, PushInv
  <1>13. OwnBatch'
    <2> SUFFICES ASSUME ~appCloses
                 PROVE  OwnBatch'
      BY <1>1, Zenon DEF OwnBatch
    <2>1. ASSUME NEW t \in Sessions, NEW e \in {"in", "err"}, <<t, e>> \in batch'[p]
          PROVE  /\ e = "in" => inbox[t] = TRUE \/ ended[t] # "no"
                 /\ e = "err" => ended[t] # "no"
      <3>1. fdOf[t] \in ready /\ watch[fdOf[t]] = t /\ event[fdOf[t]] = e
        BY <1>5, <2>1, ZenonT(40)
      <3>2. e \in Reported(fdOf[t]) /\ fdOf[t] \in Fds
        BY <1>2, <3>1, Zenon
      <3>3. owner[fdOf[t]] = t
        BY <3>1, <3>2, Zenon DEF LifeInv, OwnWatch
      <3> QED
        BY <3>1, <3>2, <3>3, Zenon DEF Reported, LifeInv, TypeOK
    <2>2. \A q \in Procs, t \in Sessions :
            /\ <<t, "in">> \in batch'[q] => inbox[t] = TRUE \/ ended[t] # "no"
            /\ <<t, "err">> \in batch'[q] => ended[t] # "no"
      <3>1. \A t \in Sessions :
              /\ <<t, "in">> \in batch'[p] => inbox[t] = TRUE \/ ended[t] # "no"
              /\ <<t, "err">> \in batch'[p] => ended[t] # "no"
        BY <2>1, Zenon
      <3>2. \A q \in Procs : q # p => batch'[q] = batch[q]
        BY <1>4, Zenon
      <3> QED
        BY <3>1, <3>2, Zenon DEF LifeInv, OwnBatch
    <2> QED
      BY <1>1, <2>2, Zenon DEF OwnBatch
  <1>14. CurInv' /\ AccInv' /\ ConInv' /\ FdInv' /\ WatchInv' /\ GoneInv' /\ OwnInv' /\
         OwnWatch' /\ OwnCur' /\ OwnCon' /\ OwnSend'
    BY <1>1, CurInvFrame, AccInvFrame, ConInvFrame, FdInvFrame, WatchInvFrame, GoneInvFrame,
       OwnInvFrame, OwnWatchFrame, OwnCurFrame, OwnConFrame, OwnSendFrame, Zenon DEF LifeInv
  <1> QED
    BY Zenon, <1>1, <1>2, <1>3, <1>4, <1>5, <1>6, <1>7, <1>8, <1>9, <1>10, <1>11, <1>12, <1>13,
       <1>14, Zenon DEF LifeInv

\* Del keeps the invariant.
LEMMA DelKeeps == ASSUME LifeInv, NEW p \in Procs, Del(p) PROVE LifeInv'
  <1> USE Placeholders DEF Events, Past
  <1>1. UNCHANGED <<status, fdOf, passive, owner, inbox, ended, acc, conFd, batch,
                    appCloses, up>>
    BY Zenon DEF Del, object, kernel, peer
  <1>2. /\ fdOf[cur[p].s] \in Fds /\ cur[p].s \in Sessions /\ Busy(p, cur[p].s)
        /\ cur' \in [Procs -> [pc : {"idle", "del", "close", "release"}, s : Sessions \cup {None}]]
    BY HeldFacts, NextPc, Zenon DEF Del, LifeInv
  <1>3. \A fd \in Fds : watch'[fd] \in {watch[fd], None}
    BY <1>2 DEF Del, Unwatch, LifeInv, TypeOK
  <1>4. \A q \in Procs : cur'[q].s = cur[q].s /\ cur'[q].pc = IF q = p THEN "close" ELSE cur[q].pc
    BY NextPc, Zenon DEF Del, LifeInv
  <1>5. \A q \in Procs, t \in Sessions : Busy(q, t)' <=> Busy(q, t)
    BY <1>4 DEF Busy, Del
  <1>6. \A q \in Procs, t \in Sessions : Waits(q, t)' <=> Waits(q, t)
    BY <1>1, Zenon DEF Waits
  <1>7. TypeOK'
    BY <1>1, <1>2 DEF LifeInv, TypeOK, Del, Unwatch
  <1>8. CurInv'
    BY <1>4 DEF LifeInv, CurInv, Del
  <1>9. WatchInv'
    BY <1>1 DEF LifeInv, TypeOK, WatchInv, Del, Unwatch
  <1>10. HeldInv'
    BY <1>1, <1>5, <1>6, ZenonT(30) DEF LifeInv, HeldInv
  <1>11. OnceInv'
    BY <1>1, <1>5, <1>6, SMTT(30) DEF LifeInv, OnceInv
  <1>12. GoneInv'
    BY <1>1, <1>3, <1>4, HeldFacts DEF LifeInv, GoneInv
  <1>13. PushInv'
    <2>1. ASSUME NEW a \in Acceptors, NEW t \in Sessions, acc[a].pc = "push", acc[a].s = t
          PROVE  \A fd \in Fds : watch'[fd] # t
      BY <1>3, <2>1 DEF LifeInv, PushInv
    <2> QED
      BY <1>1, <1>5, <1>6, <2>1, Zenon DEF LifeInv, PushInv
  <1>14. OwnInv'
    BY <1>1 DEF LifeInv, TypeOK, OwnInv, Leaving, Del, Unwatch
  <1>15. OwnWatch'
    BY <1>1 DEF LifeInv, TypeOK, OwnWatch, Del, Unwatch
  <1>16. OwnCur'
    BY <1>1 DEF LifeInv, TypeOK, OwnCur, Del, Unwatch
  <1>17. OwnSend'
    BY <1>1 DEF LifeInv, TypeOK, OwnSend, Del, Unwatch
  <1>18. AccInv' /\ ConInv' /\ FdInv' /\ OwnBatch' /\ OwnCon'
    BY <1>1, AccInvFrame, ConInvFrame, FdInvFrame, OwnBatchFrame, OwnConFrame,
       Zenon DEF LifeInv
  <1> QED
    BY <1>1, <1>2, <1>3, <1>4, <1>5, <1>6, <1>7, <1>8, <1>9, <1>10, <1>11, <1>12, <1>13,
       <1>14, <1>15, <1>16, <1>17, <1>18, Zenon DEF LifeInv

\* Close keeps the invariant.
LEMMA CloseKeeps == ASSUME LifeInv, NEW p \in Procs, Close(p) PROVE LifeInv'
  <1> USE Placeholders DEF Events, Past
  <1>1. UNCHANGED <<status, fdOf, passive, inbox, ended, acc, conFd, batch, appCloses, up>>
    BY Zenon DEF Close, object, kernel, peer
  <1>2. /\ fdOf[cur[p].s] \in Fds /\ cur[p].s \in Sessions /\ Busy(p, cur[p].s)
        /\ cur' \in [Procs -> [pc : {"idle", "del", "close", "release"}, s : Sessions \cup {None}]]
    BY HeldFacts, NextPc, Zenon DEF Close, LifeInv
  <1>3. /\ \A fd \in Fds : watch'[fd] \in {watch[fd], None}
        /\ watch'[fdOf[cur[p].s]] = None
    BY <1>2 DEF Close, CloseFd, Unwatch, LifeInv, TypeOK
  <1>4. \A fd \in Fds : owner'[fd] = IF fd = fdOf[cur[p].s] THEN None ELSE owner[fd]
    BY <1>2 DEF Close, CloseFd, LifeInv, TypeOK
  <1>5. \A q \in Procs : cur'[q].s = cur[q].s /\ cur'[q].pc = IF q = p THEN "release" ELSE cur[q].pc
    BY NextPc, Zenon DEF Close, LifeInv
  <1>6. \A q \in Procs, t \in Sessions : Busy(q, t)' <=> Busy(q, t)
    BY <1>5 DEF Busy, Close
  <1>7. \A q \in Procs, t \in Sessions : Waits(q, t)' <=> Waits(q, t)
    BY <1>1, Zenon DEF Waits
  <1>8. \A q \in Procs : cur[q].pc # "idle" /\ cur[q].s = cur[p].s => q = p
    BY <1>2, HeldFacts, Zenon DEF Busy
  <1>9. TypeOK'
    BY <1>1, <1>2 DEF LifeInv, TypeOK, Close, CloseFd, Unwatch
  <1>10. CurInv'
    BY <1>5 DEF LifeInv, CurInv, Close
  <1>11. WatchInv'
    BY <1>1 DEF LifeInv, TypeOK, WatchInv, Close, CloseFd, Unwatch
  <1>12. HeldInv'
    BY <1>1, <1>6, <1>7, Zenon DEF LifeInv, HeldInv
  <1>13. OnceInv'
    BY <1>1, <1>6, <1>7, SMTT(30) DEF LifeInv, OnceInv
  <1>14. GoneInv'
    BY <1>1, <1>2, <1>3, <1>5, HeldFacts DEF LifeInv, GoneInv
  <1>15. PushInv'
    <2>1. ASSUME NEW a \in Acceptors, NEW t \in Sessions, acc[a].pc = "push", acc[a].s = t
          PROVE  \A fd \in Fds : watch'[fd] # t
      BY <1>3, <2>1 DEF LifeInv, PushInv
    <2> QED
      BY <1>1, <1>6, <1>7, <2>1, Zenon DEF LifeInv, PushInv
  <1>16. OwnInv'
    <2>1. ~appCloses => owner[fdOf[cur[p].s]] = cur[p].s
      BY Zenon DEF Close, LifeInv, OwnCur
    <2>2. \A t \in Sessions : status[t] = "live" => fdOf[t] \in Fds
      BY Zenon DEF LifeInv, FdInv
    <2>3. \A t \in Sessions : Leaving(t)' <=> Leaving(t) \/ t = cur[p].s
      BY <1>5, Zenon DEF Leaving, Close
    <2>4. \A q \in Procs : cur[q].pc = "release" =>
            fdOf[cur[q].s] \in Fds /\ cur[q].s \in Sessions
      BY HeldFacts, Zenon
    <2> SUFFICES ASSUME ~appCloses
                 PROVE  OwnInv'
      BY <1>1, Zenon DEF OwnInv
    <2>5. \A t \in Sessions : status[t] = "live" => owner'[fdOf[t]] = t \/ Leaving(t)'
      BY <1>2, <1>4, <2>1, <2>2, <2>3, Zenon DEF LifeInv, OwnInv
    <2>6. \A fd \in Fds : owner'[fd] \in Sessions =>
            status[owner'[fd]] = "live" /\ fdOf[owner'[fd]] = fd
      BY <1>4, Zenon DEF LifeInv, OwnInv
    <2>7. \A q \in Procs : cur'[q].pc = "release" => owner'[fdOf[cur'[q].s]] # cur'[q].s
      BY <1>2, <1>4, <1>5, <2>4 DEF LifeInv, OwnInv
    <2> QED
      BY <1>1, <2>5, <2>6, <2>7, Zenon DEF OwnInv
  <1>17. OwnWatch'
    BY <1>1, <1>3, <1>4, Zenon DEF LifeInv, OwnWatch
  <1>18. OwnCur'
    <2>1. \A q \in Procs \ {p} : cur[q].pc \in {"del", "close"} =>
            fdOf[cur[q].s] \in Fds /\ cur[q].s # cur[p].s
      BY <1>8, HeldFacts, Zenon
    <2>2. ~appCloses => owner[fdOf[cur[p].s]] = cur[p].s
      BY Zenon DEF Close, LifeInv, OwnCur
    <2> QED
      BY <1>1, <1>2, <1>4, <1>5, <2>1, <2>2 DEF LifeInv, OwnCur
  <1>19. OwnCon'
    BY <1>1, <1>2, <1>4, HeldFacts DEF LifeInv, OwnCon, OwnCur, ConInv, Close
  <1>20. OwnSend'
    BY <1>1 DEF LifeInv, TypeOK, OwnSend, Close, CloseFd, Unwatch
  <1>21. AccInv' /\ ConInv' /\ FdInv' /\ OwnBatch'
    BY <1>1, AccInvFrame, ConInvFrame, FdInvFrame, OwnBatchFrame, Zenon DEF LifeInv
  <1> QED
    BY Zenon, <1>1, <1>2, <1>3, <1>4, <1>5, <1>6, <1>7, <1>8, <1>9, <1>10, <1>11, <1>12, <1>13,
       <1>14, <1>15, <1>16, <1>17, <1>18, <1>19, <1>20, <1>21, Zenon DEF LifeInv

\* Release keeps the invariant.
LEMMA ReleaseKeeps == ASSUME LifeInv, NEW p \in Procs, Release(p) PROVE LifeInv'
  <1> USE Placeholders DEF Events, Past
  <1>1. UNCHANGED <<fdOf, passive, owner, watch, armed, inbox, ended, acc, conFd, batch,
                    appCloses, up>>
    BY Zenon DEF Release, object, kernel, peer
  <1>2. /\ fdOf[cur[p].s] \in Fds /\ cur[p].s \in Sessions /\ Busy(p, cur[p].s)
        /\ cur' \in [Procs -> [pc : {"idle", "del", "close", "release"}, s : Sessions \cup {None}]]
    BY HeldFacts, Zenon DEF Release, Idle, LifeInv, TypeOK
  <1>3. \A t \in Sessions : status'[t] = IF t = cur[p].s THEN "released" ELSE status[t]
    BY Zenon DEF Release, LifeInv, TypeOK
  <1>4. /\ cur'[p].pc = "idle" /\ cur'[p].s = None
        /\ \A q \in Procs \ {p} : cur'[q] = cur[q]
    BY Zenon DEF Release, Idle, LifeInv, TypeOK
  <1>5. \A q \in Procs, t \in Sessions : Busy(q, t)' <=> Busy(q, t) /\ q # p
    BY <1>4, Zenon DEF Busy
  <1>6. \A q \in Procs, t \in Sessions : Waits(q, t)' <=> Waits(q, t)
    BY <1>1, Zenon DEF Waits
  <1>7. \A q \in Procs : (Busy(q, cur[p].s) => q = p) /\ ~Waits(q, cur[p].s)
    BY <1>2, HeldFacts DEF LifeInv, OnceInv
  <1>8. TypeOK'
    BY <1>1, <1>2 DEF LifeInv, TypeOK, Release
  <1>9. CurInv'
    BY <1>4, Zenon DEF LifeInv, CurInv
  <1>10. AccInv'
    BY <1>1, <1>3, Zenon DEF LifeInv, AccInv
  <1>11. FdInv'
    BY <1>1, <1>2, <1>3, Zenon DEF LifeInv, FdInv
  <1>12. WatchInv'
    <2>1. \A fd \in Fds : watch[fd] # cur[p].s
      BY <1>2 DEF LifeInv, WatchInv, GoneInv, Release
    <2> QED
      BY <1>1, <1>3, <2>1, SMTT(30) DEF LifeInv, WatchInv, TypeOK
  <1>13. HeldInv'
    BY <1>1, <1>3, <1>5, <1>6, <1>7 DEF LifeInv, HeldInv
  <1>14. OnceInv'
    BY <1>1, <1>5, <1>6 DEF LifeInv, OnceInv
  <1>15. GoneInv'
    BY <1>1, <1>4, ZenonT(30) DEF LifeInv, GoneInv
  <1>16. PushInv'
    <2>1. ASSUME NEW a \in Acceptors, NEW t \in Sessions, acc[a].pc = "push", acc[a].s = t
          PROVE  t # cur[p].s
      BY <1>2, <2>1, Zenon DEF LifeInv, PushInv
    <2> QED
      BY <1>1, <1>3, <1>5, <1>6, <2>1 DEF LifeInv, PushInv
  <1>17. OwnInv'
    <2> SUFFICES ASSUME ~appCloses
                 PROVE  OwnInv'
      BY <1>1, Zenon DEF OwnInv
    <2>1. ASSUME NEW t \in Sessions, status'[t] = "live"
          PROVE  owner[fdOf[t]] = t \/ Leaving(t)'
      <3>1. t # cur[p].s /\ status[t] = "live"
        BY <1>3, <2>1, Zenon
      <3>2. CASE Leaving(t)
        BY <1>4, <3>1, <3>2, Zenon DEF Leaving
      <3> QED
        BY <3>1, <3>2, Zenon DEF LifeInv, OwnInv
    <2>2. ASSUME NEW fd \in Fds, owner[fd] \in Sessions
          PROVE  status'[owner[fd]] = "live" /\ fdOf[owner[fd]] = fd
      BY <1>3, <2>2 DEF LifeInv, OwnInv, Release
    <2>3. \A q \in Procs : cur'[q].pc = "release" => owner[fdOf[cur'[q].s]] # cur'[q].s
      BY <1>4, Zenon DEF LifeInv, OwnInv
    <2> QED
      BY <1>1, <2>1, <2>2, <2>3, Zenon DEF OwnInv
  <1>18. OwnCur'
    BY <1>1, <1>4, Zenon DEF LifeInv, OwnCur
  <1>19. ConInv' /\ OwnWatch' /\ OwnBatch' /\ OwnCon' /\ OwnSend'
    BY <1>1, ConInvFrame, OwnWatchFrame, OwnBatchFrame, OwnConFrame, OwnSendFrame,
       Zenon DEF LifeInv
  <1> QED
    BY <1>1, <1>2, <1>3, <1>4, <1>5, <1>6, <1>7, <1>8, <1>9, <1>10, <1>11, <1>12, <1>13,
       <1>14, <1>15, <1>16, <1>17, <1>18, <1>19, Zenon DEF LifeInv

\* The application's closing a descriptor keeps the invariant.
LEMMA CloseFdKeeps ==
  ASSUME LifeInv, appCloses, NEW fd \in Fds, CloseFd(fd),
         UNCHANGED <<status, fdOf, passive, inbox, ended, acc, conFd, batch, cur, appCloses, up>>
  PROVE  LifeInv'
  <1> USE Placeholders DEF Past
  <1>1. UNCHANGED <<status, fdOf, passive, inbox, ended, acc, conFd, batch, cur, appCloses,
                    up>>
    BY Zenon
  <1>2. \A f \in Fds : watch'[f] \in {watch[f], None}
    BY Zenon DEF CloseFd, Unwatch, LifeInv, TypeOK
  <1>3. \A q \in Procs, t \in Sessions : Busy(q, t)' <=> Busy(q, t)
    BY <1>1, Zenon DEF Busy
  <1>4. \A q \in Procs, t \in Sessions : Waits(q, t)' <=> Waits(q, t)
    BY <1>1, Zenon DEF Waits
  <1>5. TypeOK'
    BY <1>1, ZenonT(40) DEF LifeInv, TypeOK, CloseFd, Unwatch
  <1>6. WatchInv'
    BY <1>1, <1>2, Zenon DEF LifeInv, WatchInv
  <1>7. GoneInv'
    <2>1. \A q \in Procs : cur[q].pc = "release" => cur[q].s \in Sessions /\ fdOf[cur[q].s] \in Fds
      BY HeldFacts, Zenon
    <2> QED
      BY <1>1, <1>2, <2>1, Zenon DEF LifeInv, GoneInv
  <1>8. PushInv'
    BY <1>1, <1>2, <1>3, <1>4 DEF LifeInv, PushInv
  <1>9. OwnInv'
    BY <1>1 DEF OwnInv
  <1>10. OwnWatch'
    BY <1>1 DEF OwnWatch
  <1>11. OwnCur'
    BY <1>1 DEF OwnCur
  <1>12. OwnCon'
    BY <1>1 DEF OwnCon
  <1>13. OwnSend'
    BY <1>1 DEF OwnSend
  <1>14. CurInv' /\ AccInv' /\ ConInv' /\ FdInv' /\ HeldInv' /\ OnceInv' /\ OwnBatch'
    BY <1>1, CurInvFrame, AccInvFrame, ConInvFrame, FdInvFrame, HeldInvFrame, OnceInvFrame,
       OwnBatchFrame, Zenon DEF LifeInv
  <1> QED
    BY Zenon, <1>1, <1>2, <1>3, <1>4, <1>5, <1>6, <1>7, <1>8, <1>9, <1>10, <1>11, <1>12, <1>13,
       <1>14, Zenon DEF LifeInv

\* Closing a descriptor from the application's thread keeps the invariant.
LEMMA AppClosesKeeps ==
  ASSUME LifeInv, ConnectorStop \/ \E s \in Sessions : SessionClose(s) PROVE LifeInv'
  <1>1. CASE ConnectorStop
    BY <1>1, CloseFdKeeps, Zenon DEF ConnectorStop, object, peer, LifeInv, TypeOK
  <1>2. ASSUME NEW s \in Sessions, SessionClose(s) PROVE LifeInv'
    BY <1>2, CloseFdKeeps, Zenon DEF SessionClose, object, peer, LifeInv, FdInv
  <1> QED
    BY <1>1, <1>2, Zenon

\* Push keeps the invariant.
LEMMA PushKeeps == ASSUME LifeInv, Calm, NEW a \in Acceptors, Push(a) PROVE LifeInv'
  <1> USE Placeholders DEF Events, Past
  <1>1. UNCHANGED <<status, fdOf, passive, owner, inbox, ended, conFd, batch, cur,
                    appCloses, up>>
    BY Zenon DEF Push, object, kernel, peer
  <1>2. acc[a].s \in Sessions /\ fdOf[acc[a].s] \in Fds /\ acc[a].pc = "push"
    BY Zenon DEF Push, LifeInv, AccInv, FdInv
  <1>3. /\ acc' \in [Acceptors -> [pc : {"idle", "connect", "push", "on_connect"},
                                s : Sessions \cup {None}]]
        /\ acc'[a].pc = "on_connect" /\ acc'[a].s = acc[a].s
        /\ \A c \in Acceptors \ {a} : acc'[c] = acc[c]
    <2>1. [acc[a] EXCEPT !.pc = "on_connect"] = [pc |-> "on_connect", s |-> acc[a].s]
      BY DEF LifeInv, TypeOK
    <2>2. acc' = [acc EXCEPT ![a] = [pc |-> "on_connect", s |-> acc[a].s]]
      BY <2>1, Zenon DEF Push
    <2> QED
      BY <1>2, <2>2, Zenon DEF LifeInv, TypeOK
  <1>4. /\ watch' \in [Fds -> Sessions \cup {None}] /\ armed' \in [Fds -> BOOLEAN]
        /\ \A f \in Fds : watch'[f] = watch[f] \/ (f = fdOf[acc[a].s] /\ watch'[f] = acc[a].s)
    BY <1>2, ZenonT(40) DEF Push, LifeInv, TypeOK
  <1>5. /\ status[acc[a].s] = "live" /\ \A q \in Procs : ~Busy(q, acc[a].s)
        /\ ~appCloses => owner[fdOf[acc[a].s]] = acc[a].s
    <2>1. status[acc[a].s] = "live" /\ \A q \in Procs : ~Busy(q, acc[a].s)
      BY <1>2, Zenon DEF LifeInv, PushInv
    <2> QED
      BY <1>2, <2>1 DEF LifeInv, OwnInv, Leaving, Busy
  <1>6. \A q \in Procs, t \in Sessions : Busy(q, t)' <=> Busy(q, t)
    BY <1>1, Zenon DEF Busy
  <1>7. \A q \in Procs, t \in Sessions : Waits(q, t)' <=> Waits(q, t)
    BY <1>1, Zenon DEF Waits
  <1>8. TypeOK'
    BY <1>1, <1>3, <1>4, Zenon DEF LifeInv, TypeOK
  <1>9. AccInv'
    <2>1. \A c \in Acceptors : acc'[c].s = acc[c].s /\ (acc'[c].pc \in Past <=> acc[c].pc \in Past)
      BY <1>2, <1>3, Zenon
    <2> QED
      BY <1>1, <2>1, ZenonT(40) DEF LifeInv, AccInv
  <1>10. ConInv'
    BY <1>1, <1>2, <1>3, Zenon DEF LifeInv, ConInv
  <1>11. WatchInv'
    BY <1>1, <1>2, <1>4, <1>5, ZenonT(30) DEF LifeInv, WatchInv
  <1>12. GoneInv'
    BY <1>1, <1>2, <1>4, <1>5, HeldFacts DEF LifeInv, GoneInv
  <1>13. PushInv'
    <2>1. ASSUME NEW c \in Acceptors, NEW t \in Sessions, acc'[c].pc = "push", acc'[c].s = t
          PROVE  /\ status[t] = "live"
                 /\ \A q \in Procs : ~Busy(q, t) /\ ~Waits(q, t)
                 /\ \A f \in Fds : watch'[f] # t
      <3>1. c # a /\ acc[c].pc = "push" /\ acc[c].s = t
        BY <1>3, <2>1, Zenon
      <3>2. t # acc[a].s
        BY <1>2, <3>1, Zenon DEF LifeInv, AccInv
      <3> QED
        BY <1>4, <3>1, <3>2 DEF LifeInv, PushInv
    <2> QED
      BY <1>1, <1>6, <1>7, <2>1, Zenon DEF PushInv
  <1>14. OwnWatch'
    BY <1>1, <1>2, <1>4, <1>5, Zenon DEF LifeInv, OwnWatch
  <1>15. OwnCon'
    BY <1>1, <1>3, ZenonT(30) DEF LifeInv, OwnCon
  <1>16. OwnSend'
    <2> SUFFICES ASSUME ~appCloses', OnConnectSends, NEW c \in Acceptors
                 PROVE  watch'[fdOf'[acc'[c].s]] \in {None, acc'[c].s}
      BY Zenon DEF OwnSend
    <2>1. c = a
      BY Zenon DEF Calm
    <2>2. /\ ~appCloses /\ fdOf' = fdOf /\ acc'[c].s = acc[a].s
          /\ fdOf[acc[a].s] \in Fds
      BY <1>1, <1>2, <1>3, <2>1, Zenon
    <2>3. watch[fdOf[acc[a].s]] \in {None, acc[a].s}
      BY <1>5, <2>2, Zenon DEF LifeInv, OwnWatch
    <2> QED
      BY <1>4, <2>2, <2>3, Zenon
  <1>17. CurInv' /\ FdInv' /\ HeldInv' /\ OnceInv' /\ OwnInv' /\ OwnCur' /\ OwnBatch'
    BY <1>1, CurInvFrame, FdInvFrame, HeldInvFrame, OnceInvFrame, OwnInvFrame, OwnCurFrame,
       OwnBatchFrame, Zenon DEF LifeInv
  <1> QED
    BY Zenon, <1>1, <1>2, <1>3, <1>4, <1>5, <1>6, <1>7, <1>8, <1>9, <1>10, <1>11, <1>12, <1>13,
       <1>14, <1>15, <1>16, <1>17, Zenon DEF LifeInv

\* OnConnect keeps the invariant.
LEMMA OnConnectKeeps == ASSUME LifeInv, Calm, NEW a \in Acceptors, OnConnect(a) PROVE LifeInv'
  <1> USE Placeholders DEF Events, Past
  <1>1. UNCHANGED <<status, fdOf, passive, owner, inbox, ended, conFd, batch, cur,
                    appCloses, up>>
    BY Zenon DEF OnConnect, object, kernel, peer, Mod
  <1>2. watch' = watch /\ armed' \in [Fds -> BOOLEAN]
    <2>1. CASE ~OnConnectSends
      BY <2>1, Zenon DEF OnConnect, LifeInv, TypeOK
    <2>2. CASE OnConnectSends
      <3>1. ~appCloses /\ fdOf[acc[a].s] \in Fds /\ Mod(acc[a].s, TRUE)
        BY <2>2, Zenon DEF OnConnect, Calm, LifeInv, TypeOK, AccInv, FdInv
      <3>2. watch[fdOf[acc[a].s]] \in {None, acc[a].s}
        BY <2>2, <3>1, ZenonT(40) DEF OnConnect, LifeInv, OwnSend
      <3>3. CASE watch[fdOf[acc[a].s]] = None
        BY <3>1, <3>3, Zenon DEF Mod, LifeInv, TypeOK
      <3>4. CASE watch[fdOf[acc[a].s]] # None
        <4>1. /\ watch' = [watch EXCEPT ![fdOf[acc[a].s]] = watch[fdOf[acc[a].s]]]
              /\ armed' = [armed EXCEPT ![fdOf[acc[a].s]] = TRUE]
          BY <3>1, <3>2, <3>4, Zenon DEF Mod
        <4> QED
          BY <3>1, <4>1, Zenon DEF LifeInv, TypeOK
      <3> QED
        BY <3>3, <3>4, Zenon
    <2> QED
      BY <2>1, <2>2, Zenon
  <1>3. /\ acc' \in [Acceptors -> [pc : {"idle", "connect", "push", "on_connect"},
                                s : Sessions \cup {None}]]
        /\ acc'[a].pc = "idle" /\ \A c \in Acceptors \ {a} : acc'[c] = acc[c]
    BY Zenon DEF OnConnect, Idle, LifeInv, TypeOK
  <1>4. \A q \in Procs, t \in Sessions : Busy(q, t)' <=> Busy(q, t)
    BY <1>1, Zenon DEF Busy
  <1>5. \A q \in Procs, t \in Sessions : Waits(q, t)' <=> Waits(q, t)
    BY <1>1, Zenon DEF Waits
  <1>6. TypeOK'
    BY <1>1, <1>2, <1>3, ZenonT(40) DEF LifeInv, TypeOK
  <1>7. AccInv'
    <2>1. \A c \in Acceptors : acc'[c].pc \in Past => acc'[c] = acc[c]
      BY <1>3, Zenon
    <2> QED
      BY <1>1, <2>1, Zenon DEF LifeInv, AccInv
  <1>8. ConInv'
    BY <1>1, <1>3, Zenon DEF LifeInv, ConInv
  <1>9. WatchInv'
    BY <1>1, <1>2, Zenon DEF LifeInv, WatchInv
  <1>10. GoneInv'
    BY <1>1, <1>2, ZenonT(30) DEF LifeInv, GoneInv
  <1>11. PushInv'
    <2>1. \A c \in Acceptors : acc'[c].pc = "push" => acc'[c] = acc[c]
      BY <1>3, Zenon
    <2> SUFFICES ASSUME NEW c \in Acceptors, NEW t \in Sessions, acc'[c].pc = "push", acc'[c].s = t
                 PROVE  /\ status'[t] = "live"
                        /\ \A q \in Procs : ~Busy(q, t)' /\ ~Waits(q, t)'
                        /\ \A f \in Fds : watch'[f] # t
      BY Zenon DEF PushInv
    <2>2. /\ status[t] = "live"
          /\ \A q \in Procs : ~Busy(q, t) /\ ~Waits(q, t)
          /\ \A f \in Fds : watch[f] # t
      BY <2>1, Zenon DEF LifeInv, PushInv
    <2> QED
      BY <1>1, <1>2, <1>4, <1>5, <2>2, Zenon
  <1>12. OwnWatch'
    BY <1>1, <1>2, Zenon DEF LifeInv, OwnWatch
  <1>13. OwnCon'
    BY <1>1, <1>3, Zenon DEF LifeInv, OwnCon
  <1>14. OwnSend'
    BY <1>1, <1>2, <1>3, Zenon DEF LifeInv, OwnSend
  <1>15. CurInv' /\ FdInv' /\ HeldInv' /\ OnceInv' /\ OwnInv' /\ OwnCur' /\ OwnBatch'
    BY <1>1, CurInvFrame, FdInvFrame, HeldInvFrame, OnceInvFrame, OwnInvFrame, OwnCurFrame,
       OwnBatchFrame, Zenon DEF LifeInv
  <1> QED
    BY Zenon, <1>1, <1>2, <1>3, <1>4, <1>5, <1>6, <1>7, <1>8, <1>9, <1>10, <1>11, <1>12, <1>13,
       <1>14, <1>15, Zenon DEF LifeInv

\* PeerSends keeps the invariant.
LEMMA PeerSendsKeeps == ASSUME LifeInv, NEW s \in Sessions, PeerSends(s) PROVE LifeInv'
  <1> USE Placeholders DEF Events, Past
  <1>1. UNCHANGED <<status, fdOf, passive, owner, watch, armed, ended, acc, conFd, batch,
                    cur, appCloses, up>>
    BY Zenon DEF PeerSends, object, kernel, peer
  <1>2. \A t \in Sessions : inbox[t] = TRUE => inbox'[t] = TRUE
    BY Zenon DEF PeerSends, LifeInv, TypeOK
  <1>3. TypeOK'
    BY <1>1, Zenon DEF LifeInv, TypeOK, PeerSends, Connection
  <1>4. OwnBatch'
    BY <1>1, <1>2, Zenon DEF LifeInv, OwnBatch
  <1>5. CurInv' /\ AccInv' /\ ConInv' /\ FdInv' /\ WatchInv' /\ HeldInv' /\ OnceInv' /\
        GoneInv' /\ PushInv' /\ OwnInv' /\ OwnWatch' /\ OwnCur' /\ OwnCon' /\ OwnSend'
    BY <1>1, CurInvFrame, AccInvFrame, ConInvFrame, FdInvFrame, WatchInvFrame, HeldInvFrame,
       OnceInvFrame, GoneInvFrame, PushInvFrame, OwnInvFrame, OwnWatchFrame, OwnCurFrame,
       OwnConFrame, OwnSendFrame, Zenon DEF LifeInv
  <1> QED
    BY <1>1, <1>2, <1>3, <1>4, <1>5, Zenon DEF LifeInv

\* PeerEnds keeps the invariant.
LEMMA PeerEndsKeeps == ASSUME LifeInv, NEW s \in Sessions, PeerEnds(s) PROVE LifeInv'
  <1> USE Placeholders DEF Events, Past
  <1>1. UNCHANGED <<status, fdOf, passive, owner, watch, armed, acc, conFd, batch, cur,
                    appCloses, up>>
    BY Zenon DEF PeerEnds, object, kernel, peer
  <1>2. ended'[s] # "no" /\ \A t \in Sessions \ {s} : inbox'[t] = inbox[t] /\ ended'[t] = ended[t]
    BY LifeAssumption, SMTT(30) DEF PeerEnds, LifeInv, TypeOK
  <1>3. TypeOK'
    BY <1>1, SMTT(30) DEF LifeInv, TypeOK, PeerEnds, Connection
  <1>4. OwnCur'
    BY <1>1 DEF LifeInv, TypeOK, OwnCur, PeerEnds, Connection
  <1>5. OwnBatch'
    BY <1>1, <1>2, Zenon DEF LifeInv, OwnBatch
  <1>6. CurInv' /\ AccInv' /\ ConInv' /\ FdInv' /\ WatchInv' /\ HeldInv' /\ OnceInv' /\
        GoneInv' /\ PushInv' /\ OwnInv' /\ OwnWatch' /\ OwnCon' /\ OwnSend'
    BY <1>1, CurInvFrame, AccInvFrame, ConInvFrame, FdInvFrame, WatchInvFrame, HeldInvFrame,
       OnceInvFrame, GoneInvFrame, PushInvFrame, OwnInvFrame, OwnWatchFrame, OwnConFrame,
       OwnSendFrame, Zenon DEF LifeInv
  <1> QED
    BY <1>1, <1>2, <1>3, <1>4, <1>5, <1>6, Zenon DEF LifeInv

\* No step changes anything.
LEMMA StutterKeeps == ASSUME LifeInv, UNCHANGED vars PROVE LifeInv'
  <1>1. UNCHANGED <<status, fdOf, passive, owner, watch, armed, inbox, ended, acc, conFd,
                    batch, cur, appCloses, up>>
    BY Zenon DEF vars, object, kernel, peer
  <1>2. TypeOK'
    BY <1>1, Zenon DEF LifeInv, TypeOK
  <1> QED
    BY Zenon, <1>1, <1>2, CurInvFrame, AccInvFrame, ConInvFrame, FdInvFrame, WatchInvFrame,
       HeldInvFrame, OnceInvFrame, GoneInvFrame, PushInvFrame, OwnInvFrame, OwnWatchFrame,
       OwnCurFrame, OwnBatchFrame, OwnConFrame, OwnSendFrame DEF LifeInv

\* The initial states satisfy the invariant.
LEMMA InitHolds == ASSUME Init PROVE LifeInv
  <1> USE Placeholders DEF Init, Idle, Past
  <1>1. TypeOK /\ CurInv /\ AccInv /\ ConInv /\ FdInv /\ WatchInv
    BY Zenon DEF TypeOK, CurInv, AccInv, ConInv, FdInv, WatchInv
  <1>2. HeldInv /\ OnceInv /\ GoneInv /\ PushInv
    BY Zenon DEF HeldInv, OnceInv, GoneInv, PushInv, Busy, Waits
  <1>3. OwnInv /\ OwnWatch /\ OwnCur /\ OwnBatch /\ OwnCon /\ OwnSend
    BY Zenon DEF OwnInv, OwnWatch, OwnCur, OwnBatch, OwnCon, OwnSend
  <1> QED
    BY <1>1, <1>2, <1>3, Zenon DEF LifeInv

\* Every step of Next, and every stuttering step, keeps the invariant.
LEMMA NextKeeps == ASSUME LifeInv, Calm, [Next]_vars PROVE LifeInv'
  <1>1. CASE Accept \/ AcceptThrows \/ Connect \/ Connected \/ ConnectFails
    BY Zenon, <1>1, AcceptKeeps, AcceptThrowsKeeps, ConnectKeeps, ConnectedKeeps,
       ConnectFailsKeeps
  <1>2. ASSUME NEW a \in Acceptors, AcceptorStep(a) PROVE LifeInv'
    BY <1>2, PushKeeps, OnConnectKeeps, Zenon DEF AcceptorStep
  <1>3. ASSUME NEW s \in Sessions, PeerSends(s) \/ PeerEnds(s) \/ SessionClose(s)
        PROVE  LifeInv'
    BY <1>3, PeerSendsKeeps, PeerEndsKeeps, AppClosesKeeps, Zenon
  <1>4. ASSUME NEW p \in Procs, ProcStep(p) PROVE LifeInv'
    BY <1>4, HandleModKeeps, HandleCloseKeeps, DelKeeps, CloseKeeps, ReleaseKeeps, Zenon DEF ProcStep
  <1>5. ASSUME NEW p \in Procs, NEW ready \in SUBSET Fds, Wait(p, ready) PROVE LifeInv'
    BY <1>5, WaitKeeps, Zenon
  <1> QED
    BY <1>1, <1>2, <1>3, <1>4, <1>5, AppClosesKeeps, StutterKeeps, Zenon DEF Next

\* The invariant says what the properties say.
LEMMA LifeInvImplies ==
  ASSUME LifeInv
  PROVE  ProcessorUsesLive /\ SessionExclusive /\ WatchConsistent /\ ClosesOwnEnded
  <1>1. ASSUME NEW p \in Procs, NEW s \in Held(p)
        PROVE  s \in Sessions /\ (Busy(p, s) \/ Waits(p, s))
    <2>1. CASE s = cur[p].s /\ s # None
      BY <2>1, Zenon DEF Busy, LifeInv, CurInv, TypeOK
    <2>2. CASE \E e \in batch[p] : s = e[1]
      <3>1. PICK e \in batch[p] : s = e[1]
        BY <2>2, Zenon
      <3>2. e \in Sessions \X {"in", "out", "err", "other"}
        BY Zenon DEF LifeInv, TypeOK
      <3>3. e = <<e[1], e[2]>> /\ e[1] \in Sessions /\ e[2] \in Events
        BY <3>2 DEF Events
      <3> QED
        BY <3>1, <3>3, Zenon DEF Waits
    <2> QED
      BY <1>1, <2>1, <2>2, Zenon DEF Held
  <1>2. ProcessorUsesLive
    BY <1>1, HeldFacts, Zenon DEF ProcessorUsesLive
  <1>3. ASSUME NEW p \in Procs, NEW q \in Procs, NEW s \in Held(p), s \in Held(q)
        PROVE  p = q
    BY <1>1, <1>3, HeldFacts, Zenon
  <1>4. SessionExclusive
    BY <1>3, Zenon DEF SessionExclusive
  <1>5. WatchConsistent
    BY Zenon DEF WatchConsistent, LifeInv, OwnWatch, WatchInv, OwnInv
  <1>6. ClosesOwnEnded
    BY Zenon DEF ClosesOwnEnded, LifeInv, OwnCur
  <1> QED
    BY <1>2, <1>4, <1>5, <1>6, Zenon

\* LifeInv holds in every state that the system reaches.
LEMMA LifeInductive == ASSUME Calm PROVE Spec => []LifeInv
  <1>1. Init => LifeInv
    BY InitHolds, Zenon
  <1>2. LifeInv /\ [Next]_vars => LifeInv'
    BY NextKeeps, Zenon
  <1> QED
    BY <1>1, <1>2, PTL DEF Spec

-----------------------------------------------------------------------------
\* Descriptors, sessions, registrations, batches and the threads' own state keep
\* their types however sessions start and end.
THEOREM LifeTypes == ASSUME Calm PROVE Spec => []TypeOK
  <1>1. LifeInv => TypeOK
    BY Zenon DEF LifeInv
  <1> QED
    BY <1>1, LifeInductive, PTL

\* Processor::run never touches a session that was released, whatever batches of
\* events were collected before and however descriptors are reused.
THEOREM LifeUsesLive == ASSUME Calm PROVE Spec => []ProcessorUsesLive
  <1>1. LifeInv => ProcessorUsesLive
    BY LifeInvImplies, Zenon
  <1> QED
    BY <1>1, LifeInductive, PTL

\* Scheduler::push gives a session to one processor, and no other ever gets it.
THEOREM LifeExclusive == ASSUME Calm PROVE Spec => []SessionExclusive
  <1>1. LifeInv => SessionExclusive
    BY LifeInvImplies, Zenon
  <1> QED
    BY <1>1, LifeInductive, PTL

\* As long as only processors close descriptors, a registration leads to the live
\* session that owns the descriptor.
THEOREM LifeWatch == ASSUME Calm PROVE Spec => []WatchConsistent
  <1>1. LifeInv => WatchConsistent
    BY LifeInvImplies, Zenon
  <1> QED
    BY <1>1, LifeInductive, PTL

\* As long as only processors close descriptors, Processor::run closes the session's
\* own socket and only after the peer ended the connection.
THEOREM LifeCloses == ASSUME Calm PROVE Spec => []ClosesOwnEnded
  <1>1. LifeInv => ClosesOwnEnded
    BY LifeInvImplies, Zenon
  <1> QED
    BY <1>1, LifeInductive, PTL
=============================================================================
