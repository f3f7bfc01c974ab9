------------------------ MODULE KqueueSessionProofs -------------------------
(***************************************************************************)
(* KqueueSession: types, the filters of an open session and the answers    *)
(* that async_send refuses.                                                *)
(***************************************************************************)
EXTENDS KqueueSession, SequenceTheorems, TLAPS

\* The change lists of updateEvents and what is left of them after one change.
AddRead == [op |-> "add", filter |-> "read"]
DelRead == [op |-> "del", filter |-> "read"]
AddWrite == [op |-> "add", filter |-> "write"]
DelWrite == [op |-> "del", filter |-> "write"]
BothOn == <<AddRead, AddWrite>>
ReadOnly == <<AddRead, DelWrite>>
WriteOnly == <<DelRead, AddWrite>>
WriteOn == <<AddWrite>>
WriteOff == <<DelWrite>>
Nothing == << >>

\* A session that the processor cannot know yet.
Fresh(s) == fdOf[s] = None \/ (changes["listener"].s = s /\ changes["listener"].ops = BothOn)

\* What threads, descriptors and sessions know of each other, whatever is mixed up.
ListInv ==
  /\ changes["listener"].ops \in {Nothing, BothOn, WriteOn}
  /\ changes["processor"].ops \in {Nothing, BothOn, ReadOnly, WriteOnly, WriteOn, WriteOff}
  /\ changes["listener"].ops # Nothing =>
       changes["listener"].s # None /\ fdOf[changes["listener"].s] # None
  /\ changes["processor"].ops # Nothing => served # None /\ changes["processor"].s = served
  /\ calls # << >> \/ closing => served # None

OwnerInv ==
  /\ \A s \in Sessions : head[s] <= tail[s]
  /\ \A fd \in Fds : owner[fd] # None => fdOf[owner[fd]] = fd
  /\ \A fd \in Fds : owner[fd] = None => \A f \in Filters : reg[fd][f] = None

FreshInv ==
  \A s \in Sessions : Fresh(s) =>
    /\ \A e \in batch : e.s # s
    /\ served # s /\ changes["processor"].s # s
    /\ \A fd \in Fds, f \in Filters : reg[fd][f] # s
    /\ head[s] = 0 /\ tail[s] = 0

BaseInv == TypeOK /\ ListInv /\ OwnerInv /\ FreshInv

\* The changes that the processor has still to make for session s.
Ahead(s) == IF changes["processor"].s = s THEN changes["processor"].ops ELSE Nothing

Unsent(s) == head[s] < tail[s] /\ ~short[s]

\* Until it is closed a session that the processor knows has a filter, except between
\* the two changes that exchange read for write; bytes that wait have the write filter
\* or are about to get it.
Phase(s) ==
  \/ closing /\ served = s
  \/ /\ Ahead(s) # BothOn
     /\ Ahead(s) \in {Nothing, ReadOnly, WriteOnly} => \E f \in Filters : On(s, f)
     /\ Ahead(s) = WriteOn => ~On(s, "read")
     /\ Ahead(s) = WriteOff => On(s, "read")
     /\ Unsent(s) => /\ Ahead(s) \in {Nothing, WriteOnly, WriteOn}
                     /\ Ahead(s) = Nothing => On(s, "write") /\ ~On(s, "read")

Wired(s) ==
  Connection(s) => /\ \A f \in Filters : reg[fdOf[s]][f] \in {None, s}
                   /\ Fresh(s) \/ Phase(s)

FilterInv == ~mixed => \A s \in Sessions : Wired(s)

-----------------------------------------------------------------------------
LEMMA ChangeLists ==
  /\ BothOn # Nothing /\ ReadOnly # Nothing /\ WriteOnly # Nothing
  /\ WriteOn # Nothing /\ WriteOff # Nothing
  /\ BothOn # ReadOnly /\ BothOn # WriteOnly /\ BothOn # WriteOn /\ BothOn # WriteOff
  /\ ReadOnly # WriteOnly /\ ReadOnly # WriteOn /\ ReadOnly # WriteOff
  /\ WriteOnly # WriteOn /\ WriteOnly # WriteOff /\ WriteOn # WriteOff
  BY Zenon DEF Nothing, BothOn, ReadOnly, WriteOnly, WriteOn, WriteOff, AddRead, DelRead, AddWrite,
         DelWrite

LEMMA FirstChange ==
  /\ Head(BothOn) = AddRead /\ Head(ReadOnly) = AddRead /\ Head(WriteOnly) = DelRead
  /\ Head(WriteOn) = AddWrite /\ Head(WriteOff) = DelWrite
  /\ Tail(BothOn) = WriteOn /\ Tail(ReadOnly) = WriteOff /\ Tail(WriteOnly) = WriteOn
  /\ Tail(WriteOn) = Nothing /\ Tail(WriteOff) = Nothing
  BY DEF Nothing, BothOn, ReadOnly, WriteOnly, WriteOn, WriteOff

Op == [op : {"add", "del"}, filter : Filters]

LEMMA ListTypes ==
  /\ Nothing \in Seq(Op) /\ BothOn \in Seq(Op) /\ ReadOnly \in Seq(Op)
  /\ WriteOnly \in Seq(Op) /\ WriteOn \in Seq(Op) /\ WriteOff \in Seq(Op)
<1>1. AddRead \in Op /\ DelRead \in Op /\ AddWrite \in Op /\ DelWrite \in Op
  BY Zenon DEF Op, AddRead, DelRead, AddWrite, DelWrite, Filters
<1> QED
  BY <1>1 DEF Nothing, BothOn, ReadOnly, WriteOnly, WriteOn, WriteOff

LEMMA UpdateLists ==
  ASSUME NEW s
  PROVE  /\ UpdateEvents(s, Filters, FALSE) = [s |-> s, ops |-> BothOn]
         /\ UpdateEvents(s, Filters, TRUE) = [s |-> s, ops |-> BothOn]
         /\ UpdateEvents(s, {"read"}, TRUE) = [s |-> s, ops |-> ReadOnly]
         /\ UpdateEvents(s, {"write"}, TRUE) = [s |-> s, ops |-> WriteOnly]
<1>1. ASSUME NEW a \in Op, NEW b \in Op PROVE <<a>> \o <<b>> = <<a, b>>
  <2> DEFINE q == <<a>> \o <<b>>
  <2>1. q \in Seq(Op) /\ Len(q) = 2 /\ q[1] = a /\ q[2] = b
    OBVIOUS
  <2>2. <<a, b>> \in Seq(Op) /\ Len(<<a, b>>) = 2 /\ <<a, b>>[1] = a /\ <<a, b>>[2] = b
    OBVIOUS
  <2>3. \A i \in 1..2 : q[i] = <<a, b>>[i]
    BY <2>1, <2>2
  <2> QED
    BY <2>1, <2>2, <2>3, SeqEqual, Zenon
<1>2. AddRead \in Op /\ DelRead \in Op /\ AddWrite \in Op /\ DelWrite \in Op
  BY Zenon DEF Op, AddRead, DelRead, AddWrite, DelWrite, Filters
<1>3. /\ <<AddRead>> \o <<AddWrite>> = BothOn /\ <<AddRead>> \o <<DelWrite>> = ReadOnly
      /\ <<DelRead>> \o <<AddWrite>> = WriteOnly
  BY <1>1, <1>2, Zenon DEF BothOn, ReadOnly, WriteOnly
<1> QED
  BY <1>3, Zenon DEF UpdateEvents, Filters, AddRead, DelRead, AddWrite, DelWrite

-----------------------------------------------------------------------------
(***************************************************************************)
(* The part of the invariant that does not depend on mixed.                *)
(***************************************************************************)
LEMMA NoneIsNot == /\ None \notin Sessions /\ None \notin Fds
                   /\ "read" \in Filters /\ "write" \in Filters
                   /\ "listener" \in Users /\ "processor" \in Users
                   /\ Users = {"processor", "listener"}
  BY KqueueAssumption, Zenon DEF None, Filters, Users

\* A session that a thread works on has a descriptor.
LEMMA Known ==
  ASSUME BaseInv
  PROVE  /\ \A e \in batch : e.s \in Sessions /\ fdOf[e.s] \in Fds /\ e.filter \in Filters
         /\ served # None => served \in Sessions /\ fdOf[served] \in Fds
         /\ \A t \in Users : changes[t].ops # Nothing =>
              changes[t].s \in Sessions /\ fdOf[changes[t].s] \in Fds
<1>1. \A s \in Sessions : fdOf[s] \in Fds \cup {None}
  BY Zenon DEF BaseInv, TypeOK
<1>2. \A s \in Sessions : fdOf[s] = None => (\A e \in batch : e.s # s) /\ served # s
  BY Zenon DEF BaseInv, FreshInv, Fresh
<1>3. \A e \in batch : e.s \in Sessions /\ e.filter \in Filters
  BY Zenon DEF BaseInv, TypeOK
<1>4. served \in Sessions \cup {None} /\ \A t \in Users : changes[t].s \in Sessions \cup {None}
  BY Zenon DEF BaseInv, TypeOK
<1> QED
  BY <1>1, <1>2, <1>3, <1>4, NoneIsNot, Zenon DEF BaseInv, ListInv

LEMMA BaseInit == Init => BaseInv
<1> SUFFICES ASSUME Init PROVE BaseInv
  BY Zenon
<1>1. TypeOK
  <2>1. changes \in [Users -> [s : Sessions \cup {None}, ops : Seq(Op)]]
    BY ListTypes, Zenon DEF Init, NoChange, Nothing
  <2>2. << >> \in Seq(Lengths)
    OBVIOUS
  <2>3. head \in [Sessions -> 0..SendBufSize] /\ tail \in [Sessions -> 0..SendBufSize]
    BY KqueueAssumption DEF Init
  <2>4. asked \in [Sessions -> Nat] /\ stalls \in [Sessions -> Nat]
    BY Zenon DEF Init
  <2>5. /\ room \in [Sessions -> BOOLEAN] /\ short \in [Sessions -> BOOLEAN]
        /\ closing \in BOOLEAN /\ mixed \in BOOLEAN /\ up \in BOOLEAN
    BY Zenon DEF Init
  <2>6. /\ fdOf \in [Sessions -> Fds \cup {None}] /\ owner \in [Fds -> Sessions \cup {None}]
        /\ reg \in [Fds -> [Filters -> Sessions \cup {None}]]
        /\ inbox \in [Sessions -> Seq(Lengths)] /\ calls \in Seq(Lengths)
        /\ peer \in [Sessions -> {"open", "fin", "rst"}]
        /\ batch \subseteq [s : Sessions, filter : Filters]
        /\ served \in Sessions \cup {None} /\ errno \in {"again", "other"}
    BY <2>2, Zenon DEF Init
  <2> QED
    BY <2>1, <2>3, <2>4, <2>5, <2>6, Zenon DEF TypeOK, Op
<1>2. ListInv
  BY NoneIsNot, Zenon DEF Init, ListInv, NoChange, Nothing
<1>3. OwnerInv
  BY NoneIsNot DEF Init, OwnerInv
<1>4. FreshInv
  BY NoneIsNot, Zenon DEF Init, FreshInv, NoChange
<1> QED
  BY <1>1, <1>2, <1>3, <1>4, Zenon DEF BaseInv

\* The peers change neither filters nor buffers.
LEMMA PeerBase ==
  ASSUME BaseInv, NEW s \in Sessions, Request(s) \/ PeerEnds(s) \/ Drain(s)
  PROVE  BaseInv'
<1>1. UNCHANGED <<fdOf, buffer, kernel, flow, changes, errno, short, mixed, up>>
  BY Zenon DEF Request, PeerEnds, Drain
<1>2. /\ inbox' \in [Sessions -> Seq(Lengths)] /\ peer' \in [Sessions -> {"open", "fin", "rst"}]
      /\ room' \in [Sessions -> BOOLEAN] /\ asked' \in [Sessions -> Nat]
      /\ stalls' \in [Sessions -> Nat]
  <2>1. CASE Request(s)
    <3>1. PICK len \in Lengths : inbox' = [inbox EXCEPT ![s] = Append(@, len)]
      BY <2>1, Zenon DEF Request
    <3>2. Append(inbox[s], len) \in Seq(Lengths) /\ inbox \in [Sessions -> Seq(Lengths)]
      BY <3>1 DEF BaseInv, TypeOK
    <3>3. inbox' \in [Sessions -> Seq(Lengths)]
      BY <3>1, <3>2, Zenon
    <3>4. asked' = [asked EXCEPT ![s] = @ + 1] /\ UNCHANGED <<peer, room, stalls>>
      BY <2>1, Zenon DEF Request
    <3>5. asked \in [Sessions -> Nat]
      BY Zenon DEF BaseInv, TypeOK
    <3>6. asked' \in [Sessions -> Nat]
      BY <3>4, <3>5
    <3> QED
      BY <3>3, <3>4, <3>6, Zenon DEF BaseInv, TypeOK
  <2>2. CASE PeerEnds(s)
    <3>1. PICK how \in Endings[s] : peer' = [peer EXCEPT ![s] = how]
      BY <2>2, Zenon DEF PeerEnds
    <3>2. how \in {"fin", "rst"}
      BY <3>1, KqueueAssumption, Zenon
    <3>3. peer' \in [Sessions -> {"open", "fin", "rst"}]
      BY <3>1, <3>2, Zenon DEF BaseInv, TypeOK
    <3> DEFINE rest == IF peer'[s] = "fin" THEN inbox[s] ELSE << >>
    <3>4. rest \in Seq(Lengths) /\ inbox \in [Sessions -> Seq(Lengths)]
      BY DEF BaseInv, TypeOK
    <3>5. inbox' = [inbox EXCEPT ![s] = rest]
      BY <2>2, Zenon DEF PeerEnds
    <3> HIDE DEF rest
    <3>6. inbox' \in [Sessions -> Seq(Lengths)]
      BY <3>4, <3>5, Zenon
    <3> QED
      BY <2>2, <3>3, <3>6, Zenon DEF PeerEnds, BaseInv, TypeOK
  <2>3. CASE Drain(s)
    <3>1. room \in [Sessions -> BOOLEAN] /\ room' = [room EXCEPT ![s] = TRUE]
      BY <2>3, Zenon DEF Drain, BaseInv, TypeOK
    <3>2. room' \in [Sessions -> BOOLEAN]
      BY <3>1, Zenon
    <3>3. UNCHANGED <<inbox, peer, asked, stalls>>
      BY <2>3, Zenon DEF Drain
    <3> QED
      BY <3>2, <3>3, Zenon DEF BaseInv, TypeOK
  <2> QED
    BY <2>1, <2>2, <2>3, Zenon
<1>3. TypeOK'
  BY <1>1, <1>2, Zenon DEF BaseInv, TypeOK, buffer, kernel, flow
<1>4. ListInv' /\ OwnerInv' /\ FreshInv'
  BY <1>1 DEF BaseInv, ListInv, OwnerInv, FreshInv, Fresh, buffer, kernel, flow
<1> QED
  BY <1>3, <1>4, Zenon DEF BaseInv

LEMMA AcceptBase == ASSUME BaseInv, Accept PROVE BaseInv'
<1>1. PICK s \in Sessions, fd \in Fds :
        /\ fdOf[s] = None /\ owner[fd] = None
        /\ fdOf' = [fdOf EXCEPT ![s] = fd] /\ owner' = [owner EXCEPT ![fd] = s]
        /\ changes' = [changes EXCEPT !["listener"] = [s |-> s, ops |-> BothOn]]
  BY UpdateLists, Zenon DEF Accept
<1>2. /\ UNCHANGED <<head, tail, reg, link, batch, served, calls, closing, errno, short, mixed, up>>
      /\ changes["listener"].ops = Nothing
  BY Zenon DEF Accept, buffer, flow, Nothing
<1>3. /\ changes'["listener"] = [s |-> s, ops |-> BothOn]
      /\ changes'["processor"] = changes["processor"]
  BY <1>1, NoneIsNot, Zenon DEF BaseInv, TypeOK
<1>4. TypeOK'
  BY <1>1, <1>2, ListTypes, Zenon DEF BaseInv, TypeOK, Op, link
<1>5. ListInv'
  BY <1>1, <1>2, <1>3, NoneIsNot, Zenon DEF BaseInv, ListInv, TypeOK
<1>6. OwnerInv'
  <2>1. owner \in [Fds -> Sessions \cup {None}] /\ fdOf \in [Sessions -> Fds \cup {None}]
    BY Zenon DEF BaseInv, TypeOK
  <2> QED
    BY <1>1, <1>2, <2>1, NoneIsNot, Zenon DEF BaseInv, OwnerInv
<1>7. FreshInv'
  <2> SUFFICES ASSUME NEW u \in Sessions, Fresh(u)'
               PROVE  Fresh(u)
    BY <1>2, <1>3, Zenon DEF BaseInv, FreshInv
  <2> QED
    BY <1>1, <1>3, Zenon DEF Fresh, BaseInv, TypeOK
<1> QED
  BY <1>4, <1>5, <1>6, <1>7, Zenon DEF BaseInv

LEMMA WaitBase == ASSUME BaseInv, Wait PROVE BaseInv'
<1>1. /\ batch' = Ready /\ served' = None /\ changes["processor"].ops = Nothing
      /\ calls = << >> /\ ~closing
      /\ UNCHANGED <<fdOf, head, tail, owner, reg, link, calls, closing, changes, errno, short,
                     mixed, up>>
  BY Zenon DEF Wait, Free, buffer, kernel, Nothing
<1>2. batch' \subseteq [s : Sessions, filter : Filters]
  BY <1>1, Zenon DEF Ready
<1>3. TypeOK'
  BY <1>1, <1>2, Zenon DEF BaseInv, TypeOK, link
<1>4. ListInv' /\ OwnerInv'
  BY <1>1, Zenon DEF BaseInv, ListInv, OwnerInv
<1>5. FreshInv'
  <2> SUFFICES ASSUME NEW s \in Sessions, Fresh(s)
               PROVE  (\A e \in batch' : e.s # s) /\ served' # s
    BY <1>1 DEF BaseInv, FreshInv, Fresh
  <2>1. \A fd \in Fds, f \in Filters : reg[fd][f] # s
    BY Zenon DEF BaseInv, FreshInv
  <2>2. \A e \in Ready : e.s # s
    BY <2>1, Zenon DEF Ready
  <2> QED
    BY <1>1, <2>2, NoneIsNot, Zenon
<1> QED
  BY <1>3, <1>4, <1>5, Zenon DEF BaseInv

\* What the loop of Processor::run finds when it takes an entry.
LEMMA EntryFacts ==
  ASSUME BaseInv, NEW s \in Sessions, NEW f, Entry(s, f)
  PROVE  /\ fdOf[s] \in Fds /\ owner[fdOf[s]] \in Sessions \cup {None} /\ ~Fresh(s)
         /\ changes["processor"].ops = Nothing /\ calls = << >> /\ ~closing
         /\ batch' \subseteq batch /\ served' = s /\ mixed' \in BOOLEAN
         /\ mixed' = (mixed \/ Foreign(s))
<1>1. [s |-> s, filter |-> f] \in batch
  BY Zenon DEF Entry
<1>2. fdOf[s] \in Fds
  BY <1>1, Known, Zenon
<1>3. ~Fresh(s)
  BY <1>1, Zenon DEF BaseInv, FreshInv
<1>4. owner[fdOf[s]] \in Sessions \cup {None}
  BY <1>2, Zenon DEF BaseInv, TypeOK
<1>5. batch' \subseteq batch /\ served' = s /\ mixed' = (mixed \/ Foreign(s))
  BY Zenon DEF Entry
<1>6. mixed' \in BOOLEAN
  BY <1>5, Zenon DEF BaseInv, TypeOK, Foreign
<1> QED
  BY <1>2, <1>3, <1>4, <1>5, <1>6, Zenon DEF Entry, Free, Nothing

\* An entry is handled: the processor may change its own list, and the buffer of the
\* session it serves.
LEMMA EntryBase ==
  ASSUME BaseInv, NEW s \in Sessions, NEW f, Entry(s, f), UNCHANGED <<fdOf, tail, owner, reg>>,
         changes'["listener"] = changes["listener"],
         \/ changes'["processor"] = changes["processor"]
         \/ /\ changes'["processor"].s = s
            /\ changes'["processor"].ops \in {BothOn, ReadOnly, WriteOnly},
         \A u \in Sessions : head'[u] <= tail[u] /\ (u # s => head'[u] = head[u])
  PROVE  ListInv' /\ OwnerInv' /\ FreshInv'
<1>1. /\ changes["processor"].ops = Nothing /\ batch' \subseteq batch /\ served' = s
      /\ ~Fresh(s) /\ s # None
  BY EntryFacts, NoneIsNot, Zenon
<1>2. ListInv'
  BY <1>1, Zenon DEF BaseInv, ListInv
<1>3. OwnerInv'
  BY Zenon DEF BaseInv, OwnerInv
<1>4. FreshInv'
  <2> SUFFICES ASSUME NEW u \in Sessions, Fresh(u)'
               PROVE  /\ \A e \in batch' : e.s # u
                      /\ served' # u /\ changes'["processor"].s # u
                      /\ \A fd \in Fds, g \in Filters : reg[fd][g] # u
                      /\ head'[u] = 0 /\ tail[u] = 0
    BY Zenon DEF FreshInv
  <2>1. Fresh(u)
    BY Zenon DEF Fresh
  <2>2. u # s
    BY <1>1, <2>1, Zenon
  <2> QED
    BY <1>1, <2>1, <2>2, Zenon DEF BaseInv, FreshInv
<1> QED
  BY <1>2, <1>3, <1>4, Zenon

LEMMA ReadDataBase == ASSUME BaseInv, NEW s \in Sessions, ReadData(s) PROVE BaseInv'
<1> DEFINE c == owner[fdOf[s]]
<1>1. Entry(s, "read") /\ c \in Sessions
  BY EntryFacts, Zenon DEF ReadData
<1>2. /\ calls' = inbox[c] /\ inbox' = [inbox EXCEPT ![c] = << >>]
      /\ UNCHANGED <<fdOf, head, tail, owner, reg, peer, room, asked, stalls, closing, changes,
                     errno, short, up>>
  BY Zenon DEF ReadData, buffer, kernel
<1> HIDE DEF c
<1>3. calls' \in Seq(Lengths) /\ inbox' \in [Sessions -> Seq(Lengths)]
  BY <1>1, <1>2 DEF BaseInv, TypeOK
<1>4. TypeOK'
  BY <1>1, <1>2, <1>3, EntryFacts, Zenon DEF BaseInv, TypeOK
<1>5. ListInv' /\ OwnerInv' /\ FreshInv'
  BY <1>1, <1>2, EntryBase, Zenon DEF BaseInv, OwnerInv
<1> QED
  BY <1>4, <1>5, Zenon DEF BaseInv

LEMMA ReadNothingBase == ASSUME BaseInv, NEW s \in Sessions, ReadNothing(s) PROVE BaseInv'
<1>1. Entry(s, "read") /\ owner[fdOf[s]] \in Sessions
  BY EntryFacts, Zenon DEF ReadNothing
<1>2. UNCHANGED <<fdOf, head, tail, owner, reg, inbox, peer, room, asked, calls, closing, changes,
                  short, up>>
  BY Zenon DEF ReadNothing, buffer, kernel
<1>3. stalls' \in [Sessions -> Nat] /\ errno' \in {"again", "other"}
  <2> DEFINE c == owner[fdOf[s]]
             k == IF inbox[c] = << >> THEN stalls[c] ELSE stalls[c] + 1
  <2>1. stalls' = [stalls EXCEPT ![c] = k] /\ errno' = "again"
    BY Zenon DEF ReadNothing
  <2>2. stalls \in [Sessions -> Nat] /\ stalls[c] \in Nat
    BY <1>1, Zenon DEF BaseInv, TypeOK
  <2>3. k \in Nat
    BY <2>2
  <2> HIDE DEF c, k
  <2> QED
    BY <2>1, <2>2, <2>3, Zenon
<1>4. TypeOK'
  BY <1>1, <1>2, <1>3, EntryFacts, Zenon DEF BaseInv, TypeOK
<1>5. ListInv' /\ OwnerInv' /\ FreshInv'
  BY <1>1, <1>2, EntryBase, Zenon DEF BaseInv, OwnerInv
<1> QED
  BY <1>4, <1>5, Zenon DEF BaseInv

LEMMA WriteTerminatesBase ==
  ASSUME BaseInv, NEW s \in Sessions, WriteTerminates(s) PROVE BaseInv'
<1>1. /\ Entry(s, "write") /\ up' = FALSE
      /\ UNCHANGED <<fdOf, head, tail, owner, reg, link, calls, closing, changes, errno, short>>
  BY Zenon DEF WriteTerminates, buffer, kernel
<1>2. TypeOK'
  BY <1>1, EntryFacts, Zenon DEF BaseInv, TypeOK, link
<1>3. ListInv' /\ OwnerInv' /\ FreshInv'
  BY <1>1, EntryBase, Zenon DEF BaseInv, OwnerInv
<1> QED
  BY <1>2, <1>3, Zenon DEF BaseInv

\* The lists that ReadEnd and Write hand to kevent.
LEMMA NewChanges ==
  ASSUME TypeOK, NEW s \in Sessions, NEW ops \in {BothOn, ReadOnly, WriteOnly},
         changes' = [changes EXCEPT !["processor"] = [s |-> s, ops |-> ops]]
  PROVE  /\ changes' \in [Users -> [s : Sessions \cup {None}, ops : Seq(Op)]]
         /\ changes'["processor"].s = s /\ changes'["processor"].ops = ops
         /\ changes'["listener"] = changes["listener"]
<1>1. changes \in [Users -> [s : Sessions \cup {None}, ops : Seq(Op)]]
  BY Zenon DEF TypeOK, Op
<1>2. [s |-> s, ops |-> ops] \in [s : Sessions \cup {None}, ops : Seq(Op)]
  BY ListTypes, Zenon
<1> QED
  BY <1>1, <1>2, NoneIsNot, Zenon

LEMMA ReadEndBase == ASSUME BaseInv, NEW s \in Sessions, ReadEnd(s) PROVE BaseInv'
<1>1. Entry(s, "read")
  BY Zenon DEF ReadEnd
<1>2. UNCHANGED <<fdOf, head, tail, owner, reg, link, calls, short, up>> /\ closing' = TRUE
  BY Zenon DEF ReadEnd, buffer, kernel
<1>3. PICK ops \in {BothOn, ReadOnly, WriteOnly} :
        changes' = [changes EXCEPT !["processor"] = [s |-> s, ops |-> ops]]
  BY UpdateLists, Zenon DEF ReadEnd
<1>4. errno' \in {"again", "other"}
  BY Zenon DEF ReadEnd, BaseInv, TypeOK
<1>5. /\ changes' \in [Users -> [s : Sessions \cup {None}, ops : Seq(Op)]]
      /\ changes'["processor"].s = s /\ changes'["processor"].ops = ops
      /\ changes'["listener"] = changes["listener"]
  BY <1>3, NewChanges, Zenon DEF BaseInv
<1>6. TypeOK'
  BY <1>1, <1>2, <1>4, <1>5, EntryFacts, Zenon DEF BaseInv, TypeOK, link, Op
<1>7. ListInv' /\ OwnerInv' /\ FreshInv'
  BY <1>1, <1>2, <1>5, EntryBase, Zenon DEF BaseInv, OwnerInv
<1> QED
  BY <1>6, <1>7, Zenon DEF BaseInv

\* What a send does to the buffer, to errno and to the connection.
LEMMA SentTypes ==
  ASSUME TypeOK, NEW c \in Sessions \cup {None}, NEW n \in Nat, NEW r \in Sent(c, n)
  PROVE  /\ r[1] \in 0..n /\ r[2] \in {"again", "other"} 
         /\ r[3] = "full" => c # None
         /\ c # None /\ r[1] = 0 => n = 0 \/ r[2] = "again"
<1>1. errno \in {"again", "other"}
  BY Zenon DEF TypeOK
<1>2. CASE c = None
  BY <1>2 DEF Sent
<1>3. CASE c # None /\ n = 0
  BY <1>1, <1>3 DEF Sent
<1>4. CASE c # None /\ n # 0
  <2>1. \/ \E k \in 1..n : r = <<k, errno, "room">> \/ r = <<k, errno, "full">>
        \/ r = <<0, "again", "full">>
    BY <1>4, Zenon DEF Sent
  <2> QED
    BY <1>1, <1>4, <2>1
<1> QED
  BY <1>2, <1>3, <1>4, Zenon

LEMMA WriteFacts ==
  ASSUME BaseInv, NEW s \in Sessions, Write(s)
  PROVE  \E k \in 0..(tail[s] - head[s]), error \in {"again", "other"} :
           /\ head' = [head EXCEPT ![s] = head[s] + k]
           /\ short' = [short EXCEPT ![s] = k > 0 /\ k < tail[s] - head[s]]
           /\ errno' = error
           /\ room' \in [Sessions -> BOOLEAN] /\ stalls' \in [Sessions -> Nat]
           /\ owner[fdOf[s]] # None /\ k = 0 => head[s] = tail[s] \/ error = "again"
<1> DEFINE c == owner[fdOf[s]]
           n == tail[s] - head[s]
<1>1. Entry(s, "write") /\ c \in Sessions \cup {None}
  BY EntryFacts, Zenon DEF Write
<1>2. n \in Nat /\ head[s] \in Nat /\ tail[s] \in Nat
  BY DEF BaseInv, TypeOK, OwnerInv
<1>3. PICK r \in Sent(c, n) :
         /\ head' = [head EXCEPT ![s] = head[s] + r[1]]
         /\ short' = [short EXCEPT ![s] = r[1] > 0 /\ r[1] < n]
         /\ errno' = r[2]
         /\ room' = IF r[3] = "full" THEN [room EXCEPT ![c] = FALSE] ELSE room
         /\ stalls' = IF r[3] = "full" THEN [stalls EXCEPT ![c] = stalls[c] + 1] ELSE stalls
  BY Zenon DEF Write
<1> HIDE DEF c
<1>4. /\ r[1] \in 0..n /\ r[2] \in {"again", "other"} 
      /\ r[3] = "full" => c # None
      /\ c # None /\ r[1] = 0 => n = 0 \/ r[2] = "again"
  BY <1>1, <1>2, SentTypes DEF BaseInv
<1>5. stalls' \in [Sessions -> Nat]
  <2>1. stalls \in [Sessions -> Nat]
    BY Zenon DEF BaseInv, TypeOK
  <2>2. CASE r[3] = "full"
    BY <1>1, <1>3, <1>4, <2>1, <2>2
  <2> QED
    BY <1>3, <2>1, <2>2, Zenon
<1>6. room' \in [Sessions -> BOOLEAN]
  BY <1>1, <1>3, <1>4, Zenon DEF BaseInv, TypeOK
<1>7. n = 0 => head[s] = tail[s]
  BY <1>2
<1> QED
  BY <1>3, <1>4, <1>5, <1>6, <1>7, Zenon DEF c

LEMMA WriteBase == ASSUME BaseInv, NEW s \in Sessions, Write(s) PROVE BaseInv'
<1>1. Entry(s, "write")
  BY Zenon DEF Write
<1>2. UNCHANGED <<fdOf, tail, owner, reg, inbox, peer, asked, calls, closing, up>>
  BY Zenon DEF Write, kernel
<1>3. PICK ops \in {BothOn, ReadOnly, WriteOnly} :
        changes' = [changes EXCEPT !["processor"] = [s |-> s, ops |-> ops]]
  BY UpdateLists, Zenon DEF Write, AfterSend
<1>4. PICK k \in 0..(tail[s] - head[s]) :
           /\ head' = [head EXCEPT ![s] = head[s] + k]
           /\ short' = [short EXCEPT ![s] = k > 0 /\ k < tail[s] - head[s]]
           /\ errno' \in {"again", "other"}
           /\ room' \in [Sessions -> BOOLEAN] /\ stalls' \in [Sessions -> Nat]
  BY WriteFacts, Zenon
<1>5. /\ changes' \in [Users -> [s : Sessions \cup {None}, ops : Seq(Op)]]
      /\ changes'["processor"].s = s /\ changes'["processor"].ops = ops
      /\ changes'["listener"] = changes["listener"]
  BY <1>3, NewChanges, Zenon DEF BaseInv
<1>6. /\ head' \in [Sessions -> 0..SendBufSize]
      /\ \A u \in Sessions : head'[u] <= tail[u] /\ (u # s => head'[u] = head[u])
  <2>1. head \in [Sessions -> 0..SendBufSize] /\ tail \in [Sessions -> 0..SendBufSize]
    BY Zenon DEF BaseInv, TypeOK
  <2>2. \A u \in Sessions : head[u] <= tail[u]
    BY Zenon DEF BaseInv, OwnerInv
  <2> QED
    BY <1>4, <2>1, <2>2, KqueueAssumption
<1>7. short' \in [Sessions -> BOOLEAN]
  BY <1>4, Zenon DEF BaseInv, TypeOK
<1>8. TypeOK'
  BY <1>1, <1>2, <1>4, <1>5, <1>6, <1>7, EntryFacts, Zenon DEF BaseInv, TypeOK, Op
<1>9. ListInv' /\ OwnerInv' /\ FreshInv'
  BY <1>1, <1>2, <1>5, <1>6, EntryBase, Zenon
<1> QED
  BY <1>8, <1>9, Zenon DEF BaseInv

LEMMA CloseBase == ASSUME BaseInv, Close PROVE BaseInv'
<1> DEFINE fd == fdOf[served]
           off == [f \in Filters |-> None]
<1>1. served \in Sessions /\ fd \in Fds
  BY Known, Zenon DEF Close, BaseInv, ListInv
<1>2. /\ owner' = [owner EXCEPT ![fd] = None] /\ reg' = [reg EXCEPT ![fd] = off]
      /\ closing' = FALSE /\ mixed' = (mixed \/ Foreign(served))
      /\ UNCHANGED <<fdOf, head, tail, link, batch, served, calls, changes, errno, short, up>>
  BY Zenon DEF Close, buffer
<1>3. mixed' \in BOOLEAN
  BY <1>2, Zenon DEF BaseInv, TypeOK, Foreign
<1>4. off \in [Filters -> Sessions \cup {None}] /\ \A f \in Filters : off[f] = None
  BY Zenon
<1> HIDE DEF fd, off
<1>5. owner' \in [Fds -> Sessions \cup {None}] /\ reg' \in [Fds -> [Filters -> Sessions \cup {None}]]
  BY <1>1, <1>2, <1>4, Zenon DEF BaseInv, TypeOK
<1>6. TypeOK'
  BY <1>2, <1>3, <1>5, Zenon DEF BaseInv, TypeOK, link
<1>7. ListInv'
  BY <1>2, Zenon DEF BaseInv, ListInv
<1>8. /\ \A g \in Fds : reg'[g] = IF g = fd THEN off ELSE reg[g]
      /\ \A g \in Fds : owner'[g] = IF g = fd THEN None ELSE owner[g]
  BY <1>2, Zenon DEF BaseInv, TypeOK
<1>9. OwnerInv'
  BY <1>2, <1>4, <1>8 DEF BaseInv, OwnerInv
<1>10. FreshInv'
  <2>1. \A g \in Fds, f \in Filters : reg'[g][f] \in {None, reg[g][f]}
    BY <1>4, <1>8, Zenon
  <2> QED
    BY <1>2, <2>1, NoneIsNot DEF BaseInv, FreshInv, Fresh
<1> QED
  BY <1>6, <1>7, <1>9, <1>10, Zenon DEF BaseInv

\* What on_recv and its async_send do for an answer of len bytes.
LEMMA OnRecvFacts ==
  ASSUME BaseInv, OnRecv
  PROVE  LET s == served
             len == Head(calls)
             pending == tail[s] - head[s] IN
         \E h \in 0..SendBufSize, t \in 0..SendBufSize :
           /\ s \in Sessions /\ ~Fresh(s) /\ len \in Nat \ {0}
           /\ head' = [head EXCEPT ![s] = h] /\ tail' = [tail EXCEPT ![s] = t] /\ h <= t
           /\ \/ /\ t - h = pending + len
                 /\ changes' = [changes EXCEPT !["processor"] = [s |-> s, ops |-> WriteOnly]]
              \/ /\ t - h = pending /\ (pending + len >= SendBufSize \/ tail[s] + len = SendBufSize)
                 /\ changes' = [changes EXCEPT !["processor"] = NoChange]
<1> DEFINE s == served
           len == Head(calls)
           h == IF len > SendBufSize - tail[s] THEN 0 ELSE head[s]
           t == tail[s] - head[s] + h
           fits == len < SendBufSize - t
           end == IF fits THEN t + len ELSE t
<1>1. calls # << >> /\ calls \in Seq(Lengths)
  BY Zenon DEF OnRecv, BaseInv, TypeOK
<1>2. len \in Nat \ {0}
  <2>1. Head(calls) \in Lengths
    BY <1>1
  <2> QED
    BY <2>1, KqueueAssumption, Zenon
<1>3. s \in Sessions /\ ~Fresh(s)
  BY <1>1, NoneIsNot, Zenon DEF BaseInv, ListInv, TypeOK, FreshInv
<1>4. /\ head[s] \in 0..SendBufSize /\ tail[s] \in 0..SendBufSize /\ head[s] <= tail[s]
      /\ SendBufSize \in Nat
  BY <1>3, KqueueAssumption, Zenon DEF BaseInv, TypeOK, OwnerInv
<1>5. /\ head' = [head EXCEPT ![s] = h] /\ tail' = [tail EXCEPT ![s] = end]
      /\ changes' = [changes EXCEPT !["processor"] =
                       IF fits THEN [s |-> s, ops |-> WriteOnly] ELSE NoChange]
  BY UpdateLists, Zenon DEF OnRecv, AsyncSend
<1> HIDE DEF s, len
<1>6. /\ h \in 0..SendBufSize /\ end \in 0..SendBufSize /\ h <= end
      /\ IF fits THEN end - h = tail[s] - head[s] + len
         ELSE /\ end - h = tail[s] - head[s]
              /\ tail[s] - head[s] + len >= SendBufSize \/ tail[s] + len = SendBufSize
  BY <1>2, <1>4
<1> HIDE DEF h, end, fits
<1> QED
  BY <1>2, <1>3, <1>5, <1>6, Zenon DEF s, len

LEMMA OnRecvBase == ASSUME BaseInv, OnRecv PROVE BaseInv'
<1> DEFINE s == served
<1>1. PICK h \in 0..SendBufSize, t \in 0..SendBufSize,
             new \in {[s |-> s, ops |-> WriteOnly], NoChange} :
           /\ s \in Sessions /\ ~Fresh(s)
           /\ head' = [head EXCEPT ![s] = h] /\ tail' = [tail EXCEPT ![s] = t] /\ h <= t
           /\ changes' = [changes EXCEPT !["processor"] = new]
  BY OnRecvFacts, Zenon
<1>2. /\ calls' = Tail(calls) /\ calls # << >> /\ changes["processor"].ops = Nothing
      /\ UNCHANGED <<fdOf, owner, reg, link, batch, served, closing, errno, short, mixed, up>>
  BY Zenon DEF OnRecv, kernel, Nothing
<1>3. /\ new \in [s : Sessions \cup {None}, ops : Seq(Op)]
      /\ new.s \in {s, None} /\ new.ops \in {WriteOnly, Nothing}
      /\ new.ops # Nothing => new.s = s
  <2>1. CASE new = [s |-> s, ops |-> WriteOnly]
    BY <1>1, <2>1, ListTypes, Zenon
  <2>2. CASE new = [s |-> None, ops |-> Nothing]
    BY <2>2, ListTypes, Zenon
  <2> QED
    BY <1>1, <2>1, <2>2, Zenon DEF NoChange, Nothing
<1>4. /\ changes' \in [Users -> [s : Sessions \cup {None}, ops : Seq(Op)]]
      /\ changes'["processor"] = new /\ changes'["listener"] = changes["listener"]
  BY <1>1, <1>3, NoneIsNot, Zenon DEF BaseInv, TypeOK, Op
<1>5. calls' \in Seq(Lengths)
  BY <1>2 DEF BaseInv, TypeOK
<1>6. head' \in [Sessions -> 0..SendBufSize] /\ tail' \in [Sessions -> 0..SendBufSize]
  BY <1>1, Zenon DEF BaseInv, TypeOK
<1>7. TypeOK'
  BY <1>2, <1>4, <1>5, <1>6, Zenon DEF BaseInv, TypeOK, Op, link
<1>8. ListInv'
  BY <1>1, <1>2, <1>3, <1>4, NoneIsNot, Zenon DEF BaseInv, ListInv
<1>9. OwnerInv'
  BY <1>1, <1>2, Zenon DEF BaseInv, OwnerInv, TypeOK
<1>10. FreshInv'
  <2> SUFFICES ASSUME NEW u \in Sessions, Fresh(u)'
               PROVE  /\ \A e \in batch : e.s # u
                      /\ served # u /\ changes'["processor"].s # u
                      /\ \A fd \in Fds, g \in Filters : reg[fd][g] # u
                      /\ head'[u] = 0 /\ tail'[u] = 0
    BY <1>2, Zenon DEF FreshInv
  <2>1. Fresh(u)
    BY <1>2, <1>4, Zenon DEF Fresh
  <2>2. u # s /\ u # None
    BY <1>1, <2>1, NoneIsNot, Zenon
  <2>3. head'[u] = head[u] /\ tail'[u] = tail[u]
    BY <1>1, <2>2, Zenon DEF BaseInv, TypeOK
  <2> QED
    BY <1>3, <1>4, <2>1, <2>2, <2>3, Zenon DEF BaseInv, FreshInv
<1> QED
  BY <1>7, <1>8, <1>9, <1>10, Zenon DEF BaseInv

\* One change: what it is, and whether kevent can make it.
LEMMA KeventFacts ==
  ASSUME BaseInv, NEW t \in Users, Kevent(t)
  PROVE  LET s == changes[t].s
             fd == fdOf[s]
             ops == changes[t].ops
             c == Head(ops) IN
         /\ s \in Sessions /\ fd \in Fds /\ ops # Nothing
         /\ c \in {AddRead, DelRead, AddWrite, DelWrite} /\ c.filter \in Filters
         /\ \E rest \in {Nothing, Tail(ops)} :
              /\ changes' = [changes EXCEPT ![t] = [s |-> s, ops |-> rest]]
              /\ \/ /\ owner[fd] # None /\ (c.op = "del" => reg[fd][c.filter] # None)
                    /\ reg' = [reg EXCEPT ![fd][c.filter] = IF c.op = "add" THEN s ELSE None]
                    /\ rest = Tail(ops)
                 \/ /\ owner[fd] = None \/ (c.op = "del" /\ reg[fd][c.filter] = None)
                    /\ reg' = reg /\ rest = Nothing
<1> DEFINE s == changes[t].s
           fd == fdOf[s]
           ops == changes[t].ops
           c == Head(ops)
<1>1. ops # Nothing /\ s \in Sessions /\ fd \in Fds
  BY Known, Zenon DEF Kevent, Nothing
<1>2. ops \in {BothOn, ReadOnly, WriteOnly, WriteOn, WriteOff}
  BY <1>1, NoneIsNot, Zenon DEF BaseInv, ListInv
<1>3. c \in {AddRead, DelRead, AddWrite, DelWrite}
  BY <1>2, FirstChange, Zenon
<1>4. c.filter \in Filters
  BY <1>3 DEF AddRead, DelRead, AddWrite, DelWrite, Filters
<1>5. changes[t] = [s |-> s, ops |-> ops]
  BY Zenon DEF BaseInv, TypeOK
<1>6. ASSUME NEW rest
      PROVE  [changes EXCEPT ![t].ops = rest] = [changes EXCEPT ![t] = [s |-> s, ops |-> rest]]
  <2> DEFINE old == changes[t]
  <2>1. old = [s |-> s, ops |-> ops]
    BY <1>5, Zenon
  <2> HIDE DEF old, s, ops
  <2>2. [old EXCEPT !.ops = rest] = [s |-> s, ops |-> rest]
    BY <2>1
  <2> QED
    BY <2>2, Zenon DEF old
<1> QED
  BY <1>1, <1>3, <1>4, <1>6, Zenon DEF Kevent, Nothing

LEMMA KeventBase == ASSUME BaseInv, NEW t \in Users, Kevent(t) PROVE BaseInv'
<1> DEFINE s == changes[t].s
           fd == fdOf[s]
           ops == changes[t].ops
           f == Head(ops).filter
<1>1. /\ s \in Sessions /\ fd \in Fds /\ ops # Nothing /\ f \in Filters
      /\ owner[fd] = None => reg' = reg
  BY KeventFacts, Zenon
<1>2. PICK rest \in {Nothing, Tail(ops)}, v \in {s, None, reg[fd][f]} :
        /\ changes' = [changes EXCEPT ![t] = [s |-> s, ops |-> rest]]
        /\ reg' = [reg EXCEPT ![fd][f] = v]
  <2>1. reg = [reg EXCEPT ![fd][f] = reg[fd][f]]
    BY <1>1, Zenon DEF BaseInv, TypeOK
  <2> QED
    BY <2>1, KeventFacts, Zenon
<1>3. /\ UNCHANGED <<fdOf, head, tail, owner, link, batch, served, calls, closing, short, up>>
      /\ errno' \in {"again", "other"}
  BY Zenon DEF Kevent, buffer, flow, BaseInv, TypeOK
<1>4. mixed' \in BOOLEAN
  BY Zenon DEF Kevent, BaseInv, TypeOK, Foreign
<1>5. /\ rest \in {Nothing, WriteOn, WriteOff}
      /\ t = "listener" => rest \in {Nothing, WriteOn}
  BY <1>1, <1>2, FirstChange, NoneIsNot, Zenon DEF BaseInv, ListInv
<1>6. \A r \in Users : changes'[r] = IF r = t THEN [s |-> s, ops |-> rest] ELSE changes[r]
  BY <1>2, Zenon DEF BaseInv, TypeOK
<1> HIDE DEF s, fd, ops, f
<1>7. TypeOK'
  <2>1. [s |-> s, ops |-> rest] \in [s : Sessions \cup {None}, ops : Seq(Op)]
    BY <1>1, <1>5, ListTypes, Zenon
  <2>2. changes' \in [Users -> [s : Sessions \cup {None}, ops : Seq(Op)]]
    BY <1>2, <2>1, Zenon DEF BaseInv, TypeOK, Op
  <2>3. reg' \in [Fds -> [Filters -> Sessions \cup {None}]]
    <3>1. reg \in [Fds -> [Filters -> Sessions \cup {None}]]
      BY Zenon DEF BaseInv, TypeOK
    <3>2. v \in Sessions \cup {None}
      BY <1>1, <1>2, <3>1
    <3>3. [reg[fd] EXCEPT ![f] = v] \in [Filters -> Sessions \cup {None}]
      BY <1>1, <3>1, <3>2, Zenon
    <3> QED
      BY <1>1, <1>2, <3>1, <3>3, Zenon
  <2> QED
    BY <1>3, <1>4, <2>2, <2>3, Zenon DEF BaseInv, TypeOK, Op, link
<1>8. ListInv'
  BY <1>1, <1>3, <1>5, <1>6, NoneIsNot DEF BaseInv, ListInv, s, ops
<1>9. OwnerInv'
  <2>1. \A g \in Fds : g # fd => reg'[g] = reg[g]
    BY <1>2, Zenon DEF BaseInv, TypeOK
  <2> QED
    BY <1>1, <1>3, <2>1 DEF BaseInv, OwnerInv
<1>10. FreshInv'
  <2> SUFFICES ASSUME NEW u \in Sessions, Fresh(u)'
               PROVE  /\ Fresh(u) /\ changes'["processor"].s # u
                      /\ \A g \in Fds, e \in Filters : reg'[g][e] # u
    BY <1>3, Zenon DEF BaseInv, FreshInv
  <2>1. Fresh(u)
    BY <1>3, <1>5, <1>6, NoneIsNot, ChangeLists DEF Fresh
  <2>2. u # s
    <3>1. CASE t = "listener"
      BY <1>1, <1>3, <1>5, <1>6, <3>1, NoneIsNot, ChangeLists DEF Fresh, fd
    <3>2. CASE t = "processor"
      BY <1>1, <2>1, <3>2, Zenon DEF s, BaseInv, FreshInv
    <3> QED
      BY <3>1, <3>2, Zenon DEF Users
  <2>3. v # u
    BY <1>1, <1>2, <2>1, <2>2, NoneIsNot DEF BaseInv, FreshInv
  <2>4. \A g \in Fds, e \in Filters : reg'[g][e] \in {v, reg[g][e]}
    BY <1>2 DEF BaseInv, TypeOK
  <2> QED
    BY <1>6, <2>1, <2>2, <2>3, <2>4, NoneIsNot DEF BaseInv, FreshInv
<1> QED
  BY <1>7, <1>8, <1>9, <1>10, Zenon DEF BaseInv

LEMMA BaseStep == BaseInv /\ [Next]_vars => BaseInv'
<1> SUFFICES ASSUME BaseInv, [Next]_vars PROVE BaseInv'
  BY Zenon
<1>1. CASE UNCHANGED vars
  <2>1. UNCHANGED <<fdOf, head, tail, owner, reg, link, batch, served, calls, closing, changes,
                    errno, short, mixed, up>>
    BY <1>1, Zenon DEF vars, buffer, kernel, flow
  <2>2. TypeOK'
    BY <2>1, Zenon DEF BaseInv, TypeOK, link
  <2>3. ListInv' /\ OwnerInv' /\ FreshInv'
    BY <2>1 DEF BaseInv, ListInv, OwnerInv, FreshInv, Fresh
  <2> QED
    BY <2>2, <2>3, Zenon DEF BaseInv
<1>2. CASE ProcStep
  BY Zenon, <1>2, WaitBase, OnRecvBase, CloseBase, KeventBase, ReadDataBase, ReadNothingBase,
     ReadEndBase, WriteBase, WriteTerminatesBase, NoneIsNot DEF ProcStep
<1> QED
  BY <1>1, <1>2, AcceptBase, KeventBase, PeerBase, NoneIsNot, Zenon DEF Next

LEMMA BaseAlways == Spec => []BaseInv
  BY BaseInit, BaseStep, PTL DEF Spec

\* For any number of sessions and descriptors and any size of sendBuf: the processor,
\* the listener, the sessions and the kqueue keep their types; the indexes of sendBuf
\* stay inside it.
THEOREM KqueueTypes == Spec => []TypeOK
<1>1. BaseInv => TypeOK
  BY Zenon DEF BaseInv
<1> QED
  BY <1>1, BaseAlways, PTL

\* For any number of sessions, lengths of answers and size of sendBuf: async_send
\* refuses an answer only when it finds no room for it, or when the answer would
\* exactly fill the rest of sendBuf.
THEOREM RefusalsAreFull == Spec => RefusesOnlyFull
<1> DEFINE Refuses ==
      (calls # << >> /\ calls' = Tail(calls)) =>
        \/ tail'[served] - head'[served] = tail[served] - head[served] + Head(calls)
        \/ tail[served] - head[served] + Head(calls) >= SendBufSize
        \/ tail[served] + Head(calls) = SendBufSize
<1>1. ASSUME BaseInv, [Next]_vars, calls # << >>, calls' = Tail(calls)
      PROVE  OnRecv
  <2>1. calls' # calls
    BY <1>1 DEF BaseInv, TypeOK
  <2>2. ~Free
    BY <1>1, Zenon DEF Free
  <2>3. ASSUME NEW s PROVE ~ReadData(s) /\ ~ReadNothing(s) /\ ~ReadEnd(s)
    BY <2>2, Zenon DEF ReadData, ReadNothing, ReadEnd, Entry
  <2>4. ASSUME NEW s PROVE ~Write(s) /\ ~WriteTerminates(s) /\ ~Wait
    BY <2>2, Zenon DEF Write, WriteTerminates, Wait, Entry
  <2>5. ASSUME NEW s PROVE ~Request(s) /\ ~PeerEnds(s) /\ ~Drain(s)
    BY <2>1, Zenon DEF Request, PeerEnds, Drain, flow
  <2>6. ~Close /\ ~Accept /\ calls' # calls
    BY <2>1, Zenon DEF Close, Accept, flow
  <2>7. ASSUME NEW t PROVE ~Kevent(t)
    BY <2>1, Zenon DEF Kevent, flow
  <2>8. ~UNCHANGED vars
    BY <2>1, Zenon DEF vars, flow
  <2> QED
    BY <1>1, <2>3, <2>4, <2>5, <2>6, <2>7, <2>8, Zenon DEF Next, ProcStep
<1>2. ASSUME BaseInv, OnRecv
      PROVE  Refuses
  <2>1. head \in [Sessions -> 0..SendBufSize] /\ tail \in [Sessions -> 0..SendBufSize]
    BY <1>2, Zenon DEF BaseInv, TypeOK
  <2> QED
    BY <1>2, <2>1, OnRecvFacts, Zenon
<1>3. BaseInv /\ [Next]_vars => [Refuses]_vars
  BY <1>1, <1>2, Zenon
<1> QED
  BY <1>3, BaseAlways, PTL DEF Spec, RefusesOnlyFull

-----------------------------------------------------------------------------
(***************************************************************************)
(* The filters of open sessions.                                           *)
(***************************************************************************)
\* A session that a step does not concern.
LEMMA WiredSame ==
  ASSUME NEW u \in Sessions, Wired(u), Connection(u)' => Connection(u),
         fdOf'[u] = fdOf[u], Connection(u) => reg'[fdOf[u]] = reg[fdOf[u]],
         Fresh(u) => Fresh(u)', Ahead(u)' = Ahead(u), Unsent(u)' => Unsent(u),
         closing /\ served = u => closing' /\ served' = u
  PROVE  Wired(u)'
<1> SUFFICES ASSUME Connection(u)'
             PROVE  /\ \A f \in Filters : reg'[fdOf'[u]][f] \in {None, u}
                    /\ Fresh(u)' \/ Phase(u)'
  BY Zenon DEF Wired
<1>1. Connection(u) /\ (Fresh(u) \/ Phase(u)) /\ \A f \in Filters : reg[fdOf[u]][f] \in {None, u}
  BY Zenon DEF Wired
<1>2. reg'[fdOf'[u]] = reg[fdOf[u]]
  BY <1>1, Zenon
<1>3. \A f : On(u, f)' <=> On(u, f)
  BY <1>2, Zenon DEF On
<1>4. Phase(u) => Phase(u)'
  BY <1>3, Zenon DEF Phase
<1> QED
  BY <1>1, <1>2, <1>4, Zenon

\* What the processor still has to change, when its list is empty or another
\* session's.
LEMMA NothingAhead ==
  ASSUME NEW u, changes["processor"].s # u \/ changes["processor"].ops = Nothing
  PROVE  Ahead(u) = Nothing
  BY Zenon DEF Ahead

\* A step that leaves the filters, the lists and the buffers alone.
LEMMA QuietFilter ==
  ASSUME FilterInv, mixed => mixed', ~closing \/ UNCHANGED <<closing, served>>,
         UNCHANGED <<fdOf, owner, reg, changes, head, tail, short>>
  PROVE  FilterInv'
<1> SUFFICES ASSUME ~mixed', NEW u \in Sessions PROVE Wired(u)'
  BY Zenon DEF FilterInv
<1>1. Wired(u)
  BY Zenon DEF FilterInv
<1>2. /\ Connection(u)' => Connection(u)
      /\ Fresh(u) => Fresh(u)'
      /\ Ahead(u)' = Ahead(u)
      /\ Unsent(u)' => Unsent(u)
      /\ fdOf'[u] = fdOf[u] /\ reg'[fdOf[u]] = reg[fdOf[u]]
  BY Zenon DEF Connection, Fresh, Ahead, Unsent
<1>3. closing /\ served = u => closing' /\ served' = u
  OBVIOUS
<1> QED
  BY <1>1, <1>2, <1>3, WiredSame, Zenon

LEMMA PeerFilter ==
  ASSUME FilterInv, NEW s \in Sessions, Request(s) \/ PeerEnds(s) \/ Drain(s)
  PROVE  FilterInv'
<1>1. UNCHANGED <<fdOf, head, tail, owner, reg, closing, served, changes, short, mixed>>
  BY Zenon DEF Request, PeerEnds, Drain, buffer, kernel, flow
<1> QED
  BY <1>1, QuietFilter, Zenon

LEMMA WaitFilter == ASSUME FilterInv, Wait PROVE FilterInv'
<1>1. UNCHANGED <<fdOf, head, tail, owner, reg, changes, short, mixed>> /\ ~closing
  BY Zenon DEF Wait, Free, buffer, kernel
<1> QED
  BY <1>1, QuietFilter, Zenon

\* recv returns requests or EAGAIN, or send ends the process.
LEMMA QuietEntryFilter ==
  ASSUME FilterInv, NEW s \in Sessions, ReadData(s) \/ ReadNothing(s) \/ WriteTerminates(s)
  PROVE  FilterInv'
<1>1. UNCHANGED <<fdOf, head, tail, owner, reg, changes, short>>
  BY Zenon DEF ReadData, ReadNothing, WriteTerminates, buffer, kernel
<1>2. ~closing /\ (mixed => mixed')
  BY Zenon DEF ReadData, ReadNothing, WriteTerminates, Entry, Free
<1> QED
  BY <1>1, <1>2, QuietFilter, Zenon

\* recv returns 0 or another error: the session is about to be closed.
LEMMA ReadEndFilter ==
  ASSUME BaseInv, FilterInv, NEW s \in Sessions, ReadEnd(s)
  PROVE  FilterInv'
<1> SUFFICES ASSUME ~mixed', NEW u \in Sessions PROVE Wired(u)'
  BY Zenon DEF FilterInv
<1>1. UNCHANGED <<fdOf, head, tail, owner, reg, short>> /\ closing' = TRUE
  BY Zenon DEF ReadEnd, buffer, kernel
<1>2. PICK ops \in {BothOn, ReadOnly, WriteOnly} :
        changes' = [changes EXCEPT !["processor"] = [s |-> s, ops |-> ops]]
  BY UpdateLists, Zenon DEF ReadEnd
<1>3. /\ changes'["processor"].s = s /\ changes'["listener"] = changes["listener"]
  BY <1>2, NewChanges, Zenon DEF BaseInv
<1>4. /\ changes["processor"].ops = Nothing /\ served' = s /\ ~closing
      /\ mixed' = (mixed \/ Foreign(s))
  BY EntryFacts, Zenon DEF ReadEnd
<1>5. Wired(u)
  BY <1>4, Zenon DEF FilterInv
<1>6. CASE u = s
  <2>1. Phase(u)'
    BY <1>1, <1>4, <1>6, Zenon DEF Phase
  <2>2. Connection(u)' => Connection(u) /\ reg'[fdOf'[u]] = reg[fdOf[u]]
    BY <1>1, Zenon DEF Connection
  <2> QED
    BY <1>5, <2>1, <2>2, Zenon DEF Wired
<1>7. CASE u # s
  <2>1. Ahead(u) = Nothing
    BY <1>4, NothingAhead, Zenon
  <2>2. Ahead(u)' = Nothing
    BY <1>3, <1>7, Zenon DEF Ahead
  <2>3. /\ Connection(u)' => Connection(u)
        /\ Fresh(u) => Fresh(u)'
        /\ Unsent(u)' => Unsent(u)
        /\ fdOf'[u] = fdOf[u] /\ reg'[fdOf[u]] = reg[fdOf[u]]
    BY <1>1, <1>3, Zenon DEF Connection, Fresh, Unsent
  <2> QED
    BY <1>4, <1>5, <2>1, <2>2, <2>3, WiredSame, Zenon
<1> QED
  BY <1>6, <1>7, Zenon

\* A send that leaves all bytes there sets errno to EAGAIN, so that the write filter
\* comes next.
LEMMA WriteFilter ==
  ASSUME BaseInv, FilterInv, NEW s \in Sessions, Write(s)
  PROVE  FilterInv'
<1> SUFFICES ASSUME ~mixed', NEW u \in Sessions PROVE Wired(u)'
  BY Zenon DEF FilterInv
<1>1. UNCHANGED <<fdOf, tail, owner, reg, closing>>
  BY Zenon DEF Write, kernel
<1>2. PICK k \in 0..(tail[s] - head[s]), error \in {"again", "other"} :
           /\ head' = [head EXCEPT ![s] = head[s] + k]
           /\ short' = [short EXCEPT ![s] = k > 0 /\ k < tail[s] - head[s]]
           /\ errno' = error
           /\ owner[fdOf[s]] # None /\ k = 0 => head[s] = tail[s] \/ error = "again"
  BY WriteFacts, Zenon
<1> DEFINE ops == IF error = "again" THEN WriteOnly ELSE ReadOnly
<1>3. changes' = [changes EXCEPT !["processor"] = [s |-> s, ops |-> ops]]
  BY <1>2, UpdateLists, Zenon DEF Write, AfterSend
<1>4. ops \in {ReadOnly, WriteOnly} /\ (error = "again" => ops = WriteOnly)
  BY Zenon
<1> HIDE DEF ops
<1>5. /\ changes'["processor"].s = s /\ changes'["processor"].ops = ops
      /\ changes'["listener"] = changes["listener"]
  BY <1>3, <1>4, NewChanges, Zenon DEF BaseInv
<1>6. /\ changes["processor"].ops = Nothing /\ served' = s /\ ~closing /\ ~Fresh(s)
      /\ mixed' = (mixed \/ Foreign(s))
  BY EntryFacts, Zenon DEF Write
<1>7. Wired(u) /\ Ahead(u) = Nothing
  BY <1>6, NothingAhead, Zenon DEF FilterInv
<1>8. CASE u = s
  <2> SUFFICES ASSUME Connection(s)
               PROVE  Phase(s)' /\ \A f \in Filters : reg'[fdOf'[s]][f] \in {None, s}
    BY <1>1, <1>8, Zenon DEF Wired, Connection
  <2>1. Phase(s) /\ \A f \in Filters : reg'[fdOf'[s]][f] \in {None, s}
    BY <1>1, <1>6, <1>7, <1>8, Zenon DEF Wired
  <2>2. \E f \in Filters : On(s, f)'
    BY <1>1, <1>6, <1>7, <1>8, <2>1, Zenon DEF Phase, On
  <2>3. Ahead(s)' = ops
    BY <1>5, Zenon DEF Ahead
  <2>4. Unsent(s)' => error = "again"
    <3>1. s # None /\ owner[fdOf[s]] = s
      BY NoneIsNot, Zenon DEF Connection
    <3>2. /\ head'[s] = head[s] + k /\ tail'[s] = tail[s]
          /\ short'[s] <=> (k > 0 /\ k < tail[s] - head[s])
      BY <1>1, <1>2, Zenon DEF BaseInv, TypeOK
    <3>3. head[s] \in Nat /\ tail[s] \in Nat /\ k \in Nat
      BY <1>2 DEF BaseInv, TypeOK, OwnerInv
    <3>4. Unsent(s)' => k = 0 /\ head[s] # tail[s]
      BY <3>2, <3>3 DEF Unsent
    <3> QED
      BY <1>2, <3>1, <3>4, Zenon
  <2> QED
    BY <1>4, <2>1, <2>2, <2>3, <2>4, ChangeLists, Zenon DEF Phase
<1>9. CASE u # s
  <2>1. Ahead(u)' = Nothing
    BY <1>5, <1>9, Zenon DEF Ahead
  <2>2. head'[u] = head[u] /\ short'[u] = short[u]
    BY <1>2, <1>9, Zenon DEF BaseInv, TypeOK
  <2>3. /\ Connection(u)' => Connection(u)
        /\ Fresh(u) => Fresh(u)'
        /\ Unsent(u)' => Unsent(u)
        /\ fdOf'[u] = fdOf[u] /\ reg'[fdOf[u]] = reg[fdOf[u]]
    BY <1>1, <1>5, <2>2, Zenon DEF Connection, Fresh, Unsent
  <2> QED
    BY <1>6, <1>7, <2>1, <2>3, WiredSame, Zenon
<1> QED
  BY <1>8, <1>9, Zenon

\* The session that is closed has no connection any more, and the others keep theirs.
LEMMA CloseFilter == ASSUME BaseInv, FilterInv, Close PROVE FilterInv'
<1> SUFFICES ASSUME ~mixed', NEW u \in Sessions PROVE Wired(u)'
  BY Zenon DEF FilterInv
<1> DEFINE fd == fdOf[served]
<1>1. /\ UNCHANGED <<fdOf, head, tail, changes, short>>
      /\ owner' = [owner EXCEPT ![fd] = None]
      /\ reg' = [reg EXCEPT ![fd] = [f \in Filters |-> None]]
      /\ mixed' = (mixed \/ Foreign(served)) /\ closing
  BY Zenon DEF Close, buffer
<1>2. served \in Sessions /\ fd \in Fds
  BY <1>1, Known, Zenon DEF BaseInv, ListInv
<1>3. Wired(u)
  BY <1>1, Zenon DEF FilterInv
<1> HIDE DEF fd
<1>4. CASE fdOf[u] = fd
  <2>1. owner'[fdOf'[u]] = None /\ u # None
    BY <1>1, <1>2, <1>4, NoneIsNot, Zenon DEF BaseInv, TypeOK
  <2> QED
    BY <2>1, Zenon DEF Wired, Connection
<1>5. CASE fdOf[u] # fd
  <2>1. (owner'[fdOf[u]] = owner[fdOf[u]] /\ reg'[fdOf[u]] = reg[fdOf[u]]) \/ fdOf[u] = None
    BY <1>1, <1>5, Zenon DEF BaseInv, TypeOK
  <2>2. /\ Connection(u)' => Connection(u)
        /\ Fresh(u) => Fresh(u)'
        /\ Ahead(u)' = Ahead(u)
        /\ Unsent(u)' => Unsent(u)
        /\ fdOf'[u] = fdOf[u]
    BY <1>1, <2>1, Zenon DEF Connection, Fresh, Ahead, Unsent
  <2>3. served # u
    BY <1>5, Zenon DEF fd
  <2>4. Connection(u) => reg'[fdOf[u]] = reg[fdOf[u]]
    BY <2>1, Zenon DEF Connection
  <2> QED
    BY <1>3, <2>2, <2>3, <2>4, WiredSame, Zenon
<1> QED
  BY <1>4, <1>5, Zenon

\* A new session has no filters yet and a list that turns both on.
LEMMA AcceptFilter == ASSUME BaseInv, FilterInv, Accept PROVE FilterInv'
<1> SUFFICES ASSUME ~mixed', NEW u \in Sessions PROVE Wired(u)'
  BY Zenon DEF FilterInv
<1>1. PICK s \in Sessions, fd \in Fds :
        /\ fdOf[s] = None /\ owner[fd] = None
        /\ fdOf' = [fdOf EXCEPT ![s] = fd]
        /\ owner' = [owner EXCEPT ![fd] = s]
        /\ changes' = [changes EXCEPT !["listener"] = [s |-> s, ops |-> BothOn]]
  BY UpdateLists, Zenon DEF Accept
<1>2. /\ UNCHANGED <<head, tail, reg, closing, served, short, mixed>>
      /\ changes["listener"].ops = Nothing
  BY Zenon DEF Accept, buffer, flow, Nothing
<1>3. /\ changes'["listener"] = [s |-> s, ops |-> BothOn]
      /\ changes'["processor"] = changes["processor"]
  BY <1>1, NoneIsNot, Zenon DEF BaseInv, TypeOK
<1>4. CASE u = s
  <2>1. fdOf'[u] = fd
    BY <1>1, <1>4, Zenon DEF BaseInv, TypeOK
  <2>2. changes'["listener"].s = u /\ changes'["listener"].ops = BothOn
    BY <1>3, <1>4
  <2>3. \A f \in Filters : reg'[fd][f] = None
    BY <1>1, <1>2, Zenon DEF BaseInv, OwnerInv
  <2> QED
    BY <2>1, <2>2, <2>3, Zenon DEF Wired, Fresh
<1>5. CASE u # s
  <2>1. Wired(u)
    BY <1>2, Zenon DEF FilterInv
  <2>2. fdOf'[u] = fdOf[u]
    BY <1>1, <1>5, Zenon DEF BaseInv, TypeOK
  <2>3. fdOf[u] # None /\ owner'[fdOf[u]] = u => owner[fdOf[u]] = u
    BY <1>1, <1>5, Zenon DEF BaseInv, TypeOK
  <2>4. /\ Connection(u)' => Connection(u)
        /\ Ahead(u)' = Ahead(u)
        /\ Unsent(u)' => Unsent(u)
        /\ reg'[fdOf[u]] = reg[fdOf[u]]
    BY <1>2, <1>3, <2>2, <2>3, Zenon DEF Connection, Ahead, Unsent
  <2>5. Fresh(u) => Fresh(u)'
    BY <1>2, <2>2, ChangeLists, Zenon DEF Fresh
  <2>6. closing /\ served = u => closing' /\ served' = u
    BY <1>2
  <2> QED
    BY <2>1, <2>2, <2>4, <2>5, <2>6, WiredSame, Zenon
<1> QED
  BY <1>4, <1>5, Zenon

\* An answer that fits makes the processor exchange read for write; one that does not
\* leaves everything as it is.
LEMMA OnRecvFilter == ASSUME BaseInv, FilterInv, OnRecv PROVE FilterInv'
<1> SUFFICES ASSUME ~mixed', NEW u \in Sessions PROVE Wired(u)'
  BY Zenon DEF FilterInv
<1> DEFINE s == served
<1>1. PICK h \in 0..SendBufSize, t \in 0..SendBufSize :
        /\ s \in Sessions /\ ~Fresh(s)
        /\ head' = [head EXCEPT ![s] = h] /\ tail' = [tail EXCEPT ![s] = t]
        /\ \/ changes' = [changes EXCEPT !["processor"] = [s |-> s, ops |-> WriteOnly]]
           \/ /\ t - h = tail[s] - head[s]
              /\ changes' = [changes EXCEPT !["processor"] = NoChange]
  BY OnRecvFacts, Zenon
<1>2. /\ UNCHANGED <<fdOf, owner, reg, served, closing, short, mixed>>
      /\ changes["processor"].ops = Nothing
  BY Zenon DEF OnRecv, kernel, Nothing
<1>3. Wired(u) /\ Ahead(u) = Nothing
  BY <1>2, NothingAhead, Zenon DEF FilterInv
<1>4. /\ Connection(u)' <=> Connection(u)
      /\ fdOf'[u] = fdOf[u] /\ reg'[fdOf[u]] = reg[fdOf[u]]
  BY <1>2, Zenon DEF Connection
<1>5. closing /\ served = u => closing' /\ served' = u
  BY <1>2
<1>6. /\ changes'["listener"] = changes["listener"]
      /\ \/ changes'["processor"].s = s /\ changes'["processor"].ops = WriteOnly
         \/ changes'["processor"].s = None /\ t - h = tail[s] - head[s]
  <2>1. changes \in [Users -> [s : Sessions \cup {None}, ops : Seq(Op)]]
    BY Zenon DEF BaseInv, TypeOK, Op
  <2> QED
    BY <1>1, <2>1, NoneIsNot DEF NoChange
<1>7. Fresh(u) => Fresh(u)'
  BY <1>2, <1>6, Zenon DEF Fresh
<1> HIDE DEF s
<1>8. CASE u # s
  <2>1. Ahead(u)' = Nothing
    BY <1>6, <1>8, NoneIsNot, Zenon DEF Ahead
  <2>2. head'[u] = head[u] /\ tail'[u] = tail[u]
    BY <1>1, <1>8, Zenon DEF BaseInv, TypeOK
  <2>3. Unsent(u)' => Unsent(u)
    BY <1>2, <2>2, Zenon DEF Unsent
  <2> QED
    BY <1>3, <1>4, <1>5, <1>7, <2>1, <2>3, WiredSame, Zenon
<1>9. CASE u = s /\ changes'["processor"].s = s /\ changes'["processor"].ops = WriteOnly
  <2> SUFFICES ASSUME Connection(u)
               PROVE  Phase(u)' /\ \A f \in Filters : reg'[fdOf'[u]][f] \in {None, u}
    BY <1>4, Zenon DEF Wired
  <2>1. Phase(u) /\ \A f \in Filters : reg'[fdOf'[u]][f] \in {None, u}
    BY <1>1, <1>3, <1>4, <1>9, Zenon DEF Wired
  <2>2. Ahead(u)' = WriteOnly
    BY <1>9, Zenon DEF Ahead
  <2>3. \A f : On(u, f)' <=> On(u, f)
    BY <1>4, Zenon DEF On
  <2> QED
    BY <1>3, <1>5, <2>1, <2>2, <2>3, ChangeLists, Zenon DEF Phase
<1>10. CASE u = s /\ changes'["processor"].s = None /\ t - h = tail[s] - head[s]
  <2>1. Ahead(u)' = Nothing
    BY <1>10, NoneIsNot, Zenon DEF Ahead
  <2>2. head'[u] = h /\ tail'[u] = t /\ short' = short
    BY <1>1, <1>2, <1>10, Zenon DEF BaseInv, TypeOK
  <2>3. head[u] \in Int /\ tail[u] \in Int /\ h \in Int /\ t \in Int
    BY <1>1, KqueueAssumption DEF BaseInv, TypeOK
  <2>4. h < t => head[u] < tail[u]
    BY <1>10, <2>3
  <2>5. Unsent(u)' => Unsent(u)
    BY <2>2, <2>4, Zenon DEF Unsent
  <2> QED
    BY <1>3, <1>4, <1>5, <1>7, <2>1, <2>5, WiredSame, Zenon
<1> QED
  BY <1>6, <1>8, <1>9, <1>10, Zenon

\* What a change says.
LEMMA ChangeFields ==
  /\ AddRead.op = "add" /\ AddRead.filter = "read" /\ DelRead.op = "del" /\ DelRead.filter = "read"
  /\ AddWrite.op = "add" /\ AddWrite.filter = "write"
  /\ DelWrite.op = "del" /\ DelWrite.filter = "write"
  BY DEF AddRead, DelRead, AddWrite, DelWrite

\* One change of the processor for its session, with the cases of kevent: made, or
\* failed because the filter that it deletes is off.
LEMMA ProcessorChange ==
  ASSUME BaseInv, FilterInv, ~mixed, Kevent("processor"), NEW s \in Sessions,
         s = changes["processor"].s, Connection(s), ~(closing /\ served = s)
  PROVE  Phase(s)'
<1> DEFINE fd == fdOf[s]
           ops == changes["processor"].ops
           c == Head(ops)
           v == IF c.op = "add" THEN s ELSE None
<1>1. PICK rest :
        /\ changes' = [changes EXCEPT !["processor"] = [s |-> s, ops |-> rest]]
        /\ \/ /\ c.op = "del" => reg[fd][c.filter] # None
              /\ reg' = [reg EXCEPT ![fd][c.filter] = v]
              /\ rest = Tail(ops)
           \/ /\ c.op = "del" /\ reg[fd][c.filter] = None
              /\ reg' = reg /\ rest = Nothing
  BY KeventFacts, NoneIsNot, Zenon DEF Connection
<1>2. /\ ops \in {BothOn, ReadOnly, WriteOnly, WriteOn, WriteOff}
      /\ fd \in Fds /\ s # None
  BY KeventFacts, NoneIsNot, Zenon DEF BaseInv, ListInv
<1>3. UNCHANGED <<fdOf, head, tail, short>>
  BY Zenon DEF Kevent, buffer
<1>4. Ahead(s) = ops /\ ~Fresh(s) /\ Wired(s)
  BY Zenon DEF Ahead, BaseInv, FreshInv, FilterInv
<1>5. /\ ops # BothOn
      /\ ops \in {ReadOnly, WriteOnly} => On(s, "read") \/ On(s, "write")
      /\ ops = WriteOn => ~On(s, "read")
      /\ ops = WriteOff => On(s, "read")
      /\ Unsent(s) => ops \in {WriteOnly, WriteOn}
  BY <1>2, <1>4, ChangeLists, Zenon DEF Wired, Phase, Filters
<1>6. reg[fd]["read"] \in {None, s} /\ reg[fd]["write"] \in {None, s}
  BY <1>4, NoneIsNot, Zenon DEF Wired
<1>7. Ahead(s)' = rest
  <2>1. changes'["processor"].s = s /\ changes'["processor"].ops = rest
    <3>1. changes \in [Users -> [s : Sessions \cup {None}, ops : Seq(Op)]]
      BY Zenon DEF BaseInv, TypeOK, Op
    <3> QED
      BY <1>1, <3>1, NoneIsNot, Zenon
  <2> QED
    BY <2>1, Zenon DEF Ahead
<1>8. Unsent(s)' <=> Unsent(s)
  BY <1>3, Zenon DEF Unsent
<1>9. /\ On(s, "read") <=> reg[fd]["read"] = s
      /\ On(s, "write") <=> reg[fd]["write"] = s
      /\ On(s, "read")' <=> reg'[fd]["read"] = s
      /\ On(s, "write")' <=> reg'[fd]["write"] = s
  BY <1>3, Zenon DEF On
<1>10. (c.op = "add" => v = s) /\ (c.op = "del" => v = None)
  BY Zenon
<1>11. c.filter \in Filters
  BY KeventFacts, NoneIsNot, Zenon
<1> HIDE DEF fd, ops, c, v
<1>12. \/ /\ c.op = "del" => reg[fd][c.filter] # None
          /\ reg'[fd][c.filter] = v /\ \A g \in Filters : g # c.filter => reg'[fd][g] = reg[fd][g]
          /\ rest = Tail(ops)
       \/ /\ c.op = "del" /\ reg[fd][c.filter] = None
          /\ reg' = reg /\ rest = Nothing
  <2>1. reg \in [Fds -> [Filters -> Sessions \cup {None}]]
    BY Zenon DEF BaseInv, TypeOK
  <2>2. ASSUME reg' = [reg EXCEPT ![fd][c.filter] = v]
        PROVE  reg'[fd][c.filter] = v /\ \A g \in Filters : g # c.filter => reg'[fd][g] = reg[fd][g]
    BY <1>2, <1>11, <2>1, <2>2, Zenon
  <2> QED
    BY <1>1, <2>2, Zenon
<1>13. CASE ops = ReadOnly
  <2>1. c.op = "add" /\ c.filter = "read" /\ Tail(ops) = WriteOff
    BY <1>13, FirstChange, ChangeFields, Zenon DEF c
  <2>2. reg'[fd]["read"] = s /\ rest = WriteOff
    BY <1>10, <1>12, <2>1, NoneIsNot, Zenon
  <2> QED
    BY <1>5, <1>7, <1>8, <1>9, <1>13, <2>2, ChangeLists, Zenon DEF Phase
<1>14. CASE ops = WriteOnly
  <2>1. c.op = "del" /\ c.filter = "read" /\ Tail(ops) = WriteOn
    BY <1>14, FirstChange, ChangeFields, Zenon DEF c
  <2>2. \/ reg'[fd]["read"] = None /\ rest = WriteOn
        \/ reg' = reg /\ reg[fd]["read"] = None /\ rest = Nothing
    BY <1>10, <1>12, <2>1, NoneIsNot, Zenon
  <2>3. ~On(s, "read")'
    BY <1>2, <1>9, <2>2, Zenon
  <2>4. CASE rest = WriteOn
    BY <1>7, <2>3, <2>4, ChangeLists, Zenon DEF Phase
  <2>5. CASE reg' = reg /\ reg[fd]["read"] = None /\ rest = Nothing
    <3>1. On(s, "write")'
      BY <1>2, <1>5, <1>9, <1>14, <2>5, Zenon
    <3> QED
      BY <1>7, <2>3, <2>5, <3>1, ChangeLists, NoneIsNot, Zenon DEF Phase
  <2> QED
    BY <2>2, <2>4, <2>5, Zenon
<1>15. CASE ops = WriteOn
  <2>1. c.op = "add" /\ c.filter = "write" /\ Tail(ops) = Nothing
    BY <1>15, FirstChange, ChangeFields, Zenon DEF c
  <2>2. reg'[fd]["write"] = s /\ reg'[fd]["read"] = reg[fd]["read"] /\ rest = Nothing
    BY <1>10, <1>12, <2>1, NoneIsNot, Zenon
  <2> QED
    BY <1>5, <1>7, <1>9, <1>15, <2>2, ChangeLists, NoneIsNot, Zenon DEF Phase
<1>16. CASE ops = WriteOff
  <2>1. c.op = "del" /\ c.filter = "write" /\ Tail(ops) = Nothing
    BY <1>16, FirstChange, ChangeFields, Zenon DEF c
  <2>2. reg'[fd]["read"] = reg[fd]["read"] /\ rest = Nothing
    BY <1>12, <2>1, NoneIsNot, Zenon
  <2> QED
    BY <1>5, <1>7, <1>8, <1>9, <1>16, <2>2, ChangeLists, NoneIsNot, Zenon DEF Phase
<1> QED
  BY <1>2, <1>5, <1>13, <1>14, <1>15, <1>16, Zenon

\* The listener turns the filters of its new session on, read first.
LEMMA ListenerChange ==
  ASSUME BaseInv, FilterInv, ~mixed, Kevent("listener"), NEW s \in Sessions,
         s = changes["listener"].s, Connection(s), ~(closing /\ served = s)
  PROVE  Phase(s)'
<1> DEFINE fd == fdOf[s]
           ops == changes["listener"].ops
           f == Head(ops).filter
<1>1. ops \in {BothOn, WriteOn} /\ fd \in Fds /\ owner[fd] # None
  BY KeventFacts, NoneIsNot, Zenon DEF BaseInv, ListInv, Connection
<1>2. /\ ops = BothOn => Head(ops).op = "add" /\ f = "read"
      /\ ops = WriteOn => Head(ops).op = "add" /\ f = "write"
  BY FirstChange, ChangeFields, Zenon
<1>3. Head(ops).op = "add" /\ f \in Filters
  BY <1>1, <1>2, NoneIsNot, Zenon
<1>4. /\ changes' = [changes EXCEPT !["listener"] = [s |-> s, ops |-> Tail(ops)]]
      /\ reg' = [reg EXCEPT ![fd][f] = s]
  BY <1>1, <1>3, KeventFacts, NoneIsNot, Zenon
<1>5. UNCHANGED <<fdOf, head, tail, short>>
  BY Zenon DEF Kevent, buffer
<1>6. changes'["processor"] = changes["processor"]
  BY <1>4, NoneIsNot, Zenon DEF BaseInv, TypeOK
<1>7. /\ Ahead(s)' = Ahead(s)
      /\ Unsent(s)' <=> Unsent(s)
  BY <1>5, <1>6, Zenon DEF Ahead, Unsent
<1>8. /\ reg'[fd][f] = s
      /\ \A g \in Filters : g # f => reg'[fd][g] = reg[fd][g]
  <2>1. reg \in [Fds -> [Filters -> Sessions \cup {None}]]
    BY Zenon DEF BaseInv, TypeOK
  <2> QED
    BY <1>1, <1>3, <1>4, <2>1, Zenon
<1>9. \A g : /\ On(s, g) <=> reg[fd][g] = s
             /\ On(s, g)' <=> reg'[fd][g] = s
  BY <1>5, Zenon DEF On
<1> HIDE DEF fd, f
<1>10. CASE ops = BothOn
  <2>1. Fresh(s)
    BY <1>10, Zenon DEF Fresh
  <2>2. Ahead(s) = Nothing /\ ~Unsent(s)
    <3>1. changes["processor"].s # s /\ head[s] = 0 /\ tail[s] = 0
      BY <2>1, Zenon DEF BaseInv, FreshInv
    <3>2. ~(head[s] < tail[s])
      BY <3>1
    <3> QED
      BY <3>1, <3>2, Zenon DEF Ahead, Unsent
  <2> QED
    BY <1>2, <1>7, <1>8, <1>9, <1>10, <2>2, NoneIsNot, ChangeLists, Zenon DEF Phase
<1>11. CASE ops = WriteOn
  <2>1. ~Fresh(s) /\ Wired(s)
    BY <1>1, <1>11, ChangeLists, NoneIsNot, Zenon DEF Fresh, FilterInv, Connection
  <2>2. Phase(s) /\ f = "write"
    BY <1>2, <1>11, <2>1, Zenon DEF Wired
  <2>3. On(s, "write")' /\ (On(s, "read")' <=> On(s, "read"))
    BY <1>8, <1>9, <2>2, NoneIsNot, Zenon
  <2> QED
    BY <1>7, <2>2, <2>3, NoneIsNot, Zenon DEF Phase
<1> QED
  BY <1>1, <1>10, <1>11, Zenon

\* The changes of a session reach no other: its descriptor would be another's, and
\* that is what mixed remembers.
LEMMA KeventFilter == ASSUME BaseInv, FilterInv, NEW t \in Users, Kevent(t) PROVE FilterInv'
<1> SUFFICES ASSUME ~mixed', NEW u \in Sessions PROVE Wired(u)'
  BY Zenon DEF FilterInv
<1> DEFINE s == changes[t].s
           fd == fdOf[s]
           f == Head(changes[t].ops).filter
<1>1. s \in Sessions /\ fd \in Fds /\ f \in Filters
  BY KeventFacts, Zenon
<1>2. PICK rest \in {Nothing, Tail(changes[t].ops)}, v \in {s, None, reg[fd][f]} :
        /\ changes' = [changes EXCEPT ![t] = [s |-> s, ops |-> rest]]
        /\ reg' = [reg EXCEPT ![fd][f] = v]
  <2>1. reg = [reg EXCEPT ![fd][f] = reg[fd][f]]
    BY <1>1, Zenon DEF BaseInv, TypeOK
  <2> QED
    BY <2>1, KeventFacts, Zenon
<1>3. ~mixed /\ ~Foreign(s) /\ UNCHANGED <<fdOf, head, tail, owner, served, closing, short>>
  BY Zenon DEF Kevent, buffer, flow
<1>4. reg \in [Fds -> [Filters -> Sessions \cup {None}]]
  BY Zenon DEF BaseInv, TypeOK
<1>5. Wired(u)
  BY <1>3, Zenon DEF FilterInv
<1>6. closing /\ served = u => closing' /\ served' = u
  BY <1>3
<1>7. Connection(u)' <=> Connection(u)
  BY <1>3, Zenon DEF Connection
<1> HIDE DEF fd, f
<1>8. CASE u = s
  <2> SUFFICES ASSUME Connection(u)
               PROVE  Phase(u)' /\ \A g \in Filters : reg'[fdOf'[u]][g] \in {None, u}
    BY <1>7, Zenon DEF Wired
  <2>1. \A g \in Filters : reg[fd][g] \in {None, u}
    BY <1>5, <1>8, Zenon DEF Wired, fd
  <2>2. \A g \in Filters : reg'[fd][g] \in {v, reg[fd][g]}
    BY <1>1, <1>2, <1>4, Zenon
  <2>3. v \in {None, u}
    BY <1>1, <1>2, <1>8, <2>1, Zenon
  <2>4. Phase(u)'
    <3>1. CASE closing /\ served = u
      BY <1>6, <3>1, Zenon DEF Phase
    <3> QED
      BY <1>3, <1>8, <3>1, ProcessorChange, ListenerChange, Zenon DEF Users
  <2> QED
    BY <1>3, <1>8, <2>1, <2>2, <2>3, <2>4, Zenon DEF fd
<1>9. CASE u # s
  <2>1. \A r \in Users : changes'[r] = IF r = t THEN [s |-> s, ops |-> rest] ELSE changes[r]
    BY <1>2, Zenon DEF BaseInv, TypeOK
  <2>2. \A r \in Users : (changes'[r].s # u /\ changes[r].s # u) \/ changes'[r] = changes[r]
    BY <1>9, <2>1
  <2>3. Ahead(u)' = Ahead(u) /\ (Fresh(u) => Fresh(u)')
    BY <1>3, <2>2, NoneIsNot, Zenon DEF Ahead, Fresh
  <2>4. Connection(u) => reg'[fdOf[u]] = reg[fdOf[u]]
    <3> SUFFICES ASSUME Connection(u) PROVE reg'[fdOf[u]] = reg[fdOf[u]]
      BY Zenon
    <3>1. fdOf[u] # fd
      BY <1>3, <1>9, NoneIsNot, Zenon DEF Connection, Foreign, fd
    <3> QED
      BY <1>2, <1>4, <3>1, Zenon DEF Connection, BaseInv, TypeOK
  <2>5. Unsent(u)' => Unsent(u)
    BY <1>3, Zenon DEF Unsent
  <2> QED
    BY <1>3, <1>5, <1>6, <1>7, <2>3, <2>4, <2>5, WiredSame, Zenon
<1> QED
  BY <1>8, <1>9, Zenon

LEMMA FilterAlways == Spec => [](BaseInv /\ FilterInv)
<1>1. Init => FilterInv
  <2> SUFFICES ASSUME Init, NEW s \in Sessions PROVE fdOf[s] = None
    BY Zenon DEF FilterInv, Wired, Connection
  <2> QED
    BY Zenon DEF Init
<1>2. ASSUME BaseInv, FilterInv, [Next]_vars PROVE FilterInv'
  <2>1. CASE UNCHANGED vars
    <3>1. UNCHANGED <<fdOf, owner, reg, changes, head, tail, short, closing, served, mixed>>
      BY <2>1, Zenon DEF vars, buffer, kernel, flow
    <3> QED
      BY <1>2, <3>1, QuietFilter, Zenon
  <2>2. CASE ProcStep
    BY <1>2, <2>2, WaitFilter, OnRecvFilter, CloseFilter, KeventFilter, QuietEntryFilter,
       ReadEndFilter, WriteFilter, NoneIsNot, Zenon DEF ProcStep
  <2> QED
    BY <1>2, <2>1, <2>2, AcceptFilter, KeventFilter, PeerFilter, NoneIsNot, Zenon DEF Next
<1> QED
  BY <1>1, <1>2, BaseAlways, PTL DEF Spec

\* For any number of sessions and descriptors, any lengths of answers and any size of
\* sendBuf: whatever updateEvents calls of the two threads there were and whichever of
\* their changes failed, an open session has a filter, and while bytes are pending in
\* its sendBuf the write filter alone, as long as the processor has not used a descriptor
\* number that became another session's (mixed) nor a send of the session taken a
\* part only (short).
THEOREM FiltersStayOn == Spec => []FilterOn
<1>1. ASSUME BaseInv, FilterInv PROVE FilterOn
  <2> SUFFICES ASSUME ~mixed, NEW s \in Sessions, Connection(s), Settled(s)
               PROVE  /\ \E f \in Filters : On(s, f)
                      /\ head[s] < tail[s] /\ ~short[s] => On(s, "write") /\ ~On(s, "read")
    BY Zenon DEF FilterOn
  <2>1. ~Fresh(s)
    BY ChangeLists, NoneIsNot, Zenon DEF Fresh, Settled, Connection, Nothing
  <2>2. Phase(s) /\ ~(closing /\ served = s)
    BY <1>1, <2>1, Zenon DEF FilterInv, Wired, Settled
  <2>3. Ahead(s) = Nothing
    BY NothingAhead, NoneIsNot, Zenon DEF Settled, Nothing
  <2> QED
    BY <2>2, <2>3, Zenon DEF Phase, Unsent
<1> QED
  BY <1>1, FilterAlways, PTL

=============================================================================
