--------------------------- MODULE KqueueSession ----------------------------
(***************************************************************************)
(* A processor of detail/kqueuenet.hpp, the sessions it serves and the     *)
(* listener that makes them.  A session has at most a read and a write     *)
(* filter in the processor's kqueue; updateEvents turns them on and off    *)
(* with a list of changes, of which the kernel carries out those before    *)
(* the first that fails.  The processor has one errno for all sessions and *)
(* no call that succeeds resets it.                                        *)
(*                                                                         *)
(* The application answers every request from on_recv, on the processor's  *)
(* thread, with async_send.  A request is its length; recv returns whole   *)
(* requests (RecvFraming has the parts).  A connection is named by the     *)
(* session made for it; a session is never released (evtHandler is empty). *)
(***************************************************************************)
EXTENDS Integers, Sequences

CONSTANTS
  Fds,           \* the descriptors sessions can get
  Sessions,      \* session objects, in the order the factory makes them
  SendBufSize,   \* bytes of sendBuf
  Lengths,       \* lengths of a request and of its answer
  MaxRequests,   \* bound: requests of each session's peer
  Endings,       \* how each of them may end the connection: "fin", "rst"
  MaxStalls      \* bound: times each connection cannot take or give data after all

ASSUME KqueueAssumption ==
  /\ Fds \subseteq Nat \ {0} /\ Sessions \subseteq Nat \ {0}
  /\ SendBufSize \in Nat \ {0} /\ Lengths \subseteq Nat \ {0}
  /\ Endings \in [Sessions -> SUBSET {"fin", "rst"}]
  /\ MaxRequests \in [Sessions -> Nat] /\ MaxStalls \in [Sessions -> Nat]

None == 0
Filters == {"read", "write"}
Users == {"processor", "listener"}

VARIABLES
  fdOf, head, tail,   \* of a session: fd, sndBufHead, sndBufTail
  owner, reg,         \* of a descriptor: its connection; the udata of its filters
  inbox, peer, room,  \* of a connection: unread requests; "open", "fin" or "rst";
                      \* whether it can take data
  batch,              \* entries returned by kevent, not yet handled
  served, calls,      \* the session being served, the on_recv calls still to come
  closing,            \* the descriptor is closed after the changes
  changes,            \* of a thread: the changes kevent has still to carry out
  errno,              \* of the processor: "again" or "other"
  asked, stalls,      \* requests sent, stalls so far
  short,              \* a send took a part of what is pending
  mixed,              \* the processor used a descriptor that was another session's
  up                  \* the process has not been terminated

buffer == <<head, tail>>
kernel == <<owner, reg>>
link == <<inbox, peer, room, asked, stalls>>
flow == <<batch, served, calls, closing>>
vars == <<fdOf, buffer, kernel, link, flow, changes, errno, short, mixed, up>>

NoChange == [s |-> None, ops |-> << >>]

Init ==
  /\ fdOf = [s \in Sessions |-> None]
  /\ head = [s \in Sessions |-> 0]
  /\ tail = [s \in Sessions |-> 0]
  /\ owner = [fd \in Fds |-> None]
  /\ reg = [fd \in Fds |-> [f \in Filters |-> None]]
  /\ inbox = [s \in Sessions |-> << >>]
  /\ peer = [s \in Sessions |-> "open"]
  /\ room = [s \in Sessions |-> TRUE]
  /\ batch = {} /\ served = None /\ calls = << >> /\ closing = FALSE
  /\ changes = [t \in Users |-> NoChange]
  /\ errno = "other"
  /\ asked = [s \in Sessions |-> 0] /\ stalls = [s \in Sessions |-> 0]
  /\ short = [s \in Sessions |-> FALSE]
  /\ mixed = FALSE /\ up = TRUE

-----------------------------------------------------------------------------
\* The change list of updateEvents.
UpdateEvents(s, events, modify) ==
  LET change(f) == IF f \in events THEN <<[op |-> "add", filter |-> f]>>
                   ELSE IF modify THEN <<[op |-> "del", filter |-> f]>> ELSE << >>
  IN  [s |-> s, ops |-> change("read") \o change("write")]

Connection(s) == fdOf[s] # None /\ owner[fdOf[s]] = s

\* The descriptor of session s is by now that of another session.
Foreign(s) == owner[fdOf[s]] \notin {None, s}

\* kevent carries out one change; when it fails the others are dropped.  Closed
\* descriptors have no filters, and only a filter that is there can be deleted.
Kevent(t) ==
  LET s == changes[t].s
      fd == fdOf[s]
      c == Head(changes[t].ops) IN
  /\ up /\ changes[t].ops # << >>
  /\ \/ /\ owner[fd] # None /\ (c.op = "del" => reg[fd][c.filter] # None)
        /\ reg' = [reg EXCEPT ![fd][c.filter] = IF c.op = "add" THEN s ELSE None]
        /\ changes' = [changes EXCEPT ![t].ops = Tail(@)]
        /\ UNCHANGED errno
     \/ /\ owner[fd] = None \/ (c.op = "del" /\ reg[fd][c.filter] = None)
        /\ changes' = [changes EXCEPT ![t].ops = << >>]
        /\ errno' = IF t = "processor" THEN "other" ELSE errno
        /\ UNCHANGED reg
  /\ mixed' = (mixed \/ Foreign(s))
  /\ UNCHANGED <<fdOf, buffer, owner, link, flow, short, up>>

\* Listener::run: accept takes the lowest free descriptor, and the new session is
\* registered for both filters.
Accept ==
  /\ up /\ changes["listener"].ops = << >>
  /\ \E s \in {u \in Sessions : fdOf[u] = None}, fd \in {g \in Fds : owner[g] = None} :
       /\ \A u \in Sessions : fdOf[u] = None => s <= u
       /\ \A g \in Fds : owner[g] = None => fd <= g
       /\ fdOf' = [fdOf EXCEPT ![s] = fd]
       /\ owner' = [owner EXCEPT ![fd] = s]
       /\ changes' = [changes EXCEPT !["listener"] = UpdateEvents(s, Filters, FALSE)]
  /\ UNCHANGED <<buffer, reg, link, flow, errno, short, mixed, up>>

-----------------------------------------------------------------------------
\* The peer sends, ends the connection, and takes data from it.
Request(s) ==
  /\ up /\ Connection(s) /\ peer[s] = "open" /\ asked[s] < MaxRequests[s]
  /\ \E len \in Lengths : inbox' = [inbox EXCEPT ![s] = Append(@, len)]
  /\ asked' = [asked EXCEPT ![s] = @ + 1]
  /\ UNCHANGED <<fdOf, buffer, kernel, peer, room, stalls, flow, changes, errno, short, mixed, up>>

PeerEnds(s) ==
  /\ up /\ Connection(s) /\ peer[s] = "open"
  /\ \E how \in Endings[s] : peer' = [peer EXCEPT ![s] = how]
  /\ inbox' = [inbox EXCEPT ![s] = IF peer'[s] = "fin" THEN @ ELSE << >>]
  /\ UNCHANGED <<fdOf, buffer, kernel, room, asked, stalls, flow, changes, errno, short, mixed, up>>

Drain(s) ==
  /\ up /\ ~room[s]
  /\ room' = [room EXCEPT ![s] = TRUE]
  /\ UNCHANGED <<fdOf, buffer, kernel, inbox, peer, asked, stalls, flow, changes, errno, short, mixed, up>>

-----------------------------------------------------------------------------
\* The filters that report something.
Fires(c, f) ==
  \/ f = "read" /\ (inbox[c] # << >> \/ peer[c] # "open")
  \/ f = "write" /\ (room[c] \/ peer[c] = "rst")
Ready ==
  {e \in [s : Sessions, filter : Filters] :
     \E fd \in Fds : reg[fd][e.filter] = e.s /\ Fires(owner[fd], e.filter)}

\* The processor is done with the last entry.
Free == changes["processor"].ops = << >> /\ calls = << >> /\ ~closing

\* kevent returns what is ready.
Wait ==
  /\ up /\ Free /\ batch = {} /\ Ready # {}
  /\ batch' = Ready
  /\ served' = None
  /\ UNCHANGED <<fdOf, buffer, kernel, link, calls, closing, changes, errno, short, mixed, up>>

\* The loop of Processor::run takes the next entry, a filter f of session s.  The
\* kernel returns the entries in any order.
Entry(s, f) ==
  /\ up /\ Free /\ [s |-> s, filter |-> f] \in batch
  /\ batch' = batch \ {[s |-> s, filter |-> f]}
  /\ served' = s
  /\ mixed' = (mixed \/ Foreign(s))

\* recv returns requests.
ReadData(s) ==
  LET c == owner[fdOf[s]] IN
  /\ Entry(s, "read")
  /\ c # None /\ inbox[c] # << >>
  /\ calls' = inbox[c]
  /\ inbox' = [inbox EXCEPT ![c] = << >>]
  /\ UNCHANGED <<fdOf, buffer, kernel, peer, room, asked, stalls, closing, changes, errno, short, up>>

\* recv returns EAGAIN, after all.
ReadNothing(s) ==
  LET c == owner[fdOf[s]] IN
  /\ Entry(s, "read")
  /\ c # None /\ peer[c] = "open"
  /\ inbox[c] = << >> \/ stalls[c] < MaxStalls[c]
  /\ stalls' = [stalls EXCEPT ![c] = IF inbox[c] = << >> THEN @ ELSE @ + 1]
  /\ errno' = "again"
  /\ UNCHANGED <<fdOf, buffer, kernel, inbox, peer, room, asked, calls, closing, changes, short, up>>

\* recv returns 0 or another error: the filters are changed, then the descriptor
\* is closed.
ReadEnd(s) ==
  LET c == owner[fdOf[s]]
      eof == c # None /\ peer[c] = "fin" IN
  /\ Entry(s, "read")
  /\ c # None => inbox[c] = << >> /\ peer[c] # "open"
  /\ changes' = [changes EXCEPT !["processor"] =
                   UpdateEvents(s, IF eof THEN Filters ELSE {"read"}, TRUE)]
  /\ errno' = IF eof THEN errno ELSE "other"
  /\ closing' = TRUE
  /\ UNCHANGED <<fdOf, buffer, kernel, link, calls, short, up>>

Close ==
  /\ up /\ closing /\ changes["processor"].ops = << >>
  /\ owner' = [owner EXCEPT ![fdOf[served]] = None]
  /\ reg' = [reg EXCEPT ![fdOf[served]] = [f \in Filters |-> None]]
  /\ closing' = FALSE
  /\ mixed' = (mixed \/ Foreign(served))
  /\ UNCHANGED <<fdOf, buffer, link, batch, served, calls, changes, errno, short, up>>

-----------------------------------------------------------------------------
\* async_send: room is made by moving the pending bytes to the front, once; an
\* answer that would fill the buffer to the last byte is refused.
BugAsyncSendNoMove(s, len) ==
  LET fits == len < SendBufSize - tail[s] IN
  /\ tail' = [tail EXCEPT ![s] = IF fits THEN @ + len ELSE @]
  /\ changes' = [changes EXCEPT !["processor"] =
                   IF fits THEN UpdateEvents(s, {"write"}, TRUE) ELSE NoChange]
  /\ UNCHANGED head
BugAsyncSendUnbounded(s, len) ==
  /\ tail' = [tail EXCEPT ![s] = @ + len]
  /\ changes' = [changes EXCEPT !["processor"] = UpdateEvents(s, {"write"}, TRUE)]
  /\ UNCHANGED head
AsyncSend(s, len) ==
  LET h == IF len > SendBufSize - tail[s] THEN 0 ELSE head[s]
      t == tail[s] - head[s] + h
      fits == len < SendBufSize - t IN
  /\ head' = [head EXCEPT ![s] = h]
  /\ tail' = [tail EXCEPT ![s] = IF fits THEN t + len ELSE t]
  /\ changes' = [changes EXCEPT !["processor"] =
                   IF fits THEN UpdateEvents(s, {"write"}, TRUE) ELSE NoChange]

\* on_recv answers a request.
OnRecv ==
  /\ up /\ calls # << >> /\ changes["processor"].ops = << >>
  /\ calls' = Tail(calls)
  /\ AsyncSend(served, Head(calls))
  /\ UNCHANGED <<fdOf, kernel, link, batch, served, closing, errno, short, mixed, up>>

\* send of n bytes on connection c, as (bytes taken, errno, whether the connection
\* is full now): it may take a part of them, or nothing after all.
Sent(c, n) ==
  IF c = None THEN {<<0, "other", "room">>}
  ELSE IF n = 0 THEN {<<0, errno, "room">>}
  ELSE LET part == {<<k, errno, "room">> : k \in 1..n}
           full == {<<k, errno, "full">> : k \in 1..n} \cup {<<0, "again", "full">>}
       IN  IF stalls[c] < MaxStalls[c] THEN part \cup full ELSE part

\* The filter that is wanted after a send.
BugAfterSendIgnoresAgain(error) == {"read"}
BugAfterSendStays(error) == {"write"}
AfterSend(error) == IF error = "again" THEN {"write"} ELSE {"read"}

\* The pending bytes are sent; which filter comes next depends on errno, whoever
\* set it.
BugWriteHoldsBack(s) ==
  LET c == owner[fdOf[s]]
      pending == tail[s] - head[s] IN
  /\ Entry(s, "write")
  /\ c # None => peer[c] # "rst"
  /\ head' = [head EXCEPT ![s] = IF pending + 1 = SendBufSize THEN @ + pending ELSE @]
  /\ changes' = [changes EXCEPT !["processor"] =
                   UpdateEvents(s, IF head'[s] < tail[s] THEN {"write"} ELSE {"read"}, TRUE)]
  /\ UNCHANGED <<fdOf, tail, kernel, link, calls, closing, errno, short, up>>
Write(s) ==
  LET c == owner[fdOf[s]] IN
  /\ Entry(s, "write")
  /\ c # None => peer[c] # "rst"
  /\ \E r \in Sent(c, tail[s] - head[s]) :
       /\ head' = [head EXCEPT ![s] = @ + r[1]]
       /\ short' = [short EXCEPT ![s] = r[1] > 0 /\ r[1] < tail[s] - head[s]]
       /\ errno' = r[2]
       /\ room' = IF r[3] = "full" THEN [room EXCEPT ![c] = FALSE] ELSE room
       /\ stalls' = IF r[3] = "full" THEN [stalls EXCEPT ![c] = @ + 1] ELSE stalls
  /\ changes' = [changes EXCEPT !["processor"] =
                   UpdateEvents(s, AfterSend(errno'), TRUE)]
  /\ UNCHANGED <<fdOf, tail, kernel, inbox, peer, asked, calls, closing, up>>

\* send on a connection that was reset raises SIGPIPE, which nobody handles.
WriteTerminates(s) ==
  LET c == owner[fdOf[s]] IN
  /\ Entry(s, "write")
  /\ c # None /\ peer[c] = "rst"
  /\ up' = FALSE
  /\ UNCHANGED <<fdOf, buffer, kernel, link, calls, closing, changes, errno, short>>

-----------------------------------------------------------------------------
ProcStep ==
  \/ Wait \/ OnRecv \/ Close \/ Kevent("processor")
  \/ \E s \in Sessions : \/ ReadData(s) \/ ReadNothing(s) \/ ReadEnd(s)
                         \/ Write(s) \/ WriteTerminates(s)

Next ==
  \/ ProcStep \/ Accept \/ Kevent("listener")
  \/ \E s \in Sessions : Request(s) \/ PeerEnds(s) \/ Drain(s)

Spec == Init /\ [][Next]_vars

\* The threads keep running, and a connection that stays open takes data again.
FairSpec ==
  /\ Spec /\ WF_vars(ProcStep) /\ WF_vars(Kevent("listener"))
  /\ \A s \in Sessions : WF_vars(Drain(s))

-----------------------------------------------------------------------------
\* Every variable has its type.
TypeOK ==
  /\ fdOf \in [Sessions -> Fds \cup {None}]
  /\ head \in [Sessions -> 0..SendBufSize] /\ tail \in [Sessions -> 0..SendBufSize]
  /\ owner \in [Fds -> Sessions \cup {None}]
  /\ reg \in [Fds -> [Filters -> Sessions \cup {None}]]
  /\ inbox \in [Sessions -> Seq(Lengths)] /\ calls \in Seq(Lengths)
  /\ peer \in [Sessions -> {"open", "fin", "rst"}]
  /\ room \in [Sessions -> BOOLEAN] /\ short \in [Sessions -> BOOLEAN]
  /\ batch \subseteq [s : Sessions, filter : Filters]
  /\ served \in Sessions \cup {None}
  /\ closing \in BOOLEAN /\ mixed \in BOOLEAN /\ up \in BOOLEAN
  /\ changes \in [Users -> [s : Sessions \cup {None},
                            ops : Seq([op : {"add", "del"}, filter : Filters])]]
  /\ errno \in {"again", "other"}
  /\ asked \in [Sessions -> Nat] /\ stalls \in [Sessions -> Nat]

\* Nobody is changing the filters of session s or about to close it.
Settled(s) ==
  /\ \A t \in Users : changes[t].s = s => changes[t].ops = << >>
  /\ served = s => ~closing
On(s, f) == reg[fdOf[s]][f] = s

\* An open session always has the filter it needs, whatever updateEvents calls there
\* were and whichever of their changes failed: some filter, so that an event can reach
\* it, and while bytes are pending the write filter alone, so that no request is
\* received before the answers have gone out.
FilterOn ==
  ~mixed => \A s \in Sessions : Connection(s) /\ Settled(s) =>
              /\ \E f \in Filters : On(s, f)
              /\ head[s] < tail[s] /\ ~short[s] => On(s, "write") /\ ~On(s, "read")

\* async_send refuses an answer only when the pending bytes leave no room for it,
\* or when it would exactly fill the rest of the buffer.
RefusesOnlyFull ==
  [][(calls # << >> /\ calls' = Tail(calls)) =>
       LET s == served
           len == Head(calls)
           pending == tail[s] - head[s] IN
       \/ tail'[s] - head'[s] = pending + len
       \/ pending + len >= SendBufSize
       \/ tail[s] + len = SendBufSize]_vars

\* Pending bytes go out, unless a send took a part of them.
Flushed ==
  \A s \in Sessions :
    (head[s] < tail[s]) ~> (head[s] = tail[s] \/ short[s] \/ ~Connection(s) \/ mixed \/ ~up)

\* A request is received and the end of a connection noticed: reading is always
\* taken up again, also when errno still holds the EAGAIN of another session.
Heard ==
  \A s \in Sessions :
    (Connection(s) /\ (inbox[s] # << >> \/ peer[s] # "open")) ~>
       ((inbox[s] = << >> /\ peer[s] = "open") \/ ~Connection(s) \/ mixed \/ ~up)
=============================================================================
