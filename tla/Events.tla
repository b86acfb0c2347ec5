------------------------------- MODULE Events -------------------------------
(***************************************************************************)
(* Observe on the service side: the event bus and the session registry of   *)
(* events.py, with the handlers and tools that record events (api.py,        *)
(* query.py, mcp_server.py).                                                *)
(*                                                                         *)
(* Handlers run in threads.  The registry and the bus have a lock each, held *)
(* for one step at a time: a handler checks a session, releases, and emits   *)
(* later; an event is appended to the history under the lock and put into    *)
(* the queues of the streams after it.                                      *)
(*                                                                         *)
(* An event's number stands for its identifier and its timestamp.           *)
(***************************************************************************)
EXTENDS Naturals, Sequences, FiniteSets

CONSTANTS Threads,        \* handlers that run at one time (bound)
          Streams,        \* event streams
          Revisions,
          NoRevision,     \* "current": no revision is verified
          MaxActive,      \* ObserveSessions.max_active
          SessionLimit,   \* ObserveSessions.history_limit
          HistoryLimit,   \* EventBus.history_limit
          QueueLimit,     \* EventBus.subscriber_queue_limit
          ViewLimit,      \* ViewStore.limit
          MaxEvents,      \* events ever emitted (bound)
          MaxSessions,    \* sessions ever started (bound)
          MaxSyncs        \* changes of the verified revision (bound)

ASSUME SessionBounds == /\ MaxActive \in Nat \ {0}
                        /\ SessionLimit \in Nat
                        /\ SessionLimit >= MaxActive
ASSUME BusBounds == {HistoryLimit, QueueLimit, ViewLimit} \subseteq Nat \ {0}
ASSUME ModelBounds == {MaxEvents, MaxSessions, MaxSyncs} \subseteq Nat
ASSUME NoRevisionAssumption == NoRevision \notin Revisions

Labels == Revisions \cup {NoRevision}
NoSession == 0          \* the session field of a synchronisation's events
Types == {"started", "completed", "recorded", "query", "result", "sync"}
Event == [sid : Nat, type : Types, rev : Labels]

(* What a handler is about to do: register a session, append its event, put  *)
(* it into the queues (drop and again: the queue `at` was full), answer a    *)
(* query, store its view.                                                   *)
Idle == [pc |-> "idle"]
Calls ==
  {Idle} \cup [pc : {"register"}, rev : Labels]
         \cup [pc : {"append"}, event : Event]
         \cup [pc : {"deliver"}, event : Event, number : Nat, left : SUBSET Streams]
         \cup [pc : {"drop", "again"}, event : Event, number : Nat,
               left : SUBSET Streams, at : Streams]
         \cup [pc : {"label"}, sid : Nat]
         \cup [pc : {"answer"}, event : Event]
         \cup [pc : {"store"}, number : Nat]

VARIABLES ready,      \* the verified revision in the status of the synchronisation
          active,     \* active sessions
          finished,   \* completed sessions the registry keeps, oldest first
          pinned,     \* the revision of every session ever started
          emitted,    \* every event appended; the deque holds the newest of them
          open,       \* streams with a subscription
          queue,      \* their queues, of event numbers
          views,      \* the view store, oldest first, by the number of the result event
          call,       \* the handler in each thread
          syncs

registry == <<active, finished, pinned>>
bus == <<emitted, open, queue>>
serviceVars == <<ready, registry, bus, views, call, syncs>>

Newest(seq, n) == SubSeq(seq, IF Len(seq) > n THEN Len(seq) - n + 1 ELSE 1, Len(seq))

(* Numbers of the events in the deque, and those of one session.            *)
History == {i \in 1..Len(emitted) : i + HistoryLimit > Len(emitted)}
OfSession(sid) == {i \in 1..Len(emitted) : emitted[i].sid = sid}

Sessions == 1..Len(pinned)
Known(sid) == sid \in active \/ \E i \in 1..Len(finished) : finished[i] = sid

TypeOK ==
  /\ ready \in Labels
  /\ active \subseteq Sessions
  /\ finished \in Seq(Sessions)
  /\ pinned \in Seq(Labels)
  /\ emitted \in Seq(Event)
  /\ open \subseteq Streams
  /\ queue \in [Streams -> Seq(Nat)]
  /\ views \in Seq(Nat)
  /\ call \in [Threads -> Calls]
  /\ syncs \in 0..MaxSyncs

ServiceInit ==
  /\ ready \in Revisions
  /\ active = {} /\ finished = <<>> /\ pinned = <<>>
  /\ emitted = <<>>
  /\ open = {} /\ queue = [s \in Streams |-> <<>>]
  /\ views = <<>>
  /\ call = [t \in Threads |-> Idle]
  /\ syncs = 0

-----------------------------------------------------------------------------
(* Emitting.                                                                *)

Emits(sid, type, rev) ==
  [pc |-> "append", event |-> [sid |-> sid, type |-> type, rev |-> rev]]

(* Room for the events that handlers will emit, and for the completion of    *)
(* every session, within the bound of the model.                            *)
Pending(c) == CASE c.pc \in {"register", "label"} -> 2
                [] c.pc \in {"append", "deliver", "drop", "again"} /\ c.event.type = "query" ->
                     IF c.pc = "append" THEN 2 ELSE 1
                [] c.pc \in {"append", "answer"} -> 1
                [] OTHER -> 0
Reserved ==
  Cardinality({t \in Threads : Pending(call[t]) >= 1})
  + Cardinality({t \in Threads : Pending(call[t]) >= 2}) + Cardinality(active)
Room(k) == Len(emitted) + Reserved + k <= MaxEvents

Runs(t, c) == call' = [call EXCEPT ![t] = c]

(* Where a handler goes on when the last queue has its event.               *)
AfterDelivery(event, number) ==
  CASE event.type = "query" -> [pc |-> "answer", event |-> event]
    [] event.type = "result" -> [pc |-> "store", number |-> number]
    [] OTHER -> Idle
Delivering(event, number, left) ==
  IF left = {} THEN AfterDelivery(event, number)
  ELSE [pc |-> "deliver", event |-> event, number |-> number, left |-> left]

(* Under the lock of the bus: the event joins the history, and the           *)
(* subscribers of this moment are the ones it goes to.                      *)
AppendEvent(t) ==
  /\ call[t].pc = "append"
  /\ emitted' = Append(emitted, call[t].event)
  /\ Runs(t, Delivering(call[t].event, Len(emitted'), open))
  /\ UNCHANGED <<ready, registry, open, queue, views, syncs>>

Full(s) == Len(queue[s]) >= QueueLimit

(* put_nowait                                                               *)
Put(t, s) ==
  /\ call[t].pc = "deliver" /\ s \in call[t].left
  /\ IF Full(s)
     THEN /\ Runs(t, [pc |-> "drop", event |-> call[t].event, number |-> call[t].number,
                      left |-> call[t].left, at |-> s])
          /\ UNCHANGED queue
     ELSE /\ queue' = [queue EXCEPT ![s] = Append(@, call[t].number)]
          /\ Runs(t, Delivering(call[t].event, call[t].number, call[t].left \ {s}))
  /\ UNCHANGED <<ready, registry, emitted, open, views, syncs>>

(* except Full: get_nowait, unless somebody emptied the queue meanwhile.     *)
DropOldest(t) ==
  /\ call[t].pc = "drop"
  /\ queue' = [queue EXCEPT ![call[t].at] = IF @ = <<>> THEN @ ELSE Tail(@)]
  /\ Runs(t, [call[t] EXCEPT !.pc = "again"])
  /\ UNCHANGED <<ready, registry, emitted, open, views, syncs>>

(* The second put_nowait, whose failure is suppressed.                      *)
PutAgain(t) ==
  /\ call[t].pc = "again"
  /\ LET s == call[t].at
     IN  /\ queue' = [queue EXCEPT ![s] = IF Full(s) THEN @ ELSE Append(@, call[t].number)]
         /\ Runs(t, Delivering(call[t].event, call[t].number, call[t].left \ {s}))
  /\ UNCHANGED <<ready, registry, emitted, open, views, syncs>>

Subscribe(s) ==
  /\ s \notin open
  /\ open' = open \cup {s}
  /\ queue' = [queue EXCEPT ![s] = <<>>]
  /\ \A t \in Threads : "left" \in DOMAIN call[t] => s \notin call[t].left
  /\ UNCHANGED <<ready, registry, emitted, views, call, syncs>>

Read(s) ==
  /\ s \in open /\ queue[s] # <<>>
  /\ queue' = [queue EXCEPT ![s] = Tail(@)]
  /\ UNCHANGED <<ready, registry, emitted, open, views, call, syncs>>

Unsubscribe(s) ==
  /\ s \in open
  /\ open' = open \ {s}
  /\ UNCHANGED <<ready, registry, emitted, queue, views, call, syncs>>

-----------------------------------------------------------------------------
(* The registry of sessions.                                                *)

(* start_observe_session reads the status of the synchronisation; without a  *)
(* verified revision it answers 409.                                        *)
AskSession(t) ==
  /\ call[t] = Idle
  /\ ready # NoRevision
  /\ Len(pinned) + Cardinality({u \in Threads : call[u].pc = "register"}) < MaxSessions
  /\ Room(2)
  /\ Runs(t, [pc |-> "register", rev |-> ready])
  /\ UNCHANGED <<ready, registry, bus, views, syncs>>

(* _prune_completed: completed sessions leave, oldest first, down to the     *)
(* limit; move_to_end keeps them in the order of their completion.          *)
Excess(sessions) == Cardinality(sessions) + Len(finished) - SessionLimit
Pruned(sessions) ==
  IF Cardinality(sessions) + Len(finished) <= SessionLimit THEN finished
  ELSE SubSeq(finished, Excess(sessions) + 1, Len(finished))

TooMany == Cardinality(active) >= MaxActive

Register(t) ==
  /\ call[t].pc = "register"
  /\ IF TooMany
     THEN /\ Runs(t, Idle)
          /\ UNCHANGED registry
     ELSE LET sid == Len(pinned) + 1
          IN  /\ active' = active \cup {sid}
              /\ finished' = Pruned(active')
              /\ pinned' = Append(pinned, call[t].rev)
              /\ Runs(t, Emits(sid, "started", call[t].rev))
  /\ UNCHANGED <<ready, bus, views, syncs>>

(* complete: 404 and 409 for sessions that are unknown or inactive.  Who asks *)
(* knows the session from the answer to the start, after its first event.    *)
Announced(sid) == \E i \in OfSession(sid) : emitted[i].type = "started"
(* complete leaves the session active.                                      *)
CompleteStaysActive(t, sid) ==
  /\ call[t] = Idle
  /\ sid \in active /\ Announced(sid)
  /\ UNCHANGED <<active, finished>>
  /\ Runs(t, Emits(sid, "completed", pinned[sid]))
  /\ UNCHANGED <<ready, pinned, bus, views, syncs>>

Complete(t, sid) ==
  /\ call[t] = Idle
  /\ sid \in active /\ Announced(sid)
  /\ active' = active \ {sid}
  /\ finished' = Append(finished, sid)
  /\ Runs(t, Emits(sid, "completed", pinned[sid]))
  /\ UNCHANGED <<ready, pinned, bus, views, syncs>>

-----------------------------------------------------------------------------
(* Handlers and tools that record activity.                                 *)

Stored(v) == \E i \in 1..Len(views) : views[i] = v

(* _observe_view_context, traversal_abandon: the session is active and the    *)
(* view is its own, of its revision.                                        *)
ViewContext(sid) == sid \in active

(* record_selection, record_evidence_opened, record_workspace_change.        *)
Record(t, sid) ==
  /\ call[t] = Idle
  /\ ViewContext(sid)
  /\ Room(1)
  /\ Runs(t, Emits(sid, "recorded", pinned[sid]))
  /\ UNCHANGED <<ready, registry, bus, views, syncs>>

(* pin_context takes the revision from the view, whoever's it is.            *)
Pin(t, sid, v) ==
  /\ call[t] = Idle
  /\ sid \in active /\ Stored(v)
  /\ Room(1)
  /\ Runs(t, Emits(sid, "recorded", emitted[v].rev))
  /\ UNCHANGED <<ready, registry, bus, views, syncs>>

(* The API also compares the session's revision with the verified one here,   *)
(* the tools of MCP do not; either way the revision is read again before the  *)
(* first event.                                                             *)
QuerySession(sid) == sid \in active

(* A query of the session: POST /api/query, repository_query, focus_symbol,   *)
(* trace_flow.                                                              *)
Query(t, sid) ==
  /\ call[t] = Idle
  /\ QuerySession(sid)
  /\ Room(2)
  /\ Runs(t, [pc |-> "label", sid |-> sid])
  /\ UNCHANGED <<ready, registry, bus, views, syncs>>

Label(t) ==
  /\ call[t].pc = "label"
  /\ Runs(t, Emits(call[t].sid, "query", ready))
  /\ UNCHANGED <<ready, registry, bus, views, syncs>>

(* HydraDB answers, with the revision the query asked for; or the query is   *)
(* degraded or unavailable and has no result event.                         *)
Answer(t) ==
  /\ call[t].pc = "answer"
  /\ \/ Runs(t, Emits(call[t].event.sid, "result", call[t].event.rev))
     \/ Runs(t, Idle)
  /\ UNCHANGED <<ready, registry, bus, views, syncs>>

(* The view is stored after the event that names it.                        *)
StoreView(t) ==
  /\ call[t].pc = "store"
  /\ views' = Newest(Append(views, call[t].number), ViewLimit)
  /\ Runs(t, Idle)
  /\ UNCHANGED <<ready, registry, bus, syncs>>

(* A synchronisation emits an event of no session; the verified revision     *)
(* changes with it.                                                         *)
Resync(t) ==
  /\ call[t] = Idle
  /\ syncs < MaxSyncs /\ Room(1)
  /\ \E rev \in Labels \ {ready} :
       /\ ready' = rev
       /\ Runs(t, Emits(NoSession, "sync", rev))
  /\ syncs' = syncs + 1
  /\ UNCHANGED <<registry, bus, views>>

HandlerStep(t) ==
  \/ AppendEvent(t) \/ DropOldest(t) \/ PutAgain(t)
  \/ \E s \in Streams : Put(t, s)
  \/ Register(t) \/ Label(t) \/ Answer(t) \/ StoreView(t)

Request(t) ==
  \/ AskSession(t) \/ Resync(t)
  \/ \E sid \in Sessions : Complete(t, sid) \/ Record(t, sid) \/ Query(t, sid)
  \/ \E sid \in Sessions, v \in 1..Len(emitted) : Pin(t, sid, v)

StreamStep == \E s \in Streams : Subscribe(s) \/ Read(s) \/ Unsubscribe(s)

ServiceNext ==
  \/ \E t \in Threads : HandlerStep(t) \/ Request(t)
  \/ StreamStep
=============================================================================
