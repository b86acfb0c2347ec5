------------------------------- MODULE Follow -------------------------------
(***************************************************************************)
(* Observe in one window: the follow session of graphPanel.ts with the event *)
(* log of observe.ts, composed with the service of module Events.            *)
(*                                                                         *)
(* The window polls for events after its cursor, shows or buffers them,      *)
(* fetches the views that result events name, reports selections, and        *)
(* completes its session when it leaves.  Every await is a step of its own:   *)
(* requests and responses of a poll, of fetches and of a report overlap with *)
(* pausing, leaving and following anew.                                      *)
(*                                                                         *)
(* Events are numbered in the order of their timestamps, so a chronological   *)
(* list of events is a set of numbers here.                                 *)
(***************************************************************************)
EXTENDS Events, Functions

CONSTANTS NoThread,
          ClientHistory,  \* historyLimit of ObserveEventLog
          BufferLimit,    \* bufferLimit
          SeenLimit,      \* seenLimit
          MissLimit,      \* fetches of a view that is not there
          MaxPauses,      \* pauses (bound)
          MaxFaults       \* requests that fail (bound)

ASSUME LogBounds == /\ {ClientHistory, BufferLimit, SeenLimit, MissLimit} \subseteq Nat \ {0}
                    /\ SeenLimit >= ClientHistory
                    /\ ClientHistory >= HistoryLimit    \* both are 500
ASSUME ClientModelBounds == {MaxPauses, MaxFaults} \subseteq Nat
ASSUME NoThreadAssumption == NoThread \notin Threads

NoLog == [sid |-> NoSession]
NoReport == [sid |-> NoSession, by |-> NoThread, number |-> 0]
Quiet == [pc |-> "quiet"]

VARIABLES log,      \* observeSession and observeEventLog
          base,     \* observeBaseView, by the number of its result event, or 0
          misses,   \* unavailableObserveViews
          poll,     \* observePollPromise
          fetching, \* requests for views under way
          report,   \* the report that the mutation chain waits for
          begun,    \* sessions this window has followed
          leaving,  \* sessions it has left and not yet asked to complete
          pauses, faults

clientVars == <<log, base, misses, poll, fetching, report, begun, leaving, pauses, faults>>
vars == <<serviceVars, clientVars>>

Following == log.sid # NoSession

(* `accepts` is the counter that numbers accepted events, `seen` gives the     *)
(* numbers that are remembered.  `got` is history: what was ever accepted.    *)
ClientTypeOK ==
  /\ Following =>
       /\ log.sid \in begun
       /\ {log.cursor} \cup log.got \cup log.visible \cup log.buffered \subseteq 1..Len(emitted)
       /\ DOMAIN log.seen \subseteq log.got /\ log.seen \in [DOMAIN log.seen -> Nat]
       /\ {log.dropped, log.accepts} \subseteq Nat /\ log.paused \in BOOLEAN
  /\ base \in 0..Len(emitted) /\ (base # 0 => Following)
  /\ misses \in [1..MaxEvents -> Nat]
  /\ poll.pc \in {"quiet", "asked", "answered", "gap", "failed"}
  /\ fetching \subseteq [sid : begun, ref : 1..Len(emitted)]
  /\ report.sid \in begun \cup {NoSession}
  /\ begun \subseteq Sessions /\ leaving \subseteq begun
  /\ pauses \in 0..MaxPauses /\ faults \in 0..MaxFaults

Init ==
  /\ ServiceInit
  /\ log = NoLog /\ base = 0 /\ misses = [i \in 1..MaxEvents |-> 0]
  /\ poll = Quiet /\ fetching = {} /\ report = NoReport
  /\ begun = {} /\ leaving = {}
  /\ pauses = 0 /\ faults = 0

-----------------------------------------------------------------------------
(* ObserveEventLog                                                          *)

NewestOf(S, n) == {i \in S : Cardinality({j \in S : j > i}) < n}
Greatest(S) == CHOOSE i \in S : \A j \in S : j <= i

OwnRevision(S) == {i \in S : emitted[i].rev = pinned[log.sid]}

Numbered(seen, accepted, accepts) ==
  [i \in DOMAIN seen \cup accepted |->
     IF i \in accepted THEN accepts + Cardinality({j \in accepted : j < i}) ELSE seen[i]]

(* Mutation: pruneSeen drops the newest identifiers.                         *)
RememberOldest(numbers) ==
  Restrict(numbers, {i \in DOMAIN numbers :
    Cardinality({j \in DOMAIN numbers : numbers[j] < numbers[i]}) < SeenLimit})

(* pruneSeen                                                                *)
Remember(numbers) ==
  Restrict(numbers, {i \in DOMAIN numbers :
    Cardinality({j \in DOMAIN numbers : numbers[j] > numbers[i]}) < SeenLimit})

(* ingest: numbers S of events of the session.                              *)
Ingest(S, advanceCursor) ==
  LET mine == OwnRevision(NewestOf(S, ClientHistory))
      accepted == mine \ DOMAIN log.seen
      combined == log.buffered \cup accepted
      noted == [log EXCEPT
                  !.cursor = IF advanceCursor /\ mine # {} THEN Greatest(mine) ELSE @,
                  !.seen = Remember(Numbered(@, accepted, log.accepts)),
                  !.got = @ \cup accepted,
                  !.accepts = @ + Cardinality(accepted)]
  IN  IF log.paused
      THEN [noted EXCEPT !.buffered = NewestOf(combined, BufferLimit),
                         !.dropped = @ + Cardinality(combined \ NewestOf(combined, BufferLimit))]
      ELSE [noted EXCEPT !.visible = NewestOf(@ \cup accepted, ClientHistory)]

News(S) == OwnRevision(NewestOf(S, ClientHistory)) \ DOMAIN log.seen
WrongRevision(S) == OwnRevision(NewestOf(S, ClientHistory)) # NewestOf(S, ClientHistory)

-----------------------------------------------------------------------------
(* Views                                                                    *)

(* latestObserveViewReference of what is visible                            *)
References(visible) == {i \in visible : emitted[i].type = "result"}
Wanted(l) ==
  {r \in References(l.visible) :
     /\ \A q \in References(l.visible) : q <= r
     /\ base # r /\ misses[r] < MissLimit}

(* resolveObserveViewAndRender: nothing while paused.                       *)
Resolve(l) ==
  fetching' = IF l.paused THEN fetching
              ELSE fetching \cup {[sid |-> l.sid, ref |-> r] : r \in Wanted(l)}

(* A view that arrives becomes the base, whatever was asked for or arrived    *)
(* since, unless the session is another one by now, or paused.  404 counts,   *)
(* whoever is followed; any other failure leaves the view to the next poll.   *)
ViewArrives(f) ==
  /\ f \in fetching
  /\ fetching' = fetching \ {f}
  /\ \/ /\ Stored(f.ref)
        /\ IF ~Following \/ log.sid # f.sid \/ log.paused THEN UNCHANGED <<base, misses>>
           ELSE base' = f.ref /\ misses' = [misses EXCEPT ![f.ref] = 0]
        /\ UNCHANGED faults
     \/ /\ ~Stored(f.ref)
        /\ misses' = [misses EXCEPT ![f.ref] = @ + 1]
        /\ UNCHANGED <<base, faults>>
     \/ /\ faults < MaxFaults /\ faults' = faults + 1
        /\ UNCHANGED <<base, misses>>
  /\ UNCHANGED <<serviceVars, log, poll, report, begun, leaving, pauses>>

-----------------------------------------------------------------------------
(* Starting, pausing and leaving                                            *)

(* The response to the start: the log is seeded with session_started.        *)
Begin(sid) ==
  /\ ~Following /\ sid \in Sessions \ begun
  /\ \E i \in OfSession(sid) :
       /\ emitted[i].type = "started"
       /\ log' = [sid |-> sid, cursor |-> i, seen |-> [j \in {i} |-> 0], got |-> {i}, accepts |-> 1,
                  visible |-> {i}, buffered |-> {}, dropped |-> 0, paused |-> FALSE]
  /\ begun' = begun \cup {sid}
  /\ base' = 0 /\ misses' = [i \in 1..MaxEvents |-> 0]
  /\ UNCHANGED <<serviceVars, poll, fetching, report, leaving, pauses, faults>>

Pause ==
  /\ Following /\ ~log.paused /\ pauses < MaxPauses
  /\ log' = [log EXCEPT !.paused = TRUE, !.dropped = 0]
  /\ pauses' = pauses + 1
  /\ UNCHANGED <<serviceVars, base, misses, poll, fetching, report, begun, leaving, faults>>

Resume ==
  /\ Following /\ log.paused
  /\ log' = [log EXCEPT !.paused = FALSE, !.buffered = {},
                        !.visible = NewestOf(@ \cup log.buffered, ClientHistory)]
  /\ IF log.buffered # {} THEN Resolve(log') ELSE UNCHANGED fetching
  /\ UNCHANGED <<serviceVars, base, misses, poll, report, begun, leaving, pauses, faults>>

(* stopObserveFollowing keeps the base view.                                *)
ForgetKeepsBase ==
  /\ log' = NoLog /\ UNCHANGED <<base, misses>>
  /\ leaving' = leaving \cup {log.sid}

(* stopObserveFollowing does not complete the session.                      *)
ForgetSession ==
  /\ log' = NoLog /\ base' = 0 /\ misses' = [i \in 1..MaxEvents |-> 0]
  /\ UNCHANGED leaving

(* stopObserveFollowing up to its first await                               *)
Forget ==
  /\ log' = NoLog /\ base' = 0 /\ misses' = [i \in 1..MaxEvents |-> 0]
  /\ leaving' = leaving \cup {log.sid}

Stop ==
  /\ Following
  /\ Forget
  /\ UNCHANGED <<serviceVars, poll, fetching, report, begun, pauses, faults>>

(* After the pending report, the service is asked to complete the session;   *)
(* the request may fail, and is not repeated.                               *)
Leave(t, sid) ==
  /\ sid \in leaving /\ report.sid # sid
  /\ leaving' = leaving \ {sid}
  /\ \/ Complete(t, sid) /\ UNCHANGED faults
     \/ sid \notin active /\ UNCHANGED <<serviceVars, faults>>
     \/ faults < MaxFaults /\ faults' = faults + 1 /\ UNCHANGED serviceVars
  /\ UNCHANGED <<log, base, misses, poll, fetching, report, begun, pauses>>

-----------------------------------------------------------------------------
(* Polling                                                                  *)

Ask ==
  /\ Following /\ poll = Quiet
  /\ poll' = [pc |-> "asked", sid |-> log.sid, cursor |-> log.cursor]
  /\ UNCHANGED <<serviceVars, log, base, misses, fetching, report, begun, leaving, pauses, faults>>

(* GET /api/events: 404 for a session the registry has dropped, 409 for a     *)
(* cursor that is not in the history, else the later events.                *)
Retained(sid) == OfSession(sid) \cap History
(* A cursor that has left the history is answered with what remains.         *)
RecentWithoutGap(sid, cursor) ==
  IF ~Known(sid) THEN [pc |-> "failed", sid |-> sid]
  ELSE [pc |-> "answered", sid |-> sid, batch |-> {i \in Retained(sid) : i > cursor}]

Recent(sid, cursor) ==
  IF ~Known(sid) THEN [pc |-> "failed", sid |-> sid]
  ELSE IF cursor \notin Retained(sid) THEN [pc |-> "gap", sid |-> sid]
  ELSE [pc |-> "answered", sid |-> sid, batch |-> {i \in Retained(sid) : i > cursor}]

Serve ==
  /\ poll.pc = "asked"
  /\ \/ poll' = Recent(poll.sid, poll.cursor) /\ UNCHANGED faults
     \/ /\ faults < MaxFaults /\ faults' = faults + 1
        /\ poll' = [pc |-> "failed", sid |-> poll.sid]
  /\ UNCHANGED <<serviceVars, log, base, misses, fetching, report, begun, leaving, pauses>>

(* The session is still the one polled for.                                 *)
Current == Following /\ log.sid = poll.sid

(* A poll without news fetches no view.                                     *)
ReceiveNewsOnly ==
  /\ poll.pc = "answered" /\ Current /\ ~WrongRevision(poll.batch)
  /\ log' = Ingest(poll.batch, TRUE)
  /\ poll' = Quiet
  /\ IF News(poll.batch) # {} THEN Resolve(log') ELSE UNCHANGED fetching
  /\ UNCHANGED <<serviceVars, base, misses, report, begun, leaving, pauses, faults>>

(* The poller waits for the fetch before it polls again; here they may overlap. *)
Receive ==
  /\ poll.pc = "answered" /\ Current /\ ~WrongRevision(poll.batch)
  /\ log' = Ingest(poll.batch, TRUE)
  /\ poll' = Quiet
  /\ Resolve(log')
  /\ UNCHANGED <<serviceVars, base, misses, report, begun, leaving, pauses, faults>>

(* A gap, or an event of the session from another revision: following stops. *)
Break ==
  /\ \/ poll.pc = "gap"
     \/ poll.pc = "answered" /\ Current /\ WrongRevision(poll.batch)
  /\ Current
  /\ Forget
  /\ poll' = Quiet
  /\ UNCHANGED <<serviceVars, fetching, report, begun, pauses, faults>>

Ignore ==
  /\ poll.pc = "failed" \/ (poll.pc \in {"answered", "gap"} /\ ~Current)
  /\ poll' = Quiet
  /\ UNCHANGED <<serviceVars, log, base, misses, fetching, report, begun, leaving, pauses, faults>>

-----------------------------------------------------------------------------
(* Reports of selections, opened evidence and edits: one after the other.    *)

Report(t) ==
  /\ Following /\ base # 0 /\ report = NoReport
  /\ Stored(base) /\ emitted[base].rev = pinned[log.sid]
  /\ Record(t, log.sid)
  /\ report' = [sid |-> log.sid, by |-> t, number |-> 0]
  /\ UNCHANGED <<log, base, misses, poll, fetching, begun, leaving, pauses, faults>>

Reported ==
  /\ report.number # 0
  /\ report' = NoReport
  /\ IF Following /\ log.sid = report.sid
     THEN /\ log' = Ingest({report.number}, FALSE)
          /\ IF News({report.number}) # {} THEN Resolve(log') ELSE UNCHANGED fetching
     ELSE UNCHANGED <<log, fetching>>
  /\ UNCHANGED <<serviceVars, base, misses, poll, begun, leaving, pauses, faults>>

ReportFails ==
  /\ report # NoReport
  /\ faults < MaxFaults /\ faults' = faults + 1
  /\ report' = NoReport
  /\ UNCHANGED <<serviceVars, log, base, misses, poll, fetching, begun, leaving, pauses>>

-----------------------------------------------------------------------------
(* The service runs; the event of this window's report is known once it is   *)
(* appended.  Other windows complete their own sessions.                    *)

Handler(t) ==
  /\ HandlerStep(t)
  /\ report' = IF report.by = t /\ call[t].pc = "append" /\ report.number = 0
               THEN [report EXCEPT !.number = Len(emitted')] ELSE report
  /\ UNCHANGED <<log, base, misses, poll, fetching, begun, leaving, pauses, faults>>

Others(t) ==
  /\ Request(t)
  /\ begun \cap (active \ active') = {}
  /\ UNCHANGED clientVars

Listeners == StreamStep /\ UNCHANGED clientVars

Polling == Ask \/ Serve \/ Receive \/ Break \/ Ignore

Client ==
  \/ \E sid \in Sessions : Begin(sid)
  \/ Pause \/ Resume \/ Stop
  \/ \E t \in Threads, sid \in leaving : Leave(t, sid)
  \/ Polling
  \/ \E f \in fetching : ViewArrives(f)
  \/ \E t \in Threads : Report(t)
  \/ Reported \/ ReportFails

Next ==
  \/ \E t \in Threads : Handler(t) \/ Others(t)
  \/ Listeners
  \/ Client

Spec == Init /\ [][Next]_vars

(* Handlers run, answers arrive, the poller asks again and a window asks for  *)
(* the completion of what it left.  One poll is under way at a time, so its   *)
(* steps exclude each other.                                                *)
Fairness ==
  /\ \A t \in Threads : WF_vars(Handler(t))
  /\ WF_vars(Polling)
  /\ WF_vars(\E f \in fetching : ViewArrives(f))
  /\ WF_vars(Reported)
  /\ SF_vars(\E t \in Threads, sid \in leaving : Leave(t, sid))
FairSpec == Spec /\ Fairness

-----------------------------------------------------------------------------
(* Types of the service and the client state.                               *)
AllTypesOK == TypeOK /\ ClientTypeOK

(* "It never skips a missing event range": whatever the order in which polls  *)
(* and reports are answered, the log has accepted every event of its session *)
(* between session_started and the cursor.                                  *)
NeverSkips ==
  Following =>
    \A i, j \in OfSession(log.sid) :
      emitted[i].type = "started" /\ i <= j /\ j <= log.cursor => j \in log.got

(* An event that arrives both as the answer to a report and with a poll is   *)
(* accepted once, although the log forgets old identifiers.                 *)
(* (While one poll is under way, fewer reports are accepted than the log        *)
(* remembers, 1,000 in the code: MaxEvents keeps to that.)                    *)
AcceptedOnce == Following => log.accepts = Cardinality(log.got)

(* The registry and its bound: never more active sessions than allowed,       *)
(* never more sessions than the limit.                                      *)
SessionsBounded ==
  /\ Cardinality(active) <= MaxActive
  /\ Cardinality(active) + Len(finished) <= SessionLimit

(* However requests race, a session is completed by one event.              *)
CompletedOnce ==
  \A i, j \in 1..Len(emitted) :
    emitted[i].type = "completed" /\ emitted[j].type = "completed"
    /\ emitted[i].sid = emitted[j].sid => i = j

(* A window that goes on following, unpaused, shows the newest view that was  *)
(* announced to it, or has missed it as often as it tries.                  *)
ViewCatchesUp ==
  <>[](Following /\ ~log.paused)
    => <>[](Following => Wanted(log) = {})

(* A session that a window has left is completed, unless a request failed.   *)
Left == begun \ {log.sid}
LeftIsCompleted == []<>(Left \cap active = {} \/ faults > 0)
=============================================================================
