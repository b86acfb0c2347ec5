----------------------------- MODULE IndexJobs -----------------------------
(***************************************************************************)
(* Indexing a project over HTTP: previews with single-use tokens            *)
(* (indexing_service.py IndexPreviewStore), background jobs (index_jobs.py), *)
(* the handlers that join them (api.py) and the loop that drives them from   *)
(* the extension (indexing.ts runSafeIndexing).                             *)
(*                                                                         *)
(* Handlers run in a thread pool, so the steps of two requests interleave;   *)
(* an analysis reads the project several times while files change; tokens    *)
(* expire; each job has a worker thread; the service may stop, and all of    *)
(* this state is in memory.  What a sync does is SyncService's subject: here *)
(* it ends verified, withdrawn by a cancellation, or broken.                 *)
(***************************************************************************)
EXTENDS Naturals, Sequences, FiniteSets

CONSTANTS Clients,      \* windows running runSafeIndexing
          Tokens,       \* preview tokens ever issued (bound)
          Files,        \* contents the analysed files may have together
          Commits,      \* commits HEAD may name
          Tree,         \* commit -> the contents it has
          MaxPreviews,  \* MAX_ACTIVE_PREVIEWS
          MaxFinished,  \* MAX_FINISHED_JOBS
          MaxJobs,      \* jobs ever started (bound)
          MaxExpired,   \* tokens that may expire (bound)
          GitMayFail,   \* git may be missing or time out
          None

ASSUME PreviewAssumption == MaxPreviews \in Nat \ {0}
ASSUME FinishedAssumption == MaxFinished \in Nat \ {0}
ASSUME TokenAssumption == IsFiniteSet(Tokens) /\ None \notin Tokens
ASSUME JobsAssumption == MaxJobs \in Nat /\ MaxJobs >= Cardinality(Tokens)
ASSUME ExpiredAssumption == MaxExpired \in Nat
ASSUME TreeAssumption == Tree \in [Commits -> Files]
ASSUME NoneAssumption == None \notin Files \cup Commits
ASSUME GitAssumption == GitMayFail \in BOOLEAN

(* The project: what its files hold, and the commit HEAD names if the work   *)
(* tree is clean.                                                           *)
Workspaces == [files : Files, head : {None}]
              \cup {[files |-> Tree[k], head |-> k] : k \in Commits}

(* A prepared index: what discovery hashed, the revision's name, and what    *)
(* was parsed into cards.  Two have one revision and one snapshot hash       *)
(* exactly if they agree in all three.                                      *)
Revisions == Files \cup Commits
Snapshots == [disc : Files, rev : Revisions, parsed : Files]
Drafts == [disc : Files \cup {None}, rev : Revisions \cup {None},
           parsed : Files \cup {None}]
Blank == [disc |-> None, rev |-> None, parsed |-> None]
JobIds == 1..MaxJobs

Preparing == {"discover", "revise", "analyse"}
Handling == Preparing \cup {"issue", "active?", "lookup", "compare",
                            "consume", "start"}
Ended == {"completed", "cancelled", "error"}
ClientStates == {"idle", "asked", "polling"} \cup Handling \cup Ended
JobStates == {"none", "running", "completed", "failed", "cancelled"}
Returned == {"ready", "withdrawn", "broken"}
WorkerStates == {"none", "syncing", "done"} \cup Returned

VARIABLES
  workspace,  \* the project on disk
  records,    \* tokens in IndexPreviewStore._records
  prepared,   \* token of IndexPreviewStore._prepared
  age,        \* token -> when it was issued: 1st, 2nd, ...; 0 if it was not
  horizon,    \* tokens this old have expired
  shown,      \* token -> what its preview described
  pc,         \* client -> where it, or the handler working for it, is
  token,      \* client -> the token it confirms
  prep,       \* client -> the prepared index its handler makes or holds
  job,        \* client -> the job it polls
  asked,      \* client -> it has requested cancellation
  started,    \* number of jobs ever started
  jobState,   \* IndexJob.state
  jobToken,   \* job -> the token that started it
  jobSnap,    \* job -> the prepared index it uploads
  kept,       \* ids in IndexJobStore._jobs
  finished,   \* IndexJobStore._finished
  cancelled,  \* IndexJobStore._cancelled
  worker,     \* job -> where its thread is
  verified    \* snapshots HydraDB has verified so far

previews == <<records, prepared, age, shown>>
client == <<token, prep, job, asked>>
store == <<started, jobState, jobToken, jobSnap, kept, finished, cancelled>>
vars == <<workspace, records, prepared, age, horizon, shown, pc, token, prep,
          job, asked, started, jobState, jobToken, jobSnap,
          kept, finished, cancelled, worker, verified>>

(* Every variable keeps its type.                                           *)
TypeOK ==
  /\ workspace \in Workspaces
  /\ records \subseteq Tokens
  /\ prepared \in Tokens \cup {None}
  /\ age \in [Tokens -> Nat]
  /\ horizon \in Nat
  /\ shown \in [Tokens -> Drafts]
  /\ pc \in [Clients -> ClientStates]
  /\ token \in [Clients -> Tokens \cup {None}]
  /\ prep \in [Clients -> Drafts]
  /\ job \in [Clients -> JobIds \cup {0}]
  /\ asked \in [Clients -> BOOLEAN]
  /\ started \in 0..MaxJobs
  /\ jobState \in [JobIds -> JobStates]
  /\ jobToken \in [JobIds -> Tokens \cup {None}]
  /\ jobSnap \in [JobIds -> Drafts]
  /\ kept \subseteq JobIds
  /\ finished \in Seq(JobIds)
  /\ cancelled \subseteq JobIds
  /\ worker \in [JobIds -> WorkerStates]
  /\ verified \subseteq Drafts

Init ==
  /\ workspace \in Workspaces
  /\ records = {}
  /\ prepared = None
  /\ age = [t \in Tokens |-> 0]
  /\ horizon = 0
  /\ shown = [t \in Tokens |-> Blank]
  /\ pc = [c \in Clients |-> "idle"]
  /\ token = [c \in Clients |-> None]
  /\ prep = [c \in Clients |-> Blank]
  /\ job = [c \in Clients |-> 0]
  /\ asked = [c \in Clients |-> FALSE]
  /\ started = 0
  /\ jobState = [j \in JobIds |-> "none"]
  /\ jobToken = [j \in JobIds |-> None]
  /\ jobSnap = [j \in JobIds |-> Blank]
  /\ kept = {}
  /\ finished = <<>>
  /\ cancelled = {}
  /\ worker = [j \in JobIds |-> "none"]
  /\ verified = {}

----------------------------------------------------------------------------
(* The project and the clock.                                               *)

(* Somebody edits files, commits, resets or checks out.                     *)
Change ==
  /\ workspace' \in Workspaces \ {workspace}
  /\ UNCHANGED <<previews, horizon, pc, client, store, worker, verified>>

Issued == {t \in Tokens : age[t] > 0}
Live(t) == age[t] > horizon

(* Ten minutes pass for the oldest token that has not expired.              *)
Expire ==
  /\ horizon < Cardinality(Issued) /\ horizon < MaxExpired
  /\ horizon' = horizon + 1
  /\ UNCHANGED <<workspace, previews, pc, client, store, worker,
                 verified>>

----------------------------------------------------------------------------
(* prepare_automatic_index, for a preview or for a confirmation.             *)

(* The window asks for a preview.                                           *)
Preview(c) ==
  /\ pc[c] = "idle"
  /\ pc' = [pc EXCEPT ![c] = "discover"]
  /\ UNCHANGED <<workspace, previews, horizon, client, store, worker,
                 verified>>

Discover(c) ==
  /\ pc[c] = "discover"
  /\ prep' = [prep EXCEPT ![c].disc = workspace.files]
  /\ pc' = [pc EXCEPT ![c] = "revise"]
  /\ UNCHANGED <<workspace, previews, horizon, token, job, asked,
                 store, worker, verified>>

(* automatic_revision: HEAD of a clean work tree, otherwise, or if git does  *)
(* not answer, the digest of what discovery found.                          *)
Revise(c) ==
  /\ pc[c] = "revise"
  /\ \/ /\ workspace.head # None
        /\ prep' = [prep EXCEPT ![c].rev = workspace.head]
     \/ /\ workspace.head = None \/ GitMayFail
        /\ prep' = [prep EXCEPT ![c].rev = prep[c].disc]
  /\ pc' = [pc EXCEPT ![c] = "analyse"]
  /\ UNCHANGED <<workspace, previews, horizon, token, job, asked,
                 store, worker, verified>>

(* The analyser opens the files again and the cards are made from what it    *)
(* parsed.  A client without a token is having its preview made.             *)
Analyse(c) ==
  /\ pc[c] = "analyse"
  /\ prep' = [prep EXCEPT ![c].parsed = workspace.files]
  /\ pc' = [pc EXCEPT ![c] = IF token[c] = None THEN "issue" ELSE "consume"]
  /\ UNCHANGED <<workspace, previews, horizon, token, job, asked,
                 store, worker, verified>>

(* An unreadable source, or one changed between parsing and its card, stops  *)
(* the analysis and the request with it.                                    *)
PrepareFails(c) ==
  /\ pc[c] \in Preparing
  /\ pc' = [pc EXCEPT ![c] = "error"]
  /\ UNCHANGED <<workspace, previews, horizon, client, store, worker,
                 verified>>

----------------------------------------------------------------------------
(* The preview store.                                                       *)

(* _prune drops expired records, and with a record its cached analysis.     *)
Pruned == {t \in records : Live(t)}
Cached == IF prepared \in records \ Pruned THEN None ELSE prepared

Oldest(S) == {t \in S : \A u \in S : age[t] <= age[u]}

(* issue: the oldest record makes room, and only the newest preview keeps    *)
(* its analysis.                                                            *)
Issue(c, t) ==
  /\ pc[c] = "issue"
  /\ t \in Tokens \ Issued
  /\ age' = [age EXCEPT ![t] = Cardinality(Issued) + 1]
  /\ shown' = [shown EXCEPT ![t] = prep[c]]
  /\ IF Cardinality(Pruned) = MaxPreviews
     THEN \E o \in Oldest(Pruned) : records' = (Pruned \ {o}) \cup {t}
     ELSE records' = Pruned \cup {t}
  /\ prepared' = t
  /\ token' = [token EXCEPT ![c] = t]
  /\ prep' = [prep EXCEPT ![c] = Blank]
  /\ pc' = [pc EXCEPT ![c] = "asked"]
  /\ UNCHANGED <<workspace, horizon, job, asked, store, worker,
                 verified>>

(* Somebody who holds a token sends it once more.                           *)
Repeat(c, t) ==
  /\ pc[c] = "idle"
  /\ t \in Issued
  /\ token' = [token EXCEPT ![c] = t]
  /\ pc' = [pc EXCEPT ![c] = "asked"]
  /\ UNCHANGED <<workspace, previews, horizon, prep, job, asked,
                 store, worker, verified>>

----------------------------------------------------------------------------
(* POST /api/index, step by step.                                           *)

Confirm(c) ==
  /\ pc[c] = "asked"
  /\ pc' = [pc EXCEPT ![c] = "active?"]
  /\ UNCHANGED <<workspace, previews, horizon, client, store, worker,
                 verified>>

Active == {j \in kept : jobState[j] = "running"}

(* A running job refuses the confirmation before anything else.             *)
CheckActive(c) ==
  /\ pc[c] = "active?"
  /\ IF Active = {}
     THEN pc' = [pc EXCEPT ![c] = "lookup"]
     ELSE pc' = [pc EXCEPT ![c] = "error"]
  /\ UNCHANGED <<workspace, previews, horizon, client, store, worker,
                 verified>>

(* prepared_for                                                             *)
LookUp(c) ==
  /\ pc[c] = "lookup"
  /\ records' = Pruned
  /\ prepared' = Cached
  /\ pc' = [pc EXCEPT ![c] = IF Cached = token[c] THEN "compare"
                                                  ELSE "discover"]
  /\ UNCHANGED <<workspace, age, horizon, shown, token, prep, job, asked,
                 store, worker, verified>>

(* The cached analysis is used again if discovery finds the same contents;   *)
(* if it does not, or discovery fails, the project is analysed again.        *)
Compare(c) ==
  /\ pc[c] = "compare"
  /\ token[c] \in Tokens
  /\ \/ /\ workspace.files = shown[token[c]].disc
        /\ prep' = [prep EXCEPT ![c] = shown[token[c]]]
        /\ pc' = [pc EXCEPT ![c] = "consume"]
     \/ /\ pc' = [pc EXCEPT ![c] = "discover"]
        /\ UNCHANGED prep
  /\ UNCHANGED <<workspace, previews, horizon, token, job, asked,
                 store, worker, verified>>

(* Mutants of Consume: the record is read and not popped; what is confirmed  *)
(* is not compared with what was shown.                                     *)
ConsumeKept(c) ==
  /\ pc[c] = "consume"
  /\ records' = Pruned
  /\ prepared' = IF Cached = token[c] THEN None ELSE Cached
  /\ IF token[c] \in Pruned /\ shown[token[c]] = prep[c]
     THEN pc' = [pc EXCEPT ![c] = "start"]
     ELSE pc' = [pc EXCEPT ![c] = "error"]
  /\ UNCHANGED <<workspace, age, horizon, shown, client, store, worker,
                 verified>>

ConsumeUncompared(c) ==
  /\ pc[c] = "consume"
  /\ records' = Pruned \ {token[c]}
  /\ prepared' = IF Cached = token[c] THEN None ELSE Cached
  /\ IF token[c] \in Pruned
     THEN pc' = [pc EXCEPT ![c] = "start"]
     ELSE pc' = [pc EXCEPT ![c] = "error"]
  /\ UNCHANGED <<workspace, age, horizon, shown, client, store, worker,
                 verified>>

(* consume: the token is spent whatever the comparison says.                *)
Consume(c) ==
  /\ pc[c] = "consume"
  /\ records' = Pruned \ {token[c]}
  /\ prepared' = IF Cached = token[c] THEN None ELSE Cached
  /\ IF token[c] \in Pruned /\ shown[token[c]] = prep[c]
     THEN pc' = [pc EXCEPT ![c] = "start"]
     ELSE pc' = [pc EXCEPT ![c] = "error"]
  /\ UNCHANGED <<workspace, age, horizon, shown, client, store, worker,
                 verified>>

(* Mutant of StartJob: the check before the analysis is thought enough.     *)
StartUnchecked(c) ==
  /\ pc[c] = "start"
  /\ started < MaxJobs
  /\ LET j == started + 1
     IN /\ started' = j
        /\ jobState' = [jobState EXCEPT ![j] = "running"]
        /\ jobToken' = [jobToken EXCEPT ![j] = token[c]]
        /\ jobSnap' = [jobSnap EXCEPT ![j] = prep[c]]
        /\ kept' = kept \cup {j}
        /\ worker' = [worker EXCEPT ![j] = "syncing"]
        /\ job' = [job EXCEPT ![c] = j]
  /\ prep' = [prep EXCEPT ![c] = Blank]
  /\ pc' = [pc EXCEPT ![c] = "polling"]
  /\ UNCHANGED <<workspace, previews, horizon, token, asked, finished,
                 cancelled, verified>>

(* IndexJobStore.start checks again under its lock; then the worker thread  *)
(* starts and 202 is answered.                                              *)
StartJob(c) ==
  /\ pc[c] = "start"
  /\ Active = {}
  /\ started < MaxJobs
  /\ LET j == started + 1
     IN /\ started' = j
        /\ jobState' = [jobState EXCEPT ![j] = "running"]
        /\ jobToken' = [jobToken EXCEPT ![j] = token[c]]
        /\ jobSnap' = [jobSnap EXCEPT ![j] = prep[c]]
        /\ kept' = kept \cup {j}
        /\ worker' = [worker EXCEPT ![j] = "syncing"]
        /\ job' = [job EXCEPT ![c] = j]
  /\ prep' = [prep EXCEPT ![c] = Blank]
  /\ pc' = [pc EXCEPT ![c] = "polling"]
  /\ UNCHANGED <<workspace, previews, horizon, token, asked, finished,
                 cancelled, verified>>

StartRefused(c) ==
  /\ pc[c] = "start"
  /\ Active # {}
  /\ pc' = [pc EXCEPT ![c] = "error"]
  /\ UNCHANGED <<workspace, previews, horizon, client, store, worker,
                 verified>>

----------------------------------------------------------------------------
(* runSafeIndexing after the job was accepted.                              *)

(* Mutants of Outcome: the state is passed on as it is; only a completed or  *)
(* cancelled job is taken as settled.                                       *)
OutcomeRaw(j) == IF j \in kept THEN jobState[j] ELSE "error"

OutcomeWaits(j) ==
  IF j \notin kept THEN "error"
  ELSE IF jobState[j] \in {"completed", "cancelled"} THEN jobState[j]
  ELSE "polling"

(* GET /api/index/jobs/{id}: a dropped record is an error, a running job is  *)
(* asked about again.                                                       *)
Outcome(j) ==
  IF j \notin kept THEN "error"
  ELSE CASE jobState[j] = "completed" -> "completed"
         [] jobState[j] = "cancelled" -> "cancelled"
         [] jobState[j] = "running" -> "polling"
         [] OTHER -> "error"

PollJob(c) ==
  /\ pc[c] = "polling"
  /\ pc' = [pc EXCEPT ![c] = Outcome(job[c])]
  /\ UNCHANGED <<workspace, previews, horizon, client, store, worker,
                 verified>>

(* Cancellation is requested once; the answer is read like a poll's.        *)
CancelJob(c) ==
  /\ pc[c] = "polling"
  /\ ~asked[c]
  /\ asked' = [asked EXCEPT ![c] = TRUE]
  /\ cancelled' = IF job[c] \in Active THEN cancelled \cup {job[c]}
                                       ELSE cancelled
  /\ pc' = [pc EXCEPT ![c] = Outcome(job[c])]
  /\ UNCHANGED <<workspace, previews, horizon, token, prep, job,
                 started, jobState, jobToken, jobSnap, kept, finished, worker,
                 verified>>

(* The run is over, or the user declined; the window may start another.     *)
Again(c) ==
  /\ pc[c] \in Ended \cup {"asked"}
  /\ pc' = [pc EXCEPT ![c] = "idle"]
  /\ token' = [token EXCEPT ![c] = None]
  /\ prep' = [prep EXCEPT ![c] = Blank]
  /\ job' = [job EXCEPT ![c] = 0]
  /\ asked' = [asked EXCEPT ![c] = FALSE]
  /\ UNCHANGED <<workspace, previews, horizon, store, worker,
                 verified>>

----------------------------------------------------------------------------
(* _run_index_job.                                                          *)

(* sync returns or raises.  It is withdrawn only if it saw the request.     *)
SyncReturns(j) ==
  /\ worker[j] = "syncing"
  /\ \/ /\ worker' = [worker EXCEPT ![j] = "ready"]
        /\ verified' = verified \cup {jobSnap[j]}
     \/ /\ j \in cancelled
        /\ worker' = [worker EXCEPT ![j] = "withdrawn"]
        /\ UNCHANGED verified
     \/ /\ worker' = [worker EXCEPT ![j] = "broken"]
        /\ UNCHANGED verified
  /\ UNCHANGED <<workspace, previews, horizon, pc, client, store>>

(* Mutant of StateFor: whatever did not raise is called completed.          *)
StateForReturned(w) == IF w = "broken" THEN "failed" ELSE "completed"

StateFor(w) == CASE w = "ready" -> "completed"
                 [] w = "withdrawn" -> "cancelled"
                 [] OTHER -> "failed"

(* Mutation: a sync that raised ends the thread and nothing else.            *)
FinishUnlessRaised(j) ==
  /\ worker[j] \in Returned \ {"broken"}
  /\ worker' = [worker EXCEPT ![j] = "done"]
  /\ jobState' = [jobState EXCEPT ![j] = StateFor(worker[j])]
  /\ LET all == Append(finished, j)
     IN IF Len(all) > MaxFinished
        THEN /\ finished' = Tail(all)
             /\ kept' = kept \ {Head(all)}
             /\ cancelled' = cancelled \ {Head(all)}
        ELSE /\ finished' = all
             /\ UNCHANGED <<kept, cancelled>>
  /\ UNCHANGED <<workspace, previews, horizon, pc, client, started,
                 jobToken, jobSnap, verified>>

(* finish: the record becomes terminal, and the oldest finished one goes.   *)
Finish(j) ==
  /\ worker[j] \in Returned
  /\ worker' = [worker EXCEPT ![j] = "done"]
  /\ jobState' = [jobState EXCEPT ![j] = StateFor(worker[j])]
  /\ LET all == Append(finished, j)
     IN IF Len(all) > MaxFinished
        THEN /\ finished' = Tail(all)
             /\ kept' = kept \ {Head(all)}
             /\ cancelled' = cancelled \ {Head(all)}
        ELSE /\ finished' = all
             /\ UNCHANGED <<kept, cancelled>>
  /\ UNCHANGED <<workspace, previews, horizon, pc, client, started,
                 jobToken, jobSnap, verified>>

----------------------------------------------------------------------------
(* The service stops and is started again: nothing of this is on disk, and  *)
(* whoever was waiting for an answer gets an error.                         *)
Restart ==
  /\ records' = {}
  /\ prepared' = None
  /\ kept' = {}
  /\ finished' = <<>>
  /\ cancelled' = {}
  /\ worker' = [j \in JobIds |-> IF worker[j] = "none" THEN "none" ELSE "done"]
  /\ pc' = [c \in Clients |-> IF pc[c] \in Handling THEN "error" ELSE pc[c]]
  /\ UNCHANGED <<workspace, age, horizon, shown, client, started, jobState,
                 jobToken, jobSnap, verified>>

(* What a window does of its own accord.                                    *)
Ask(c) ==
  \/ Preview(c) \/ Confirm(c) \/ CancelJob(c) \/ Again(c)
  \/ \E t \in Tokens : Repeat(c, t)

(* What a handler at work does next, and the next poll.                     *)
Serve(c) ==
  \/ Discover(c) \/ Revise(c) \/ Analyse(c) \/ PrepareFails(c)
  \/ \E t \in Tokens : Issue(c, t)
  \/ CheckActive(c) \/ LookUp(c) \/ Compare(c) \/ Consume(c)
  \/ StartJob(c) \/ StartRefused(c) \/ PollJob(c)

Work(j) == SyncReturns(j) \/ Finish(j)

Next ==
  \/ Change \/ Expire \/ Restart
  \/ \E c \in Clients : Ask(c) \/ Serve(c)
  \/ \E j \in JobIds : Work(j)

Spec == Init /\ [][Next]_vars

(* Threads run, and a sync returns (SyncService, SyncEnds).                 *)
Fairness == /\ \A c \in Clients : WF_vars(Serve(c))
            /\ \A j \in JobIds : WF_vars(Work(j))

FairSpec == Spec /\ Fairness

----------------------------------------------------------------------------
(* Properties.                                                              *)

Working == {j \in JobIds : worker[j] \in Returned \cup {"syncing"}}

(* However confirmations interleave, and across restarts, at most one worker *)
(* thread drives the synchronisation, and while it does its record says so   *)
(* (IndexJobStore.start and active).                                        *)
OneRunningJob == Active = Working /\ Cardinality(Working) <= 1

(* A preview token starts at most one job, although two handlers may have    *)
(* found it, or its cached analysis, before either spent it                  *)
(* (IndexPreviewStore.consume).                                             *)
TokenStartsOneJob ==
  \A i, j \in 1..started : jobToken[i] = jobToken[j] => i = j

(* A job uploads exactly the snapshot that the preview of its token          *)
(* described, cached or analysed again (api.py index_repository).            *)
OnlyShownIsUploaded == \A j \in 1..started : jobSnap[j] = shown[jobToken[j]]

(* A window reports an index as completed only if the snapshot its own user  *)
(* confirmed was verified by HydraDB (runSafeIndexing, _run_index_job).      *)
ReportedIsVerified ==
  \A c \in Clients : pc[c] = "completed" => shown[token[c]] \in verified

(* Both stores stay within their limits, every kept record is a running job  *)
(* or a retained result, and the one cached analysis never outlives its      *)
(* record (IndexPreviewStore._prune and _release, IndexJobStore._prune).     *)
RetentionBounded ==
  /\ Cardinality(records) <= MaxPreviews
  /\ prepared \in records \cup {None}
  /\ Len(finished) <= MaxFinished
  /\ kept = Active \cup {finished[n] : n \in DOMAIN finished}
  /\ cancelled \subseteq kept

(* Every run a window starts comes to an answer: a result, a cancellation or *)
(* an error (runSafeIndexing's loop).                                       *)
RunEnds ==
  \A c \in Clients :
    pc[c] \in {"active?", "polling"} ~> pc[c] \in Ended

(* A running job always makes room for the next one (IndexJobStore.active    *)
(* refuses every confirmation meanwhile).                                   *)
SlotFrees == Active # {} ~> Active = {}
=============================================================================
