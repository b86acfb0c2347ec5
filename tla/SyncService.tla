---------------------------- MODULE SyncService ----------------------------
(***************************************************************************)
(* One project's HydraDB synchronisation: service/hydra_graph/sync.py, with *)
(* the two files it keeps on disk and the HydraDB collection it writes.     *)
(*                                                                         *)
(* A sync compares the candidate snapshot with the last verified manifest,  *)
(* then clears stale exact graphs, uploads added and replaced cards, waits  *)
(* until HydraDB has indexed them, deletes removed sources, and only then   *)
(* replaces the manifest and removes the in-progress marker.  Every remote  *)
(* call may fail half way, the caller may cancel, a file write may fail,    *)
(* and the process may die between any two steps.                           *)
(*                                                                         *)
(* A card is identified with its hash (_card_hash covers every field that   *)
(* is sent, the revision included): two cards are equal iff they hash       *)
(* alike.  Of its content the model keeps the revision and whether it       *)
(* carries graph relations.                                                 *)
(***************************************************************************)
EXTENDS Naturals, FiniteSets

CONSTANTS Ids,              \* source ids a snapshot may contain
          Revisions,        \* revision ids a snapshot may carry
          NoRevision,       \* revision_id of a manifest never verified
          NoCard,           \* no source under this id
          BatchSize,        \* cards in one ingest call
          StatusBatchSize,  \* ids in one stale-graph delete call
          MaxRetries,       \* HydraDBConfig.max_retries
          LateWrites        \* may an abandoned call still take effect?

ASSUME NoRevisionAssumption == NoRevision \notin Revisions
ASSUME BatchAssumption == /\ BatchSize \in Nat \ {0}
                          /\ StatusBatchSize \in Nat \ {0}
ASSUME RetryAssumption == MaxRetries \in Nat
ASSUME LateAssumption == LateWrites \in BOOLEAN

Cards == [rev : Revisions, rel : BOOLEAN]

ASSUME NoCardAssumption == NoCard \notin Cards

Snapshots == [Ids -> Cards \cup {NoCard}]

NoSources == [i \in Ids |-> NoCard]

(* SyncManifest: the revision, the card of every source, and the sources    *)
(* that were sent with an exact (BYOG) graph.                               *)
Manifests == [rev : Revisions \cup {NoRevision}, sources : Snapshots,
              byog : SUBSET Ids]

EmptyManifest == [rev |-> NoRevision, sources |-> NoSources, byog |-> {}]

(* What HydraDB holds under one id.  graph says that an exact graph is      *)
(* stored for the source.                                                   *)
SourceStates == {"absent", "processing", "completed", "errored"}
Sources == [card : Cards \cup {NoCard}, graph : BOOLEAN, state : SourceStates]
NoSource == [card |-> NoCard, graph |-> FALSE, state |-> "absent"]

(* One source of an ingest call, or (card = NoCard) of a delete call.       *)
Writes == [id : Ids, card : Cards \cup {NoCard}]

Calling == {"clearing", "uploading", "deleting"}
Checkpoints == {"start", "clear", "upload", "verify", "delete"}
Running == Calling \cup Checkpoints \cup {"persist", "unmark"}
Statuses == {"idle", "indexing", "ready", "failed", "unavailable"}

VARIABLES
  mfile,        \* hydra-sync.json on disk
  marker,       \* sync-in-progress.json exists on disk
  remote,       \* the HydraDB collection: source id -> what is stored
  request,      \* writes of the outstanding call HydraDB has not applied yet
  late,         \* writes of abandoned calls that HydraDB may still apply
  status,       \* SyncService._status
  indet,        \* SyncService._current_state_indeterminate
  man,          \* SyncService.manifest
  interrupted,  \* SyncService._interrupted_sync
  pc,           \* where the thread holding _operation_lock is
  cand,         \* the manifest the running sync is working towards
  toClear,      \* stale BYOG sources not cleared yet
  toUpload,     \* changed cards not acknowledged yet
  unverified,   \* changed sources not reported completed yet
  toDelete,     \* removed sources not deleted yet
  batch,        \* ids of the outstanding call
  attempts,     \* retries already spent on the outstanding call
  wrote         \* remote_write_started

disk == <<mfile, marker>>
hydra == <<remote, request, late>>
memory == <<status, indet, man, interrupted>>
operation == <<pc, cand, toClear, toUpload, unverified, toDelete, batch,
               attempts, wrote>>
vars == <<mfile, marker, remote, request, late, status, indet, man,
          interrupted, pc, cand, toClear, toUpload, unverified, toDelete,
          batch, attempts, wrote>>

----------------------------------------------------------------------------
(* The plan of a sync: what a candidate snapshot changes.                   *)

Present(sources) == {i \in Ids : sources[i] # NoCard}

SnapshotOf(rev, ids, related) ==
  [i \in Ids |-> IF i \in ids THEN [rev |-> rev, rel |-> i \in related]
                              ELSE NoCard]

ManifestOf(rev, ids, related) ==
  [rev |-> rev, sources |-> SnapshotOf(rev, ids, related), byog |-> related]

Added(new, old) == Present(new) \ Present(old)

(* Mutation: recovery after an interrupted sync trusts equal hashes.        *)
ReplacedUnforced(new, old, force) ==
  {i \in Present(new) \cap Present(old) : new[i] # old[i]}

Replaced(new, old, force) ==
  {i \in Present(new) \cap Present(old) : force \/ new[i] # old[i]}

Removed(new, old) == Present(old) \ Present(new)

StaleByog(new, old, byog, force) ==
  {i \in Replaced(new, old, force) : i \in byog /\ ~new[i].rel}

(* Mutation: the sync does not wait for HydraDB to index.                   *)
PhaseForUnverified(clear, upload, verify, delete) ==
  IF clear # {} THEN "clear"
  ELSE IF upload # {} THEN "upload"
  ELSE IF delete # {} THEN "delete"
  ELSE "persist"

(* The first phase with work left; the phases run in this order.            *)
PhaseFor(clear, upload, verify, delete) ==
  IF clear # {} THEN "clear"
  ELSE IF upload # {} THEN "upload"
  ELSE IF verify # {} THEN "verify"
  ELSE IF delete # {} THEN "delete"
  ELSE "persist"

(* A slice of at most size ids; which ids share a slice is the sort order   *)
(* of the ids, which nothing depends on.                                    *)
Slice(ids, b, size) ==
  /\ b \subseteq ids
  /\ \/ b = ids /\ Cardinality(ids) <= size
     \/ Cardinality(b) = size

(* What the query layer tests before it reads HydraDB.                      *)
GateOpen == pc # "down" /\ status # "indexing" /\ ~indet

TypeOK ==
  /\ mfile \in Manifests
  /\ marker \in BOOLEAN
  /\ remote \in [Ids -> Sources]
  /\ request \subseteq Writes
  /\ late \subseteq Writes
  /\ status \in Statuses
  /\ indet \in BOOLEAN
  /\ man \in Manifests
  /\ interrupted \in BOOLEAN
  /\ pc \in Running \cup {"idle", "down"}
  /\ cand \in Manifests
  /\ toClear \subseteq Ids
  /\ toUpload \subseteq Ids
  /\ unverified \subseteq Ids
  /\ toDelete \subseteq Ids
  /\ batch \subseteq Ids
  /\ attempts \in 0..MaxRetries
  /\ wrote \in BOOLEAN

Init ==
  /\ mfile = EmptyManifest
  /\ marker = FALSE
  /\ remote = [i \in Ids |-> NoSource]
  /\ request = {}
  /\ late = {}
  /\ status = "idle"
  /\ indet = FALSE
  /\ man = EmptyManifest
  /\ interrupted = FALSE
  /\ pc = "idle"
  /\ cand = EmptyManifest
  /\ toClear = {}
  /\ toUpload = {}
  /\ unverified = {}
  /\ toDelete = {}
  /\ batch = {}
  /\ attempts = 0
  /\ wrote = FALSE

----------------------------------------------------------------------------
(* The sync thread.                                                         *)

(* Mutation: recovery waits for every source and sends only the changed ones. *)
BeginSendingLess ==
  /\ pc = "idle"
  /\ \E rev \in Revisions, ids \in (SUBSET Ids) \ {{}} :
       \E related \in SUBSET ids :
         LET new == SnapshotOf(rev, ids, related)
         IN /\ cand' = ManifestOf(rev, ids, related)
            /\ toClear' = StaleByog(new, man.sources, man.byog, interrupted)
            /\ toUpload' = Added(new, man.sources) \cup Replaced(new, man.sources, FALSE)
            /\ unverified' = Added(new, man.sources)
                               \cup Replaced(new, man.sources, interrupted)
            /\ toDelete' = Removed(new, man.sources)
  /\ pc' = "start" /\ status' = "indexing" /\ indet' = TRUE /\ wrote' = FALSE
  /\ UNCHANGED <<disk, hydra, man, interrupted, batch, attempts>>

(* _sync_locked up to the first cancellation check.  A snapshot has at least *)
(* one card, and all its cards carry the revision being indexed.            *)
Begin ==
  /\ pc = "idle"
  /\ \E rev \in Revisions, ids \in (SUBSET Ids) \ {{}} :
       \E related \in SUBSET ids :
         LET new == SnapshotOf(rev, ids, related)
             changed == Added(new, man.sources)
                          \cup Replaced(new, man.sources, interrupted)
         IN /\ cand' = ManifestOf(rev, ids, related)
            /\ toClear' = StaleByog(new, man.sources, man.byog, interrupted)
            /\ toUpload' = changed
            /\ unverified' = changed
            /\ toDelete' = Removed(new, man.sources)
  /\ pc' = "start"
  /\ status' = "indexing"
  /\ indet' = TRUE
  /\ wrote' = FALSE
  /\ UNCHANGED <<disk, hydra, man, interrupted, batch, attempts>>

(* The first cancellation check passes.                                     *)
Enter ==
  /\ pc = "start"
  /\ pc' = PhaseFor(toClear, toUpload, unverified, toDelete)
  /\ UNCHANGED <<disk, hydra, memory, cand, toClear, toUpload, unverified,
                 toDelete, batch, attempts, wrote>>

(* Mutation: the request is sent without the marker.                        *)
SendUnmarked(phase, ids, cardOf) ==
  /\ wrote' = TRUE
  /\ batch' = ids
  /\ attempts' = 0
  /\ request' = {[id |-> i, card |-> cardOf[i]] : i \in ids}
  /\ pc' = phase
  /\ UNCHANGED <<disk, remote, late, memory, cand, toClear, toUpload,
                 unverified, toDelete>>

(* begin_remote_write, then the request leaves for HydraDB: the marker is on *)
(* disk before the first write of a sync is sent.                           *)
Send(phase, ids, cardOf) ==
  /\ marker' = TRUE
  /\ interrupted' = TRUE
  /\ wrote' = TRUE
  /\ batch' = ids
  /\ attempts' = 0
  /\ request' = {[id |-> i, card |-> cardOf[i]] : i \in ids}
  /\ pc' = phase
  /\ UNCHANGED <<mfile, remote, late, status, indet, man, cand, toClear,
                 toUpload, unverified, toDelete>>

SendClear ==
  /\ pc = "clear"
  /\ \E b \in SUBSET toClear : /\ Slice(toClear, b, StatusBatchSize)
                               /\ Send("clearing", b, NoSources)

SendUpload ==
  /\ pc = "upload"
  /\ \E b \in SUBSET toUpload : /\ Slice(toUpload, b, BatchSize)
                                /\ Send("uploading", b, cand.sources)

SendDelete ==
  /\ pc = "delete"
  /\ Send("deleting", toDelete, NoSources)

(* HydraDB acknowledged every source of the call.                           *)
Acknowledged ==
  /\ pc \in Calling
  /\ request = {}
  /\ toClear' = IF pc = "clearing" THEN toClear \ batch ELSE toClear
  /\ toUpload' = IF pc = "uploading" THEN toUpload \ batch ELSE toUpload
  /\ toDelete' = IF pc = "deleting" THEN toDelete \ batch ELSE toDelete
  /\ pc' = PhaseFor(toClear', toUpload', unverified, toDelete')
  /\ batch' = {}
  /\ attempts' = 0
  /\ UNCHANGED <<disk, hydra, memory, cand, unverified, wrote>>

(* Mutations: one retry too many, and a retry that is never counted.        *)
RetryOnceMore ==
  /\ pc \in Calling
  /\ attempts <= MaxRetries
  /\ attempts' = attempts + 1
  /\ UNCHANGED <<disk, hydra, memory, pc, cand, toClear, toUpload,
                 unverified, toDelete, batch, wrote>>

RetryUncounted ==
  /\ pc \in Calling
  /\ request' = {[id |-> i, card |-> IF pc = "uploading" THEN cand.sources[i]
                                                         ELSE NoCard]
                 : i \in batch}
  /\ UNCHANGED <<disk, remote, late, memory, operation>>

(* HydraDBClient._call sends the same request again after a refusal or a    *)
(* lost connection; what it leaves behind may still be on its way.          *)
Retry ==
  /\ pc \in Calling
  /\ attempts < MaxRetries
  /\ attempts' = attempts + 1
  /\ request' = {[id |-> i, card |-> IF pc = "uploading" THEN cand.sources[i]
                                                         ELSE NoCard]
                 : i \in batch}
  /\ late' = IF LateWrites THEN late \cup request ELSE late
  /\ UNCHANGED <<disk, remote, memory, pc, cand, toClear, toUpload,
                 unverified, toDelete, batch, wrote>>

(* One source of a polling cycle reports completed.                         *)
Poll(i) ==
  /\ pc = "verify"
  /\ i \in unverified
  /\ remote[i].state = "completed"
  /\ unverified' = unverified \ {i}
  /\ pc' = PhaseFor(toClear, toUpload, unverified', toDelete)
  /\ UNCHANGED <<disk, hydra, memory, cand, toClear, toUpload, toDelete,
                 batch, attempts, wrote>>

(* os.replace puts the new manifest in place.                               *)
PersistManifest ==
  /\ pc = "persist"
  /\ mfile' = cand
  /\ pc' = "unmark"
  /\ UNCHANGED <<marker, hydra, memory, cand, toClear, toUpload, unverified,
                 toDelete, batch, attempts, wrote>>

(* The locals of _sync_locked are gone.                                     *)
ForgetOperation ==
  /\ cand' = EmptyManifest
  /\ toClear' = {}
  /\ toUpload' = {}
  /\ unverified' = {}
  /\ toDelete' = {}
  /\ batch' = {}
  /\ attempts' = 0
  /\ wrote' = FALSE

(* _sync_locked returns, and _operation_lock is released.                   *)
EndOperation == pc' = "idle" /\ ForgetOperation

(* _clear_in_progress, then the new manifest becomes the verified one.      *)
Publish ==
  /\ pc = "unmark"
  /\ marker' = FALSE
  /\ interrupted' = FALSE
  /\ status' = "ready"
  /\ indet' = FALSE
  /\ man' = cand
  /\ EndOperation
  /\ UNCHANGED <<mfile, hydra>>

----------------------------------------------------------------------------
(* Ways a sync ends early.                                                  *)

(* An item was not acknowledged or not confirmed, a source is missing or    *)
(* errored, or the polling deadline passed.  What HydraDB refused it does   *)
(* not apply later.                                                         *)
Rejected ==
  /\ pc \in Calling \cup {"verify"}
  /\ status' = "failed"
  /\ indet' = TRUE
  /\ request' = {}
  /\ EndOperation
  /\ UNCHANGED <<disk, remote, late, man, interrupted>>

(* The call raised HydraDBError: the client gave up on it, HydraDB may not  *)
(* have.                                                                    *)
Unavailable ==
  /\ pc \in Calling \cup {"verify"}
  /\ status' = "unavailable"
  /\ indet' = TRUE
  /\ request' = {}
  /\ late' = IF LateWrites THEN late \cup request ELSE late
  /\ EndOperation
  /\ UNCHANGED <<disk, remote, man, interrupted>>

(* should_cancel() answered yes.                                            *)
Cancel ==
  /\ pc \in Checkpoints
  /\ LET dirty == wrote \/ interrupted
     IN /\ indet' = dirty
        /\ status' = IF dirty THEN "failed"
                     ELSE IF man.rev # NoRevision THEN "ready" ELSE "idle"
  /\ EndOperation
  /\ UNCHANGED <<disk, hydra, man, interrupted>>

(* The marker could not be written, so nothing was sent.                    *)
MarkerFails ==
  /\ pc \in {"clear", "upload", "delete"}
  /\ ~wrote
  /\ status' = "failed"
  /\ indet' = interrupted
  /\ EndOperation
  /\ UNCHANGED <<disk, hydra, man, interrupted>>

(* The manifest could not be replaced, or the marker not removed.           *)
SaveFails ==
  /\ pc \in {"persist", "unmark"}
  /\ status' = "failed"
  /\ indet' = TRUE
  /\ EndOperation
  /\ UNCHANGED <<disk, hydra, man, interrupted>>

(* An exception _sync_locked does not catch: a rejected event at the start, *)
(* a delete or status answer it cannot parse, credentials that fail while   *)
(* the new manifest is made.                                                *)
Escapes ==
  /\ pc \in {"start", "clearing", "deleting", "verify", "persist"}
  /\ request = {}
  /\ EndOperation
  /\ UNCHANGED <<disk, hydra, memory>>

----------------------------------------------------------------------------
(* The process dies, and is started again.                                  *)

Crash ==
  /\ pc # "down"
  /\ pc' = "down"
  /\ request' = {}
  /\ late' = IF LateWrites THEN late \cup request ELSE late
  /\ status' = "idle"
  /\ indet' = FALSE
  /\ man' = EmptyManifest
  /\ interrupted' = FALSE
  /\ ForgetOperation
  /\ UNCHANGED <<disk, remote>>

(* Mutation: a restart does not look for the marker.                        *)
RestartTrusting ==
  /\ pc = "down"
  /\ pc' = "idle"
  /\ interrupted' = FALSE
  /\ man' = mfile
  /\ status' = IF mfile.rev # NoRevision THEN "ready" ELSE "idle"
  /\ indet' = FALSE
  /\ UNCHANGED <<disk, hydra, cand, toClear, toUpload, unverified, toDelete,
                 batch, attempts, wrote>>

(* SyncService.__init__ on the files the dead process left.                 *)
Restart ==
  /\ pc = "down"
  /\ pc' = "idle"
  /\ interrupted' = marker
  /\ man' = mfile
  /\ status' = IF marker THEN "failed"
               ELSE IF mfile.rev # NoRevision THEN "ready" ELSE "idle"
  /\ indet' = marker
  /\ UNCHANGED <<disk, hydra, cand, toClear, toUpload, unverified, toDelete,
                 batch, attempts, wrote>>

----------------------------------------------------------------------------
(* HydraDB, as sync.py and its comments describe it: an upsert without a    *)
(* graph keeps the graph stored earlier, and accepted sources are indexed   *)
(* asynchronously.                                                          *)

Stored(old, card) ==
  IF card = NoCard THEN NoSource
  ELSE [card |-> card, graph |-> old.graph \/ card.rel,
        state |-> "processing"]

Apply(w) ==
  /\ remote' = [remote EXCEPT ![w.id] = Stored(remote[w.id], w.card)]
  /\ UNCHANGED <<disk, memory, operation>>

HydraApplies ==
  \E w \in request : /\ Apply(w)
                     /\ request' = request \ {w}
                     /\ UNCHANGED late

HydraAppliesLate ==
  \E w \in late : /\ Apply(w)
                  /\ late' = late \ {w}
                  /\ UNCHANGED request

HydraIndexes(i) ==
  /\ remote[i].state = "processing"
  /\ \E outcome \in {"completed", "errored"} :
       remote' = [remote EXCEPT ![i].state = outcome]
  /\ UNCHANGED <<disk, request, late, memory, operation>>

----------------------------------------------------------------------------
Progress == Enter \/ SendClear \/ SendUpload \/ SendDelete \/ Acknowledged
              \/ Retry \/ (\E i \in Ids : Poll(i)) \/ PersistManifest \/ Publish

Failure == Rejected \/ Unavailable \/ Cancel \/ MarkerFails \/ SaveFails
             \/ Escapes

Hydra == HydraApplies \/ HydraAppliesLate \/ \E i \in Ids : HydraIndexes(i)

Next == Begin \/ Progress \/ Failure \/ Crash \/ Restart \/ Hydra

Spec == Init /\ [][Next]_vars

(* The thread that holds _operation_lock keeps running: every wait in it    *)
(* ends, by an answer, by a request timeout or by the polling deadline.     *)
Fairness == WF_vars(Progress \/ Failure)

FairSpec == Spec /\ Fairness

(* What only recovery needs: HydraDB serves and indexes what it accepted,   *)
(* and a service that died is started again.                                *)
Served == /\ WF_vars(Restart)
          /\ WF_vars(HydraApplies)
          /\ \A i \in Ids : WF_vars(HydraIndexes(i))

----------------------------------------------------------------------------
(* Properties.                                                              *)

(* The collection holds every source of a manifest with exactly the card    *)
(* the manifest records, fully indexed.                                     *)
Held(m) == \A i \in Present(m.sources) : /\ remote[i].card = m.sources[i]
                                         /\ remote[i].state = "completed"

(* Whenever queries are let through, the revision they are told is the      *)
(* verified one really is what HydraDB holds, after any mixture of failed,  *)
(* cancelled, crashed and retried syncs (sync.py _set_state call sites and  *)
(* __init__, api.py current_state_indeterminate).                           *)
OpenGateMeansHeld == GateOpen => Held(man)

(* A service started from the two files would tell the truth at any moment: *)
(* unless the marker exists, the manifest on disk describes the collection  *)
(* (sync.py _persist_in_progress before the first write, _clear_in_progress *)
(* after the manifest).                                                     *)
UnmarkedDiskIsHeld == ~marker => Held(mfile)

(* Memory and disk never drift apart: a running service that lets queries   *)
(* through serves the manifest a restart would load.                        *)
OpenGateMatchesDisk == GateOpen => man = mfile /\ ~marker

(* The manifest on disk only ever moves to a candidate that HydraDB holds   *)
(* completely (sync.py _sync_locked: upload, wait, delete, only then save). *)
ManifestAdvancesWhenHeld == [][mfile' # mfile => Held(mfile')]_vars

(* A sync that starts ends: its thread cannot wait for ever (sync.py        *)
(* _wait_until_completed deadline, hydradb.py request timeout and retries). *)
SyncEnds == [](pc \in Running => <>(pc \in {"idle", "down"}))

(* A sync that fails of what it finds: a source it waits for is errored, or *)
(* not there at all.                                                        *)
FailsOnResidue ==
  /\ Rejected
  /\ pc = "verify"
  /\ \E i \in unverified : remote[i].state \in {"errored", "absent"}

(* What only the surroundings do wrong: a call, a file or an answer that    *)
(* fails, a deadline, a cancellation, a crash, HydraDB giving up on a       *)
(* source.  A call that is retried counts: the attempt that was given up    *)
(* may land late, in the middle of the next phase.                          *)
Trouble == \/ Failure /\ ~FailsOnResidue
           \/ Retry
           \/ Crash
           \/ \E i \in Ids : remote[i].state # "errored"
                               /\ remote'[i].state = "errored"

(* Nothing that failures leave behind (errored and half-sent sources, the   *)
(* marker, abandoned calls still to land) makes later syncs fail for ever:  *)
(* once the surroundings behave, a sync may still fail on what it finds,    *)
(* but not without end, and the gate opens (_sync_locked: forced recovery   *)
(* sends every source again that it waits for).                             *)
RecoverySucceeds ==
  Served /\ <>[][~Trouble]_vars =>
     <>[](pc \in Running => <>(status = "ready" /\ ~indet))

(* What HydraDB returns for every id once it is completely indexed.         *)
Content == [i \in Ids |-> IF remote[i].state = "completed"
                          THEN remote[i].card ELSE NoCard]

(* sync.py keeps the promise of VerifiedRevision, whatever fails: the       *)
(* durable snapshot is the manifest file, the gate that of the query layer. *)
Promise == INSTANCE VerifiedRevision WITH
  verified <- mfile.sources,
  open <- GateOpen,
  content <- Content

PromiseKept == Promise!Spec

(* The comment in _sync_locked: stale exact edges cannot survive a          *)
(* relation-free revision.  Not so after a sync that failed.                *)
NoStaleGraph ==
  GateOpen => \A i \in Present(man.sources) :
                remote[i].graph => man.sources[i].rel
=============================================================================
