------------------------------ MODULE Evolution ------------------------------
(***************************************************************************)
(* Checkpoints, graph deltas and the shared lens on the service side:        *)
(* evolution_service.py with checkpoints.py, and the parts of evolution.py   *)
(* that decide which source cards a write consists of.                      *)
(*                                                                         *)
(* A request runs in a thread.  One operation lock covers an analysis and a  *)
(* write; reading the verified revision, loading the checkpoints and         *)
(* deleting them happen outside it.                                         *)
(*                                                                         *)
(* A revision names one content of the working tree.  HydraDB and the         *)
(* synchronisation are external here: the first takes cards and finishes     *)
(* them later, the second changes the verified revision at any time.         *)
(***************************************************************************)
EXTENDS Naturals, FiniteSets, Sequences

CONSTANTS Threads, Nobody,
          Revisions, NoRevision,
          MaxFacts,       \* facts in the delta of two different revisions (bound)
          Unpublishable,  \* pairs of contents whose delta is too large for the cards
          BatchSize,      \* EvolutionService.batch_size
          RefreshLimit,   \* refresh views kept, 50 in the code
          MaxEdits,       \* changes of the tree or starts of a synchronisation (bound)
          MaxFaults       \* failures of HydraDB, files, processes and clients (bound)

ASSUME EvolutionBounds == /\ BatchSize \in Nat \ {0} /\ RefreshLimit \in Nat
                          /\ {MaxFacts, MaxEdits, MaxFaults} \subseteq Nat
ASSUME TooLarge == Unpublishable \subseteq {p \in Revisions \X Revisions : p[1] # p[2]}
ASSUME Sentinels == NoRevision \notin Revisions /\ Nobody \notin Threads

Slots == {"before", "after"}
NoCheckpoint == [revision |-> NoRevision, content |-> NoRevision]
Checkpoint == [revision : Revisions \cup {NoRevision}, content : Revisions \cup {NoRevision}]

(* build_change_event_cards: a summary, page 0, and a page for every fact; an *)
(* empty delta has the summary alone.  One lens, with one identifier.        *)
Facts(before, after) == IF before = after THEN 0 ELSE MaxFacts
EventCards(before, after) ==
  {[before |-> before, after |-> after, page |-> p] : p \in 0..Facts(before, after)}
LensCard == [before |-> NoRevision, after |-> NoRevision, page |-> 0]
Cards == {LensCard} \cup UNION {EventCards(b, a) : b, a \in Revisions}
CardStates == {"absent", "queued", "completed", "errored"}

(* What a handler is about to do.  A write carries the cards it still has to  *)
(* send, those it waits for, the baseline it saves and the view it was        *)
(* accepted from.                                                           *)
Idle == [pc |-> "idle"]
Results == {"captured", "preview", "ready", "indeterminate", "refused", "opened"}
Calls ==
  {Idle}
  \cup [pc : {"check", "lock", "analyse"}, op : {"capture"}, slot : Slots, revision : Revisions,
        read : Revisions \cup {NoRevision}]
  \cup [pc : {"verify", "store"}, op : {"capture"}, slot : Slots, revision : Revisions,
        content : Revisions]
  \cup [pc : {"lock", "send", "wait", "clear"}, op : {"publish", "lens"},
        cards : SUBSET Cards, left : SUBSET Cards,
        baseline : Revisions \cup {NoRevision}, view : Nat]
  \cup [pc : {"query"}, op : {"open"}, saved : Revisions]
  \cup [pc : {"rebuild"}, op : {"accept"}, view : Nat]
  \cup [pc : {"answered"}, op : {"capture", "publish", "lens", "open"}, result : Results]

VARIABLES tree,       \* contents of the working tree
          sync,       \* status, verified revision and candidate of the synchronisation
          slots,      \* checkpoint files
          lock,       \* _operation_lock
          cards,      \* evolution collection: state of every card
          baseline,   \* revision saved in the lens card
          views,      \* revisions of the views open_lens ever stored; a view is named by its number
          refresh,    \* _refresh_views: views that may still be accepted
          call,       \* handler in each thread
          edits, faults

vars == <<tree, sync, slots, lock, cards, baseline, views, refresh, call, edits, faults>>
local == <<tree, sync, edits>>
store == <<cards, baseline>>

TypeOK ==
  /\ tree \in Revisions
  /\ sync \in [status : {"ready", "indexing", "failed", "unsafe"},
               revision : Revisions \cup {NoRevision}, candidate : Revisions]
  /\ slots \in [Slots -> Checkpoint]
  /\ lock \in Threads \cup {Nobody}
  /\ cards \in [Cards -> CardStates]
  /\ baseline \in Revisions \cup {NoRevision}
  /\ views \in Seq(Revisions) /\ refresh \subseteq DOMAIN views
  /\ call \in [Threads -> Calls]
  /\ edits \in 0..MaxEdits /\ faults \in 0..MaxFaults

Init ==
  /\ tree \in Revisions
  /\ \E r \in {tree, NoRevision} :
       sync = [status |-> "ready", revision |-> r, candidate |-> tree]
  /\ slots = [s \in Slots |-> NoCheckpoint]
  /\ lock = Nobody
  /\ \/ cards = [c \in Cards |-> "absent"] /\ baseline = NoRevision
     \/ cards = [c \in Cards |-> IF c = LensCard THEN "completed" ELSE "absent"]
        /\ baseline \in Revisions
  /\ views = <<>> /\ refresh = {}
  /\ call = [t \in Threads |-> Idle]
  /\ edits = 0 /\ faults = 0

Unsafe == sync.status \in {"indexing", "unsafe"}
Runs(t, c) == call' = [call EXCEPT ![t] = c]
Answers(t, op, result) == Runs(t, [pc |-> "answered", op |-> op, result |-> result])
Fault == faults < MaxFaults /\ faults' = faults + 1

-----------------------------------------------------------------------------
(* The working tree and the synchronisation.                                *)

Edit ==
  /\ edits < MaxEdits /\ edits' = edits + 1
  /\ tree' \in Revisions \ {tree}
  /\ UNCHANGED <<sync, slots, lock, store, views, refresh, call, faults>>

StartIndexing ==
  /\ sync.status # "indexing"
  /\ edits < MaxEdits /\ edits' = edits + 1
  /\ sync' = [sync EXCEPT !.status = "indexing", !.candidate = tree]
  /\ UNCHANGED <<tree, slots, lock, store, views, refresh, call, faults>>

EndIndexing ==
  /\ sync.status = "indexing"
  /\ \/ sync' = [sync EXCEPT !.status = "ready", !.revision = sync.candidate] /\ UNCHANGED faults
     \/ Fault /\ \E s \in {"failed", "unsafe"} : sync' = [sync EXCEPT !.status = s]
  /\ UNCHANGED <<tree, slots, lock, store, views, refresh, call, edits>>

-----------------------------------------------------------------------------
(* capture_checkpoint                                                       *)

(* The verified revision is read first, then whether it may be trusted.      *)
AskCapture(t, slot, revision) ==
  /\ call[t] = Idle
  /\ Runs(t, [pc |-> "check", op |-> "capture", slot |-> slot, revision |-> revision,
              read |-> sync.revision])
  /\ UNCHANGED <<local, slots, lock, store, views, refresh, faults>>

CheckCapture(t) ==
  /\ call[t].pc = "check"
  /\ IF Unsafe \/ call[t].read # call[t].revision
     THEN Answers(t, "capture", "refused")
     ELSE Runs(t, [call[t] EXCEPT !.pc = "lock"])
  /\ UNCHANGED <<local, slots, lock, store, views, refresh, faults>>

Analyse(t) ==
  /\ call[t].pc = "analyse"
  /\ Runs(t, [pc |-> "verify", op |-> "capture", slot |-> call[t].slot,
              revision |-> call[t].revision, content |-> tree])
  /\ UNCHANGED <<local, slots, lock, store, views, refresh, faults>>

(* Mutation: the analysed cards are not compared.                           *)
VerifiedByName(revision, content) == sync.status = "ready" /\ sync.revision = revision

(* verifies_snapshot: the cards are those of the verified manifest.          *)
Verified(revision, content) ==
  sync.status = "ready" /\ sync.revision = revision /\ content = sync.revision

VerifyCapture(t) ==
  /\ call[t].pc = "verify"
  /\ IF Verified(call[t].revision, call[t].content)
     THEN Runs(t, [call[t] EXCEPT !.pc = "store"]) /\ UNCHANGED lock
     ELSE Answers(t, "capture", "refused") /\ lock' = Nobody
  /\ UNCHANGED <<local, slots, store, views, refresh, faults>>

(* The slot is replaced atomically, or the write fails and leaves it.        *)
StoreCapture(t) ==
  /\ call[t].pc = "store"
  /\ \/ /\ slots' = [slots EXCEPT ![call[t].slot] =
                       [revision |-> call[t].revision, content |-> call[t].content]]
        /\ Answers(t, "capture", "captured")
        /\ UNCHANGED faults
     \/ Fault /\ Answers(t, "capture", "refused") /\ UNCHANGED slots
  /\ lock' = Nobody
  /\ UNCHANGED <<local, store, views, refresh>>

-----------------------------------------------------------------------------
(* publish_delta up to the write.  load_pair: both slots, of these revisions. *)

Loads(before, after) == slots["before"].revision = before /\ slots["after"].revision = after

Writing(op, ids, revision, view) ==
  [pc |-> "lock", op |-> op, cards |-> ids, left |-> ids, baseline |-> revision, view |-> view]

(* More than MAX_CHANGE_FACTS facts or a card over MAX_EVOLUTION_CARD_CHARS    *)
(* raise while the cards are built, which is before the confirmation counts.  *)
Publishable(before, after) ==
  /\ Loads(before, after)
  /\ <<slots["before"].content, slots["after"].content>> \notin Unpublishable

(* Without credentials nothing is written.                                  *)
Publish(t, before, after, confirm) ==
  /\ call[t] = Idle
  /\ \/ /\ ~Publishable(before, after)
        /\ Answers(t, "publish", "refused") /\ UNCHANGED faults
     \/ /\ Publishable(before, after) /\ ~confirm
        /\ Answers(t, "publish", "preview") /\ UNCHANGED faults
     \/ /\ Publishable(before, after) /\ confirm
        /\ \/ /\ Runs(t, Writing("publish",
                         EventCards(slots["before"].content, slots["after"].content),
                         NoRevision, 0))
              /\ UNCHANGED faults
           \/ Fault /\ Answers(t, "publish", "refused")
  /\ UNCHANGED <<local, slots, lock, store, views, refresh>>

-----------------------------------------------------------------------------
(* The lens.  open_lens asks for the saved record, then for the current       *)
(* path; the answer is stored as a view and bound to the lens.              *)

(* A card that is not completed may be missing from an answer.              *)
Retrievable(c) == cards[c] = "completed"

OpenLens(t) ==
  /\ call[t] = Idle
  /\ IF Retrievable(LensCard)
     THEN Runs(t, [pc |-> "query", op |-> "open", saved |-> baseline])
     ELSE Answers(t, "open", "refused")
  /\ UNCHANGED <<local, slots, lock, store, views, refresh, faults>>

(* The number of a view is its age: beyond the limit the oldest binding goes. *)
Unserved == Unsafe \/ sync.revision = NoRevision
Kept(V) == {v \in V : Cardinality({w \in V : w > v}) < RefreshLimit}
Refresh(t) ==
  /\ call[t].pc = "query"
  /\ IF Unserved THEN UNCHANGED <<views, refresh>>
     ELSE /\ views' = Append(views, sync.revision)
          /\ refresh' = Kept(refresh \cup {Len(views')})
  /\ Answers(t, "open", IF Unserved THEN "refused" ELSE "opened")
  /\ UNCHANGED <<local, slots, lock, store, faults>>

(* save_lens: any stored view will do, also one of an earlier revision.       *)
SaveLens(t, revision) ==
  /\ call[t] = Idle
  /\ \/ Runs(t, Writing("lens", {LensCard}, revision, 0)) /\ UNCHANGED faults
     \/ Fault /\ Answers(t, "lens", "refused")
  /\ UNCHANGED <<local, slots, lock, store, views, refresh>>

(* accept_lens: the view must be bound; then the record is read again.       *)
AcceptLens(t, v) ==
  /\ call[t] = Idle
  /\ IF v \notin refresh \/ ~Retrievable(LensCard) THEN Answers(t, "lens", "refused")
     ELSE Runs(t, [pc |-> "rebuild", op |-> "accept", view |-> v])
  /\ UNCHANGED <<local, slots, lock, store, views, refresh, faults>>

(* The baseline is rebuilt from the stored view, which other views may have   *)
(* pushed out by then; without a confirmation it is only described.          *)
Rebuild(t) ==
  /\ call[t].pc = "rebuild"
  /\ \/ Runs(t, Writing("lens", {LensCard}, views[call[t].view], call[t].view))
     \/ \E result \in {"preview", "refused"} : Answers(t, "lens", result)
  /\ UNCHANGED <<local, slots, lock, store, views, refresh, faults>>

-----------------------------------------------------------------------------
(* _write_cards, under the operation lock.                                  *)

(* Mutation: the operation does not wait for the lock.                      *)
TakeLockAnyway(t) ==
  /\ call[t].pc = "lock"
  /\ lock' = t
  /\ Runs(t, [call[t] EXCEPT !.pc = IF call[t].op = "capture" THEN "analyse" ELSE "send"])
  /\ UNCHANGED <<local, slots, store, views, refresh, faults>>

TakeLock(t) ==
  /\ call[t].pc = "lock" /\ lock = Nobody
  /\ lock' = t
  /\ Runs(t, [call[t] EXCEPT !.pc = IF call[t].op = "capture" THEN "analyse" ELSE "send"])
  /\ UNCHANGED <<local, slots, store, views, refresh, faults>>

Batches(left) ==
  {b \in SUBSET left :
     Cardinality(b) = IF Cardinality(left) < BatchSize THEN Cardinality(left) ELSE BatchSize}

(* Mutation: cards that are already there are not replaced.                  *)
InsertedOnly(batch) ==
  [c \in Cards |-> IF c \in batch /\ cards[c] = "absent" THEN "queued" ELSE cards[c]]
(* Mutation: only the last batch is waited for.                              *)
AwaitedBatch(t, batch) == batch

Upserted(batch) == [c \in Cards |-> IF c \in batch THEN "queued" ELSE cards[c]]
Saved(t, batch) == IF LensCard \in batch THEN call[t].baseline ELSE baseline

Awaited(t, batch) == call[t].cards

(* A batch is accepted whole; or HydraDB names fewer cards or fails, and some *)
(* of the batch takes effect all the same.                                  *)
Send(t) ==
  /\ call[t].pc = "send"
  /\ \E batch \in Batches(call[t].left) :
       \/ /\ cards' = Upserted(batch) /\ baseline' = Saved(t, batch)
          /\ LET rest == call[t].left \ batch
             IN  Runs(t, IF rest = {}
                         THEN [call[t] EXCEPT !.pc = "wait", !.left = Awaited(t, batch)]
                         ELSE [call[t] EXCEPT !.left = rest])
          /\ UNCHANGED <<lock, faults>>
       \/ /\ Fault
          /\ \E part \in SUBSET batch : cards' = Upserted(part) /\ baseline' = Saved(t, part)
          /\ Answers(t, call[t].op, "indeterminate")
          /\ lock' = Nobody
  /\ UNCHANGED <<local, slots, views, refresh>>

(* HydraDB finishes a card.                                                 *)
IndexCard(c) ==
  /\ cards[c] = "queued"
  /\ \/ cards' = [cards EXCEPT ![c] = "completed"] /\ UNCHANGED faults
     \/ Fault /\ cards' = [cards EXCEPT ![c] = "errored"]
  /\ UNCHANGED <<local, slots, lock, baseline, views, refresh, call>>

(* _wait_until_completed asks for what has not finished.  An error, a failed  *)
(* status call or the deadline ends the wait.                               *)
StillPending(t) == {c \in call[t].left : cards[c] # "completed"}
Poll(t) ==
  /\ call[t].pc = "wait"
  /\ \/ /\ \E c \in call[t].left : cards[c] = "errored"
        /\ Answers(t, call[t].op, "indeterminate") /\ lock' = Nobody
        /\ UNCHANGED <<refresh, faults>>
     \/ /\ Fault
        /\ Answers(t, call[t].op, "indeterminate") /\ lock' = Nobody
        /\ UNCHANGED refresh
     \/ /\ \A c \in call[t].left : cards[c] # "errored"
        /\ StillPending(t) # {}
        /\ Runs(t, [call[t] EXCEPT !.left = StillPending(t)])
        /\ UNCHANGED <<lock, refresh, faults>>
     \/ /\ StillPending(t) = {}
        /\ lock' = Nobody
        /\ IF call[t].op = "publish"
           THEN Runs(t, [call[t] EXCEPT !.pc = "clear", !.left = {}]) /\ UNCHANGED refresh
           ELSE Answers(t, "lens", "ready") /\ refresh' = refresh \ {call[t].view}
        /\ UNCHANGED faults
  /\ UNCHANGED <<local, slots, store, views>>

(* CheckpointStore.clear: before, then after; the operation lock is released  *)
(* already.  A file that cannot be removed is reported in a warning.         *)
Clear(t) ==
  /\ call[t].pc = "clear"
  /\ \/ slots' = [s \in Slots |-> NoCheckpoint] /\ UNCHANGED faults
     \/ Fault /\ (UNCHANGED slots \/ slots' = [slots EXCEPT !["before"] = NoCheckpoint])
  /\ Answers(t, "publish", "ready")
  /\ UNCHANGED <<local, lock, store, views, refresh>>

-----------------------------------------------------------------------------
(* The service is killed: files and HydraDB keep what they hold.            *)
Crash ==
  /\ Fault
  /\ call' = [t \in Threads |-> Idle]
  /\ lock' = Nobody
  /\ refresh' = {}
  /\ sync' = [sync EXCEPT !.status = IF @ = "failed" THEN "ready" ELSE
                                     IF @ = "indexing" THEN "unsafe" ELSE @]
  /\ UNCHANGED <<tree, slots, store, views, edits>>

HandlerStep(t) ==
  \/ CheckCapture(t) \/ Analyse(t) \/ VerifyCapture(t) \/ StoreCapture(t)
  \/ Refresh(t) \/ Rebuild(t)
  \/ TakeLock(t) \/ Send(t) \/ Poll(t) \/ Clear(t)

Environment == Edit \/ StartIndexing \/ EndIndexing \/ (\E c \in Cards : IndexCard(c))

LensRequest(t) ==
  \/ OpenLens(t) \/ \E v \in DOMAIN views : AcceptLens(t, v)
  \/ \E r \in Revisions : SaveLens(t, r)

-----------------------------------------------------------------------------
(* A checkpoint holds the content its revision names, whatever is edited,     *)
(* indexed or captured while it is analysed: a delta compares verified graphs. *)
SlotsVerified == \A s \in Slots : slots[s].content = slots[s].revision

(* The operation lock is held by exactly the handler that analyses or writes.  *)
LockHeld ==
  \A t \in Threads :
    lock = t <=> call[t].pc \in {"analyse", "verify", "store", "send", "wait"}

(* A publication goes on to its end only when everything it sent can be        *)
(* retrieved, although cards of earlier attempts were there before it and the   *)
(* ones found completed once are not asked about again.                       *)
WholeWhenReady ==
  [][\A t \in Threads :
       call[t].pc = "wait" /\ call'[t].pc = "clear" =>
         \A c \in call[t].cards : Retrievable(c)]_vars

(* While a lens is waited for, its card holds the baseline this handler sent,  *)
(* whoever else saves or accepts it: "ready" is said of one's own baseline.    *)
OwnBaseline ==
  \A t \in Threads :
    call[t].pc = "wait" /\ LensCard \in call[t].cards => baseline = call[t].baseline
=============================================================================
