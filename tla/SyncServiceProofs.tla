------------------------- MODULE SyncServiceProofs -------------------------
(* What SyncService guarantees for every set of ids and revisions, every    *)
(* batch size and every number of retries: what the gate and the manifest   *)
(* promise when an abandoned HydraDB call has no late effect; how many      *)
(* steps a sync may take, for finitely many ids, also when it has one.      *)
EXTENDS SyncService, FiniteSetTheorems, TLAPS

----------------------------------------------------------------------------
(* The inductive invariant.                                                 *)

(* A manifest that describes one revision: the bookkeeping around sources   *)
(* follows from sources.                                                    *)
WellFormed(m) ==
  /\ m.byog = {i \in Present(m.sources) : m.sources[i].rel}
  /\ \A i \in Present(m.sources) : m.sources[i].rev = m.rev
  /\ m.rev = NoRevision <=> Present(m.sources) = {}

(* The marker on disk and the flag in memory are the same fact, and the     *)
(* gate is never open over a marker.                                        *)
MarkerInv ==
  /\ late = {}
  /\ pc # "down" => interrupted = marker
  /\ pc \notin Running /\ marker => pc = "down" \/ indet
  /\ pc \in Running => status = "indexing" /\ indet
  /\ wrote => marker
  /\ pc \in Calling => wrote
  /\ ~wrote => request = {}

(* Unless marked, disk and memory agree with each other and with HydraDB.   *)
ManifestInv ==
  /\ WellFormed(mfile) /\ WellFormed(man)
  /\ ~marker => Held(mfile)
  /\ pc # "down" /\ ~marker => man = mfile

(* The sets of remaining work, phase by phase.                              *)
PhaseInv ==
  /\ pc \in Running => WellFormed(cand) /\ cand.rev # NoRevision
  /\ pc \notin Calling => request = {} /\ batch = {}
  /\ toClear \subseteq toUpload
  /\ toUpload \subseteq unverified
  /\ unverified \subseteq Present(cand.sources)
  /\ toDelete \cap Present(cand.sources) = {}
  /\ pc = "clearing" => batch \subseteq toClear
  /\ pc \in {"upload", "uploading", "verify", "delete", "deleting",
             "persist", "unmark"} => toClear = {}
  /\ pc = "uploading" => batch \subseteq toUpload
  /\ pc \in {"verify", "delete", "deleting", "persist", "unmark"}
       => toUpload = {}
  /\ pc \in {"delete", "deleting", "persist", "unmark"} => unverified = {}
  /\ pc = "deleting" => batch \subseteq toDelete
  /\ pc \in {"persist", "unmark"} => toDelete = {}
  /\ pc = "unmark" => mfile = cand

(* Outstanding writes are those of the current batch.                       *)
RequestInv ==
  \A w \in request :
    /\ w.id \in batch
    /\ w.card = IF pc = "uploading" THEN cand.sources[w.id] ELSE NoCard

(* What the collection already holds of the candidate.                      *)
ProgressInv ==
  pc \in Running =>
    \A i \in Present(cand.sources) :
      /\ i \notin toUpload => remote[i].card = cand.sources[i]
      /\ i \notin unverified => remote[i].state = "completed"
      /\ /\ pc = "uploading" /\ i \in batch
         /\ \A w \in request : w.id # i
         => remote[i].card = cand.sources[i]

(* Before the first write everything the candidate changes is still to do.  *)
UntouchedInv ==
  pc \in Running /\ ~marker =>
    \A i \in Ids : \/ cand.sources[i] = man.sources[i]
                   \/ i \in toUpload \cup toDelete

IInv == /\ MarkerInv
        /\ ManifestInv
        /\ PhaseInv
        /\ RequestInv
        /\ ProgressInv
        /\ UntouchedInv

----------------------------------------------------------------------------
(* Type correctness.                                                        *)

LEMMA EmptyIsManifest == EmptyManifest \in Manifests /\ NoSources \in Snapshots
BY DEF EmptyManifest, Manifests, NoSources, Snapshots

LEMMA CandidateType ==
  ASSUME NEW rev \in Revisions, NEW ids \in SUBSET Ids,
         NEW related \in SUBSET ids
  PROVE  ManifestOf(rev, ids, related) \in Manifests
<1>1. SnapshotOf(rev, ids, related) \in Snapshots
  BY DEF SnapshotOf, Snapshots, Cards
<1>2. QED
  BY <1>1 DEF ManifestOf, Manifests

LEMMA PhaseForType ==
  ASSUME NEW c, NEW u, NEW v, NEW d
  PROVE  PhaseFor(c, u, v, d) \in {"clear", "upload", "verify", "delete",
                                   "persist"}
BY DEF PhaseFor

LEMMA StoredType ==
  ASSUME NEW old \in Sources, NEW card \in Cards \cup {NoCard}
  PROVE  Stored(old, card) \in Sources
BY NoCardAssumption DEF Stored, Sources, SourceStates, NoSource, Cards

LEMMA ForgetOperationType ==
  ASSUME ForgetOperation
  PROVE  /\ cand' \in Manifests
         /\ toClear' \subseteq Ids /\ toUpload' \subseteq Ids
         /\ unverified' \subseteq Ids /\ toDelete' \subseteq Ids
         /\ batch' \subseteq Ids
         /\ attempts' \in 0..MaxRetries
         /\ wrote' \in BOOLEAN
<1>1. attempts' \in 0..MaxRetries
  BY RetryAssumption DEF ForgetOperation
<1>2. QED
  BY <1>1, EmptyIsManifest DEF ForgetOperation

(* Every variable keeps its type along every step of the sync thread, of    *)
(* HydraDB, and across crashes and restarts.                                *)
THEOREM TypeCorrect == Spec => []TypeOK
<1>1. Init => TypeOK
  <2> SUFFICES ASSUME Init PROVE TypeOK
    OBVIOUS
  <2>1. attempts \in 0..MaxRetries
    BY RetryAssumption DEF Init
  <2>2. remote \in [Ids -> Sources]
    BY DEF Init, Sources, NoSource, SourceStates
  <2>3. QED
    BY <2>1, <2>2, EmptyIsManifest DEF Init, TypeOK, Statuses
<1>2. TypeOK /\ [Next]_vars => TypeOK'
  <2> SUFFICES ASSUME TypeOK, [Next]_vars PROVE TypeOK'
    OBVIOUS
  <2> USE RetryAssumption, EmptyIsManifest
      DEF TypeOK, Running, Calling, Checkpoints, Statuses, disk, hydra, memory,
          operation
  <2>1. CASE Begin
    <3>1. cand' \in Manifests
      BY <2>1, CandidateType DEF Begin
    <3>2. /\ toClear' \subseteq Ids /\ toUpload' \subseteq Ids
          /\ unverified' \subseteq Ids /\ toDelete' \subseteq Ids
      BY <2>1 DEF Begin, StaleByog, Replaced, Added, Removed, Present
    <3>3. QED
      BY <2>1, <3>1, <3>2 DEF Begin
  <2>2. CASE Enter
    BY <2>2, PhaseForType DEF Enter
  <2>3. CASE SendClear \/ SendUpload \/ SendDelete
    <3>1. NoSources \in Snapshots /\ cand.sources \in Snapshots
      BY DEF Manifests
    <3>2. ASSUME NEW phase \in Calling, NEW b \in SUBSET Ids,
                 NEW cardOf \in Snapshots, Send(phase, b, cardOf)
          PROVE  TypeOK'
      BY <3>2 DEF Send, Writes, Snapshots
    <3>3. QED
      BY <2>3, <3>1, <3>2 DEF SendClear, SendUpload, SendDelete
  <2>4. CASE Acknowledged
    BY <2>4, PhaseForType DEF Acknowledged
  <2>5. CASE Retry
    <3>1. request' \subseteq Writes
      BY <2>5 DEF Retry, Writes, Manifests, Snapshots
    <3>2. QED
      BY <2>5, <3>1 DEF Retry
  <2>6. CASE \E i \in Ids : Poll(i)
    BY <2>6, PhaseForType DEF Poll
  <2>7. CASE PersistManifest
    BY <2>7 DEF PersistManifest
  <2>8. CASE Publish
    BY <2>8, ForgetOperationType DEF EndOperation, Publish
  <2>9. CASE Rejected \/ Unavailable \/ SaveFails \/ Escapes
    BY <2>9, ForgetOperationType DEF EndOperation, Rejected, Unavailable, SaveFails, Escapes
  <2>10. CASE Cancel
    BY <2>10, ForgetOperationType DEF EndOperation, Cancel
  <2>11. CASE MarkerFails
    BY <2>11, ForgetOperationType DEF EndOperation, MarkerFails
  <2>12. CASE Crash
    BY <2>12, ForgetOperationType DEF Crash
  <2>13. CASE Restart
    BY <2>13 DEF Restart
  <2>14. CASE HydraApplies \/ HydraAppliesLate
    <3>1. ASSUME NEW w \in Writes, Apply(w)
          PROVE  remote' \in [Ids -> Sources]
      BY <3>1, StoredType DEF Apply, Writes
    <3>2. QED
      BY <2>14, <3>1 DEF HydraApplies, HydraAppliesLate, Apply
  <2>15. CASE \E i \in Ids : HydraIndexes(i)
    <3>1. remote' \in [Ids -> Sources]
      BY <2>15 DEF HydraIndexes, Sources, SourceStates
    <3>2. QED
      BY <2>15, <3>1 DEF HydraIndexes
  <2>16. CASE UNCHANGED vars
    BY <2>16 DEF vars
  <2>17. QED
    BY <2>1, <2>2, <2>3, <2>4, <2>5, <2>6, <2>7, <2>8, <2>9, <2>10, <2>11,
       <2>12, <2>13, <2>14, <2>15, <2>16
       DEF Next, Progress, Failure, Hydra
<1>3. QED
  BY <1>1, <1>2, PTL DEF Spec

----------------------------------------------------------------------------
(* The inductive invariant, one lemma per kind of step.                     *)

LEMMA EmptyIsWellFormed == WellFormed(EmptyManifest)
BY DEF WellFormed, EmptyManifest, NoSources, Present

LEMMA CandidateIsWellFormed ==
  ASSUME NEW rev \in Revisions, NEW ids \in (SUBSET Ids) \ {{}},
         NEW related \in SUBSET ids
  PROVE  /\ WellFormed(ManifestOf(rev, ids, related))
         /\ ManifestOf(rev, ids, related).rev # NoRevision
<1> DEFINE m == ManifestOf(rev, ids, related)
<1>1. Present(m.sources) = ids
  <2>1. \A i \in ids : [rev |-> rev, rel |-> i \in related] \in Cards
    BY DEF Cards
  <2>2. QED
    BY <2>1, NoCardAssumption DEF ManifestOf, SnapshotOf, Present
<1>2. \A i \in ids : m.sources[i].rev = rev /\ m.sources[i].rel = (i \in related)
  BY DEF ManifestOf, SnapshotOf
<1>3. m.byog = related /\ m.rev = rev
  BY DEF ManifestOf
<1> HIDE DEF m
<1>4. {i \in Present(m.sources) : m.sources[i].rel} = related
  BY <1>1, <1>2
<1>5. \A i \in Present(m.sources) : m.sources[i].rev = m.rev
  BY <1>1, <1>2, <1>3
<1>6. m.rev # NoRevision /\ Present(m.sources) # {}
  BY <1>1, <1>3, NoRevisionAssumption
<1>7. WellFormed(m)
  BY <1>3, <1>4, <1>5, <1>6 DEF WellFormed
<1>8. QED
  BY <1>6, <1>7 DEF m

(* Two well-formed manifests with the same sources are the same.            *)
LEMMA SourcesDetermine ==
  ASSUME NEW m \in Manifests, NEW n \in Manifests,
         WellFormed(m), WellFormed(n), m.sources = n.sources
  PROVE  m = n
<1>1. m.byog = n.byog
  BY DEF WellFormed
<1>2. m.rev = n.rev
  BY DEF WellFormed
<1>3. QED
  BY <1>1, <1>2 DEF Manifests

LEMMA InitIInv ==
  ASSUME Init
  PROVE  IInv
<1>1. pc = "idle" /\ pc \notin Running
  BY DEF Init, Running, Calling, Checkpoints
<1>2. Present(EmptyManifest.sources) = {}
  BY DEF EmptyManifest, NoSources, Present
<1>3. MarkerInv /\ PhaseInv
  BY <1>1 DEF Init, MarkerInv, PhaseInv, Running, Calling
<1>4. ManifestInv
  BY <1>1, <1>2, EmptyIsWellFormed DEF Init, ManifestInv, Held
<1>5. RequestInv /\ ProgressInv /\ UntouchedInv
  BY <1>1 DEF Init, RequestInv, ProgressInv, UntouchedInv
<1>6. QED
  BY <1>3, <1>4, <1>5 DEF IInv

LEMMA BeginIInv ==
  ASSUME TypeOK, IInv, Begin
  PROVE  IInv'
<1> USE DEF IInv, Running, Calling, Checkpoints
<1>1. PICK rev \in Revisions, ids \in (SUBSET Ids) \ {{}} :
        \E related \in SUBSET ids :
          LET new == SnapshotOf(rev, ids, related)
              changed == Added(new, man.sources)
                           \cup Replaced(new, man.sources, interrupted)
          IN /\ cand' = ManifestOf(rev, ids, related)
             /\ toClear' = StaleByog(new, man.sources, man.byog, interrupted)
             /\ toUpload' = changed
             /\ unverified' = changed
             /\ toDelete' = Removed(new, man.sources)
  BY DEF Begin
<1>2. PICK related \in SUBSET ids :
          /\ cand' = ManifestOf(rev, ids, related)
          /\ toClear' = StaleByog(cand'.sources, man.sources, man.byog,
                                  interrupted)
          /\ toUpload' = Added(cand'.sources, man.sources)
                        \cup Replaced(cand'.sources, man.sources, interrupted)
          /\ unverified' = toUpload'
          /\ toDelete' = Removed(cand'.sources, man.sources)
  BY <1>1 DEF ManifestOf
<1>3. WellFormed(cand') /\ cand'.rev # NoRevision
  BY <1>2, CandidateIsWellFormed
<1>4. pc = "idle" /\ pc' = "start" /\ UNCHANGED <<disk, hydra, man, batch>>
  BY DEF Begin
<1>5. MarkerInv'
  BY <1>4 DEF MarkerInv, PhaseInv, Begin, hydra, disk
<1>6. ManifestInv'
  BY <1>4 DEF ManifestInv, Held, disk, hydra
<1>7. PhaseInv'
  <2>1. toClear' \subseteq toUpload'
    BY <1>2 DEF StaleByog
  <2>2. unverified' \subseteq Present(cand'.sources)
    BY <1>2 DEF Added, Replaced
  <2>3. toDelete' \cap Present(cand'.sources) = {}
    BY <1>2 DEF Removed
  <2>4. QED
    BY <1>2, <1>3, <1>4, <2>1, <2>2, <2>3 DEF PhaseInv, hydra, disk
<1>8. RequestInv'
  BY <1>4 DEF RequestInv, PhaseInv, hydra
<1>9. \A i \in Present(cand'.sources) \ toUpload' :
        ~marker /\ cand'.sources[i] = man.sources[i] /\ i \in Present(man.sources)
  BY <1>2, <1>4 DEF Added, Replaced, MarkerInv
<1>10. ProgressInv'
  BY <1>2, <1>4, <1>9 DEF ProgressInv, ManifestInv, Held, hydra, PhaseInv, Present
<1>11. UntouchedInv'
  <2> SUFFICES ASSUME NEW i \in Ids, cand'.sources[i] # man.sources[i]
               PROVE  i \in toUpload' \cup toDelete'
    BY <1>4 DEF UntouchedInv
  <2>1. CASE i \in Present(cand'.sources)
    BY <2>1, <1>9
  <2>2. CASE i \notin Present(cand'.sources)
    BY <2>2, <1>2 DEF Present, Removed
  <2>3. QED
    BY <2>1, <2>2
<1>12. QED
  BY <1>5, <1>6, <1>7, <1>8, <1>10, <1>11

(* Enter, Poll and Acknowledged only move work out of the sets.             *)
LEMMA PhaseForEmpty ==
  ASSUME NEW c, NEW u, NEW v, NEW d
  PROVE  /\ PhaseFor(c, u, v, d) \in {"upload", "verify", "delete", "persist"}
              => c = {}
         /\ PhaseFor(c, u, v, d) \in {"verify", "delete", "persist"} => u = {}
         /\ PhaseFor(c, u, v, d) \in {"delete", "persist"} => v = {}
         /\ PhaseFor(c, u, v, d) = "persist" => d = {}
BY DEF PhaseFor

LEMMA EnterIInv ==
  ASSUME TypeOK, IInv, Enter
  PROVE  IInv'
<1> USE DEF IInv, Running, Calling, Checkpoints
<1>1. pc = "start" /\ pc' \in {"clear", "upload", "verify", "delete", "persist"}
      /\ UNCHANGED <<disk, hydra, memory, cand, toClear, toUpload, unverified,
                     toDelete, batch, attempts, wrote>>
  BY PhaseForType DEF Enter
<1>2. MarkerInv'
  BY <1>1 DEF MarkerInv, disk, hydra, memory
<1>3. ManifestInv'
  BY <1>1 DEF ManifestInv, Held, disk, hydra, memory
<1>4. PhaseInv'
  BY <1>1, PhaseForEmpty DEF PhaseInv, disk, hydra, Enter
<1>5. RequestInv'
  BY <1>1 DEF RequestInv, hydra
<1>6. ProgressInv'
  BY <1>1 DEF ProgressInv, hydra
<1>7. UntouchedInv'
  BY <1>1 DEF UntouchedInv, disk, memory
<1>8. QED
  BY <1>2, <1>3, <1>4, <1>5, <1>6, <1>7

(* The marker goes to disk with the first write, so from here on only the   *)
(* candidate's own progress matters.                                        *)
LEMMA SendIInv ==
  ASSUME TypeOK, IInv, SendClear \/ SendUpload \/ SendDelete
  PROVE  IInv'
<1> USE DEF IInv, Running, Calling, Checkpoints
<1>1. /\ pc \in {"clear", "upload", "delete"}
      /\ pc = "clear" => pc' = "clearing" /\ batch' \subseteq toClear
      /\ pc = "upload" => pc' = "uploading" /\ batch' \subseteq toUpload
      /\ pc = "delete" => pc' = "deleting" /\ batch' \subseteq toDelete
      /\ marker' /\ interrupted' /\ wrote'
      /\ UNCHANGED <<mfile, remote, late, status, indet, man, cand, toClear,
                     toUpload, unverified, toDelete>>
  BY DEF SendClear, SendUpload, SendDelete, Send, Slice
<1>2. \A w \in request' :
        /\ w.id \in batch'
        /\ w.card = IF pc' = "uploading" THEN cand.sources[w.id] ELSE NoCard
  <2>1. CASE SendUpload
    BY <2>1 DEF SendUpload, Send
  <2>2. CASE SendClear
    <3>1. PICK b \in SUBSET toClear : Send("clearing", b, NoSources)
      BY <2>2 DEF SendClear
    <3>2. \A i \in b : NoSources[i] = NoCard
      BY DEF NoSources, TypeOK
    <3>3. QED
      BY <3>1, <3>2 DEF Send
  <2>3. CASE SendDelete
    <3>1. \A i \in toDelete : NoSources[i] = NoCard
      BY DEF NoSources, TypeOK
    <3>2. QED
      BY <2>3, <3>1 DEF SendDelete, Send
  <2>4. QED
    BY <2>1, <2>2, <2>3
<1>3. pc' = "uploading" =>
        \A i \in batch' : \E w \in request' : w.id = i
  <2> SUFFICES ASSUME pc' = "uploading", NEW i \in batch'
               PROVE  \E w \in request' : w.id = i
    OBVIOUS
  <2>1. PICK b \in SUBSET toUpload : Send("uploading", b, cand.sources)
    BY <1>1 DEF SendClear, SendUpload, SendDelete
  <2>2. [id |-> i, card |-> cand.sources[i]] \in request'
    BY <2>1 DEF Send
  <2>3. QED
    BY <2>2
<1>4. MarkerInv'
  BY <1>1 DEF MarkerInv
<1>5. ManifestInv'
  BY <1>1 DEF ManifestInv, Held
<1>6. PhaseInv'
  BY <1>1 DEF PhaseInv
<1>7. RequestInv'
  BY <1>1, <1>2 DEF RequestInv
<1>8. ProgressInv'
  BY <1>1, <1>3 DEF ProgressInv
<1>9. UntouchedInv'
  BY <1>1 DEF UntouchedInv
<1>10. QED
  BY <1>4, <1>5, <1>6, <1>7, <1>8, <1>9

LEMMA AcknowledgedIInv ==
  ASSUME TypeOK, IInv, Acknowledged
  PROVE  IInv'
<1> USE DEF IInv, Running, Calling, Checkpoints
<1>1. /\ pc \in Calling /\ request = {} /\ batch' = {}
      /\ pc' \in {"clear", "upload", "verify", "delete", "persist"}
      /\ pc' = PhaseFor(toClear', toUpload', unverified, toDelete')
      /\ toClear' = IF pc = "clearing" THEN toClear \ batch ELSE toClear
      /\ toUpload' = IF pc = "uploading" THEN toUpload \ batch ELSE toUpload
      /\ toDelete' = IF pc = "deleting" THEN toDelete \ batch ELSE toDelete
      /\ UNCHANGED <<disk, hydra, memory, cand, unverified, wrote>>
  BY PhaseForType DEF Acknowledged
<1>2. MarkerInv'
  BY <1>1 DEF MarkerInv, disk, hydra, memory
<1>3. ManifestInv'
  BY <1>1 DEF ManifestInv, Held, disk, hydra, memory
<1>4. PhaseInv'
  <2>1. toClear' \subseteq toUpload'
    BY <1>1 DEF PhaseInv
  <2>2. QED
    BY <1>1, <2>1, PhaseForEmpty DEF PhaseInv, disk, hydra
<1>5. RequestInv'
  BY <1>1 DEF RequestInv, hydra
<1>6. ProgressInv'
  BY <1>1 DEF ProgressInv, hydra
<1>7. UntouchedInv'
  BY <1>1 DEF UntouchedInv, MarkerInv, disk
<1>8. QED
  BY <1>2, <1>3, <1>4, <1>5, <1>6, <1>7

LEMMA RetryIInv ==
  ASSUME LateWrites = FALSE, TypeOK, IInv, Retry
  PROVE  IInv'
<1> USE DEF IInv, Running, Calling, Checkpoints
<1>1. /\ pc \in Calling
      /\ UNCHANGED <<disk, remote, late, memory, pc, cand, toClear, toUpload,
                     unverified, toDelete, batch, wrote>>
      /\ request' = {[id |-> i, card |-> IF pc = "uploading"
                                         THEN cand.sources[i] ELSE NoCard]
                      : i \in batch}
  BY DEF Retry
<1>2. MarkerInv'
  BY <1>1 DEF MarkerInv, disk, memory
<1>3. ManifestInv'
  BY <1>1 DEF ManifestInv, Held, disk, memory
<1>4. PhaseInv'
  BY <1>1 DEF PhaseInv, disk
<1>5. RequestInv'
  BY <1>1 DEF RequestInv
<1>6. ProgressInv'
  <2>1. \A i \in batch : \E w \in request' : w.id = i
    <3> TAKE i \in batch
    <3>1. [id |-> i, card |-> IF pc = "uploading" THEN cand.sources[i]
                                                 ELSE NoCard] \in request'
      BY <1>1
    <3>2. QED
      BY <3>1
  <2>2. QED
    BY <1>1, <2>1 DEF ProgressInv
<1>7. UntouchedInv'
  BY <1>1 DEF UntouchedInv, disk, memory
<1>8. QED
  BY <1>2, <1>3, <1>4, <1>5, <1>6, <1>7

LEMMA PollIInv ==
  ASSUME TypeOK, IInv, NEW i \in Ids, Poll(i)
  PROVE  IInv'
<1> USE DEF IInv, Running, Calling, Checkpoints
<1>1. /\ pc = "verify" /\ i \in unverified /\ remote[i].state = "completed"
      /\ unverified' = unverified \ {i}
      /\ pc' = PhaseFor(toClear, toUpload, unverified', toDelete)
      /\ pc' \in {"clear", "upload", "verify", "delete", "persist"}
      /\ UNCHANGED <<disk, hydra, memory, cand, toClear, toUpload, toDelete,
                     batch, attempts, wrote>>
  BY PhaseForType DEF Poll
<1>2. MarkerInv'
  BY <1>1 DEF MarkerInv, disk, hydra, memory
<1>3. ManifestInv'
  BY <1>1 DEF ManifestInv, Held, disk, hydra, memory
<1>4. toUpload = {} /\ toClear = {}
  BY <1>1 DEF PhaseInv
<1>5. PhaseInv'
  BY <1>1, <1>4, PhaseForEmpty DEF PhaseInv, disk, hydra
<1>6. RequestInv'
  BY <1>1 DEF RequestInv, PhaseInv, hydra
<1>7. ProgressInv'
  BY <1>1, <1>4 DEF ProgressInv, hydra
<1>8. UntouchedInv'
  BY <1>1 DEF UntouchedInv, disk, memory
<1>9. QED
  BY <1>2, <1>3, <1>5, <1>6, <1>7, <1>8

(* When nothing is left to do the candidate is completely held.             *)
LEMMA CandidateHeld ==
  ASSUME TypeOK, IInv, pc \in {"persist", "unmark"}
  PROVE  /\ Held(cand)
         /\ WellFormed(cand)
         /\ ~marker => cand = man
<1> USE DEF IInv, Running, Calling, Checkpoints
<1>1. toUpload = {} /\ unverified = {} /\ toDelete = {} /\ WellFormed(cand)
  BY DEF PhaseInv
<1>2. Held(cand)
  BY <1>1 DEF ProgressInv, Held
<1>3. ASSUME ~marker PROVE cand = man
  <2>1. \A i \in Ids : cand.sources[i] = man.sources[i]
    BY <1>1, <1>3 DEF UntouchedInv
  <2>2. cand.sources = man.sources
    BY <2>1 DEF TypeOK, Manifests, Snapshots
  <2>3. QED
    BY <1>1, <2>2, SourcesDetermine DEF TypeOK, ManifestInv
<1>4. QED
  BY <1>1, <1>2, <1>3

LEMMA PersistIInv ==
  ASSUME TypeOK, IInv, PersistManifest
  PROVE  IInv'
<1> USE DEF IInv, Running, Calling, Checkpoints
<1>1. /\ pc = "persist" /\ pc' = "unmark" /\ mfile' = cand
      /\ UNCHANGED <<marker, hydra, memory, cand, toClear, toUpload,
                     unverified, toDelete, batch, attempts, wrote>>
  BY DEF PersistManifest
<1>2. MarkerInv'
  BY <1>1 DEF MarkerInv, hydra, memory
<1>3. ManifestInv'
  BY <1>1, CandidateHeld DEF ManifestInv, Held, hydra, memory
<1>4. PhaseInv'
  BY <1>1 DEF PhaseInv, hydra
<1>5. RequestInv'
  BY <1>1 DEF RequestInv, hydra
<1>6. ProgressInv'
  BY <1>1 DEF ProgressInv, hydra
<1>7. UntouchedInv'
  BY <1>1 DEF UntouchedInv, memory
<1>8. QED
  BY <1>2, <1>3, <1>4, <1>5, <1>6, <1>7

(* After the end of a sync, or a crash, only markers and manifests matter.  *)
LEMMA OverIInv ==
  ASSUME ForgetOperation, pc' \in {"idle", "down"}, request' = {},
         MarkerInv', ManifestInv'
  PROVE  IInv'
<1>1. PhaseInv' /\ RequestInv' /\ ProgressInv' /\ UntouchedInv'
  BY DEF PhaseInv, RequestInv, ProgressInv, UntouchedInv, ForgetOperation,
         Running, Calling, Checkpoints
<1>2. QED
  BY <1>1 DEF IInv

LEMMA PublishIInv ==
  ASSUME TypeOK, IInv, Publish
  PROVE  IInv'
<1> USE DEF IInv, Running, Calling, Checkpoints
<1>1. /\ pc = "unmark" /\ pc' = "idle" /\ man' = cand
      /\ marker' = FALSE /\ interrupted' = FALSE /\ indet' = FALSE
      /\ ForgetOperation
      /\ UNCHANGED <<mfile, hydra>>
  BY DEF Publish, EndOperation
<1>2. request' = {} /\ mfile = cand /\ ~wrote'
  BY <1>1 DEF PhaseInv, hydra, ForgetOperation
<1>3. MarkerInv'
  BY <1>1, <1>2 DEF MarkerInv, hydra
<1>4. ManifestInv'
  BY <1>1, <1>2, CandidateHeld DEF ManifestInv, Held, hydra
<1>5. QED
  BY <1>1, <1>2, <1>3, <1>4, OverIInv

LEMMA FailureIInv ==
  ASSUME LateWrites = FALSE, TypeOK, IInv, Failure
  PROVE  IInv'
<1> USE DEF IInv, Running, Calling, Checkpoints
<1>1. /\ pc \in Running
      /\ pc' = "idle" /\ ForgetOperation /\ ~wrote'
      /\ UNCHANGED <<mfile, marker, remote, man, interrupted>>
  BY DEF Failure, Rejected, Unavailable, Cancel, MarkerFails, SaveFails,
         Escapes, EndOperation, ForgetOperation, disk, hydra, memory
<1>2. late' = {} /\ request' = {}
  BY DEF Failure, Rejected, Unavailable, Cancel, MarkerFails, SaveFails,
         Escapes, MarkerInv, PhaseInv, hydra
<1>3. marker => indet'
  BY DEF Failure, Rejected, Unavailable, Cancel, MarkerFails, SaveFails,
         Escapes, MarkerInv, memory, TypeOK
<1>4. MarkerInv'
  BY <1>1, <1>2, <1>3 DEF MarkerInv
<1>5. ManifestInv'
  BY <1>1 DEF ManifestInv, Held
<1>6. QED
  BY <1>1, <1>2, <1>4, <1>5, OverIInv

LEMMA CrashIInv ==
  ASSUME LateWrites = FALSE, TypeOK, IInv, Crash
  PROVE  IInv'
<1> USE DEF IInv, Running, Calling, Checkpoints
<1>1. /\ pc' = "down" /\ ForgetOperation /\ ~wrote' /\ request' = {}
      /\ late' = {} /\ man' = EmptyManifest
      /\ UNCHANGED <<mfile, marker, remote>>
  BY DEF Crash, ForgetOperation, MarkerInv, disk
<1>2. MarkerInv'
  BY <1>1 DEF MarkerInv
<1>3. ManifestInv'
  BY <1>1, EmptyIsWellFormed DEF ManifestInv, Held
<1>4. QED
  BY <1>1, <1>2, <1>3, OverIInv

LEMMA RestartIInv ==
  ASSUME TypeOK, IInv, Restart
  PROVE  IInv'
<1> USE DEF IInv, Running, Calling, Checkpoints
<1>1. /\ pc = "down" /\ pc' = "idle"
      /\ interrupted' = marker /\ indet' = marker /\ man' = mfile
      /\ UNCHANGED <<disk, hydra, cand, toClear, toUpload, unverified,
                     toDelete, batch, attempts, wrote>>
  BY DEF Restart
<1>2. MarkerInv'
  BY <1>1 DEF MarkerInv, disk, hydra
<1>3. ManifestInv'
  BY <1>1 DEF ManifestInv, Held, disk, hydra
<1>4. PhaseInv'
  BY <1>1 DEF PhaseInv, hydra
<1>5. RequestInv' /\ ProgressInv' /\ UntouchedInv'
  BY <1>1 DEF RequestInv, ProgressInv, UntouchedInv, hydra
<1>6. QED
  BY <1>2, <1>3, <1>4, <1>5

(* HydraDB applies an outstanding write: a delete touches nothing the       *)
(* candidate keeps, an upsert only what is not acknowledged yet.            *)
LEMMA AppliesIInv ==
  ASSUME TypeOK, IInv, HydraApplies
  PROVE  IInv'
<1> USE DEF IInv, Running, Calling, Checkpoints
<1>1. PICK w \in request :
        /\ remote' = [remote EXCEPT ![w.id] = Stored(remote[w.id], w.card)]
        /\ request' = request \ {w}
        /\ UNCHANGED <<disk, memory, operation, late>>
  BY DEF HydraApplies, Apply
<1>2. /\ pc \in Calling /\ marker /\ w.id \in batch /\ w.id \in Ids
      /\ w.card = IF pc = "uploading" THEN cand.sources[w.id] ELSE NoCard
  BY DEF PhaseInv, MarkerInv, RequestInv, TypeOK, Writes
<1>3. MarkerInv'
  BY <1>1 DEF MarkerInv, disk, memory, operation
<1>4. ManifestInv'
  BY <1>1, <1>2 DEF ManifestInv, disk, memory, operation
<1>5. PhaseInv'
  BY <1>1, <1>2 DEF PhaseInv, disk, operation
<1>6. RequestInv'
  BY <1>1 DEF RequestInv, operation
<1>7. ProgressInv'
  <2>1. \A i \in Ids : i # w.id => remote'[i] = remote[i]
    BY <1>1 DEF TypeOK
  <2>2. CASE pc = "uploading"
    <3>1. w.id \in Present(cand.sources) /\ w.id \in toUpload
          /\ w.id \in unverified
      BY <1>2, <2>2 DEF PhaseInv
    <3>2. remote'[w.id].card = cand.sources[w.id]
      BY <1>1, <1>2, <2>2, <3>1 DEF Stored, Present, TypeOK
    <3>3. QED
      BY <1>1, <1>2, <2>1, <2>2, <3>1, <3>2 DEF ProgressInv, operation, Present
  <2>3. CASE pc = "clearing"
    <3>1. w.id \in toUpload /\ w.id \in unverified
      BY <1>2, <2>3 DEF PhaseInv
    <3>2. QED
      BY <1>1, <1>2, <2>1, <2>3, <3>1 DEF ProgressInv, operation, Present
  <2>4. CASE pc = "deleting"
    <3>1. w.id \notin Present(cand.sources)
      BY <1>2, <2>4 DEF PhaseInv
    <3>2. QED
      BY <1>1, <1>2, <2>1, <2>4, <3>1 DEF ProgressInv, operation, Present
  <2>5. QED
    BY <1>2, <2>2, <2>3, <2>4
<1>8. UntouchedInv'
  BY <1>1, <1>2 DEF UntouchedInv, disk, operation
<1>9. QED
  BY <1>3, <1>4, <1>5, <1>6, <1>7, <1>8

LEMMA IndexesIInv ==
  ASSUME TypeOK, IInv, NEW j \in Ids, HydraIndexes(j)
  PROVE  IInv'
<1> USE DEF IInv, Running, Calling, Checkpoints
<1>1. /\ remote[j].state = "processing"
      /\ UNCHANGED <<disk, request, late, memory, operation>>
      /\ \E outcome \in {"completed", "errored"} :
           remote' = [remote EXCEPT ![j].state = outcome]
  BY DEF HydraIndexes
<1>2. \A i \in Ids : /\ remote'[i].card = remote[i].card
                     /\ remote[i].state = "completed"
                          => remote'[i].state = "completed"
  BY <1>1 DEF TypeOK, Sources
<1>3. MarkerInv'
  BY <1>1 DEF MarkerInv, disk, memory, operation
<1>4. ManifestInv'
  BY <1>1, <1>2 DEF ManifestInv, Held, Present, disk, memory, operation
<1>5. PhaseInv'
  BY <1>1 DEF PhaseInv, disk, operation
<1>6. RequestInv'
  BY <1>1 DEF RequestInv, operation
<1>7. ProgressInv'
  BY <1>1, <1>2 DEF ProgressInv, Present, operation
<1>8. UntouchedInv'
  BY <1>1 DEF UntouchedInv, disk, memory, operation
<1>9. QED
  BY <1>3, <1>4, <1>5, <1>6, <1>7, <1>8

LEMMA StutterIInv ==
  ASSUME IInv, UNCHANGED vars
  PROVE  IInv'
BY DEF vars, IInv, MarkerInv, ManifestInv, PhaseInv, RequestInv, ProgressInv,
       UntouchedInv, Held

LEMMA NextIInv ==
  ASSUME LateWrites = FALSE, TypeOK, IInv, [Next]_vars
  PROVE  IInv'
<1>1. CASE HydraAppliesLate
  BY <1>1 DEF HydraAppliesLate, IInv, MarkerInv
<1>2. CASE Progress
  BY <1>2, EnterIInv, SendIInv, AcknowledgedIInv, RetryIInv, PollIInv,
     PersistIInv, PublishIInv DEF Progress
<1>3. CASE HydraApplies \/ \E i \in Ids : HydraIndexes(i)
  BY <1>3, AppliesIInv, IndexesIInv
<1>4. QED
  BY <1>1, <1>2, <1>3, BeginIInv, FailureIInv, CrashIInv, RestartIInv,
     StutterIInv DEF Next, Hydra

LEMMA OnlyPersistMovesManifest ==
  ASSUME Next, mfile' # mfile
  PROVE  PersistManifest
BY DEF Next, Progress, Failure, Hydra, Begin, Enter, SendClear, SendUpload,
       SendDelete, Send, Acknowledged, Retry, Poll, Publish, Rejected,
       Unavailable, Cancel, MarkerFails, SaveFails, Escapes, Crash, Restart,
       HydraApplies, HydraAppliesLate, Apply, HydraIndexes, disk

----------------------------------------------------------------------------
(* The theorems.                                                            *)

THEOREM Inductive ==
  ASSUME LateWrites = FALSE
  PROVE  Spec => [](TypeOK /\ IInv)
<1>1. Init => IInv
  BY InitIInv
<1>2. TypeOK /\ IInv /\ [Next]_vars => IInv'
  BY NextIInv
<1>3. QED
  BY <1>1, <1>2, TypeCorrect, PTL DEF Spec

(* Queries that pass the gate read exactly the verified revision, whatever  *)
(* failed, was cancelled or crashed before (sync.py _set_state, __init__).  *)
THEOREM OpenGate ==
  ASSUME LateWrites = FALSE
  PROVE  Spec => []OpenGateMeansHeld
<1>1. TypeOK /\ IInv => OpenGateMeansHeld
  <2> SUFFICES ASSUME TypeOK, IInv, GateOpen PROVE Held(man)
    BY DEF OpenGateMeansHeld
  <2>1. pc \notin Running /\ pc # "down" /\ ~marker
    BY DEF GateOpen, IInv, MarkerInv
  <2>2. QED
    BY <2>1 DEF IInv, ManifestInv
<1>2. QED
  BY <1>1, Inductive, PTL

(* Without a marker the manifest on disk is true (sync.py                   *)
(* _persist_in_progress, _persist_manifest, _clear_in_progress).            *)
THEOREM UnmarkedDisk ==
  ASSUME LateWrites = FALSE
  PROVE  Spec => []UnmarkedDiskIsHeld
<1>1. IInv => UnmarkedDiskIsHeld
  BY DEF IInv, ManifestInv, UnmarkedDiskIsHeld
<1>2. QED
  BY <1>1, Inductive, PTL

(* A service that lets queries through and one restarted from its files     *)
(* agree on the verified revision (sync.py _load_manifest, _set_state).     *)
THEOREM OpenGateDisk ==
  ASSUME LateWrites = FALSE
  PROVE  Spec => []OpenGateMatchesDisk
<1>1. TypeOK /\ IInv => OpenGateMatchesDisk
  <2> SUFFICES ASSUME TypeOK, IInv, GateOpen PROVE man = mfile /\ ~marker
    BY DEF OpenGateMatchesDisk
  <2>1. pc \notin Running /\ pc # "down" /\ ~marker
    BY DEF GateOpen, IInv, MarkerInv
  <2>2. QED
    BY <2>1 DEF IInv, ManifestInv
<1>2. QED
  BY <1>1, Inductive, PTL

(* The saved manifest only ever moves to a snapshot HydraDB holds (sync.py  *)
(* _sync_locked saves last).                                                *)
THEOREM ManifestAdvances ==
  ASSUME LateWrites = FALSE
  PROVE  Spec => ManifestAdvancesWhenHeld
<1>1. TypeOK /\ IInv /\ [Next]_vars => [mfile' # mfile => Held(mfile')]_vars
  <2> SUFFICES ASSUME TypeOK, IInv, Next, mfile' # mfile
               PROVE  Held(mfile')
    BY DEF vars
  <2>1. PersistManifest
    BY OnlyPersistMovesManifest
  <2>2. QED
    BY <2>1, CandidateHeld DEF PersistManifest
<1>2. QED
  BY <1>1, Inductive, PTL DEF Spec, ManifestAdvancesWhenHeld

----------------------------------------------------------------------------
(* SyncService implements VerifiedRevision.                                 *)

LEMMA HeldAgrees ==
  ASSUME NEW m, Held(m)
  PROVE  Promise!Agrees(m.sources, Content)
BY DEF Promise!Agrees, Held, Present, Content

LEMMA OnlyHydraMovesRemote ==
  ASSUME Next, remote' # remote
  PROVE  UNCHANGED <<mfile, pc, status, indet>>
BY DEF Next, Progress, Failure, Hydra, Begin, Enter, SendClear, SendUpload,
       SendDelete, Send, Acknowledged, Retry, Poll, PersistManifest, Publish,
       Rejected, Unavailable, Cancel, MarkerFails, SaveFails, Escapes, Crash,
       Restart, HydraApplies, HydraAppliesLate, Apply, HydraIndexes, disk,
       hydra, memory, operation

(* Every step of a sync, its failures, crashes and restarts is a step the   *)
(* promise allows, or none at all (sync.py against VerifiedRevision).       *)
THEOREM Refinement ==
  ASSUME LateWrites = FALSE
  PROVE  Spec => PromiseKept
<1>1. Init => Promise!Init
  BY DEF Init, Promise!Init, GateOpen, Content, EmptyManifest, NoSources,
         NoSource
<1>2. TypeOK /\ IInv /\ TypeOK' /\ IInv' /\ [Next]_vars
        => [Promise!Next]_(Promise!promise)
  <2> SUFFICES ASSUME TypeOK, IInv, TypeOK', IInv', [Next]_vars,
                      ~ UNCHANGED <<mfile.sources, GateOpen, Content>>
               PROVE  Promise!Next
    BY DEF Promise!promise
  <2>1. Next
    BY DEF vars, GateOpen, Content
  <2>2. CASE mfile' # mfile
    <3>1. PersistManifest
      BY <2>1, <2>2, OnlyPersistMovesManifest
    <3>2. ~GateOpen /\ UNCHANGED <<GateOpen, Content>>
      BY <3>1 DEF PersistManifest, GateOpen, Content, IInv, MarkerInv, Running,
                  hydra, memory
    <3>3. Promise!Agrees(mfile'.sources, Content)
      BY <3>1, CandidateHeld, HeldAgrees DEF PersistManifest
    <3>4. mfile'.sources \in Promise!Snapshot
      BY DEF TypeOK, Manifests, Snapshots, Promise!Snapshot
    <3>5. QED
      BY <3>2, <3>3, <3>4 DEF Promise!Next, Promise!Advance
  <2>3. CASE mfile' = mfile /\ remote' # remote
    <3>1. UNCHANGED <<mfile.sources, GateOpen>>
      BY <2>1, <2>3, OnlyHydraMovesRemote DEF GateOpen
    <3>2. Content' \in Promise!Snapshot
      BY DEF TypeOK, Content, Promise!Snapshot, Sources
    <3>3. GateOpen => Promise!Agrees(mfile.sources, Content')
      <4> SUFFICES ASSUME GateOpen PROVE Promise!Agrees(mfile.sources, Content')
        OBVIOUS
      <4>1. pc' \notin Running /\ pc' # "down" /\ ~marker'
        BY <3>1 DEF GateOpen, IInv, MarkerInv
      <4>2. Held(mfile)'
        BY <4>1 DEF IInv, ManifestInv
      <4>3. QED
        BY <2>3, <4>2 DEF Promise!Agrees, Held, Present, Content
    <3>4. QED
      BY <3>1, <3>2, <3>3 DEF Promise!Next, Promise!Change, Promise!Settle
  <2>4. CASE mfile' = mfile /\ remote' = remote
    <3>1. UNCHANGED <<mfile.sources, Content>> /\ GateOpen' # GateOpen
      BY <2>4 DEF Content
    <3>2. GateOpen' => Promise!Agrees(mfile.sources, Content)
      <4> SUFFICES ASSUME GateOpen' PROVE Promise!Agrees(mfile.sources, Content)
        OBVIOUS
      <4>1. pc' \notin Running /\ pc' # "down" /\ ~marker'
        BY DEF GateOpen, IInv, MarkerInv
      <4>2. Held(mfile)'
        BY <4>1 DEF IInv, ManifestInv
      <4>3. QED
        BY <2>4, <4>2 DEF Promise!Agrees, Held, Present, Content
    <3>3. QED
      BY <3>1, <3>2 DEF Promise!Next, Promise!Open, Promise!Close, GateOpen
  <2>5. QED
    BY <2>2, <2>3, <2>4
<1>3. QED
  BY <1>1, <1>2, Inductive, PTL DEF Spec, PromiseKept, Promise!Spec

----------------------------------------------------------------------------
(* What keeps a sync from going on for ever, also when abandoned calls have  *)
(* late effects.  A call is sent, sent again at most MaxRetries times and     *)
(* answered; a source is reported completed once; StepsLeft is how many       *)
(* steps of the thread may still come.                                       *)
CallSteps == MaxRetries + 2
Calls == Cardinality(toClear) + Cardinality(toUpload) + Cardinality(toDelete)
WorkLeft == Calls * CallSteps + Cardinality(unverified)
StepsLeft ==
  CASE pc = "start"     -> WorkLeft + 3
    [] pc \in Calling   -> WorkLeft + 1 - attempts
    [] pc = "unmark"    -> 1
    [] pc \in {"clear", "upload", "verify", "delete", "persist"} -> WorkLeft + 2
    [] OTHER            -> 0
MostSteps == 3 * Cardinality(Ids) * CallSteps + Cardinality(Ids) + 3

(* Every call is about something that is still to be done.                   *)
BatchInv ==
  /\ pc = "clear" => toClear # {}
  /\ pc = "upload" => toUpload # {}
  /\ pc = "delete" => toDelete # {}
  /\ pc \in Calling => batch # {}
  /\ pc = "clearing" => batch \subseteq toClear
  /\ pc = "uploading" => batch \subseteq toUpload
  /\ pc = "deleting" => batch \subseteq toDelete

StepsBounded == StepsLeft \in 0..MostSteps
StepsRunOut ==
  [][/\ Progress \/ Failure => StepsLeft' < StepsLeft
     /\ pc \in Running => StepsLeft' <= StepsLeft]_vars

LEMMA BatchStep ==
  ASSUME TypeOK, BatchInv, [Next]_vars
  PROVE  BatchInv'
<1> USE DEF Calling
<1>1. ASSUME NEW ids, NEW size \in Nat \ {0}, NEW b, Slice(ids, b, size), ids # {}
      PROVE  b # {} /\ b \subseteq ids
  BY <1>1, FS_EmptySet DEF Slice
<1>2. CASE SendClear
  <2>1. pc' = "clearing" /\ batch' # {} /\ batch' \subseteq toClear'
    BY <1>1, <1>2, BatchAssumption DEF SendClear, Send, BatchInv
  <2>2. QED
    BY <2>1 DEF BatchInv
<1>3. CASE SendUpload
  <2>1. pc' = "uploading" /\ batch' # {} /\ batch' \subseteq toUpload'
    BY <1>1, <1>3, BatchAssumption DEF SendUpload, Send, BatchInv
  <2>2. QED
    BY <2>1 DEF BatchInv
<1>4. CASE SendDelete
  <2>1. pc' = "deleting" /\ batch' # {} /\ batch' \subseteq toDelete'
    BY <1>4 DEF SendDelete, Send, BatchInv
  <2>2. QED
    BY <2>1 DEF BatchInv
<1>5. CASE pc' = PhaseFor(toClear', toUpload', unverified', toDelete')
  <2>1. /\ pc' = "clear" => toClear' # {}
        /\ pc' = "upload" => toUpload' # {}
        /\ pc' = "delete" => toDelete' # {}
        /\ pc' \in {"clear", "upload", "verify", "delete", "persist"}
    BY <1>5, PhaseForType DEF PhaseFor
  <2>2. QED
    BY <2>1 DEF BatchInv
<1>6. CASE pc' \in {"start", "unmark", "idle", "down"}
  BY <1>6 DEF BatchInv
<1>7. CASE UNCHANGED <<pc, toClear, toUpload, toDelete, batch>>
  BY <1>7 DEF BatchInv
<1>8. CASE Progress
  BY <1>2, <1>3, <1>4, <1>5, <1>6, <1>7, <1>8
     DEF Progress, Enter, Acknowledged, Retry, Poll, PersistManifest, Publish, EndOperation
<1>9. CASE Failure
  BY <1>6, <1>9 DEF Failure, Rejected, Unavailable, Cancel, MarkerFails, SaveFails,
                    Escapes, EndOperation
<1>10. CASE Hydra
  BY <1>7, <1>10 DEF Hydra, HydraApplies, HydraAppliesLate, HydraIndexes, Apply, operation
<1>11. CASE Begin \/ Crash \/ Restart
  BY <1>6, <1>11 DEF Begin, Crash, Restart
<1>12. CASE UNCHANGED vars
  BY <1>7, <1>12 DEF vars
<1>13. QED
  BY <1>8, <1>9, <1>10, <1>11, <1>12 DEF Next

LEMMA Multiples ==
  ASSUME NEW a \in Nat, NEW b \in Nat
  PROVE  /\ a * CallSteps \in Nat /\ b * CallSteps \in Nat
         /\ (a + b) * CallSteps = a * CallSteps + b * CallSteps
         /\ b > 0 => b * CallSteps >= CallSteps
<1>1. CallSteps \in Nat
  BY RetryAssumption DEF CallSteps
<1> HIDE DEF CallSteps
<1>2. \A x, y, c \in Nat : /\ x * c \in Nat
                           /\ (x + y) * c = x * c + y * c
                           /\ y > 0 => y * c >= c
  <2>1. \A x, y, c \in Nat : x * c \in Nat /\ (x + y) * c = x * c + y * c
    BY SMT
  <2>2. ASSUME NEW y \in Nat, NEW c \in Nat, y > 0 PROVE y * c >= c
    <3>1. y - 1 \in Nat /\ y = (y - 1) + 1 /\ 1 * c = c
      BY <2>2
    <3>2. y * c = (y - 1) * c + 1 * c /\ (y - 1) * c \in Nat
      BY <2>1, <3>1
    <3>3. QED
      BY <3>1, <3>2
  <2>3. QED
    BY <2>1, <2>2
<1>3. QED
  BY <1>1, <1>2

LEMMA Counting ==
  ASSUME IsFiniteSet(Ids), NEW S, S \subseteq Ids
  PROVE  /\ IsFiniteSet(S) /\ Cardinality(S) \in Nat /\ Cardinality(S) <= Cardinality(Ids)
         /\ Cardinality(Ids) \in Nat /\ S # {} => Cardinality(S) > 0
BY FS_Subset, FS_CardinalityType, FS_EmptySet

LEMMA Work ==
  ASSUME IsFiniteSet(Ids), TypeOK, BatchInv
  PROVE  /\ Calls \in Nat /\ Calls <= 3 * Cardinality(Ids)
         /\ Calls * CallSteps \in Nat /\ Cardinality(unverified) \in Nat
         /\ WorkLeft \in Nat /\ WorkLeft + 3 <= MostSteps
         /\ pc \in Calling => Calls > 0 /\ WorkLeft >= CallSteps
         /\ MostSteps \in Nat /\ MostSteps >= 3
<1> DEFINE n == Cardinality(Ids)
           u == Cardinality(unverified)
<1>1. /\ {toClear, toUpload, toDelete, unverified} \subseteq SUBSET Ids
      /\ n \in Nat /\ u \in Nat /\ u <= n
  BY Counting DEF TypeOK
<1>2. Calls \in Nat /\ Calls <= 3 * n
  <2>1. /\ Cardinality(toClear) \in Nat /\ Cardinality(toClear) <= n
        /\ Cardinality(toUpload) \in Nat /\ Cardinality(toUpload) <= n
        /\ Cardinality(toDelete) \in Nat /\ Cardinality(toDelete) <= n
    BY <1>1, Counting
  <2>2. QED
    BY <1>1, <2>1 DEF Calls
<1>3. pc \in Calling => Calls > 0
  <2> SUFFICES ASSUME pc \in Calling PROVE Calls > 0
    OBVIOUS
  <2>1. toClear # {} \/ toUpload # {} \/ toDelete # {}
    BY DEF BatchInv, Calling
  <2>2. /\ Cardinality(toClear) \in Nat /\ (toClear # {} => Cardinality(toClear) > 0)
        /\ Cardinality(toUpload) \in Nat /\ (toUpload # {} => Cardinality(toUpload) > 0)
        /\ Cardinality(toDelete) \in Nat /\ (toDelete # {} => Cardinality(toDelete) > 0)
    BY <1>1, Counting
  <2>3. QED
    BY <2>1, <2>2 DEF Calls
<1>4. /\ Calls * CallSteps \in Nat /\ (3 * n) * CallSteps \in Nat
      /\ Calls * CallSteps <= (3 * n) * CallSteps
      /\ Calls > 0 => Calls * CallSteps >= CallSteps
  <2>1. 3 * n - Calls \in Nat /\ Calls + (3 * n - Calls) = 3 * n
    BY <1>1, <1>2
  <2> DEFINE rest == 3 * n - Calls
  <2> HIDE DEF rest
  <2>2. /\ Calls * CallSteps \in Nat /\ rest * CallSteps \in Nat
        /\ (Calls + rest) * CallSteps = Calls * CallSteps + rest * CallSteps
        /\ Calls > 0 => Calls * CallSteps >= CallSteps
    <3>1. rest \in Nat
      BY <2>1 DEF rest
    <3>2. QED
      BY <1>2, <3>1, Multiples
  <2>3. Calls + rest = 3 * n
    BY <2>1 DEF rest
  <2>4. QED
    BY <2>2, <2>3
<1>5. CallSteps \in Nat
  BY RetryAssumption DEF CallSteps
<1> HIDE DEF n, u
<1>6. WorkLeft = Calls * CallSteps + u /\ MostSteps = (3 * n) * CallSteps + n + 3
  BY DEF WorkLeft, MostSteps, n, u
<1> DEFINE w == Calls * CallSteps
           m == (3 * n) * CallSteps
<1>7. /\ w \in Nat /\ m \in Nat /\ w <= m /\ (Calls > 0 => w >= CallSteps)
      /\ WorkLeft = w + u /\ MostSteps = m + n + 3
  BY <1>4, <1>6
<1> HIDE DEF w, m
<1>8. /\ WorkLeft \in Nat /\ WorkLeft + 3 <= MostSteps /\ MostSteps \in Nat /\ MostSteps >= 3
      /\ Calls > 0 => WorkLeft >= CallSteps
  BY <1>1, <1>5, <1>7
<1>9. QED
  BY <1>1, <1>2, <1>3, <1>4, <1>8 DEF n, u

LEMMA StepsKnown ==
  ASSUME IsFiniteSet(Ids), TypeOK, BatchInv
  PROVE  StepsLeft \in 0..MostSteps /\ (pc \in Running => StepsLeft > 0)
<1>1. attempts \in Nat /\ attempts <= MaxRetries /\ MaxRetries \in Nat /\ CallSteps = MaxRetries + 2
  BY RetryAssumption DEF TypeOK, CallSteps
<1>2. CASE pc \in Calling
  <2>1. StepsLeft = WorkLeft + 1 - attempts
    BY <1>2 DEF StepsLeft, Calling
  <2>2. QED
    BY <1>1, <1>2, <2>1, Work
<1>3. CASE pc = "start"
  <2>1. StepsLeft = WorkLeft + 3
    BY <1>3 DEF StepsLeft, Calling
  <2>2. QED
    BY <2>1, Work
<1>4. CASE pc \in {"clear", "upload", "verify", "delete", "persist"}
  <2>1. StepsLeft = WorkLeft + 2
    BY <1>4 DEF StepsLeft, Calling
  <2>2. QED
    BY <2>1, Work
<1>5. CASE pc = "unmark"
  <2>1. StepsLeft = 1
    BY <1>5 DEF StepsLeft, Calling
  <2>2. QED
    BY <2>1, Work
<1>6. CASE pc \in {"idle", "down"}
  <2>1. StepsLeft = 0 /\ pc \notin Running
    BY <1>6 DEF StepsLeft, Calling, Running, Checkpoints
  <2>2. QED
    BY <2>1, Work
<1>7. QED
  BY <1>2, <1>3, <1>4, <1>5, <1>6 DEF TypeOK, Running, Calling, Checkpoints

(* A step of the thread leaves it fewer, whichever way it goes.              *)
LEMMA ThreadStep ==
  ASSUME IsFiniteSet(Ids), TypeOK, BatchInv, TypeOK', BatchInv', Progress \/ Failure
  PROVE  StepsLeft' < StepsLeft /\ StepsLeft' <= StepsLeft
<1> DEFINE Plan == {"clear", "upload", "verify", "delete", "persist"}
<1>1. /\ attempts \in Nat /\ attempts <= MaxRetries /\ MaxRetries \in Nat
      /\ attempts' \in Nat /\ attempts' <= MaxRetries /\ CallSteps = MaxRetries + 2
  BY RetryAssumption DEF TypeOK, CallSteps
<1>2. /\ WorkLeft \in Nat /\ Calls * CallSteps \in Nat /\ Cardinality(unverified) \in Nat
      /\ Calls \in Nat /\ WorkLeft = Calls * CallSteps + Cardinality(unverified)
  BY Work DEF WorkLeft
<1>3. /\ pc \in Plan => StepsLeft = WorkLeft + 2
      /\ pc \in Calling => StepsLeft = WorkLeft + 1 - attempts
      /\ pc = "start" => StepsLeft = WorkLeft + 3
      /\ pc = "unmark" => StepsLeft = 1
  BY DEF StepsLeft, Calling
<1>4. /\ pc' \in Plan => StepsLeft' = WorkLeft' + 2
      /\ pc' \in Calling => StepsLeft' = WorkLeft' + 1 - attempts'
      /\ pc' = "unmark" => StepsLeft' = 1
      /\ pc' = "idle" => StepsLeft' = 0
  BY DEF StepsLeft, Calling
<1>5. UNCHANGED <<toClear, toUpload, toDelete, unverified>> => WorkLeft' = WorkLeft
  BY DEF WorkLeft, Calls
<1>6. CASE Enter
  <2>1. pc = "start" /\ pc' \in Plan /\ WorkLeft' = WorkLeft
    BY <1>5, <1>6, PhaseForType DEF Enter
  <2>2. QED
    BY <1>2, <1>3, <1>4, <2>1
<1>7. CASE SendClear \/ SendUpload \/ SendDelete
  <2>1. pc \in Plan /\ pc' \in Calling /\ WorkLeft' = WorkLeft /\ attempts' = 0
    BY <1>5, <1>7 DEF SendClear, SendUpload, SendDelete, Send, Calling
  <2>2. QED
    BY <1>2, <1>3, <1>4, <2>1
<1>8. CASE Retry
  <2>1. pc \in Calling /\ pc' = pc /\ WorkLeft' = WorkLeft /\ attempts' = attempts + 1
    BY <1>5, <1>8 DEF Retry
  <2>2. QED
    BY <1>1, <1>2, <1>3, <1>4, <2>1
<1>9. CASE Acknowledged
  <2>1. pc \in Calling /\ pc' \in Plan /\ unverified' = unverified
    BY <1>9, PhaseForType DEF Acknowledged
  <2>2. Calls' < Calls /\ Calls' \in Nat
    <3>1. /\ toClear' \subseteq toClear /\ toUpload' \subseteq toUpload /\ toDelete' \subseteq toDelete
          /\ toClear' # toClear \/ toUpload' # toUpload \/ toDelete' # toDelete
      <4>1. batch # {}
        BY <2>1 DEF BatchInv
      <4>2. \A S : batch \subseteq S => S \ batch \subseteq S /\ S \ batch # S
        BY <4>1
      <4>3. CASE pc = "clearing"
        BY <1>9, <4>2, <4>3 DEF Acknowledged, BatchInv
      <4>4. CASE pc = "uploading"
        BY <1>9, <4>2, <4>4 DEF Acknowledged, BatchInv
      <4>5. CASE pc = "deleting"
        BY <1>9, <4>2, <4>5 DEF Acknowledged, BatchInv
      <4>6. QED
        BY <2>1, <4>3, <4>4, <4>5 DEF Calling
    <3>2. ASSUME NEW S, NEW T, S \subseteq Ids, T \subseteq S
          PROVE  /\ Cardinality(S) \in Nat /\ Cardinality(T) \in Nat
                 /\ Cardinality(T) <= Cardinality(S)
                 /\ T # S => Cardinality(T) < Cardinality(S)
      <4>1. IsFiniteSet(S)
        BY <3>2, FS_Subset
      <4>2. QED
        BY <3>2, <4>1, FS_Subset, FS_CardinalityType
    <3>3. toClear \subseteq Ids /\ toUpload \subseteq Ids /\ toDelete \subseteq Ids
      BY DEF TypeOK
    <3>4. /\ Cardinality(toClear) \in Nat /\ Cardinality(toClear') \in Nat
          /\ Cardinality(toClear') <= Cardinality(toClear)
          /\ toClear' # toClear => Cardinality(toClear') < Cardinality(toClear)
      BY <3>1, <3>2, <3>3
    <3>5. /\ Cardinality(toUpload) \in Nat /\ Cardinality(toUpload') \in Nat
          /\ Cardinality(toUpload') <= Cardinality(toUpload)
          /\ toUpload' # toUpload => Cardinality(toUpload') < Cardinality(toUpload)
      BY <3>1, <3>2, <3>3
    <3>6. /\ Cardinality(toDelete) \in Nat /\ Cardinality(toDelete') \in Nat
          /\ Cardinality(toDelete') <= Cardinality(toDelete)
          /\ toDelete' # toDelete => Cardinality(toDelete') < Cardinality(toDelete)
      BY <3>1, <3>2, <3>3
    <3>7. QED
      BY <3>1, <3>4, <3>5, <3>6 DEF Calls
  <2>3. WorkLeft' + CallSteps <= WorkLeft /\ WorkLeft' \in Nat
    <3> DEFINE done == Calls - Calls'
               rest == Calls'
    <3>1. done \in Nat /\ rest \in Nat /\ rest + done = Calls /\ done > 0
      <4>1. \A a, b \in Nat : b < a => a - b \in Nat /\ b + (a - b) = a /\ a - b > 0
        OBVIOUS
      <4>2. QED
        BY <1>2, <2>2, <4>1
    <3> HIDE DEF done
    <3>2. /\ rest * CallSteps \in Nat /\ done * CallSteps \in Nat /\ done * CallSteps >= CallSteps
          /\ Calls * CallSteps = rest * CallSteps + done * CallSteps
      <4> HIDE DEF rest
      <4>1. (rest + done) * CallSteps = rest * CallSteps + done * CallSteps
        BY <3>1, Multiples
      <4>2. QED
        BY <3>1, <4>1, Multiples
    <3>3. WorkLeft' = rest * CallSteps + Cardinality(unverified)
      BY <2>1 DEF WorkLeft, CallSteps
    <3> HIDE DEF rest
    <3>4. QED
      BY <1>1, <1>2, <3>2, <3>3
  <2>4. QED
    BY <1>1, <1>2, <1>3, <1>4, <2>1, <2>3
<1>10. ASSUME NEW i \in Ids, Poll(i) PROVE StepsLeft' < StepsLeft /\ StepsLeft' <= StepsLeft
  <2>1. /\ pc = "verify" /\ pc' \in Plan /\ unverified' = unverified \ {i} /\ i \in unverified
        /\ UNCHANGED <<toClear, toUpload, toDelete>>
    BY <1>10, PhaseForType DEF Poll
  <2>2. IsFiniteSet(unverified)
    BY Counting DEF TypeOK
  <2>3. Cardinality(unverified') = Cardinality(unverified) - 1
    BY <2>1, <2>2, FS_RemoveElement
  <2>4. WorkLeft' = Calls * CallSteps + Cardinality(unverified')
    BY <2>1 DEF WorkLeft, Calls, CallSteps
  <2>5. WorkLeft' = WorkLeft - 1
    BY <1>2, <2>3, <2>4
  <2>6. QED
    BY <1>2, <1>3, <1>4, <2>1, <2>5
<1>11. CASE PersistManifest
  <2>1. pc = "persist" /\ pc' = "unmark"
    BY <1>11 DEF PersistManifest
  <2>2. QED
    BY <1>2, <1>3, <1>4, <2>1
<1>12. CASE Publish \/ Failure
  <2>1. pc \in Running /\ pc' = "idle"
    BY <1>12 DEF Publish, Failure, Rejected, Unavailable, Cancel, MarkerFails, SaveFails, Escapes,
                 EndOperation, Running, Calling, Checkpoints
  <2>2. StepsLeft > 0 /\ StepsLeft \in Nat
    BY <2>1, StepsKnown, Work
  <2>3. QED
    BY <1>4, <2>1, <2>2
<1>13. QED
  BY <1>6, <1>7, <1>8, <1>9, <1>10, <1>11, <1>12 DEF Progress

LEMMA Batches == Spec => [](TypeOK /\ BatchInv)
<1>1. Init => BatchInv
  BY DEF Init, BatchInv, Calling
<1>2. TypeOK /\ BatchInv /\ [Next]_vars => BatchInv'
  BY BatchStep
<1>3. QED
  BY <1>1, <1>2, TypeCorrect, PTL DEF Spec

(* No sync of finitely many sources takes more than MostSteps steps: each     *)
(* source is in at most one call of a phase, a call is retried MaxRetries      *)
(* times (hydradb.py, _call; sync.py, _sync_locked).                         *)
THEOREM StepsAreBounded ==
  ASSUME IsFiniteSet(Ids)
  PROVE  Spec => []StepsBounded
<1>1. TypeOK /\ BatchInv => StepsBounded
  BY StepsKnown DEF StepsBounded
<1>2. QED
  BY <1>1, Batches, PTL

(* Each step of the thread of a sync leaves it fewer steps, and nothing that   *)
(* HydraDB or a crash does gives it more: the thread that holds                *)
(* _operation_lock, if it runs, gives it back (sync.py, _sync_locked).         *)
THEOREM SyncsRunOut ==
  ASSUME IsFiniteSet(Ids)
  PROVE  Spec => StepsRunOut
<1> DEFINE Fewer == /\ Progress \/ Failure => StepsLeft' < StepsLeft
                    /\ pc \in Running => StepsLeft' <= StepsLeft
<1>1. TypeOK /\ BatchInv /\ TypeOK' /\ BatchInv' /\ [Next]_vars => [Fewer]_vars
  <2> SUFFICES ASSUME TypeOK, BatchInv, TypeOK', BatchInv', [Next]_vars
               PROVE  Fewer
    OBVIOUS
  <2>1. StepsLeft \in Nat
    BY StepsKnown, Work
  <2>2. CASE Progress \/ Failure
    BY <2>1, <2>2, ThreadStep
  <2>3. CASE ~(Progress \/ Failure)
    <3>1. CASE pc' = "down"
      <4>1. StepsLeft' = 0
        BY <3>1 DEF StepsLeft, Calling
      <4>2. QED
        BY <2>1, <2>3, <4>1
    <3>2. CASE UNCHANGED <<pc, toClear, toUpload, toDelete, unverified, attempts>>
      <4>1. StepsLeft' = StepsLeft
        BY <3>2 DEF StepsLeft, WorkLeft, Calls
      <4>2. QED
        BY <2>1, <2>3, <4>1
    <3>3. CASE pc \in {"idle", "down"}
      BY <2>3, <3>3 DEF Running, Calling, Checkpoints
    <3>4. QED
      BY <2>3, <3>1, <3>2, <3>3 DEF Next, Begin, Crash, Restart, Hydra, HydraApplies,
                                    HydraAppliesLate, HydraIndexes, Apply, operation, vars
  <2>4. QED
    BY <2>2, <2>3
<1>2. QED
  BY <1>1, Batches, PTL DEF Spec, StepsRunOut
=============================================================================
