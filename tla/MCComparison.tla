--------------------------- MODULE MCComparison ---------------------------
(* Small instances of Comparison.                                           *)
EXTENDS Comparison

(* The change is published in one direction; the delta of the other, which    *)
(* undoes it, is too large.                                                 *)
Small == CHOOSE r \in Revisions : TRUE
LargeDeltas == {<<Small, r>> : r \in Revisions \ {Small}}

(* Several commands of other clients are explored apart from comparisons.     *)
CommandsApart ==
  commands > 1 => edits + faults = 0 /\ flow = NoPair /\ step = Quiet /\ \A s \in Slots : slots[s] = NoCheckpoint

(* A lens saved before was saved at the verified revision.                   *)
MCInit == CompareInit /\ baseline \in {NoRevision, tree}

MCSpec ==
  MCInit /\ [][CompareNext /\ CommandsApart']_compareVars /\ CompareFairness
=============================================================================
