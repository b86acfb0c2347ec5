-------------------------- MODULE VerifiedRevision --------------------------
(***************************************************************************)
(* What synchronisation promises to everything that queries the project:    *)
(* there is one durable verified snapshot and a gate, and while the gate is  *)
(* open the collection holds the verified snapshot.  How uploads, failures,  *)
(* crashes and the safety marker achieve that is SyncService's business.     *)
(***************************************************************************)
CONSTANTS Ids,      \* source ids
          Cards,    \* what a source may contain
          NoCard    \* nothing retrievable under this id

VARIABLES verified,  \* the durable verified snapshot
          open,      \* queries are let through
          content    \* what the collection returns for every id

promise == <<verified, open, content>>

Snapshot == [Ids -> Cards \cup {NoCard}]

Agrees(snapshot, stored) ==
  \A i \in Ids : snapshot[i] # NoCard => stored[i] = snapshot[i]

Init ==
  /\ verified = [i \in Ids |-> NoCard]
  /\ open = TRUE
  /\ content = [i \in Ids |-> NoCard]

(* A sync starts, or the service dies.                                      *)
Close ==
  /\ open
  /\ open' = FALSE
  /\ UNCHANGED <<verified, content>>

(* Behind the closed gate the collection may change in any way.             *)
Change ==
  /\ ~open
  /\ content' \in Snapshot
  /\ UNCHANGED <<verified, open>>

(* Sources no verified snapshot mentions may change at any time.            *)
Settle ==
  /\ open
  /\ content' \in Snapshot
  /\ Agrees(verified, content')
  /\ UNCHANGED <<verified, open>>

(* A new snapshot is verified once the collection holds it.                 *)
Advance ==
  /\ ~open
  /\ verified' \in Snapshot
  /\ Agrees(verified', content)
  /\ UNCHANGED <<open, content>>

(* The gate opens only on agreement.                                        *)
Open ==
  /\ ~open
  /\ Agrees(verified, content)
  /\ open' = TRUE
  /\ UNCHANGED <<verified, content>>

Next == Close \/ Change \/ Settle \/ Advance \/ Open

Spec == Init /\ [][Next]_promise
=============================================================================
