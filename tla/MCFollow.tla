----------------------------- MODULE MCFollow -----------------------------
(* Small instances of Follow.                                               *)
EXTENDS Follow

(* Streams are explored apart from sessions, where more synchronisations fill *)
(* their queues.                                                            *)
StreamsApart == pinned # <<>> => open = {} /\ syncs <= 1

MCSpec == Init /\ [][Next /\ StreamsApart']_vars /\ Fairness
=============================================================================
