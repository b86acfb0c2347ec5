------------------------- MODULE MCRepositoryQuery -------------------------
(* Small instances of RepositoryQuery.                                      *)
EXTENDS RepositoryQuery
=============================================================================
