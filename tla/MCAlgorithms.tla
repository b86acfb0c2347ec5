--------------------------- MODULE MCAlgorithms ---------------------------
(* Small instances of AnswerView and of GraphDelta, which share nothing: a    *)
(* behaviour is one of either.                                              *)
EXTENDS AnswerView, GraphDelta

(* Calls 1 -> 2 -> 3 -> 4 -> 2 with a cycle, a shortcut that is an import, the  *)
(* first call once more, and two relations without an identifier.              *)
Relation(id, source, predicate, target, exact) ==
  [id |-> id, source |-> source, predicate |-> predicate, target |-> target,
   chunk |-> source, exact |-> exact]
Listing ==
  <<Relation(1, 1, "CALLS", 2, TRUE), Relation(2, 2, "CALLS", 3, TRUE),
    Relation(3, 1, "IMPORTS", 3, TRUE), Relation(NoId, 3, "INVOKES", 4, FALSE),
    Relation(5, 4, "CALLS", 2, TRUE), Relation(NoId, 3, "READS", 1, FALSE),
    Relation(7, 1, "CALLS", 2, TRUE)>>
SomeRelations == ToSet(Listing)
Singles == {<<r>> : r \in SomeRelations}

(* Paths with identified relations, with others, with both, and of four hops.   *)
SomePaths ==
  {[i \in DOMAIN p |-> Listing[p[i]]] :
     p \in {<<1>>, <<4>>, <<1, 2>>, <<2, 4>>, <<2, 6>>, <<6, 3, 4, 5>>}}
EvenOdd == [n \in 1..4 |-> n % 2]
OneEach == [n \in 1..4 |-> 1]

(* A function with two texts, and functions it may have become: 2 and 4 in its  *)
(* place, 3 elsewhere.                                                      *)
Function(id, path, text) ==
  [id |-> id, kind |-> "FUNCTION", body |-> text, path |-> path, shape |-> 1,
   owner |-> path, text |-> text]
Functions4 == {Function(1, 1, 7), Function(1, 1, 8), Function(2, 1, 7), Function(3, 2, 7),
               Function(4, 1, 7)}
Edge(id, source, predicate, target, quality, evidence) ==
  [id |-> id, source |-> source, predicate |-> predicate, target |-> target,
   quality |-> quality, evidence |-> evidence]

(* A call with two evidences, stated in two other qualities as well, and a test. *)
Edges5 == {Edge(1, 1, "CALLS", 2, "exact", 1), Edge(1, 1, "CALLS", 2, "exact", 2),
           Edge(2, 1, "CALLS", 2, "inferred", 1), Edge(3, 1, "CALLS", 2, "semantic", 1),
           Edge(4, 3, "TESTS", 1, "exact", 1)}

(* Relations come in the order of the listing, at most two with a path; one      *)
(* further text only after four chunks, without relations.                    *)
Position(g) == CHOOSE i \in DOMAIN Listing : <<Listing[i]>> = g
FewAround ==
  /\ \A i, j \in DOMAIN related : i < j => Position(related[i]) < Position(related[j])
  /\ paths = <<>> \/ Len(related) <= 2
  /\ additional = <<>> \/ (Len(additional) = 1 /\ Len(chunks) = 4 /\ related \o paths = <<>>)

Unstarted == chunks = <<>> \/ (published = {} /\ \A s \in Sides : graphs[s].nodes = {})

AlgorithmsInit == AnswerInit /\ DeltaInit
AlgorithmsSpec ==
  /\ AlgorithmsInit
  /\ [][/\ \/ AnswerNext /\ UNCHANGED deltaVars
           \/ DeltaNext /\ UNCHANGED answerVars
        /\ Unstarted' /\ FewAround']_<<answerVars, deltaVars>>
=============================================================================
