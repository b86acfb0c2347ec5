----------------------------- MODULE GraphDelta -----------------------------
(***************************************************************************)
(* The comparison of two graphs (diff.py), the change event it becomes         *)
(* (evolution.py, build_change_event and its cards) and what a client reads     *)
(* back from HydraDB (evolution_service.py, _validated_records), as functions   *)
(* of the two graphs and of the cards HydraDB returns.                        *)
(*                                                                         *)
(* The graphs grow by one node or edge at a time, so that every pair of graphs  *)
(* within the bounds is a state.  Identifiers are numbers in their order.      *)
(***************************************************************************)
EXTENDS Naturals, Sequences, FiniteSets

CONSTANTS SomeNodes,   \* versions of nodes: identifier, fields the score compares, text
          SomeEdges,   \* versions of edges: identifier, fact, quality, evidence
          MaxChanges     \* MAX_CHANGE_FACTS

Sides == {"before", "after"}
RelationQuality == {"exact", "inferred", "semantic", "unknown"}
ASSUME NodeVersions ==
  \A n \in SomeNodes : {n.id, n.body, n.path, n.shape, n.owner, n.text} \subseteq Nat
ASSUME EdgeVersions ==
  /\ SomeEdges \subseteq [id : Nat, source : Nat, predicate : STRING, target : Nat,
                           quality : RelationQuality, evidence : Nat]
  /\ \A e, f \in SomeEdges :
       e.id = f.id <=>
         /\ <<e.source, e.predicate, e.target>> = <<f.source, f.predicate, f.target>>
         /\ e.quality = f.quality
ASSUME MaxChanges \in Nat

VARIABLES graphs,    \* nodes and edges of either side
          published, \* cards of the collection, once the event is published
          returned   \* chunks HydraDB returns: cards, one or two chunks of each

deltaVars == <<graphs, published, returned>>

Ids(S) == {x.id : x \in S}
Version(S, i) == CHOOSE x \in S : x.id = i

DeltaInit ==
  /\ graphs = [s \in Sides |-> [nodes |-> {}, edges |-> {}]]
  /\ published = {} /\ returned = {}

AddNode(s, n) ==
  /\ published = {}
  /\ n.id \notin Ids(graphs[s].nodes)
  /\ graphs' = [graphs EXCEPT ![s].nodes = @ \cup {n}]
  /\ UNCHANGED <<published, returned>>

AddEdge(s, e) ==
  /\ published = {}
  /\ e.id \notin Ids(graphs[s].edges)
  /\ {e.source, e.target} \subseteq Ids(graphs[s].nodes)
  /\ graphs' = [graphs EXCEPT ![s].edges = @ \cup {e}]
  /\ UNCHANGED <<published, returned>>

-----------------------------------------------------------------------------
(* _rename_score, in hundredths.  A node without a body has fingerprint 0.      *)

DEFAULT_RENAME_THRESHOLD == 80
Points(condition, n) == IF condition THEN n ELSE 0
Score(m, n) ==
  IF m.kind # n.kind THEN 0
  ELSE Points(m.body # 0 /\ m.body = n.body, 65) + Points(m.path = n.path, 15)
       + Points(m.shape # 0 /\ m.shape = n.shape, 15)
       + Points(m.owner # 0 /\ m.owner = n.owner, 5)

Without(S, T) == {x \in S : x.id \notin Ids(T)}

(* _match_renames: only mutually unique best matches.                         *)
Candidates(b, a) ==
  {c \in Without(b.nodes, a.nodes) \X Without(a.nodes, b.nodes) :
     Score(c[1], c[2]) >= DEFAULT_RENAME_THRESHOLD}
UniqueBest(c, rivals) ==
  \A d \in rivals \ {c} : Score(d[1], d[2]) < Score(c[1], c[2])

(* Mutation: the best match of the removed node alone.                        *)
RenamesOfRemoved(b, a) ==
  LET all == Candidates(b, a)
  IN  {c \in all : UniqueBest(c, {d \in all : d[1] = c[1]})}

Renames(b, a) ==
  LET all == Candidates(b, a)
  IN  {c \in all : /\ UniqueBest(c, {d \in all : d[1] = c[1]})
                   /\ UniqueBest(c, {d \in all : d[2] = c[2]})}

(* _modified: the same identifier with other fields.                          *)
Modified(b, a) == {p \in b.nodes \X a.nodes : p[1].id = p[2].id /\ p[1] # p[2]}

(* _quality_changes: of the edges that state one fact, the last one counts.     *)
Fact(e) == <<e.source, e.predicate, e.target>>
LastStatements(S) == {e \in S : \A f \in S : Fact(f) = Fact(e) => f.id <= e.id}
QualityChanges(b, a) ==
  {p \in LastStatements(Without(b.edges, a.edges))
          \X LastStatements(Without(a.edges, b.edges)) :
     Fact(p[1]) = Fact(p[2]) /\ p[1].quality # p[2].quality}

EvidenceMoves(b, a) ==
  {p \in b.edges \X a.edges : p[1].id = p[2].id /\ p[1].evidence # p[2].evidence}

(* _cycle_signatures: strongly connected components of more than one node.      *)
Behavioral == {"CALLS", "IMPORTS", "INSTANTIATES", "DISPATCHES_TO", "INVOKES"}
Dependencies(graph) == {e \in graph.edges : e.predicate \in Behavioral /\ e.quality = "exact"}
Reachable(graph) ==
  LET within[k \in 0..Cardinality(graph.nodes)] ==
        IF k = 0 THEN {<<n.id, n.id>> : n \in graph.nodes}
        ELSE within[k - 1] \cup
             UNION {{<<p[1], e.target>> : p \in {q \in within[k - 1] : q[2] = e.source}} :
                      e \in Dependencies(graph)}
  IN  within[Cardinality(graph.nodes)]
CycleSignatures(graph) ==
  LET reach == Reachable(graph)
      component(i) == {j \in Ids(graph.nodes) : {<<i, j>>, <<j, i>>} \subseteq reach}
  IN  {component(i) : i \in {j \in Ids(graph.nodes) : Cardinality(component(j)) > 1}}

(* compare_graphs                                                           *)
Left(S) == {p[1] : p \in S}
Right(S) == {p[2] : p \in S}
Delta(b, a) ==
  LET renames == Renames(b, a)
      qualities == QualityChanges(b, a)
  IN  [added_nodes |-> Without(a.nodes, b.nodes) \ Right(renames),
       removed_nodes |-> Without(b.nodes, a.nodes) \ Left(renames),
       modified |-> Modified(b, a),
       renamed |-> renames,
       added_edges |-> Without(a.edges, b.edges) \ Right(qualities),
       removed_edges |-> Without(b.edges, a.edges) \ Left(qualities),
       evidence_moves |-> EvidenceMoves(b, a),
       quality_changes |-> qualities,
       removed_tests |-> {e \in Without(b.edges, a.edges) \ Left(qualities) :
                            e.predicate = "TESTS"},
       new_cycles |-> CycleSignatures(a) \ CycleSignatures(b)]

-----------------------------------------------------------------------------
(* build_change_event.  A rename is a hypothesis: its nodes are removed and      *)
(* added as well, and so are the edges whose quality changed.                 *)

FactOf(kind, was, is) == [kind |-> kind, before |-> was, after |-> is]
ChangedFacts(d) ==
       {FactOf("NODE_REMOVED", {n}, {}) : n \in d.removed_nodes \cup Left(d.renamed)}
  \cup {FactOf("NODE_ADDED", {}, {n}) : n \in d.added_nodes \cup Right(d.renamed)}
  \cup {FactOf("NODE_MODIFIED", {p[1]}, {p[2]}) : p \in d.modified}
  \cup {FactOf("RENAME_HYPOTHESIS", {p[1]}, {p[2]}) : p \in d.renamed}
  \cup {FactOf("RELATION_REMOVED", {e}, {}) : e \in d.removed_edges \cup Left(d.quality_changes)}
  \cup {FactOf("RELATION_ADDED", {}, {e}) : e \in d.added_edges \cup Right(d.quality_changes)}
  \cup {FactOf("EVIDENCE_MOVED", {p[1]}, {p[2]}) : p \in d.evidence_moves}
  \cup {FactOf("RELATION_QUALITY_CHANGED", {p[1]}, {p[2]}) : p \in d.quality_changes}

(* build_change_event_cards: the summary counts the pages, a page holds a fact. *)
(* A fact stands for the index of its page.                                  *)
Summary(event, count) == [event |-> event, kind |-> "summary", count |-> count, fact |-> {}]
Page(event, count, f) == [event |-> event, kind |-> "page", count |-> count, fact |-> {f}]
ChangeCards(event, facts) ==
  {Summary(event, Cardinality(facts))}
  \cup {Page(event, Cardinality(facts), f) : f \in facts}

ThisEvent == "this"
OtherEvent == "other"   \* the event of another pair of revisions
OtherFacts == {FactOf("NODE_REMOVED", {}, {})}
Delivered(card, chunk) == [card |-> card, chunk |-> chunk]

PublishChange ==
  /\ published = {}
  /\ LET facts == ChangedFacts(Delta(graphs["before"], graphs["after"]))
     IN  /\ Cardinality(facts) <= MaxChanges
         /\ published' = ChangeCards(ThisEvent, facts)
  /\ UNCHANGED <<graphs, returned>>

(* The answer to a comparison.  HydraDB may lose a card, return two chunks of    *)
(* one, or a card that the filters should have kept out.                      *)
Return ==
  /\ published # {} /\ returned = {}
  /\ \E lost, twice \in SUBSET published, strange \in SUBSET ChangeCards(OtherEvent, OtherFacts) :
       /\ Cardinality(lost) <= 1 /\ Cardinality(twice) + Cardinality(strange) <= 1
       /\ returned' = {Delivered(c, 1) : c \in (published \ lost) \cup strange}
                      \cup {Delivered(c, 2) : c \in twice}
  /\ UNCHANGED <<graphs, published>>

DeltaNext ==
  \/ \E s \in Sides :
       (\E n \in SomeNodes : AddNode(s, n)) \/ (\E e \in SomeEdges : AddEdge(s, e))
  \/ PublishChange
  \/ Return

DeltaSpec == DeltaInit /\ [][DeltaNext]_deltaVars

-----------------------------------------------------------------------------
(* _validated_records                                                       *)

Summaries == {r \in returned : r.card.kind = "summary"}
Pages == {r \in returned : r.card.kind = "page"}

(* Mutation: the pages are counted and not looked at.                        *)
AcceptedByCount ==
  /\ Cardinality(Summaries) = 1
  /\ \A s \in Summaries : s.card.event = ThisEvent /\ Cardinality(Pages) = s.card.count

(* One summary, of the revisions asked for; the indices of the pages are 1 to    *)
(* its count, each once; every page names the same event and count.            *)
Accepted ==
  /\ Cardinality(Summaries) = 1
  /\ \A s \in Summaries :
       /\ s.card.event = ThisEvent
       /\ Cardinality(Pages) = s.card.count
       /\ \A p \in Pages : p.card.event = s.card.event /\ p.card.count = s.card.count
       /\ \A p, q \in Pages : p.card = q.card => p = q
Read == UNION {p.card.fact : p \in Pages}

-----------------------------------------------------------------------------
(* What a reader of the facts makes of the graph before: removed and changed     *)
(* versions go, added and changed ones come.                                 *)
OfKind(facts, kinds) == {f \in facts : f.kind \in kinds}
Applied(S, facts) ==
  (S \ UNION {f.before : f \in facts}) \cup UNION {f.after : f \in facts}
NodeFacts == {"NODE_REMOVED", "NODE_ADDED", "NODE_MODIFIED"}
EdgeFacts == {"RELATION_REMOVED", "RELATION_ADDED", "EVIDENCE_MOVED"}

(* Whatever HydraDB loses, repeats or mixes in, records that are accepted are    *)
(* the whole change: they turn the graph before into the graph after.          *)
AcceptedIsWhole ==
  returned # {} /\ Accepted =>
    /\ Applied(graphs["before"].nodes, OfKind(Read, NodeFacts)) = graphs["after"].nodes
    /\ Applied(graphs["before"].edges, OfKind(Read, EdgeFacts)) = graphs["after"].edges

(* The way back is the same comparison with its sides exchanged: in particular  *)
(* a rename does not depend on the direction, and no node has two of them; of   *)
(* several statements of one fact, none changes its quality into two others.   *)
Exchanged(S) == {<<p[2], p[1]>> : p \in S}
DeltaMirrored ==
  LET there == Delta(graphs["before"], graphs["after"])
      back == Delta(graphs["after"], graphs["before"])
  IN  published = {} =>
      /\ there.added_nodes = back.removed_nodes /\ there.removed_nodes = back.added_nodes
      /\ there.added_edges = back.removed_edges /\ there.removed_edges = back.added_edges
      /\ there.renamed = Exchanged(back.renamed)
      /\ there.modified = Exchanged(back.modified)
      /\ there.evidence_moves = Exchanged(back.evidence_moves)
      /\ there.quality_changes = Exchanged(back.quality_changes)
      /\ \A p, q \in there.renamed : p[1] = q[1] <=> p[2] = q[2]
      /\ \A p, q \in there.quality_changes : Fact(p[1]) = Fact(q[1]) => p = q
=============================================================================
