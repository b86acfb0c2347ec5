----------------------------- MODULE AnswerView -----------------------------
(***************************************************************************)
(* From a HydraDB response to what a window shows: ordered flows (flow.py),    *)
(* the budgets of the answer (query.py, normalize_query_response) and the      *)
(* graph of the view (views.py), as functions of the response.                *)
(*                                                                         *)
(* The response grows by one chunk, text or group at a time, so that every      *)
(* response within the bounds is a state.  A node is a number; the order of    *)
(* numbers is the order of names.  A chunk is named by its node.              *)
(***************************************************************************)
EXTENDS Naturals, Sequences, FiniteSets, SequencesExt

CONSTANTS Nodes,           \* entities of the repository
          TestNodes, EntryNodes,   \* those with is_test, is_entry_point
          Module,          \* the path group of a node at a depth above SYMBOL
          TextSize,        \* length of a chunk's content
          Relations,       \* relations HydraDB may return
          MaxPaths, MaxRelations, HopsPerPath, MaxContext,  \* budgets of the question
          MaxNodes, MaxEdges,  \* budgets of the view
          PathGroups, RelationGroups,   \* groups HydraDB may return as either
          ReturnedPaths    \* paths in a response (bound)

ASSUME NodeSets == /\ Nodes \subseteq Nat /\ IsFiniteSet(Nodes)
                   /\ TestNodes \subseteq Nodes /\ EntryNodes \subseteq Nodes
                   /\ TextSize \in [Nodes -> Nat]
ASSUME Budgets == {MaxPaths, MaxRelations, HopsPerPath, MaxNodes} \subseteq Nat \ {0}
                  /\ {MaxContext, MaxEdges, ReturnedPaths} \subseteq Nat

PRIMARY_FLOW_PREDICATES == <<"CALLS", "INVOKES", "DISPATCHES_TO", "INSTANTIATES", "HANDLES">>
FALLBACK_FLOW_PREDICATES == <<"IMPORTS">>
Primary == ToSet(PRIMARY_FLOW_PREDICATES)
WithFallback == Primary \cup ToSet(FALLBACK_FLOW_PREDICATES)
Rank(predicate) ==
  CHOOSE i \in 1..6 : (PRIMARY_FLOW_PREDICATES \o FALLBACK_FLOW_PREDICATES)[i] = predicate

(* HydraDB gives a relation an identifier, or none.                           *)
NoId == 0
ASSUME RelationSet ==
  /\ IsFiniteSet(Relations)
  /\ \A r \in Relations : /\ {r.source, r.target, r.chunk} \subseteq Nodes
                          /\ r.id \in Nat /\ r.exact \in BOOLEAN
                          /\ r.predicate \in STRING
  /\ \A r, s \in Relations : r.id = s.id /\ r.id # NoId => r = s
ASSUME GroupSets == PathGroups \cup RelationGroups \subseteq Seq(Relations) \ {<<>>}

VARIABLES chunks,      \* nodes whose chunks came back, best first
          additional,  \* additional_context: further texts, by the node of their size
          related,     \* stored relations and chunk_relations: groups
          paths        \* query_paths: groups in HydraDB's order

answerVars == <<chunks, additional, related, paths>>

AnswerInit == chunks = <<>> /\ additional = <<>> /\ related = <<>> /\ paths = <<>>

ReturnChunk(n) ==
  /\ additional = <<>> /\ related = <<>> /\ paths = <<>>
  /\ n \notin ToSet(chunks)
  /\ chunks' = Append(chunks, n)
  /\ UNCHANGED <<additional, related, paths>>

ReturnContext(n) ==
  /\ related = <<>> /\ paths = <<>> /\ chunks # <<>>
  /\ additional' = Append(additional, n)
  /\ UNCHANGED <<chunks, related, paths>>

ReturnRelation(g) ==
  /\ paths = <<>> /\ chunks # <<>>
  /\ related' = Append(related, g)
  /\ UNCHANGED <<chunks, additional, paths>>

ReturnPath(g) ==
  /\ Len(paths) < ReturnedPaths /\ chunks # <<>>
  /\ paths' = Append(paths, g)
  /\ UNCHANGED <<chunks, additional, related>>

AnswerNext ==
  \/ \E n \in Nodes : ReturnChunk(n) \/ ReturnContext(n)
  \/ \E g \in RelationGroups : ReturnRelation(g)
  \/ \E g \in PathGroups : ReturnPath(g)

AnswerSpec == AnswerInit /\ [][AnswerNext]_answerVars

-----------------------------------------------------------------------------
(* The elements of a sequence that are in a set, and the distinct ones, in the *)
(* order of their first occurrence.                                         *)
Among(seq, S) ==
  LET kept[k \in 0..Len(seq)] ==
        IF k = 0 THEN <<>>
        ELSE IF seq[k] \in S THEN Append(kept[k - 1], seq[k]) ELSE kept[k - 1]
  IN  kept[Len(seq)]
Include(found, x) == IF x \in ToSet(found) THEN found ELSE Append(found, x)
Distinct(seq) ==
  LET kept[k \in 0..Len(seq)] ==
        IF k = 0 THEN <<>> ELSE Include(kept[k - 1], seq[k])
  IN  kept[Len(seq)]

(* _grounded_groups: every chunk a group cites came back in the response.      *)

Window == ToSet(chunks)
IsGrounded(group) == \A i \in DOMAIN group : group[i].chunk \in Window
GroundedGroups(groups) == Among(groups, {g \in ToSet(groups) : IsGrounded(g)})
RelationsOf(groups) == UNION {ToSet(groups[i]) : i \in DOMAIN groups}
Least(S) == CHOOSE i \in S : \A j \in S : i <= j

-----------------------------------------------------------------------------
(* flow.py                                                                  *)

Listed == FlattenSeq(GroundedGroups(paths \o related))
Edges == {r \in ToSet(Listed) : r.predicate \in WithFallback /\ r.source # r.target}
Charted == Window \cap ({e.source : e \in Edges} \cup {e.target : e \in Edges})
Pool == IF Charted \ TestNodes # {} THEN Charted \ TestNodes ELSE Charted
Ordered(S) == Among(chunks, S)

Targets == Ordered(Pool)
Anchors ==
  LET entryPoints == Pool \cap EntryNodes
      roots == Pool \ {e.target : e \in {f \in Edges : f.predicate \in Primary}}
  IN  CASE entryPoints # {} -> Ordered(entryPoints)
        [] entryPoints = {} /\ roots # {} -> Ordered(roots)
        [] OTHER -> Ordered(Pool)

(* _adjacency: the order in which edges that leave one node are tried; of two    *)
(* alike (neither has an identifier) the one that came first.                  *)
Order(e) == Least({i \in DOMAIN Listed : Listed[i] = e})
Before(e, f) ==
  \/ Rank(e.predicate) < Rank(f.predicate)
  \/ /\ Rank(e.predicate) = Rank(f.predicate)
     /\ \/ e.target < f.target
        \/ e.target = f.target /\ e.id < f.id
        \/ e.target = f.target /\ {e.id, f.id} = {NoId} /\ Order(e) < Order(f)
InOrder(edges) ==
  [k \in 1..Cardinality(edges) |->
     CHOOSE e \in edges : Cardinality({f \in edges : Before(f, e)}) = k - 1]

(* _shortest_path: a round takes a node from the queue and enters the nodes it  *)
(* reaches first, each over the first edge that leads there.                  *)
Round(search, edges, allowed) ==
  LET node == Head(search.queue)
      open == {e \in edges : /\ Len(search.path[node]) < HopsPerPath
                            /\ e.source = node /\ e.predicate \in allowed
                            /\ e.target \notin DOMAIN search.path}
      first == {e \in open : \A f \in open : f.target = e.target => ~Before(f, e)}
      entered == InOrder(first)
  IN  [queue |-> Tail(search.queue) \o [i \in DOMAIN entered |-> entered[i].target],
       path |-> [n \in DOMAIN search.path \cup {e.target : e \in first} |->
                   IF n \in DOMAIN search.path THEN search.path[n]
                   ELSE Append(search.path[node], CHOOSE e \in first : e.target = n)]]

Continue(search, edges, allowed) ==
  IF search.queue = <<>> THEN search ELSE Round(search, edges, allowed)

Search(edges, anchor, allowed) ==
  LET after[k \in 0..Cardinality(Nodes)] ==
        IF k = 0 THEN [queue |-> <<anchor>>, path |-> [n \in {anchor} |-> <<>>]]
        ELSE Continue(after[k - 1], edges, allowed)
  IN  after[Cardinality(Nodes)].path

(* Mutation: imports are never tried.                                       *)
FlowBetweenCallsOnly(edges, anchor, target) ==
  LET primary == Search(edges, anchor, Primary)
  IN  IF target \in DOMAIN primary THEN primary[target] ELSE <<>>

FlowBetween(edges, anchor, target) ==
  LET primary == Search(edges, anchor, Primary)
      all == Search(edges, anchor, WithFallback)
  IN  CASE target \in DOMAIN primary -> primary[target]
        [] target \notin DOMAIN primary /\ target \in DOMAIN all -> all[target]
        [] OTHER -> <<>>

(* assemble_flow_paths: a path that adds nothing to an earlier one is left out. *)
(* _edge_signature tells two relations apart that a search may use: of two       *)
(* alike it takes the first.                                                *)
MinHops == 2

(* Mutation: every path is kept.                                            *)
ConsiderRepeats(found, path) ==
  IF Len(found) = MaxPaths \/ Len(path) < MinHops THEN found ELSE Append(found, path)

Consider(found, path) ==
  IF \/ Len(found) = MaxPaths \/ Len(path) < MinHops
     \/ \E i \in DOMAIN found : ToSet(path) \subseteq ToSet(found[i])
  THEN found ELSE Append(found, path)
Considered(candidates) ==
  LET found[k \in 0..Len(candidates)] ==
        IF k = 0 THEN <<>> ELSE Consider(found[k - 1], candidates[k])
  IN  found[Len(candidates)]
Flows ==
  LET edges == Edges
      anchors == Anchors
      targets == Targets
      to(t) == [i \in DOMAIN anchors |-> FlowBetween(edges, anchors[i], t)]
  IN  Considered(FlattenSeq([j \in DOMAIN targets |-> to(targets[j])]))

-----------------------------------------------------------------------------
(* normalize_query_response                                                 *)

(* _group_relation_ids: a relation without an identifier is not among them.     *)
Identifiers(g) == {g[i].id : i \in DOMAIN g} \ {NoId}

(* Mutation: a group is dropped when it shares a relation with a flow.         *)
UncoveredDisjoint(groups, flows) ==
  Among(groups, {g \in ToSet(groups) :
                   \A i \in DOMAIN flows : Identifiers(g) \cap Identifiers(flows[i]) = {}})

(* _without_covered_groups                                                  *)
Uncovered(groups, flows) ==
  Among(groups, {g \in ToSet(groups) :
                   \/ Identifiers(g) = {}
                   \/ \A i \in DOMAIN flows : ~(Identifiers(g) \subseteq Identifiers(flows[i]))})

(* _normalize_groups: groups within the limits, the last ones cut.             *)
Take(acc, group) ==
  LET n == Least({Len(group), HopsPerPath, acc.left})
  IN  IF acc.left = 0 THEN [acc EXCEPT !.cut = TRUE]
      ELSE [kept |-> Append(acc.kept, SubSeq(group, 1, n)),
            left |-> acc.left - n,
            cut  |-> acc.cut \/ n < Len(group)]
Limited(groups, groupLimit, hopLimit) ==
  LET within == Least({groupLimit, Len(groups)})
      after[k \in 0..within] ==
        IF k = 0 THEN [kept |-> <<>>, left |-> hopLimit, cut |-> Len(groups) > groupLimit]
        ELSE Take(after[k - 1], groups[k])
  IN  after[within]

(* _budget_context: a chunk beyond the budget keeps its card, not its text.     *)
Clip(acc, n) ==
  LET size == Least({TextSize[n], acc.left})
  IN  [left |-> acc.left - size, shown |-> Append(acc.shown, size),
       cut |-> acc.cut \/ size < TextSize[n]]
Texts ==
  LET cards == chunks \o additional
      after[k \in 0..Len(cards)] ==
        IF k = 0 THEN [left |-> MaxContext, shown |-> <<>>, cut |-> FALSE]
        ELSE Clip(after[k - 1], cards[k])
  IN  after[Len(cards)]

AnswerOf(flows) ==
  LET first == Limited(flows \o Uncovered(GroundedGroups(paths), flows), MaxPaths, MaxRelations)
      grounded == GroundedGroups(related)
      second == Limited(grounded, Len(grounded), first.left)
      omitted == {g \in ToSet(paths \o related) : ~IsGrounded(g)}
  IN  [paths |-> first.kept, relations |-> second.kept, texts |-> Texts.shown,
       truncated |-> first.cut \/ second.cut \/ omitted # {} \/ Texts.cut]
Answer == AnswerOf(Flows)

-----------------------------------------------------------------------------
(* build_product_view                                                       *)

(* _symbol_graph: a hop needs a card for either end; its chunk must be the      *)
(* card of its source.                                                      *)
HasCards(hop) == hop.chunk = hop.source /\ hop.target \in Window
Hops(answer) == FlattenSeq(answer.paths \o answer.relations)

(* One edge for a fact that is exact (the identifier of its envelope) or has no  *)
(* identifier (the digest of the fact), one for each other relation.           *)
EdgeOf(r) ==
  [id |-> IF r.exact THEN NoId ELSE r.id,
   source |-> r.source, predicate |-> r.predicate, target |-> r.target, exact |-> r.exact]

SymbolGraph(answer) ==
  LET hops == Among(Hops(answer), {hop \in ToSet(Hops(answer)) : HasCards(hop)})
  IN  [nodes |-> Distinct(FlattenSeq([i \in DOMAIN hops |-> <<hops[i].source, hops[i].target>>])),
       edges |-> Distinct([i \in DOMAIN hops |-> EdgeOf(hops[i])])]

(* _aggregate: exact relations between two groups, by predicate.              *)
Crosses(e) == e.exact /\ Module[e.source] # Module[e.target]
HopKey(e) == [source |-> Module[e.source], predicate |-> e.predicate, target |-> Module[e.target]]
Aggregated(graph) ==
  LET crossing == Among(graph.edges, {e \in ToSet(graph.edges) : Crosses(e)})
  IN  [nodes |-> Distinct([i \in DOMAIN graph.nodes |-> Module[graph.nodes[i]]]),
       edges |-> Distinct([i \in DOMAIN crossing |-> HopKey(crossing[i])])]
Contributing(graph, key) == {e \in ToSet(graph.edges) : Crosses(e) /\ HopKey(e) = key}

(* Nodes and edges within the budgets; an edge goes with either of its ends.    *)
View(graph, answer) ==
  LET nodes == SubSeq(graph.nodes, 1, Least({MaxNodes, Len(graph.nodes)}))
      eligible == Among(graph.edges,
                        {e \in ToSet(graph.edges) : {e.source, e.target} \subseteq ToSet(nodes)})
      edges == SubSeq(eligible, 1, Least({MaxEdges, Len(eligible)}))
  IN  [nodes |-> nodes, edges |-> edges,
       truncated |-> \/ Len(nodes) < Len(graph.nodes)
                     \/ Len(edges) < Len(eligible)
                     \/ answer.truncated]
-----------------------------------------------------------------------------
(* Nodes at most k relations away, by their definition.                       *)
Balls(anchor, allowed) ==
  LET ball[k \in 0..HopsPerPath] ==
        IF k = 0 THEN {anchor}
        ELSE ball[k - 1] \cup {e.target : e \in {f \in Edges : /\ f.predicate \in allowed
                                                             /\ f.source \in ball[k - 1]}}
  IN  ball
Allowed(a, t) == IF t \in Balls(a, Primary)[HopsPerPath] THEN Primary ELSE WithFallback
Distant(a, t, k) ==
  LET ball == Balls(a, Allowed(a, t))
  IN  t \in ball[k] /\ t \notin ball[k - 1]

AreShortest(flows) ==
  \A i \in DOMAIN flows :
    LET p == flows[i]
        a == p[1].source
        t == Last(p).target
    IN  /\ a \in ToSet(Anchors) /\ t \in ToSet(Targets)
        /\ \A k \in 1..(Len(p) - 1) : p[k].target = p[k + 1].source
        /\ ToSet(p) \subseteq {e \in Edges : e.predicate \in Allowed(a, t)}
        /\ Len(p) \in MinHops..HopsPerPath /\ Distant(a, t, Len(p))
        /\ \A j \in 1..(i - 1) : ~ToSet(p) \subseteq ToSet(flows[j])
MissNothing(flows) ==
  Len(flows) < MaxPaths =>
    \A a \in ToSet(Anchors) : \A t \in ToSet(Targets) \ {a} :
      (\E k \in MinHops..HopsPerPath : Distant(a, t, k)) =>
        \E i \in DOMAIN flows : \E j, k \in DOMAIN flows[i] :
          j <= k /\ flows[i][j].source = a /\ flows[i][k].target = t

(* A flow is made of returned and grounded relations, each where the one before *)
(* ends; it starts at an anchor, no chain reaches its target in fewer steps,     *)
(* imports are steps only where calls lead nowhere, and it tells more than the   *)
(* flows before it.                                                         *)
FlowsAreShortest == AreShortest(Flows)

(* Unless the limit of paths is reached, whatever an anchor reaches in two or    *)
(* more steps lies behind it on a flow of the answer.                         *)
NoFlowMissed == MissNothing(Flows)

(* What was returned, and what of it a view can draw.                         *)
Returned == RelationsOf(paths \o related)
Drawn == {r \in Returned : r.chunk = r.source /\ {r.source, r.target} \subseteq ToSet(chunks)}
Crossing == {r \in Drawn : r.exact /\ Module[r.source] # Module[r.target]}

(* _without_covered_groups looks at identifiers alone: a relation without one   *)
(* can go with the identified relations of its path, and no flag tells.         *)
Promised ==
  {r \in Returned : \/ r.id # NoId
                    \/ r \in RelationsOf(related)
                    \/ \E i \in DOMAIN paths : r \in ToSet(paths[i]) /\ Identifiers(paths[i]) = {}}

EdgesOf(S) == {EdgeOf(r) : r \in S}
KeysOf(S) == {HopKey(r) : r \in S}
Between(low, S, high) == low \subseteq S /\ S \subseteq high
LosesNothing(answer, graph) ==
  LET view == View(graph, answer)
      aggregated == View(Aggregated(graph), answer)
  IN  /\ ~answer.truncated =>
           /\ Promised \subseteq RelationsOf(answer.paths \o answer.relations)
           /\ \A i \in DOMAIN (chunks \o additional) :
                answer.texts[i] = TextSize[(chunks \o additional)[i]]
      /\ ~view.truncated =>
           Between(EdgesOf(Drawn \cap Promised), ToSet(view.edges), EdgesOf(Drawn))
      /\ ~aggregated.truncated =>
           /\ Between(KeysOf(Crossing \cap Promised), ToSet(aggregated.edges), KeysOf(Crossing))
           /\ Between(EdgesOf(Crossing \cap Promised),
                      UNION {Contributing(graph, key) : key \in ToSet(aggregated.edges)},
                      EdgesOf(Crossing))
LosesNothingOf(answer) == LosesNothing(answer, SymbolGraph(answer))

(* Flows replace groups, and groups, hops, texts, nodes and edges are cut at     *)
(* their budgets.  An answer that does not say it was truncated has every text   *)
(* whole and every returned relation, except one without an identifier that came *)
(* only beside identified ones; so has a view, and it draws nothing else; an     *)
(* aggregated one counts every exact relation between two groups.               *)
NothingLostSilently == LosesNothingOf(Answer)
=============================================================================
