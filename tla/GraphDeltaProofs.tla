--------------------------- MODULE GraphDeltaProofs ---------------------------
(* What the comparison of two graphs of any size guarantees, and what is left   *)
(* of it when HydraDB loses, repeats or mixes in cards.                        *)
EXTENDS GraphDelta, TLAPS, FiniteSetTheorems

-----------------------------------------------------------------------------
(* The comparison looks at the two sides alike.                              *)

LEMMA ScoreNat == \A m, n : Score(m, n) \in Nat /\ Score(m, n) = Score(n, m)
  BY DEF Score, Points

(* Sets of pairs that hold the same pairs the other way round.                *)
LEMMA SamePairs ==
  ASSUME NEW P, NEW Q,
         \A p \in P : p = <<p[1], p[2]>> /\ <<p[2], p[1]>> \in Q,
         \A q \in Q : q = <<q[1], q[2]>> /\ <<q[2], q[1]>> \in P
  PROVE  P = Exchanged(Q) /\ Left(P) = Right(Q) /\ Right(P) = Left(Q)
<1>1. ASSUME NEW p \in P PROVE \E q \in Q : p = <<q[2], q[1]>> /\ p[1] = q[2] /\ p[2] = q[1]
  <2>1. WITNESS <<p[2], p[1]>> \in Q
  <2>2. QED
    OBVIOUS
<1>2. ASSUME NEW q \in Q PROVE \E p \in P : p = <<q[2], q[1]>> /\ p[1] = q[2] /\ p[2] = q[1]
  <2>1. WITNESS <<q[2], q[1]>> \in P
  <2>2. QED
    OBVIOUS
<1>3. P = Exchanged(Q)
  BY <1>1, <1>2 DEF Exchanged
<1>4. Left(P) = Right(Q) /\ Right(P) = Left(Q)
  BY <1>1, <1>2 DEF Left, Right
<1>5. QED
  BY <1>3, <1>4

LEMMA CandidatePairs ==
  ASSUME NEW b, NEW a
  PROVE  /\ Candidates(b, a) \subseteq Without(b.nodes, a.nodes) \X Without(a.nodes, b.nodes)
         /\ \A x, y : <<x, y>> \in Candidates(b, a) <=> <<y, x>> \in Candidates(a, b)
  BY ScoreNat DEF Candidates

(* A match that is the best of both its sides is so from either side.          *)
LEMMA RenamePairs ==
  ASSUME NEW b, NEW a
  PROVE  /\ Renames(b, a) \subseteq Without(b.nodes, a.nodes) \X Without(a.nodes, b.nodes)
         /\ \A x, y : <<x, y>> \in Renames(b, a) <=> <<y, x>> \in Renames(a, b)
         /\ \A p, q \in Renames(b, a) : p[1] = q[1] <=> p[2] = q[2]
<1> DEFINE Best(c, d, e) ==
      /\ c \in Candidates(d, e)
      /\ \A f \in Candidates(d, e) :
           f # c /\ (f[1] = c[1] \/ f[2] = c[2]) => Score(f[1], f[2]) < Score(c[1], c[2])
<1>1. \A d, e, c : c \in Renames(d, e) <=> Best(c, d, e)
  BY DEF Renames, UniqueBest
<1>2. ASSUME NEW d, NEW e, NEW x, NEW y, Best(<<x, y>>, d, e) PROVE Best(<<y, x>>, e, d)
  <2>1. <<y, x>> \in Candidates(e, d)
    BY <1>2, CandidatePairs
  <2>2. ASSUME NEW f \in Candidates(e, d), f # <<y, x>>, f[1] = y \/ f[2] = x
        PROVE  Score(f[1], f[2]) < Score(y, x)
    <3>1. f = <<f[1], f[2]>>
      BY CandidatePairs
    <3>2. <<f[2], f[1]>> \in Candidates(d, e) /\ <<f[2], f[1]>> # <<x, y>>
      BY <2>2, <3>1, CandidatePairs
    <3>3. Score(f[2], f[1]) < Score(x, y)
      BY <1>2, <2>2, <3>2
    <3>4. QED
      BY <3>3, ScoreNat
  <2>3. QED
    BY <2>1, <2>2
<1>3. ASSUME NEW p \in Renames(b, a), NEW q \in Renames(b, a), p[1] = q[1] \/ p[2] = q[2]
      PROVE  p = q
  <2>1. Best(p, b, a) /\ Best(q, b, a)
    BY <1>1
  <2>2. p # q => Score(q[1], q[2]) < Score(p[1], p[2]) /\ Score(p[1], p[2]) < Score(q[1], q[2])
    BY <2>1, <1>3
  <2>3. QED
    BY <2>2, ScoreNat
<1>4. Renames(b, a) \subseteq Without(b.nodes, a.nodes) \X Without(a.nodes, b.nodes)
  BY <1>1, CandidatePairs
<1>5. \A x, y : <<x, y>> \in Renames(b, a) <=> <<y, x>> \in Renames(a, b)
  BY <1>1, <1>2
<1>6. QED
  BY <1>3, <1>4, <1>5

LEMMA QualityPairs ==
  ASSUME NEW b, NEW a
  PROVE  /\ QualityChanges(b, a) \subseteq
              Without(b.edges, a.edges) \X Without(a.edges, b.edges)
         /\ \A x, y : <<x, y>> \in QualityChanges(b, a) <=> <<y, x>> \in QualityChanges(a, b)
  BY DEF QualityChanges, LastStatements

LEMMA DeltaFields ==
  ASSUME NEW b, NEW a
  PROVE  /\ Delta(b, a).added_nodes = Without(a.nodes, b.nodes) \ Right(Renames(b, a))
         /\ Delta(b, a).removed_nodes = Without(b.nodes, a.nodes) \ Left(Renames(b, a))
         /\ Delta(b, a).modified = Modified(b, a)
         /\ Delta(b, a).renamed = Renames(b, a)
         /\ Delta(b, a).added_edges = Without(a.edges, b.edges) \ Right(QualityChanges(b, a))
         /\ Delta(b, a).removed_edges = Without(b.edges, a.edges) \ Left(QualityChanges(b, a))
         /\ Delta(b, a).evidence_moves = EvidenceMoves(b, a)
         /\ Delta(b, a).quality_changes = QualityChanges(b, a)
  BY DEF Delta

LEMMA Mirror ==
  ASSUME NEW b, NEW a
  PROVE  /\ Renames(b, a) = Exchanged(Renames(a, b))
         /\ Left(Renames(b, a)) = Right(Renames(a, b))
         /\ Right(Renames(b, a)) = Left(Renames(a, b))
         /\ QualityChanges(b, a) = Exchanged(QualityChanges(a, b))
         /\ Left(QualityChanges(b, a)) = Right(QualityChanges(a, b))
         /\ Right(QualityChanges(b, a)) = Left(QualityChanges(a, b))
         /\ Modified(b, a) = Exchanged(Modified(a, b))
         /\ EvidenceMoves(b, a) = Exchanged(EvidenceMoves(a, b))
<1>1. \A d, e : \A p \in Renames(d, e) : p = <<p[1], p[2]>> /\ <<p[2], p[1]>> \in Renames(e, d)
  BY RenamePairs
<1>2. \A d, e : \A p \in QualityChanges(d, e) :
        p = <<p[1], p[2]>> /\ <<p[2], p[1]>> \in QualityChanges(e, d)
  BY QualityPairs
<1>3. \A d, e : \A p \in Modified(d, e) : p = <<p[1], p[2]>> /\ <<p[2], p[1]>> \in Modified(e, d)
  BY DEF Modified
<1>4. \A d, e : \A p \in EvidenceMoves(d, e) :
        p = <<p[1], p[2]>> /\ <<p[2], p[1]>> \in EvidenceMoves(e, d)
  BY DEF EvidenceMoves
<1>5. /\ Renames(b, a) = Exchanged(Renames(a, b))
      /\ Left(Renames(b, a)) = Right(Renames(a, b))
      /\ Right(Renames(b, a)) = Left(Renames(a, b))
  BY <1>1, SamePairs
<1>6. /\ QualityChanges(b, a) = Exchanged(QualityChanges(a, b))
      /\ Left(QualityChanges(b, a)) = Right(QualityChanges(a, b))
      /\ Right(QualityChanges(b, a)) = Left(QualityChanges(a, b))
  BY <1>2, SamePairs
<1>7. Modified(b, a) = Exchanged(Modified(a, b))
  BY <1>3, SamePairs
<1>8. EvidenceMoves(b, a) = Exchanged(EvidenceMoves(a, b))
  BY <1>4, SamePairs
<1>9. QED
  BY <1>5, <1>6, <1>7, <1>8

-----------------------------------------------------------------------------
(* The facts of a comparison turn the graph before into the graph after.       *)

(* A side holds a version of a node or an edge at most once.                  *)
Identified(S) == \A x, y \in S : x.id = y.id => x = y
GraphOK(g) ==
  /\ g.nodes \subseteq SomeNodes /\ Identified(g.nodes) /\ IsFiniteSet(g.nodes)
  /\ g.edges \subseteq SomeEdges /\ Identified(g.edges) /\ IsFiniteSet(g.edges)

(* Removing what has gone or changed and adding what has come or changed.      *)
Changed(S, T) == {p \in S \X T : p[1].id = p[2].id /\ p[1] # p[2]}
LEMMA Turned ==
  ASSUME NEW S, NEW T, Identified(S), Identified(T)
  PROVE  (S \ (Without(S, T) \cup Left(Changed(S, T))))
            \cup (Without(T, S) \cup Right(Changed(S, T))) = T
<1> DEFINE M == Changed(S, T)
<1>1. \A x : x \in Left(M) <=> x \in S /\ \E y \in T : x.id = y.id /\ x # y
  <2>1. ASSUME NEW x \in S, NEW y \in T, x.id = y.id, x # y PROVE x \in Left(M)
    <3>1. <<x, y>> \in M
      BY <2>1 DEF Changed
    <3>2. <<x, y>>[1] \in Left(M)
      BY <3>1 DEF Left
    <3>3. QED
      BY <3>2
  <2>2. ASSUME NEW x \in Left(M) PROVE x \in S /\ \E y \in T : x.id = y.id /\ x # y
    BY DEF Left, Changed
  <2>3. QED
    BY <2>1, <2>2
<1>2. \A y : y \in Right(M) <=> y \in T /\ \E x \in S : x.id = y.id /\ x # y
  <2>1. ASSUME NEW x \in S, NEW y \in T, x.id = y.id, x # y PROVE y \in Right(M)
    <3>1. <<x, y>> \in M
      BY <2>1 DEF Changed
    <3>2. <<x, y>>[2] \in Right(M)
      BY <3>1 DEF Right
    <3>3. QED
      BY <3>2
  <2>2. ASSUME NEW y \in Right(M) PROVE y \in T /\ \E x \in S : x.id = y.id /\ x # y
    BY DEF Right, Changed
  <2>3. QED
    BY <2>1, <2>2
<1>3. /\ \A x : x \in Without(S, T) <=> x \in S /\ \A y \in T : x.id # y.id
      /\ \A y : y \in Without(T, S) <=> y \in T /\ \A x \in S : x.id # y.id
  BY DEF Without, Ids
<1>4. ASSUME NEW x \in S, x \notin Without(S, T), x \notin Left(M) PROVE x \in T
  BY <1>1, <1>3, <1>4
<1>5. ASSUME NEW y \in T, y \notin Without(T, S), y \notin Right(M)
      PROVE  y \in S /\ y \notin Without(S, T) /\ y \notin Left(M)
  BY <1>1, <1>2, <1>3, <1>5 DEF Identified
<1> HIDE DEF M
<1>6. QED
  BY <1>2, <1>3, <1>4, <1>5 DEF M

LEMMA FactMembers ==
  ASSUME NEW d, NEW f
  PROVE  f \in ChangedFacts(d) <=>
           \/ \E n \in d.removed_nodes \cup Left(d.renamed) : f = FactOf("NODE_REMOVED", {n}, {})
           \/ \E n \in d.added_nodes \cup Right(d.renamed) : f = FactOf("NODE_ADDED", {}, {n})
           \/ \E p \in d.modified : f = FactOf("NODE_MODIFIED", {p[1]}, {p[2]})
           \/ \E p \in d.renamed : f = FactOf("RENAME_HYPOTHESIS", {p[1]}, {p[2]})
           \/ \E e \in d.removed_edges \cup Left(d.quality_changes) :
                f = FactOf("RELATION_REMOVED", {e}, {})
           \/ \E e \in d.added_edges \cup Right(d.quality_changes) :
                f = FactOf("RELATION_ADDED", {}, {e})
           \/ \E p \in d.evidence_moves : f = FactOf("EVIDENCE_MOVED", {p[1]}, {p[2]})
           \/ \E p \in d.quality_changes : f = FactOf("RELATION_QUALITY_CHANGED", {p[1]}, {p[2]})
  BY DEF ChangedFacts

(* The facts of a change that change the nodes.                              *)
LEMMA NodeKinds ==
  ASSUME NEW d, NEW f
  PROVE  f \in OfKind(ChangedFacts(d), NodeFacts) <=>
           \/ \E n \in d.removed_nodes \cup Left(d.renamed) : f = FactOf("NODE_REMOVED", {n}, {})
           \/ \E n \in d.added_nodes \cup Right(d.renamed) : f = FactOf("NODE_ADDED", {}, {n})
           \/ \E p \in d.modified : f = FactOf("NODE_MODIFIED", {p[1]}, {p[2]})
<1>1. \A k, x, y : FactOf(k, x, y).kind = k
  BY DEF FactOf
<1>2. f \in OfKind(ChangedFacts(d), NodeFacts) <=> f \in ChangedFacts(d) /\ f.kind \in NodeFacts
  BY DEF OfKind
<1>3. ASSUME \E n \in d.removed_nodes \cup Left(d.renamed) : f = FactOf("NODE_REMOVED", {n}, {})
      PROVE  f \in ChangedFacts(d) /\ f.kind \in NodeFacts
  <2>1. f.kind = "NODE_REMOVED"
    BY <1>1, <1>3
  <2>2. QED
    BY <1>3, <2>1, FactMembers DEF NodeFacts
<1>4. ASSUME \E n \in d.added_nodes \cup Right(d.renamed) : f = FactOf("NODE_ADDED", {}, {n})
      PROVE  f \in ChangedFacts(d) /\ f.kind \in NodeFacts
  <2>1. f.kind = "NODE_ADDED"
    BY <1>1, <1>4
  <2>2. QED
    BY <1>4, <2>1, FactMembers DEF NodeFacts
<1>5. ASSUME \E p \in d.modified : f = FactOf("NODE_MODIFIED", {p[1]}, {p[2]})
      PROVE  f \in ChangedFacts(d) /\ f.kind \in NodeFacts
  <2>1. f.kind = "NODE_MODIFIED"
    BY <1>1, <1>5
  <2>2. QED
    BY <1>5, <2>1, FactMembers DEF NodeFacts
<1>6. ASSUME f \in ChangedFacts(d), f.kind \in NodeFacts
      PROVE  \/ \E n \in d.removed_nodes \cup Left(d.renamed) : f = FactOf("NODE_REMOVED", {n}, {})
             \/ \E n \in d.added_nodes \cup Right(d.renamed) : f = FactOf("NODE_ADDED", {}, {n})
             \/ \E p \in d.modified : f = FactOf("NODE_MODIFIED", {p[1]}, {p[2]})
  <2>1. ~ \E p \in d.renamed : f = FactOf("RENAME_HYPOTHESIS", {p[1]}, {p[2]})
    BY <1>6 DEF NodeFacts, FactOf
  <2>2. ~ \E p \in d.quality_changes : f = FactOf("RELATION_QUALITY_CHANGED", {p[1]}, {p[2]})
    BY <1>6 DEF NodeFacts, FactOf
  <2>3. ~ \E e \in d.removed_edges \cup Left(d.quality_changes) : f = FactOf("RELATION_REMOVED", {e}, {})
    BY <1>6 DEF NodeFacts, FactOf
  <2>4. ~ \E e \in d.added_edges \cup Right(d.quality_changes) : f = FactOf("RELATION_ADDED", {}, {e})
    BY <1>6 DEF NodeFacts, FactOf
  <2>5. ~ \E p \in d.evidence_moves : f = FactOf("EVIDENCE_MOVED", {p[1]}, {p[2]})
    BY <1>6 DEF NodeFacts, FactOf
  <2>6. \/ \E n \in d.removed_nodes \cup Left(d.renamed) : f = FactOf("NODE_REMOVED", {n}, {})
        \/ \E n \in d.added_nodes \cup Right(d.renamed) : f = FactOf("NODE_ADDED", {}, {n})
        \/ \E p \in d.modified : f = FactOf("NODE_MODIFIED", {p[1]}, {p[2]})
        \/ \E p \in d.renamed : f = FactOf("RENAME_HYPOTHESIS", {p[1]}, {p[2]})
        \/ \E e \in d.removed_edges \cup Left(d.quality_changes) :
             f = FactOf("RELATION_REMOVED", {e}, {})
        \/ \E e \in d.added_edges \cup Right(d.quality_changes) :
             f = FactOf("RELATION_ADDED", {}, {e})
        \/ \E p \in d.evidence_moves : f = FactOf("EVIDENCE_MOVED", {p[1]}, {p[2]})
        \/ \E p \in d.quality_changes : f = FactOf("RELATION_QUALITY_CHANGED", {p[1]}, {p[2]})
    BY <1>6, FactMembers
  <2>7. QED
    BY <2>1, <2>2, <2>3, <2>4, <2>5, <2>6
<1>7. QED
  BY <1>2, <1>3, <1>4, <1>5, <1>6

(* The facts of a change that change the edges.                              *)
LEMMA EdgeKinds ==
  ASSUME NEW d, NEW f
  PROVE  f \in OfKind(ChangedFacts(d), EdgeFacts) <=>
           \/ \E e \in d.removed_edges \cup Left(d.quality_changes) : f = FactOf("RELATION_REMOVED", {e}, {})
           \/ \E e \in d.added_edges \cup Right(d.quality_changes) : f = FactOf("RELATION_ADDED", {}, {e})
           \/ \E p \in d.evidence_moves : f = FactOf("EVIDENCE_MOVED", {p[1]}, {p[2]})
<1>1. \A k, x, y : FactOf(k, x, y).kind = k
  BY DEF FactOf
<1>2. f \in OfKind(ChangedFacts(d), EdgeFacts) <=> f \in ChangedFacts(d) /\ f.kind \in EdgeFacts
  BY DEF OfKind
<1>3. ASSUME \E e \in d.removed_edges \cup Left(d.quality_changes) : f = FactOf("RELATION_REMOVED", {e}, {})
      PROVE  f \in ChangedFacts(d) /\ f.kind \in EdgeFacts
  <2>1. f.kind = "RELATION_REMOVED"
    BY <1>1, <1>3
  <2>2. QED
    BY <1>3, <2>1, FactMembers DEF EdgeFacts
<1>4. ASSUME \E e \in d.added_edges \cup Right(d.quality_changes) : f = FactOf("RELATION_ADDED", {}, {e})
      PROVE  f \in ChangedFacts(d) /\ f.kind \in EdgeFacts
  <2>1. f.kind = "RELATION_ADDED"
    BY <1>1, <1>4
  <2>2. QED
    BY <1>4, <2>1, FactMembers DEF EdgeFacts
<1>5. ASSUME \E p \in d.evidence_moves : f = FactOf("EVIDENCE_MOVED", {p[1]}, {p[2]})
      PROVE  f \in ChangedFacts(d) /\ f.kind \in EdgeFacts
  <2>1. f.kind = "EVIDENCE_MOVED"
    BY <1>1, <1>5
  <2>2. QED
    BY <1>5, <2>1, FactMembers DEF EdgeFacts
<1>6. ASSUME f \in ChangedFacts(d), f.kind \in EdgeFacts
      PROVE  \/ \E e \in d.removed_edges \cup Left(d.quality_changes) : f = FactOf("RELATION_REMOVED", {e}, {})
             \/ \E e \in d.added_edges \cup Right(d.quality_changes) : f = FactOf("RELATION_ADDED", {}, {e})
             \/ \E p \in d.evidence_moves : f = FactOf("EVIDENCE_MOVED", {p[1]}, {p[2]})
  <2>1. ~ \E p \in d.renamed : f = FactOf("RENAME_HYPOTHESIS", {p[1]}, {p[2]})
    BY <1>6 DEF EdgeFacts, FactOf
  <2>2. ~ \E p \in d.quality_changes : f = FactOf("RELATION_QUALITY_CHANGED", {p[1]}, {p[2]})
    BY <1>6 DEF EdgeFacts, FactOf
  <2>3. ~ \E n \in d.removed_nodes \cup Left(d.renamed) : f = FactOf("NODE_REMOVED", {n}, {})
    BY <1>6 DEF EdgeFacts, FactOf
  <2>4. ~ \E n \in d.added_nodes \cup Right(d.renamed) : f = FactOf("NODE_ADDED", {}, {n})
    BY <1>6 DEF EdgeFacts, FactOf
  <2>5. ~ \E p \in d.modified : f = FactOf("NODE_MODIFIED", {p[1]}, {p[2]})
    BY <1>6 DEF EdgeFacts, FactOf
  <2>6. \/ \E n \in d.removed_nodes \cup Left(d.renamed) : f = FactOf("NODE_REMOVED", {n}, {})
        \/ \E n \in d.added_nodes \cup Right(d.renamed) : f = FactOf("NODE_ADDED", {}, {n})
        \/ \E p \in d.modified : f = FactOf("NODE_MODIFIED", {p[1]}, {p[2]})
        \/ \E p \in d.renamed : f = FactOf("RENAME_HYPOTHESIS", {p[1]}, {p[2]})
        \/ \E e \in d.removed_edges \cup Left(d.quality_changes) :
             f = FactOf("RELATION_REMOVED", {e}, {})
        \/ \E e \in d.added_edges \cup Right(d.quality_changes) :
             f = FactOf("RELATION_ADDED", {}, {e})
        \/ \E p \in d.evidence_moves : f = FactOf("EVIDENCE_MOVED", {p[1]}, {p[2]})
        \/ \E p \in d.quality_changes : f = FactOf("RELATION_QUALITY_CHANGED", {p[1]}, {p[2]})
    BY <1>6, FactMembers
  <2>7. QED
    BY <2>1, <2>2, <2>3, <2>4, <2>5, <2>6
<1>7. QED
  BY <1>2, <1>3, <1>4, <1>5, <1>6

(* What facts of three kinds take away and bring.                            *)
ThreeKinds(R, A, M, gone, come, changed) ==
  {FactOf(gone, {n}, {}) : n \in R} \cup {FactOf(come, {}, {n}) : n \in A}
  \cup {FactOf(changed, {p[1]}, {p[2]}) : p \in M}
LEMMA FactsSay ==
  ASSUME NEW R, NEW A, NEW M, NEW gone, NEW come, NEW changed
  PROVE  LET facts == ThreeKinds(R, A, M, gone, come, changed)
         IN  /\ UNION {f.before : f \in facts} = R \cup Left(M)
             /\ UNION {f.after : f \in facts} = A \cup Right(M)
<1> DEFINE facts == ThreeKinds(R, A, M, gone, come, changed)
<1>0. \A f : f \in facts <=>
           \/ \E n \in R : f = FactOf(gone, {n}, {})
           \/ \E n \in A : f = FactOf(come, {}, {n})
           \/ \E p \in M : f = FactOf(changed, {p[1]}, {p[2]})
  BY DEF ThreeKinds
<1> HIDE DEF facts
<1>1. \A k, x, y : FactOf(k, x, y).before = x /\ FactOf(k, x, y).after = y
  BY DEF FactOf
<1>a. ASSUME NEW f \in facts
      PROVE  \/ \E n \in R : f.before = {n} /\ f.after = {}
             \/ \E n \in A : f.before = {} /\ f.after = {n}
             \/ \E p \in M : f.before = {p[1]} /\ f.after = {p[2]}
  <2>1. CASE \E n \in R : f = FactOf(gone, {n}, {})
    BY <1>1, <2>1
  <2>2. CASE \E n \in A : f = FactOf(come, {}, {n})
    BY <1>1, <2>2
  <2>3. CASE \E p \in M : f = FactOf(changed, {p[1]}, {p[2]})
    BY <1>1, <2>3
  <2>4. QED
    BY <1>0, <2>1, <2>2, <2>3
<1>2. UNION {f.before : f \in facts} = R \cup Left(M)
  <2>1. ASSUME NEW f \in facts, NEW x \in f.before PROVE x \in R \/ \E p \in M : x = p[1]
    BY <1>a
  <2>2. ASSUME NEW x \in R PROVE \E f \in facts : x \in f.before
    <3>1. FactOf(gone, {x}, {}) \in facts
      BY <1>0
    <3>2. QED
      BY <3>1, <1>1
  <2>3. ASSUME NEW p \in M PROVE \E f \in facts : p[1] \in f.before
    <3>1. FactOf(changed, {p[1]}, {p[2]}) \in facts
      BY <1>0
    <3>2. QED
      BY <3>1, <1>1
  <2>4. \A x : x \in Left(M) <=> \E p \in M : x = p[1]
    BY DEF Left
  <2>5. \A x : x \in UNION {f.before : f \in facts} <=> \E f \in facts : x \in f.before
    OBVIOUS
  <2>6. QED
    BY <2>1, <2>2, <2>3, <2>4, <2>5
<1>3. UNION {f.after : f \in facts} = A \cup Right(M)
  <2>1. ASSUME NEW f \in facts, NEW x \in f.after PROVE x \in A \/ \E p \in M : x = p[2]
    BY <1>a
  <2>2. ASSUME NEW x \in A PROVE \E f \in facts : x \in f.after
    <3>1. FactOf(come, {}, {x}) \in facts
      BY <1>0
    <3>2. QED
      BY <3>1, <1>1
  <2>3. ASSUME NEW p \in M PROVE \E f \in facts : p[2] \in f.after
    <3>1. FactOf(changed, {p[1]}, {p[2]}) \in facts
      BY <1>0
    <3>2. QED
      BY <3>1, <1>1
  <2>4. \A x : x \in Right(M) <=> \E p \in M : x = p[2]
    BY DEF Right
  <2>5. \A x : x \in UNION {f.after : f \in facts} <=> \E f \in facts : x \in f.after
    OBVIOUS
  <2>6. QED
    BY <2>1, <2>2, <2>3, <2>4, <2>5
<1>4. QED
  BY <1>2, <1>3 DEF facts

LEMMA NodesTurned ==
  ASSUME NEW b, NEW a, GraphOK(b), GraphOK(a)
  PROVE  Applied(b.nodes, OfKind(ChangedFacts(Delta(b, a)), NodeFacts)) = a.nodes
<1> DEFINE d == Delta(b, a)
           facts == OfKind(ChangedFacts(d), NodeFacts)
           R == d.removed_nodes \cup Left(d.renamed)
           A == d.added_nodes \cup Right(d.renamed)
<1>1. \A f : f \in facts <=>
               \/ \E n \in R : f = FactOf("NODE_REMOVED", {n}, {})
               \/ \E n \in A : f = FactOf("NODE_ADDED", {}, {n})
               \/ \E p \in d.modified : f = FactOf("NODE_MODIFIED", {p[1]}, {p[2]})
  BY NodeKinds
<1>2. R = Without(b.nodes, a.nodes) /\ A = Without(a.nodes, b.nodes)
  BY DeltaFields, RenamePairs DEF Left, Right
<1>3. d.modified = Changed(b.nodes, a.nodes)
  BY DeltaFields DEF Modified, Changed
<1>b. facts = ThreeKinds(R, A, d.modified, "NODE_REMOVED", "NODE_ADDED", "NODE_MODIFIED")
  BY <1>1 DEF ThreeKinds
<1> HIDE DEF d, facts, R, A
<1>4. /\ UNION {f.before : f \in facts} = R \cup Left(d.modified)
      /\ UNION {f.after : f \in facts} = A \cup Right(d.modified)
  BY <1>b, FactsSay
<1>5. (b.nodes \ (R \cup Left(d.modified))) \cup (A \cup Right(d.modified)) = a.nodes
  BY <1>2, <1>3, Turned DEF GraphOK
<1>6. QED
  BY <1>4, <1>5 DEF Applied, facts, d

LEMMA EdgesTurned ==
  ASSUME NEW b, NEW a, GraphOK(b), GraphOK(a)
  PROVE  Applied(b.edges, OfKind(ChangedFacts(Delta(b, a)), EdgeFacts)) = a.edges
<1> DEFINE d == Delta(b, a)
           facts == OfKind(ChangedFacts(d), EdgeFacts)
           R == d.removed_edges \cup Left(d.quality_changes)
           A == d.added_edges \cup Right(d.quality_changes)
<1>1. \A f : f \in facts <=>
               \/ \E e \in R : f = FactOf("RELATION_REMOVED", {e}, {})
               \/ \E e \in A : f = FactOf("RELATION_ADDED", {}, {e})
               \/ \E p \in d.evidence_moves : f = FactOf("EVIDENCE_MOVED", {p[1]}, {p[2]})
  BY EdgeKinds
<1>2. R = Without(b.edges, a.edges) /\ A = Without(a.edges, b.edges)
  BY DeltaFields, QualityPairs DEF Left, Right
<1>3. d.evidence_moves = Changed(b.edges, a.edges)
  <2>1. ASSUME NEW e \in b.edges, NEW f \in a.edges, e.id = f.id
        PROVE  e # f <=> e.evidence # f.evidence
    <3>1. e \in SomeEdges /\ f \in SomeEdges
      BY DEF GraphOK
    <3>2. /\ e.source = f.source /\ e.predicate = f.predicate /\ e.target = f.target
          /\ e.quality = f.quality
      BY <2>1, <3>1, EdgeVersions
    <3>3. e.evidence = f.evidence => e = f
      BY <2>1, <3>1, <3>2, EdgeVersions
    <3>4. QED
      BY <3>3
  <2>2. QED
    BY <2>1, DeltaFields DEF EvidenceMoves, Changed
<1>b. facts = ThreeKinds(R, A, d.evidence_moves, "RELATION_REMOVED", "RELATION_ADDED", "EVIDENCE_MOVED")
  BY <1>1 DEF ThreeKinds
<1> HIDE DEF d, facts, R, A
<1>4. /\ UNION {f.before : f \in facts} = R \cup Left(d.evidence_moves)
      /\ UNION {f.after : f \in facts} = A \cup Right(d.evidence_moves)
  BY <1>b, FactsSay
<1>5. (b.edges \ (R \cup Left(d.evidence_moves))) \cup (A \cup Right(d.evidence_moves)) = a.edges
  BY <1>2, <1>3, Turned DEF GraphOK
<1>6. QED
  BY <1>4, <1>5 DEF Applied, facts, d

(* A fact is determined by its kind and by two sets of versions.              *)
LEMMA FiniteFacts ==
  ASSUME NEW b, NEW a, GraphOK(b), GraphOK(a)
  PROVE  IsFiniteSet(ChangedFacts(Delta(b, a)))
<1> DEFINE facts == ChangedFacts(Delta(b, a))
           X == (b.nodes \cup a.nodes) \cup (b.edges \cup a.edges)
           Kinds == NodeFacts \cup EdgeFacts \cup {"RENAME_HYPOTHESIS", "RELATION_QUALITY_CHANGED"}
           code == [f \in facts |-> <<f.kind, <<f.before, f.after>>>>]
<1>1. IsFiniteSet(X)
  BY FS_Union DEF GraphOK
<1>2. IsFiniteSet(Kinds)
  <2>1. Kinds = ({"NODE_REMOVED"} \cup {"NODE_ADDED"}) \cup ({"NODE_MODIFIED"} \cup {"RELATION_REMOVED"})
                \cup (({"RELATION_ADDED"} \cup {"EVIDENCE_MOVED"})
                \cup ({"RENAME_HYPOTHESIS"} \cup {"RELATION_QUALITY_CHANGED"}))
    BY DEF NodeFacts, EdgeFacts
  <2>2. \A S, T : IsFiniteSet(S) /\ IsFiniteSet(T) => IsFiniteSet(S \cup T)
    BY FS_Union
  <2>3. \A x : IsFiniteSet({x})
    BY FS_Singleton
  <2> HIDE DEF Kinds
  <2>4. QED
    BY <2>1, <2>2, <2>3
<1>3. IsFiniteSet(Kinds \X ((SUBSET X) \X (SUBSET X)))
  BY <1>1, <1>2, FS_SUBSET, FS_Product
<1>4. ASSUME NEW f \in facts
      PROVE  /\ f.kind \in Kinds /\ f.before \in SUBSET X /\ f.after \in SUBSET X
             /\ f = FactOf(f.kind, f.before, f.after)
  <2>1. /\ Delta(b, a).removed_nodes \cup Left(Delta(b, a).renamed) \subseteq b.nodes
        /\ Delta(b, a).added_nodes \cup Right(Delta(b, a).renamed) \subseteq a.nodes
        /\ Delta(b, a).removed_edges \cup Left(Delta(b, a).quality_changes) \subseteq b.edges
        /\ Delta(b, a).added_edges \cup Right(Delta(b, a).quality_changes) \subseteq a.edges
    BY DeltaFields, RenamePairs, QualityPairs DEF Left, Right, Without
  <2>2. /\ \A p \in Delta(b, a).modified : p[1] \in X /\ p[2] \in X
        /\ \A p \in Delta(b, a).evidence_moves : p[1] \in X /\ p[2] \in X
    BY DeltaFields DEF Modified, EvidenceMoves
  <2>3. /\ \A p \in Delta(b, a).renamed : p[1] \in X /\ p[2] \in X
        /\ \A p \in Delta(b, a).quality_changes : p[1] \in X /\ p[2] \in X
    BY DeltaFields, RenamePairs, QualityPairs DEF Without
  <2> DEFINE Coded == \E k \in Kinds, x \in SUBSET X, y \in SUBSET X : f = FactOf(k, x, y)
  <2>4. Coded
    <3> HIDE DEF X
    <3>1. \A x : x \in b.nodes \cup a.nodes \cup b.edges \cup a.edges => {x} \in SUBSET X
      BY DEF X
    <3>2. {} \in SUBSET X
      OBVIOUS
    <3>3. {"NODE_REMOVED", "NODE_ADDED", "NODE_MODIFIED", "RENAME_HYPOTHESIS", "RELATION_REMOVED",
           "RELATION_ADDED", "EVIDENCE_MOVED", "RELATION_QUALITY_CHANGED"} \subseteq Kinds
      BY DEF NodeFacts, EdgeFacts
    <3> HIDE DEF Kinds
    <3>4. CASE \/ \E n \in Delta(b, a).removed_nodes \cup Left(Delta(b, a).renamed) :
                    f = FactOf("NODE_REMOVED", {n}, {})
               \/ \E n \in Delta(b, a).added_nodes \cup Right(Delta(b, a).renamed) :
                    f = FactOf("NODE_ADDED", {}, {n})
      BY <2>1, <3>1, <3>2, <3>3, <3>4
    <3>5. CASE \/ \E e \in Delta(b, a).removed_edges \cup Left(Delta(b, a).quality_changes) :
                    f = FactOf("RELATION_REMOVED", {e}, {})
               \/ \E e \in Delta(b, a).added_edges \cup Right(Delta(b, a).quality_changes) :
                    f = FactOf("RELATION_ADDED", {}, {e})
      BY <2>1, <3>1, <3>2, <3>3, <3>5
    <3>6. \A x \in X : {x} \in SUBSET X
      OBVIOUS
    <3>7. CASE \/ \E p \in Delta(b, a).modified : f = FactOf("NODE_MODIFIED", {p[1]}, {p[2]})
               \/ \E p \in Delta(b, a).renamed : f = FactOf("RENAME_HYPOTHESIS", {p[1]}, {p[2]})
      BY <2>2, <2>3, <3>3, <3>6, <3>7
    <3>8. CASE \/ \E p \in Delta(b, a).evidence_moves : f = FactOf("EVIDENCE_MOVED", {p[1]}, {p[2]})
               \/ \E p \in Delta(b, a).quality_changes :
                    f = FactOf("RELATION_QUALITY_CHANGED", {p[1]}, {p[2]})
      BY <2>2, <2>3, <3>3, <3>6, <3>8
    <3>9. f \in ChangedFacts(Delta(b, a))
      OBVIOUS
    <3> HIDE DEF facts, Coded
    <3>10. QED
      BY <3>4, <3>5, <3>7, <3>8, <3>9, FactMembers
  <2>5. QED
    BY <2>4 DEF FactOf
<1> HIDE DEF facts, X, Kinds
<1>5. code \in Injection(facts, Kinds \X ((SUBSET X) \X (SUBSET X)))
  <2>1. code \in [facts -> Kinds \X ((SUBSET X) \X (SUBSET X))]
    BY <1>4
  <2>2. ASSUME NEW f \in facts, NEW g \in facts, code[f] = code[g] PROVE f = g
    <3>1. f.kind = g.kind /\ f.before = g.before /\ f.after = g.after
      BY <2>2
    <3>2. f = FactOf(f.kind, f.before, f.after) /\ g = FactOf(g.kind, g.before, g.after)
      BY <1>4
    <3>3. QED
      BY <3>1, <3>2
  <2>3. QED
    BY <2>1, <2>2 DEF Injection, IsInjective
<1> HIDE DEF code
<1>6. IsFiniteSet(facts)
  BY <1>3, <1>5, FS_Injection
<1>7. QED
  BY <1>6 DEF facts

-----------------------------------------------------------------------------
(* The graphs are well formed; what is published is what their comparison      *)
(* makes, and what comes back is of it or of the other event.                  *)
EventFacts == ChangedFacts(Delta(graphs["before"], graphs["after"]))
GraphsInv ==
  /\ graphs \in [Sides -> [nodes : SUBSET SomeNodes, edges : SUBSET SomeEdges]]
  /\ \A s \in Sides : GraphOK(graphs[s])
PublishedInv == published = {} \/ published = ChangeCards(ThisEvent, EventFacts)
ReturnedInv ==
  /\ published = {} => returned = {}
  /\ \A r \in returned : r.card \in published \cup ChangeCards(OtherEvent, OtherFacts)
IInv == GraphsInv /\ PublishedInv /\ ReturnedInv

LEMMA InitInv == DeltaInit => IInv
<1> SUFFICES ASSUME DeltaInit PROVE IInv
  OBVIOUS
<1>1. GraphsInv
  BY FS_EmptySet DEF DeltaInit, GraphsInv, GraphOK, Identified
<1>2. QED
  BY <1>1 DEF DeltaInit, IInv, PublishedInv, ReturnedInv

LEMMA Grown ==
  ASSUME NEW S, NEW x, Identified(S), IsFiniteSet(S), x.id \notin Ids(S)
  PROVE  Identified(S \cup {x}) /\ IsFiniteSet(S \cup {x})
  BY FS_AddElement DEF Identified, Ids

LEMMA StepInv == IInv /\ [DeltaNext]_deltaVars => IInv'
<1> SUFFICES ASSUME IInv, [DeltaNext]_deltaVars PROVE IInv'
  OBVIOUS
<1>1. ASSUME NEW s \in Sides, NEW n \in SomeNodes, AddNode(s, n) PROVE IInv'
  <2>1. GraphsInv'
    <3>1. /\ graphs'[s].nodes = graphs[s].nodes \cup {n}
          /\ graphs'[s].edges = graphs[s].edges
          /\ \A t \in Sides \ {s} : graphs'[t] = graphs[t]
      BY <1>1 DEF AddNode, IInv, GraphsInv
    <3>2. GraphOK(graphs'[s])
      BY <1>1, <3>1, Grown DEF AddNode, IInv, GraphsInv, GraphOK
    <3>3. graphs' \in [Sides -> [nodes : SUBSET SomeNodes, edges : SUBSET SomeEdges]]
      BY <1>1 DEF AddNode, IInv, GraphsInv
    <3>4. QED
      BY <3>1, <3>2, <3>3 DEF IInv, GraphsInv
  <2>2. QED
    BY <1>1, <2>1 DEF AddNode, IInv, PublishedInv, ReturnedInv
<1>2. ASSUME NEW s \in Sides, NEW e \in SomeEdges, AddEdge(s, e) PROVE IInv'
  <2>1. GraphsInv'
    <3>1. /\ graphs'[s].edges = graphs[s].edges \cup {e}
          /\ graphs'[s].nodes = graphs[s].nodes
          /\ \A t \in Sides \ {s} : graphs'[t] = graphs[t]
      BY <1>2 DEF AddEdge, IInv, GraphsInv
    <3>2. GraphOK(graphs'[s])
      BY <1>2, <3>1, Grown DEF AddEdge, IInv, GraphsInv, GraphOK
    <3>3. graphs' \in [Sides -> [nodes : SUBSET SomeNodes, edges : SUBSET SomeEdges]]
      BY <1>2 DEF AddEdge, IInv, GraphsInv
    <3>4. QED
      BY <3>1, <3>2, <3>3 DEF IInv, GraphsInv
  <2>2. QED
    BY <1>2, <2>1 DEF AddEdge, IInv, PublishedInv, ReturnedInv
<1>3. CASE PublishChange
  BY <1>3 DEF PublishChange, IInv, GraphsInv, PublishedInv, ReturnedInv, EventFacts
<1>4. CASE Return
  <2>1. ReturnedInv'
    <3>1. PICK lost \in SUBSET published, twice \in SUBSET published,
               strange \in SUBSET ChangeCards(OtherEvent, OtherFacts) :
            returned' = {Delivered(c, 1) : c \in (published \ lost) \cup strange}
                        \cup {Delivered(c, 2) : c \in twice}
      BY <1>4 DEF Return
    <3>2. QED
      BY <1>4, <3>1 DEF Return, ReturnedInv, Delivered
  <2>2. QED
    BY <1>4, <2>1 DEF Return, IInv, GraphsInv, PublishedInv, EventFacts
<1>5. CASE UNCHANGED deltaVars
  BY <1>5 DEF deltaVars, IInv, GraphsInv, PublishedInv, ReturnedInv, EventFacts
<1>6. QED
  BY <1>1, <1>2, <1>3, <1>4, <1>5 DEF DeltaNext

(* Of the statements of one fact a side counts one.                           *)
LEMMA OneStatement ==
  ASSUME NEW S, S \subseteq SomeEdges, Identified(S),
         NEW e \in LastStatements(S), NEW f \in LastStatements(S), Fact(e) = Fact(f)
  PROVE  e = f
<1>1. e \in S /\ f \in S /\ e.id \in Nat /\ f.id \in Nat
  BY EdgeVersions DEF LastStatements
<1>2. e.id <= f.id /\ f.id <= e.id
  BY <1>1 DEF LastStatements
<1>3. e.id = f.id
  BY <1>1, <1>2
<1>4. QED
  BY <1>1, <1>3 DEF Identified

LEMMA OneQuality ==
  ASSUME NEW b, NEW a, GraphOK(b), GraphOK(a),
         NEW p \in QualityChanges(b, a), NEW q \in QualityChanges(b, a),
         Fact(p[1]) = Fact(q[1])
  PROVE  p = q
<1>1. /\ Without(b.edges, a.edges) \subseteq SomeEdges /\ Identified(Without(b.edges, a.edges))
      /\ Without(a.edges, b.edges) \subseteq SomeEdges /\ Identified(Without(a.edges, b.edges))
  BY DEF GraphOK, Without, Identified
<1>2. /\ p = <<p[1], p[2]>> /\ q = <<q[1], q[2]>>
      /\ p[1] \in LastStatements(Without(b.edges, a.edges))
      /\ q[1] \in LastStatements(Without(b.edges, a.edges))
      /\ p[2] \in LastStatements(Without(a.edges, b.edges))
      /\ q[2] \in LastStatements(Without(a.edges, b.edges))
      /\ Fact(p[1]) = Fact(p[2]) /\ Fact(q[1]) = Fact(q[2])
  BY DEF QualityChanges
<1>3. p[1] = q[1]
  BY <1>1, <1>2, OneStatement
<1>4. p[2] = q[2]
  BY <1>1, <1>2, OneStatement
<1>5. QED
  BY <1>2, <1>3, <1>4

LEMMA MirrorInState == IInv => DeltaMirrored
<1> SUFFICES ASSUME IInv PROVE DeltaMirrored
  OBVIOUS
<1> DEFINE there == Delta(graphs["before"], graphs["after"])
           back == Delta(graphs["after"], graphs["before"])
<1>1. \A p, q \in there.renamed : p[1] = q[1] <=> p[2] = q[2]
  BY RenamePairs, DeltaFields
<1>2. /\ there.added_nodes = back.removed_nodes /\ there.removed_nodes = back.added_nodes
      /\ there.added_edges = back.removed_edges /\ there.removed_edges = back.added_edges
  <2> DEFINE b == graphs["before"]
             a == graphs["after"]
  <2>1. /\ there.added_nodes = Without(a.nodes, b.nodes) \ Right(Renames(b, a))
        /\ there.removed_nodes = Without(b.nodes, a.nodes) \ Left(Renames(b, a))
        /\ there.added_edges = Without(a.edges, b.edges) \ Right(QualityChanges(b, a))
        /\ there.removed_edges = Without(b.edges, a.edges) \ Left(QualityChanges(b, a))
    BY DeltaFields
  <2>2. /\ back.added_nodes = Without(b.nodes, a.nodes) \ Right(Renames(a, b))
        /\ back.removed_nodes = Without(a.nodes, b.nodes) \ Left(Renames(a, b))
        /\ back.added_edges = Without(b.edges, a.edges) \ Right(QualityChanges(a, b))
        /\ back.removed_edges = Without(a.edges, b.edges) \ Left(QualityChanges(a, b))
    BY DeltaFields
  <2>3. /\ Left(Renames(b, a)) = Right(Renames(a, b))
        /\ Right(Renames(b, a)) = Left(Renames(a, b))
        /\ Left(QualityChanges(b, a)) = Right(QualityChanges(a, b))
        /\ Right(QualityChanges(b, a)) = Left(QualityChanges(a, b))
    BY Mirror
  <2> HIDE DEF there, back
  <2>4. QED
    BY <2>1, <2>2, <2>3
<1>3. /\ there.renamed = Exchanged(back.renamed)
      /\ there.modified = Exchanged(back.modified)
      /\ there.evidence_moves = Exchanged(back.evidence_moves)
      /\ there.quality_changes = Exchanged(back.quality_changes)
  <2>1. /\ there.renamed = Renames(graphs["before"], graphs["after"])
        /\ there.modified = Modified(graphs["before"], graphs["after"])
        /\ there.evidence_moves = EvidenceMoves(graphs["before"], graphs["after"])
        /\ there.quality_changes = QualityChanges(graphs["before"], graphs["after"])
    BY DeltaFields
  <2>2. /\ back.renamed = Renames(graphs["after"], graphs["before"])
        /\ back.modified = Modified(graphs["after"], graphs["before"])
        /\ back.evidence_moves = EvidenceMoves(graphs["after"], graphs["before"])
        /\ back.quality_changes = QualityChanges(graphs["after"], graphs["before"])
    BY DeltaFields
  <2> HIDE DEF there, back
  <2>3. QED
    BY <2>1, <2>2, Mirror
<1>4. \A p, q \in there.quality_changes : Fact(p[1]) = Fact(q[1]) => p = q
  <2>1. GraphOK(graphs["before"]) /\ GraphOK(graphs["after"])
    BY DEF IInv, GraphsInv, Sides
  <2>2. QED
    BY <2>1, OneQuality, DeltaFields
<1> HIDE DEF there, back
<1>5. QED
  BY <1>1, <1>2, <1>3, <1>4 DEF DeltaMirrored, there, back

(* The way back is the comparison with its sides exchanged, for graphs of any   *)
(* size (diff.py, compare_graphs and _match_renames).                         *)
THEOREM MirroredAlways == DeltaSpec => []DeltaMirrored
<1>1. DeltaInit => IInv
  BY InitInv
<1>2. IInv /\ [DeltaNext]_deltaVars => IInv'
  BY StepInv
<1>3. IInv => DeltaMirrored
  BY MirrorInState
<1>4. QED
  BY <1>1, <1>2, <1>3, PTL DEF DeltaSpec

(* Pages that are as many as the event has facts and no two of which are the    *)
(* same card are all its pages.                                             *)
LEMMA AllRead ==
  ASSUME IInv, returned # {}, Accepted
  PROVE  Read = EventFacts
<1>1. published = ChangeCards(ThisEvent, EventFacts)
  BY DEF IInv, PublishedInv, ReturnedInv
<1>2. ASSUME NEW r \in returned, r.card.event = ThisEvent
      PROVE  \/ r.card = Summary(ThisEvent, Cardinality(EventFacts))
             \/ \E f \in EventFacts :
                  r.card = Page(ThisEvent, Cardinality(EventFacts), f)
  <2>1. \A c \in ChangeCards(OtherEvent, OtherFacts) : c.event = OtherEvent
    BY DEF ChangeCards, Summary, Page
  <2>2. r.card \in ChangeCards(ThisEvent, EventFacts)
    BY <1>1, <1>2, <2>1 DEF IInv, ReturnedInv, ThisEvent, OtherEvent
  <2>3. QED
    BY <2>2 DEF ChangeCards
<1>3. PICK s \in Summaries : TRUE
  BY FS_EmptySet DEF Accepted
<1>4. /\ s.card.event = ThisEvent /\ Cardinality(Pages) = s.card.count
      /\ \A p \in Pages : p.card.event = ThisEvent
      /\ \A p, q \in Pages : p.card = q.card => p = q
  BY <1>3 DEF Accepted
<1> DEFINE page(f) == Page(ThisEvent, Cardinality(EventFacts), f)
<1>a. /\ Summary(ThisEvent, Cardinality(EventFacts)).kind = "summary"
      /\ Summary(ThisEvent, Cardinality(EventFacts)).count = Cardinality(EventFacts)
      /\ \A f : page(f).kind = "page" /\ page(f).fact = {f}
  BY DEF Summary, Page
<1>5. Cardinality(Pages) = Cardinality(EventFacts)
  <2>1. s \in returned /\ s.card.kind = "summary"
    BY <1>3 DEF Summaries
  <2>2. s.card = Summary(ThisEvent, Cardinality(EventFacts))
    BY <1>2, <1>4, <1>a, <2>1
  <2>3. QED
    BY <1>4, <1>a, <2>2
<1>6. ASSUME NEW p \in Pages PROVE \E f \in EventFacts : p.card = page(f)
  <2>1. p \in returned /\ p.card.kind = "page"
    BY DEF Pages
  <2>2. QED
    BY <1>2, <1>4, <1>a, <2>1
<1> HIDE DEF page
<1> DEFINE told == [p \in Pages |-> CHOOSE f \in EventFacts : p.card.fact = {f}]
<1>7. \A p \in Pages : told[p] \in EventFacts /\ p.card.fact = {told[p]}
  BY <1>6, <1>a
<1>8. told \in Injection(Pages, EventFacts)
  <2>1. told \in [Pages -> EventFacts]
    BY <1>7
  <2>2. ASSUME NEW p \in Pages, NEW q \in Pages, told[p] = told[q] PROVE p = q
    <3>1. p.card.fact = q.card.fact
      BY <1>7, <2>2
    <3>2. p.card = q.card
      <4>1. PICK f \in EventFacts, g \in EventFacts : p.card = page(f) /\ q.card = page(g)
        BY <1>6
      <4>2. {f} = {g}
        BY <1>a, <3>1, <4>1
      <4>3. f = g
        BY <4>2
      <4>4. QED
        BY <4>1, <4>3
    <3>3. QED
      BY <1>4, <3>2
  <2>3. QED
    BY <2>1, <2>2 DEF Injection, IsInjective
<1>9. IsFiniteSet(EventFacts)
  BY FiniteFacts DEF IInv, GraphsInv, Sides, EventFacts
<1> HIDE DEF told
<1>10. told \in Surjection(Pages, EventFacts)
  BY <1>5, <1>8, <1>9, FS_Injection
<1>11. \A f \in EventFacts : \E p \in Pages : p.card.fact = {f}
  BY <1>7, <1>10 DEF Surjection
<1> HIDE DEF told
<1>12. \A x : x \in Read <=> \E p \in Pages : x \in p.card.fact
  BY DEF Read
<1>13. ASSUME NEW x \in Read PROVE x \in EventFacts
  BY <1>7, <1>12
<1>14. ASSUME NEW f \in EventFacts PROVE f \in Read
  BY <1>11, <1>12
<1>15. QED
  BY <1>13, <1>14

(* Records that are accepted turn the graph before into the graph after, for    *)
(* graphs of any size and whatever HydraDB returned (evolution_service.py,      *)
(* _validated_records).                                                     *)
THEOREM AcceptedAreWhole == DeltaSpec => []AcceptedIsWhole
<1>1. IInv => AcceptedIsWhole
  BY AllRead, NodesTurned, EdgesTurned
     DEF AcceptedIsWhole, IInv, GraphsInv, Sides, EventFacts
<1>2. QED
  BY <1>1, InitInv, StepInv, PTL DEF DeltaSpec
=============================================================================
