------------------------ MODULE RepositoryQueryProofs ------------------------
(* What RepositoryQuery guarantees for any number of questions, sources,      *)
(* revisions, rounds and synchronisations.                                  *)
EXTENDS RepositoryQuery, TLAPS, FiniteSetTheorems, SequenceTheorems

-----------------------------------------------------------------------------
(* A question in progress has the fields of Asking, and its window holds       *)
(* chunks.  Nothing is said of the cache and of the relations read: a ready     *)
(* answer does not depend on what they hold.                                *)
Fields == {"pc", "asked", "expected", "policy", "window", "pending", "relations", "rounds"}
Phases == {"check", "query", "tail", "read", "complete", "normalize"}
InProgress(c) == DOMAIN c = Fields /\ c.pc \in Phases /\ c.window \subseteq Chunks
Faithful(c) ==
  /\ c.pc = "answered"
  /\ c.status = "ready" => \A k \in c.window \cup c.relations : k.rev = c.revision
IInv ==
  /\ DOMAIN query = Queries
  /\ \A q \in Queries : query[q] = Idle \/ InProgress(query[q]) \/ Faithful(query[q])

LEMMA TwoElements ==
  ASSUME NEW a, NEW b, a # b
  PROVE  Cardinality({a, b}) = 2
<1>1. IsFiniteSet({a}) /\ Cardinality({a}) = 1
  BY FS_Singleton
<1>2. b \notin {a} /\ {a} \cup {b} = {a, b}
  OBVIOUS
<1>3. Cardinality({a} \cup {b}) = Cardinality({a}) + 1
  BY <1>1, <1>2, FS_AddElement
<1>4. QED
  BY <1>1, <1>2, <1>3

(* A window without a conflict holds chunks of one revision, the one that is   *)
(* named by any of them.                                                   *)
LEMMA NoConflict ==
  ASSUME NEW q \in Queries, query[q].window \subseteq Chunks, ~Conflict(q),
         NEW c \in query[q].window
  PROVE  c.rev = RevisionNamed(q)
<1> DEFINE revs == RevisionsOf(query[q].window)
<1>1. revs \subseteq Revisions /\ c.rev \in revs
  BY DEF RevisionsOf, Chunks
<1>2. IsFiniteSet(revs)
  BY <1>1, QuerySets, FS_Subset
<1>3. ~(Cardinality(revs) > 1)
  BY DEF Conflict
<1>4. RevisionNamed(q) \in revs
  BY <1>1 DEF RevisionNamed
<1>5. SUFFICES ASSUME c.rev # RevisionNamed(q) PROVE FALSE
  OBVIOUS
<1>6. {c.rev, RevisionNamed(q)} \subseteq revs
  BY <1>1, <1>4
<1>7. Cardinality({c.rev, RevisionNamed(q)}) = 2
  BY <1>5, TwoElements
<1>8. Cardinality({c.rev, RevisionNamed(q)}) <= Cardinality(revs)
  BY <1>2, <1>6, FS_Subset
<1>9. Cardinality(revs) \in Nat
  BY <1>2, FS_CardinalityType
<1>10. QED
  BY <1>3, <1>7, <1>8, <1>9

(* What a step that gives question q the record c has to show.               *)
LEMMA GoesOn ==
  ASSUME IInv, NEW q \in Queries, NEW c, Goes(q, c),
         c = Idle \/ InProgress(c) \/ Faithful(c)
  PROVE  IInv'
<1>1. DOMAIN query' = Queries
  BY DEF Goes, IInv
<1>2. query'[q] = c /\ \A p \in Queries \ {q} : query'[p] = query[p]
  BY DEF Goes, IInv
<1>3. ASSUME NEW p \in Queries
      PROVE  query'[p] = Idle \/ InProgress(query'[p]) \/ Faithful(query'[p])
  <2>1. CASE p = q
    BY <1>2, <2>1
  <2>2. CASE p # q
    BY <1>2, <2>2 DEF IInv
  <2>3. QED
    BY <2>1, <2>2
<1>4. QED
  BY <1>1, <1>3 DEF IInv

(* An answer that is empty is faithful to any revision.                      *)
LEMMA EmptyAnswer ==
  ASSUME IInv, NEW q \in Queries, NEW status, NEW revision, Empty(q, status, revision)
  PROVE  IInv'
<1> DEFINE c == [pc |-> "answered", status |-> status, revision |-> revision,
                 window |-> {}, relations |-> {}]
<1>1. Faithful(c)
  BY DEF Faithful
<1>2. Goes(q, c)
  BY DEF Empty
<1> HIDE DEF c
<1>3. QED
  BY <1>1, <1>2, GoesOn

(* A question goes on with other fields, its window still of chunks.          *)
LEMMA Further ==
  ASSUME IInv, NEW q \in Queries, query[q].pc \in Phases,
         NEW window, window \subseteq Chunks, NEW pc \in Phases,
         NEW c, c.pc = pc, c.window = window, DOMAIN c = DOMAIN query[q], Goes(q, c)
  PROVE  IInv'
<1>1. InProgress(query[q])
  BY DEF IInv, Idle, Phases, Faithful
<1>2. InProgress(c)
  BY <1>1 DEF InProgress
<1>3. QED
  BY <1>2, GoesOn

LEMMA AtWork ==
  ASSUME IInv, NEW q \in Queries, query[q].pc \in Phases
  PROVE  InProgress(query[q])
BY DEF IInv, Idle, Phases, Faithful

LEMMA InvariantStep == IInv /\ [QueryNext]_vars => IInv'
<1> SUFFICES ASSUME IInv, [QueryNext]_vars PROVE IInv'
  OBVIOUS
<1>1. CASE UNCHANGED query
  BY <1>1 DEF IInv
<1>2. ASSUME NEW q \in Queries, NEW p \in Policies, NEW r, Ask(q, p, r) PROVE IInv'
  <2> DEFINE c == [pc |-> "check", asked |-> r, policy |-> p,
                   expected |-> IF r = NoRevision THEN sync.revision ELSE r,
                   window |-> {}, pending |-> {}, relations |-> {}, rounds |-> 0]
  <2>1. InProgress(c)
    BY DEF InProgress, Fields, Phases
  <2>2. Goes(q, c)
    BY <1>2 DEF Ask
  <2> HIDE DEF c
  <2>3. QED
    BY <2>1, <2>2, GoesOn
<1>3. ASSUME NEW q \in Queries, QueryStep(q) PROVE IInv'
  <2>a. Stored \subseteq Chunks /\ \A kinds : Matching(q, kinds) \subseteq Chunks
    BY DEF Stored, Matching, OfRevision
  <2>1. CASE CheckState(q)
    <3>1. CASE Empty(q, "degraded", query[q].asked)
      BY <3>1, EmptyAnswer
    <3>2. CASE Goes(q, [query[q] EXCEPT !.pc = "query"])
      <4>1. InProgress(query[q])
        BY <2>1, AtWork DEF CheckState, Phases
      <4>2. InProgress([query[q] EXCEPT !.pc = "query"])
        BY <4>1 DEF InProgress, Fields, Phases
      <4>3. QED
        BY <3>2, <4>2, GoesOn
    <3>3. QED
      BY <2>1, <3>1, <3>2 DEF CheckState
  <2>2. CASE Retrieve(q)
    <3>1. InProgress(query[q])
      BY <2>2, AtWork DEF Retrieve, Phases
    <3>2. ASSUME NEW chunks \in SUBSET Chunks, Goes(q, Retrieved(q, chunks)) PROVE IInv'
      <4>1. InProgress(Retrieved(q, chunks))
        BY <3>1 DEF InProgress, Retrieved, Fields, Phases
      <4>2. QED
        BY <3>2, <4>1, GoesOn
    <3>3. CASE Empty(q, "unavailable", query[q].asked)
      BY <3>3, EmptyAnswer
    <3>4. QED
      BY <2>2, <2>a, <3>2, <3>3 DEF Retrieve
  <2>3. CASE RetrieveTests(q)
    <3>1. InProgress(query[q])
      BY <2>3, AtWork DEF RetrieveTests, Phases
    <3>2. ASSUME NEW chunks \in SUBSET Chunks,
                 Goes(q, [query[q] EXCEPT !.pc = "read", !.window = @ \cup chunks])
          PROVE  IInv'
      <4>1. InProgress([query[q] EXCEPT !.pc = "read", !.window = @ \cup chunks])
        BY <3>1 DEF InProgress, Fields, Phases
      <4>2. QED
        BY <3>2, <4>1, GoesOn
    <3>3. CASE Goes(q, [query[q] EXCEPT !.pc = "read"])
      <4>1. InProgress([query[q] EXCEPT !.pc = "read"])
        BY <3>1 DEF InProgress, Fields, Phases
      <4>2. QED
        BY <3>3, <4>1, GoesOn
    <3>4. QED
      BY <2>3, <2>a, <3>2, <3>3 DEF RetrieveTests
  <2>4. CASE ReadRelations(q)
    <3>1. InProgress(query[q])
      BY <2>4, AtWork DEF ReadRelations, Phases
    <3>2. CASE Goes(q, [query[q] EXCEPT !.pc = "normalize"])
      <4>1. InProgress([query[q] EXCEPT !.pc = "normalize"])
        BY <3>1 DEF InProgress, Fields, Phases
      <4>2. QED
        BY <3>2, <4>1, GoesOn
    <3>3. ASSUME NEW pending, NEW relations,
                 Goes(q, [query[q] EXCEPT !.pc = "complete", !.pending = pending,
                                          !.relations = relations])
          PROVE  IInv'
      <4>1. InProgress([query[q] EXCEPT !.pc = "complete", !.pending = pending,
                                        !.relations = relations])
        BY <3>1 DEF InProgress, Fields, Phases
      <4>2. QED
        BY <3>3, <4>1, GoesOn
    <3>4. QED
      BY <2>4, <3>2, <3>3 DEF ReadRelations
  <2>5. ASSUME NEW s \in Sources, ReadOne(q, s) PROVE IInv'
    <3>1. InProgress(query[q])
      BY <2>5, AtWork DEF ReadOne, Phases
    <3>2. ASSUME NEW pending, NEW relations,
                 Goes(q, [query[q] EXCEPT !.pending = pending, !.relations = relations])
          PROVE  IInv'
      <4>1. InProgress([query[q] EXCEPT !.pending = pending, !.relations = relations])
        BY <3>1 DEF InProgress, Fields, Phases
      <4>2. QED
        BY <3>2, <4>1, GoesOn
    <3>3. CASE Goes(q, [query[q] EXCEPT !.pending = @ \ {s}])
      <4>1. InProgress([query[q] EXCEPT !.pending = @ \ {s}])
        BY <3>1 DEF InProgress, Fields, Phases
      <4>2. QED
        BY <3>3, <4>1, GoesOn
    <3>4. QED
      BY <2>5, <3>2, <3>3 DEF ReadOne
  <2>6. CASE Complete(q)
    <3>1. InProgress(query[q])
      BY <2>6, AtWork DEF Complete, Phases
    <3>2. CASE Goes(q, [query[q] EXCEPT !.pc = "normalize"])
      <4>1. InProgress([query[q] EXCEPT !.pc = "normalize"])
        BY <3>1 DEF InProgress, Fields, Phases
      <4>2. QED
        BY <3>2, <4>1, GoesOn
    <3>3. ASSUME NEW chunks \in SUBSET Chunks, Goes(q, Extended(q, chunks)) PROVE IInv'
      <4>1. InProgress(Extended(q, chunks))
        BY <3>1 DEF InProgress, Extended, RevisionMatched, Fields, Phases
      <4>2. QED
        BY <3>3, <4>1, GoesOn
    <3>4. QED
      BY <2>6, <2>a, <3>2, <3>3 DEF Complete
  <2>7. CASE Normalize(q)
    <3>1. InProgress(query[q])
      BY <2>7, AtWork DEF Normalize, Phases
    <3>2. CASE Conflict(q)
      BY <2>7, <3>2, EmptyAnswer DEF Normalize, Conflicted
    <3>3. CASE ~Conflict(q)
      <4> DEFINE c == [pc |-> "answered", status |-> "ready", revision |-> RevisionNamed(q),
                       window |-> query[q].window, relations |-> Grounded(q)]
      <4>1. \A k \in query[q].window : k.rev = RevisionNamed(q)
        BY <3>1, <3>3, NoConflict DEF InProgress
      <4>2. Faithful(c)
        BY <4>1 DEF Faithful, Grounded
      <4>3. Goes(q, c)
        BY <2>7, <3>3 DEF Normalize
      <4> HIDE DEF c
      <4>4. QED
        BY <4>2, <4>3, GoesOn
    <3>4. QED
      BY <3>2, <3>3
  <2>8. QED
    BY <1>3, <2>1, <2>2, <2>3, <2>4, <2>5, <2>6, <2>7 DEF QueryStep
<1>4. QED
  BY <1>1, <1>2, <1>3 DEF QueryNext, vars, StartSync, EndSync, Replace

(* A ready answer holds chunks and relations of one revision, the one it names. *)
THEOREM OneRevisionOnly == QuerySpec => []OneRevision
<1>1. QueryInit => IInv
  BY DEF QueryInit, IInv
<1>2. IInv => OneRevision
  BY DEF IInv, OneRevision, InProgress, Phases, Faithful, Idle
<1>3. QED
  BY <1>1, <1>2, InvariantStep, PTL DEF QuerySpec

-----------------------------------------------------------------------------
(* The types.  What is not obvious of them is the cache: it holds an entry per  *)
(* key and never more than its limit, whatever the order of its uses.         *)
OnePerKey(c) ==
  \A i, j \in DOMAIN c : c[i].rev = c[j].rev /\ c[i].source = c[j].source => i = j
CacheOK(c) == c \in Seq(Entries) /\ Len(c) <= CacheLimit /\ OnePerKey(c)

LEMMA TouchedOK ==
  ASSUME CacheOK(cache), NEW q, NEW S, NEW c \in Touched(q, S)
  PROVE  CacheOK(c)
<1> DEFINE n == Len(cache)
<1>1. n \in Nat /\ DOMAIN cache = 1..n /\ \A i \in 1..n : cache[i] \in Entries
  BY LenProperties, ElementOfSeq DEF CacheOK
<1>2. PICK p \in Bijection(1..n, 1..n) : c = [i \in 1..n |-> cache[p[i]]]
  BY <1>1 DEF Touched
<1>3. /\ p \in [1..n -> 1..n]
      /\ \A i, j \in 1..n : p[i] = p[j] => i = j
  BY <1>2 DEF Bijection, Injection, IsInjective
<1>4. c \in [1..n -> Entries] /\ \A i \in 1..n : c[i] = cache[p[i]]
  BY <1>1, <1>2, <1>3
<1>5. c \in Seq(Entries) /\ Len(c) = n /\ DOMAIN c = 1..n
  BY <1>1, <1>4
<1>6. OnePerKey(c)
  <2> SUFFICES ASSUME NEW i \in 1..n, NEW j \in 1..n,
                      c[i].rev = c[j].rev, c[i].source = c[j].source
               PROVE  i = j
    BY <1>5 DEF OnePerKey
  <2>1. p[i] \in DOMAIN cache /\ p[j] \in DOMAIN cache
    BY <1>1, <1>3
  <2>2. cache[p[i]].rev = cache[p[j]].rev /\ cache[p[i]].source = cache[p[j]].source
    BY <1>4
  <2>3. p[i] = p[j]
    BY <2>1, <2>2 DEF CacheOK, OnePerKey
  <2>4. QED
    BY <1>3, <2>3
<1>7. Len(c) <= CacheLimit
  BY <1>5 DEF CacheOK
<1>8. QED
  BY <1>5, <1>6, <1>7 DEF CacheOK

LEMMA KeptOK ==
  ASSUME NEW c \in Seq(Entries), Len(c) <= CacheLimit + 1, OnePerKey(c)
  PROVE  CacheOK(Kept(c))
<1>1. Len(c) \in Nat /\ DOMAIN c = 1..Len(c) /\ CacheLimit \in Nat \ {0}
  BY LenProperties, QueryBounds
<1>2. CASE Len(c) <= CacheLimit
  BY <1>2 DEF Kept, CacheOK
<1>3. CASE Len(c) > CacheLimit
  <2>1. Kept(c) = Tail(c)
    <3>1. ~(Len(c) <= CacheLimit)
      BY <1>1, <1>3
    <3>2. QED
      BY <3>1 DEF Kept
  <2>a. c # <<>>
    <3>1. Len(c) # 0
      BY <1>1, <1>3
    <3>2. QED
      BY <3>1
  <2>2. /\ Tail(c) \in Seq(Entries) /\ Len(Tail(c)) = Len(c) - 1
        /\ \A i \in 1..Len(Tail(c)) : Tail(c)[i] = c[i + 1]
    BY <2>a, HeadTailProperties
  <2>3. DOMAIN Tail(c) = 1..(Len(c) - 1)
    BY <2>2, LenProperties
  <2>4. OnePerKey(Tail(c))
    <3> SUFFICES ASSUME NEW i \in 1..(Len(c) - 1), NEW j \in 1..(Len(c) - 1),
                        Tail(c)[i].rev = Tail(c)[j].rev, Tail(c)[i].source = Tail(c)[j].source
                 PROVE  i = j
      BY <2>3 DEF OnePerKey
    <3>1. i + 1 \in DOMAIN c /\ j + 1 \in DOMAIN c
      BY <1>1
    <3>2. c[i + 1].rev = c[j + 1].rev /\ c[i + 1].source = c[j + 1].source
      BY <2>2
    <3>3. i + 1 = j + 1
      BY <3>1, <3>2 DEF OnePerKey
    <3>4. QED
      BY <3>3
  <2>5. QED
    BY <1>1, <2>1, <2>2, <2>4 DEF CacheOK
<1>4. QED
  BY <1>1, <1>2, <1>3

(* Without its entry of a key the cache has room, and no other of that key.    *)
LEMMA AppendedOK ==
  ASSUME NEW c \in Seq(Entries), OnePerKey(c), NEW e \in Entries,
         \A i \in DOMAIN c : ~(c[i].rev = e.rev /\ c[i].source = e.source),
         Len(c) <= CacheLimit
  PROVE  CacheOK(Kept(Append(c, e)))
<1> DEFINE a == Append(c, e)
           n == Len(c)
<1>1. n \in Nat /\ DOMAIN c = 1..n
  BY LenProperties
<1>2. a \in Seq(Entries) /\ Len(a) = n + 1 /\ DOMAIN a = 1..(n + 1)
      /\ \A i \in 1..(n + 1) : a[i] = IF i = n + 1 THEN e ELSE c[i]
  BY AppendProperties
<1>3. OnePerKey(a)
  <2> SUFFICES ASSUME NEW i \in 1..(n + 1), NEW j \in 1..(n + 1),
                      a[i].rev = a[j].rev, a[i].source = a[j].source
               PROVE  i = j
    BY <1>2 DEF OnePerKey
  <2>1. CASE i = n + 1 /\ j # n + 1
    BY <1>1, <1>2, <2>1
  <2>2. CASE i # n + 1 /\ j = n + 1
    BY <1>1, <1>2, <2>2
  <2>3. CASE i # n + 1 /\ j # n + 1
    <3>1. i \in DOMAIN c /\ j \in DOMAIN c /\ a[i] = c[i] /\ a[j] = c[j]
      BY <1>1, <1>2, <2>3
    <3>2. QED
      BY <3>1 DEF OnePerKey
  <2>4. QED
    BY <2>1, <2>2, <2>3
<1>4. Len(a) <= CacheLimit + 1
  BY <1>1, <1>2, QueryBounds
<1> HIDE DEF a
<1>5. QED
  BY <1>2, <1>3, <1>4, KeptOK DEF a

(* A sequence without its entry k.                                           *)
Skip(k, i) == IF i < k THEN i ELSE i + 1

LEMMA WithoutOne ==
  ASSUME NEW c \in Seq(Entries), NEW k \in 1..Len(c), NEW n \in Nat, n = Len(c),
         NEW d, d = SubSeq(c, 1, k - 1) \o SubSeq(c, k + 1, n)
  PROVE  /\ d \in Seq(Entries) /\ Len(d) = n - 1
         /\ \A i \in 1..(n - 1) : d[i] = c[Skip(k, i)]
<1> DEFINE before == SubSeq(c, 1, k - 1)
           after == SubSeq(c, k + 1, n)
<1>1. k \in Nat /\ 1 <= k /\ k <= n /\ \A i \in 1..n : c[i] \in Entries
  BY ElementOfSeq
<1>2. /\ before \in Seq(Entries)
      /\ Len(before) = IF 1 <= k - 1 THEN (k - 1) - 1 + 1 ELSE 0
      /\ \A i \in 1..((k - 1) - 1 + 1) : before[i] = c[1 + i - 1]
  BY <1>1, SubSeqProperties
<1>3. /\ after \in Seq(Entries)
      /\ Len(after) = IF k + 1 <= n THEN n - (k + 1) + 1 ELSE 0
      /\ \A i \in 1..(n - (k + 1) + 1) : after[i] = c[(k + 1) + i - 1]
  BY <1>1, SubSeqProperties
<1> HIDE DEF before, after
<1>4. Len(before) = k - 1
  BY <1>1, <1>2
<1>5. ASSUME NEW i \in 1..(k - 1) PROVE before[i] = c[i]
  <2>1. i \in 1..((k - 1) - 1 + 1) /\ 1 + i - 1 = i
    BY <1>1
  <2>2. QED
    BY <1>2, <2>1
<1>6. Len(after) = n - k
  BY <1>1, <1>3
<1>7. ASSUME NEW i \in 1..(n - k) PROVE after[i] = c[k + i]
  <2>1. i \in 1..(n - (k + 1) + 1) /\ (k + 1) + i - 1 = k + i
    BY <1>1
  <2>2. QED
    BY <1>3, <2>1
<1>8. /\ d \in Seq(Entries) /\ Len(d) = Len(before) + Len(after)
      /\ \A i \in 1..(Len(before) + Len(after)) :
           d[i] = IF i <= Len(before) THEN before[i] ELSE after[i - Len(before)]
  BY <1>2, <1>3, ConcatProperties DEF before, after
<1>9. Len(d) = n - 1
  <2>1. Len(d) = (k - 1) + (n - k)
    BY <1>4, <1>6, <1>8
  <2>2. (k - 1) + (n - k) = n - 1
    BY <1>1
  <2>3. QED
    BY <2>1, <2>2
<1>10. ASSUME NEW i \in 1..(n - 1) PROVE d[i] = c[Skip(k, i)]
  <2>a. i \in 1..(Len(before) + Len(after))
    BY <1>1, <1>4, <1>6
  <2>b. d[i] = IF i <= Len(before) THEN before[i] ELSE after[i - Len(before)]
    BY <1>8, <2>a
  <2>c. d[i] = IF i <= k - 1 THEN before[i] ELSE after[i - (k - 1)]
    BY <1>4, <2>b
  <2>1. CASE i < k
    <3>1. i <= k - 1 /\ i \in 1..(k - 1)
      BY <1>1, <2>1
    <3>2. d[i] = c[i]
      BY <1>5, <2>c, <3>1
    <3>3. QED
      BY <2>1, <3>2 DEF Skip
  <2>2. CASE ~(i < k)
    <3>a. ~(i <= k - 1)
      BY <1>1, <2>2
    <3>1. d[i] = after[i - (k - 1)]
      BY <2>c, <3>a
    <3>2. i - (k - 1) \in 1..(n - k) /\ k + (i - (k - 1)) = i + 1
      BY <1>1, <2>2
    <3>3. after[i - (k - 1)] = c[i + 1]
      BY <1>7, <3>2
    <3>4. QED
      BY <2>2, <3>1, <3>3 DEF Skip
  <2>3. QED
    BY <2>1, <2>2
<1>11. QED
  BY <1>8, <1>9, <1>10

LEMMA PutOK ==
  ASSUME CacheOK(cache), NEW q, NEW s \in Sources,
         query[q].expected \in Revisions \cup {NoRevision},
         NEW read \in Revisions \cup {NoRevision}
  PROVE  CacheOK(Put(q, s, read))
<1> DEFINE n == Len(cache)
           e == [rev |-> query[q].expected, source |-> s, read |-> read]
<1>1. n \in Nat /\ DOMAIN cache = 1..n /\ \A i \in 1..n : cache[i] \in Entries
  BY LenProperties, ElementOfSeq DEF CacheOK
<1>2. e \in Entries
  BY DEF Entries
<1>3. \A x \in Entries : Hit(q, s, x) <=> x.rev = e.rev /\ x.source = e.source
  BY DEF Entries, Hit, Key
<1>4. CASE ~Cached(q, s)
  <2>1. Put(q, s, read) = Kept(Append(cache, e))
    BY <1>4 DEF Put
  <2>2. \A i \in DOMAIN cache : ~(cache[i].rev = e.rev /\ cache[i].source = e.source)
    BY <1>1, <1>3, <1>4 DEF Cached
  <2> HIDE DEF e
  <2>3. QED
    BY <1>2, <2>1, <2>2, AppendedOK DEF CacheOK
<1>5. CASE Cached(q, s)
  <2> DEFINE k == CHOOSE x \in DOMAIN cache : Hit(q, s, cache[x])
             others == SubSeq(cache, 1, k - 1) \o SubSeq(cache, k + 1, Len(cache))
  <2>1. k \in 1..n /\ Hit(q, s, cache[k])
    BY <1>1, <1>5 DEF Cached
  <2>2. Put(q, s, read) = Kept(Append(others, e))
    BY <1>5 DEF Put
  <2> HIDE DEF k
  <2>5. /\ others \in Seq(Entries) /\ Len(others) = n - 1
        /\ \A i \in 1..(n - 1) : others[i] = cache[Skip(k, i)]
    BY <1>1, <2>1, WithoutOne DEF CacheOK
  <2> HIDE DEF others
  <2>6. DOMAIN others = 1..(n - 1)
    BY <2>5, LenProperties
  <2>7. \A i \in 1..(n - 1) :
          Skip(k, i) \in DOMAIN cache /\ Skip(k, i) # k /\ others[i] = cache[Skip(k, i)]
    BY <1>1, <2>1, <2>5 DEF Skip
  <2>8. \A i, j \in 1..(n - 1) : Skip(k, i) = Skip(k, j) => i = j
    BY <1>1, <2>1 DEF Skip
  <2>9. OnePerKey(others)
    BY <2>6, <2>7, <2>8 DEF OnePerKey, CacheOK
  <2>10. \A i \in DOMAIN others : ~(others[i].rev = e.rev /\ others[i].source = e.source)
    <3> SUFFICES ASSUME NEW i \in 1..(n - 1), others[i].rev = e.rev, others[i].source = e.source
                 PROVE  FALSE
      BY <2>6
    <3>1. cache[k].rev = e.rev /\ cache[k].source = e.source
      BY <1>1, <1>3, <2>1
    <3>2. Skip(k, i) = k
      BY <1>1, <2>1, <2>7, <3>1 DEF CacheOK, OnePerKey
    <3>3. QED
      BY <2>7, <3>2
  <2> HIDE DEF e
  <2>11. Len(others) <= CacheLimit
    BY <1>1, <2>5, QueryBounds DEF CacheOK
  <2>12. QED
    BY <1>2, <2>2, <2>5, <2>9, <2>10, <2>11, AppendedOK
<1>6. QED
  BY <1>4, <1>5

-----------------------------------------------------------------------------
(* A question has the fields of its phase, and they stay in their sets.        *)
Kinds == {Idle} \cup Asking \cup Answers
Typed == query \in [Queries -> Kinds]

LEMMA AskingTyped ==
  ASSUME Typed, NEW q \in Queries, query[q].pc \in Phases
  PROVE  query[q] \in Asking
BY DEF Typed, Kinds, Idle, Answers, Phases

LEMMA GoesTyped ==
  ASSUME Typed, NEW q, NEW c \in Kinds, Goes(q, c)
  PROVE  Typed'
BY DEF Typed, Goes

LEMMA EmptyTyped ==
  ASSUME Typed, NEW q, NEW status \in {"degraded", "unavailable"},
         NEW revision \in Revisions \cup {NoRevision}, Empty(q, status, revision)
  PROVE  Typed'
<1> DEFINE c == [pc |-> "answered", status |-> status, revision |-> revision,
                 window |-> {}, relations |-> {}]
<1>1. c \in Kinds
  BY DEF Kinds, Answers
<1>2. Goes(q, c)
  BY DEF Empty
<1> HIDE DEF c
<1>3. QED
  BY <1>1, <1>2, GoesTyped

LEMMA CitesChunks ==
  ASSUME NEW q, NEW s \in Sources, NEW rev \in Revisions \cup {NoRevision}
  PROVE  Cites(q, s, rev) \subseteq Chunks
BY DEF Cites, Chunks

(* What a hit reads was read before.                                         *)
LEMMA LookupTyped ==
  ASSUME CacheOK(cache), NEW q, NEW s, Cached(q, s)
  PROVE  Lookup(q, s).read \in Revisions \cup {NoRevision}
<1>1. PICK i \in DOMAIN cache : Hit(q, s, cache[i])
  BY DEF Cached
<1>2. cache[i] \in Range(cache)
  BY DEF Range
<1>3. Lookup(q, s) \in Range(cache)
  BY <1>1, <1>2 DEF Lookup
<1>4. \A e \in Range(cache) : e \in Entries
  BY LenProperties, ElementOfSeq DEF Range, CacheOK
<1>5. QED
  BY <1>3, <1>4 DEF Entries

LEMMA QuestionStep ==
  ASSUME QueryTypeOK, CacheOK(cache), Typed, NEW q \in Queries, QueryStep(q)
  PROVE  Typed' /\ CacheOK(cache')
<1>a. Stored \subseteq Chunks /\ \A kinds : Matching(q, kinds) \subseteq Chunks
  BY DEF Stored, Matching, OfRevision
<1>b. query[q].pc \in Phases => query[q] \in Asking
  BY AskingTyped
<1>1. CASE CheckState(q)
  <2>1. query[q] \in Asking
    BY <1>1, <1>b DEF CheckState, Phases
  <2>2. CASE Empty(q, "degraded", query[q].asked)
    <3>1. query[q].asked \in Revisions \cup {NoRevision}
      BY <2>1 DEF Asking
    <3>2. QED
      BY <1>1, <2>2, <3>1, EmptyTyped DEF CheckState
  <2>3. CASE Goes(q, [query[q] EXCEPT !.pc = "query"])
    <3>1. [query[q] EXCEPT !.pc = "query"] \in Kinds
      BY <2>1 DEF Asking, Kinds
    <3>2. QED
      BY <1>1, <2>3, <3>1, GoesTyped DEF CheckState
  <2>4. QED
    BY <1>1, <2>2, <2>3 DEF CheckState
<1>2. CASE Retrieve(q)
  <2>1. query[q] \in Asking
    BY <1>2, <1>b DEF Retrieve, Phases
  <2>2. ASSUME NEW chunks \in SUBSET Chunks, Goes(q, Retrieved(q, chunks))
        PROVE  Typed'
    <3>1. Retrieved(q, chunks) \in Kinds
      BY <2>1 DEF Asking, Kinds, Retrieved
    <3>2. QED
      BY <2>2, <3>1, GoesTyped
  <2>3. CASE Empty(q, "unavailable", query[q].asked)
    <3>1. query[q].asked \in Revisions \cup {NoRevision}
      BY <2>1 DEF Asking
    <3>2. QED
      BY <1>2, <2>3, <3>1, EmptyTyped DEF Retrieve
  <2>4. QED
    BY <1>2, <1>a, <2>2, <2>3 DEF Retrieve
<1>3. CASE RetrieveTests(q)
  <2>1. query[q] \in Asking
    BY <1>3, <1>b DEF RetrieveTests, Phases
  <2>2. ASSUME NEW chunks \in SUBSET Chunks,
               Goes(q, [query[q] EXCEPT !.pc = "read", !.window = @ \cup chunks])
        PROVE  Typed'
    <3>1. [query[q] EXCEPT !.pc = "read", !.window = @ \cup chunks] \in Kinds
      BY <2>1 DEF Asking, Kinds
    <3>2. QED
      BY <2>2, <3>1, GoesTyped
  <2>3. CASE Goes(q, [query[q] EXCEPT !.pc = "read"])
    <3>1. [query[q] EXCEPT !.pc = "read"] \in Kinds
      BY <2>1 DEF Asking, Kinds
    <3>2. QED
      BY <1>3, <2>3, <3>1, GoesTyped DEF RetrieveTests
  <2>4. QED
    BY <1>3, <1>a, <2>2, <2>3 DEF RetrieveTests
<1>4. CASE ReadRelations(q)
  <2>1. query[q] \in Asking
    BY <1>4, <1>b DEF ReadRelations, Phases
  <2>2. CASE Conflict(q)
    <3>1. [query[q] EXCEPT !.pc = "normalize"] \in Kinds
      BY <2>1 DEF Asking, Kinds
    <3>2. Goes(q, [query[q] EXCEPT !.pc = "normalize"]) /\ UNCHANGED cache
      BY <1>4, <2>2 DEF ReadRelations
    <3>3. QED
      BY <3>1, <3>2, GoesTyped
  <2>3. CASE ~Conflict(q)
    <3> DEFINE hits(S) == {s \in S : Cached(q, s)}
               read(S) == UNION {Cites(q, s, Lookup(q, s).read) : s \in hits(S)}
               next(S) == [query[q] EXCEPT !.pc = "complete", !.pending = S \ hits(S),
                                           !.relations = read(S)]
    <3>1. PICK S \in Selections(query[q].window) :
            Goes(q, next(S)) /\ cache' \in Touched(q, hits(S))
      BY <1>4, <2>3 DEF ReadRelations
    <3>2. S \subseteq Sources
      BY <2>1 DEF Selections, SourcesOf, Asking, Chunks
    <3>3. read(S) \subseteq Chunks
      <4>1. ASSUME NEW s \in hits(S) PROVE Cites(q, s, Lookup(q, s).read) \subseteq Chunks
        BY <3>2, CitesChunks, LookupTyped
      <4>2. QED
        BY <4>1
    <3>4. hits(S) \subseteq S
      OBVIOUS
    <3> HIDE DEF hits, read
    <3>5. next(S) \in Kinds
      BY <2>1, <3>2, <3>3 DEF Asking, Kinds
    <3> HIDE DEF next
    <3>6. QED
      BY <3>1, <3>5, GoesTyped, TouchedOK
  <2>4. QED
    BY <2>2, <2>3
<1>5. ASSUME NEW s \in Sources, ReadOne(q, s) PROVE Typed' /\ CacheOK(cache')
  <2>1. query[q] \in Asking
    BY <1>5, <1>b DEF ReadOne, Phases
  <2>2. stored[s] \in Revisions \cup {NoRevision}
    BY DEF QueryTypeOK
  <2>3. CASE /\ Goes(q, [query[q] EXCEPT !.pending = @ \ {s},
                                         !.relations = @ \cup Cites(q, s, stored[s])])
             /\ cache' = Put(q, s, stored[s])
    <3> DEFINE c == [query[q] EXCEPT !.pending = @ \ {s},
                                     !.relations = @ \cup Cites(q, s, stored[s])]
    <3>1. c \in Asking
      <4>1. Cites(q, s, stored[s]) \subseteq Chunks
        BY <2>2, CitesChunks
      <4>2. QED
        BY <2>1, <4>1 DEF Asking
    <3>2. CacheOK(Put(q, s, stored[s]))
      BY <2>1, <2>2, PutOK DEF Asking
    <3> HIDE DEF c
    <3>3. QED
      BY <2>3, <3>1, <3>2, GoesTyped DEF c, Kinds
  <2>4. CASE Goes(q, [query[q] EXCEPT !.pending = @ \ {s}]) /\ UNCHANGED cache
    <3>1. [query[q] EXCEPT !.pending = @ \ {s}] \in Kinds
      BY <2>1 DEF Asking, Kinds
    <3>2. QED
      BY <2>4, <3>1, GoesTyped
  <2>5. QED
    BY <1>5, <2>3, <2>4 DEF ReadOne
<1>6. CASE Complete(q)
  <2>1. query[q] \in Asking
    BY <1>6, <1>b DEF Complete, Phases
  <2>2. CASE Goes(q, [query[q] EXCEPT !.pc = "normalize"])
    <3>1. [query[q] EXCEPT !.pc = "normalize"] \in Kinds
      BY <2>1 DEF Asking, Kinds
    <3>2. QED
      BY <1>6, <2>2, <3>1, GoesTyped DEF Complete
  <2>3. ASSUME NEW chunks \in SUBSET Chunks, Goes(q, Extended(q, chunks)) PROVE Typed'
    <3>1. Extended(q, chunks) \in Kinds
      <4> DEFINE added == RevisionMatched(q, chunks) \ query[q].window
      <4>1. added \subseteq Chunks
        BY DEF RevisionMatched
      <4>2. [query[q] EXCEPT !.pc = "normalize"] \in Asking
        BY <2>1 DEF Asking
      <4>3. [query[q] EXCEPT !.pc = "read", !.window = @ \cup added, !.rounds = @ + 1] \in Asking
        <5> HIDE DEF added
        <5>1. query[q].rounds + 1 \in Nat
          BY <2>1 DEF Asking
        <5>2. query[q].window \cup added \subseteq Chunks
          BY <2>1, <4>1 DEF Asking
        <5>3. QED
          BY <2>1, <5>1, <5>2 DEF Asking
      <4>4. QED
        BY <4>2, <4>3 DEF Extended, Kinds
    <3>2. QED
      BY <2>3, <3>1, GoesTyped
  <2>4. QED
    BY <1>6, <1>a, <2>2, <2>3 DEF Complete
<1>7. CASE Normalize(q)
  <2>1. query[q] \in Asking
    BY <1>7, <1>b DEF Normalize, Phases
  <2>2. CASE Conflict(q)
    <3>1. query[q].expected \in Revisions \cup {NoRevision}
      BY <2>1 DEF Asking
    <3>2. Empty(q, "degraded", query[q].expected) /\ UNCHANGED cache
      BY <1>7, <2>2 DEF Normalize, Conflicted
    <3>3. QED
      BY <3>1, <3>2, EmptyTyped
  <2>3. CASE ~Conflict(q)
    <3> DEFINE c == [pc |-> "answered", status |-> "ready", revision |-> RevisionNamed(q),
                     window |-> query[q].window, relations |-> Grounded(q)]
    <3>1. RevisionNamed(q) \in Revisions \cup {NoRevision}
      <4>1. RevisionsOf(query[q].window) \subseteq Revisions
        BY <2>1 DEF Asking, RevisionsOf, Chunks
      <4>2. CASE query[q].window = {}
        BY <2>1, <4>2 DEF RevisionNamed, Asking
      <4>3. CASE query[q].window # {}
        <5>1. RevisionNamed(q) \in RevisionsOf(query[q].window)
          BY <4>3 DEF RevisionNamed, RevisionsOf
        <5>2. QED
          BY <4>1, <5>1
      <4>4. QED
        BY <4>2, <4>3
    <3>2. c \in Answers
      BY <2>1, <3>1 DEF Asking, Answers, Grounded
    <3>3. Goes(q, c) /\ UNCHANGED cache
      BY <1>7, <2>3 DEF Normalize
    <3> HIDE DEF c
    <3>4. QED
      BY <3>2, <3>3, GoesTyped DEF Kinds
  <2>4. QED
    BY <2>2, <2>3
<1>8. QED
  BY <1>1, <1>2, <1>3, <1>4, <1>5, <1>6, <1>7 DEF QueryStep

(* Every question, answer, cache entry and counter stays in its set, and the    *)
(* relation cache stays within its limit with an entry per key (relations.py,   *)
(* RelationCache), for any number of questions, sources and synchronisations.  *)
THEOREM QueryTypes == QuerySpec => []QueryTypeOK
<1> DEFINE World == stored \in [Sources -> Revisions \cup {NoRevision}]
           Syncing == sync \in [status : {"ready", "indexing", "unsafe"},
                                revision : Revisions \cup {NoRevision}, target : Revisions]
           Counters == questions \in 0..MaxQuestions /\ syncs \in 0..MaxSyncs
                       /\ faults \in 0..MaxFaults
<1>a. QueryTypeOK <=> World /\ Syncing /\ Counters /\ Typed /\ CacheOK(cache)
  BY DEF QueryTypeOK, Typed, Kinds, CacheOK, OnePerKey
<1>b. QueryTypeOK' <=> World' /\ Syncing' /\ Counters' /\ Typed' /\ CacheOK(cache')
  BY DEF QueryTypeOK, Typed, Kinds, CacheOK, OnePerKey
<1>1. QueryInit => QueryTypeOK
  <2> SUFFICES ASSUME QueryInit PROVE QueryTypeOK
    OBVIOUS
  <2>1. World /\ Syncing
    BY DEF QueryInit
  <2>2. Counters
    BY QueryBounds DEF QueryInit
  <2>3. Typed
    BY DEF QueryInit, Typed, Kinds
  <2>4. CacheOK(cache)
    BY QueryBounds, EmptySeq DEF QueryInit, CacheOK, OnePerKey
  <2>5. QED
    BY <1>a, <2>1, <2>2, <2>3, <2>4
<1>2. QueryTypeOK /\ [QueryNext]_vars => QueryTypeOK'
  <2> SUFFICES ASSUME QueryTypeOK, [QueryNext]_vars PROVE QueryTypeOK'
    OBVIOUS
  <2>0. World /\ Syncing /\ Counters /\ Typed /\ CacheOK(cache)
    BY <1>a
  <2>1. CASE UNCHANGED vars
    BY <2>0, <2>1, <1>b DEF vars, Typed
  <2>2. CASE StartSync
    <3>1. Syncing'
      BY <2>0, <2>2 DEF StartSync
    <3>2. Counters'
      BY <2>0, <2>2, QueryBounds DEF StartSync
    <3>3. QED
      BY <1>b, <2>0, <2>2, <3>1, <3>2 DEF StartSync, Typed
  <2>3. CASE EndSync
    <3>1. Syncing'
      BY <2>0, <2>3 DEF EndSync
    <3>2. Counters'
      BY <2>0, <2>3, QueryBounds DEF EndSync, Fault
    <3>3. QED
      BY <1>b, <2>0, <2>3, <3>1, <3>2 DEF EndSync, Typed
  <2>4. ASSUME NEW s \in Sources, Replace(s) PROVE QueryTypeOK'
    <3>1. World'
      BY <2>0, <2>4 DEF Replace
    <3>2. QED
      BY <1>b, <2>0, <2>4, <3>1 DEF Replace, Typed
  <2>5. ASSUME NEW q \in Queries, NEW p \in Policies,
               NEW r \in Revisions \cup {NoRevision}, Ask(q, p, r)
        PROVE  QueryTypeOK'
    <3> DEFINE c == [pc |-> "check", asked |-> r, policy |-> p,
                     expected |-> IF r = NoRevision THEN sync.revision ELSE r,
                     window |-> {}, pending |-> {}, relations |-> {}, rounds |-> 0]
    <3>1. c \in Kinds
      BY <2>0 DEF Kinds, Asking
    <3>2. Goes(q, c)
      BY <2>5 DEF Ask
    <3> HIDE DEF c
    <3>3. Typed'
      BY <2>0, <3>1, <3>2, GoesTyped
    <3>4. Counters'
      BY <2>0, <2>5, QueryBounds DEF Ask, world
    <3>5. QED
      BY <1>b, <2>0, <2>5, <3>3, <3>4 DEF Ask, world
  <2>6. ASSUME NEW q \in Queries, QueryStep(q) PROVE QueryTypeOK'
    <3>1. Typed' /\ CacheOK(cache')
      BY <2>0, <2>6, QuestionStep
    <3>2. World' /\ Syncing'
      BY <2>0, <2>6 DEF QueryStep, CheckState, Retrieve, RetrieveTests, ReadRelations,
                        ReadOne, Complete, Normalize, world
    <3>3. UNCHANGED <<questions, syncs>> /\ (UNCHANGED faults \/ Fault)
      BY <2>6 DEF QueryStep, CheckState, Retrieve, RetrieveTests, ReadRelations, ReadOne,
                  Complete, Normalize, world
    <3>4. Counters'
      BY <2>0, <3>3, QueryBounds DEF Fault
    <3>5. QED
      BY <1>b, <3>1, <3>2, <3>4
  <2>7. QED
    BY <2>1, <2>2, <2>3, <2>4, <2>5, <2>6 DEF QueryNext
<1>3. QED
  BY <1>1, <1>2, PTL DEF QuerySpec

-----------------------------------------------------------------------------
(* What keeps a question from going on for ever.  StepsLeft is how many steps   *)
(* of its thread may still come: those of the rounds left, each of which reads   *)
(* relations, one source after the other, and completes the window.           *)
RoundSteps == RelationSources + 2
Later(c) == 1 + (CompletionRounds - c.rounds) * RoundSteps
StepsLeft(c) ==
  CASE c.pc = "check"     -> 3 + RoundSteps + Later(c)
    [] c.pc = "query"     -> 2 + RoundSteps + Later(c)
    [] c.pc = "tail"      -> 1 + RoundSteps + Later(c)
    [] c.pc = "read"      -> RoundSteps + Later(c)
    [] c.pc = "complete"  -> Cardinality(c.pending) + 1 + Later(c)
    [] c.pc = "normalize" -> 1
    [] OTHER              -> 0
MostSteps == 4 + (CompletionRounds + 1) * RoundSteps

(* Rounds are counted, and no more sources wait to be read than a round reads. *)
Counted(c) ==
  /\ c.pc \in Phases => c.rounds \in 0..CompletionRounds
  /\ c.pc = "complete" => Cardinality(c.pending) \in 0..RelationSources
AllCounted == \A q \in Queries : Counted(query[q])

StepsBounded == \A q \in Queries : StepsLeft(query[q]) \in 0..MostSteps
StepsRunOut ==
  [][\A q \in Queries :
       /\ QueryStep(q) => StepsLeft(query'[q]) < StepsLeft(query[q])
       /\ query[q].pc \in Phases => StepsLeft(query'[q]) <= StepsLeft(query[q])]_vars

LEMMA RoundsLeft ==
  ASSUME NEW r \in 0..CompletionRounds
  PROVE  LET n == (CompletionRounds - r) * RoundSteps
         IN  /\ n \in Nat /\ n <= CompletionRounds * RoundSteps
             /\ r # CompletionRounds =>
                  n = (CompletionRounds - (r + 1)) * RoundSteps + RoundSteps
<1>1. CompletionRounds \in Nat /\ RoundSteps \in Nat /\ r \in Nat /\ r <= CompletionRounds
  BY QueryBounds DEF RoundSteps
<1>2. ASSUME NEW a \in Nat, NEW b \in Nat, NEW c \in Nat
      PROVE  /\ a * c \in Nat /\ a * c <= (a + b) * c
             /\ (a + 1) * c = a * c + c
  <2>1. (a + b) * c = a * c + b * c /\ (a + 1) * c = a * c + c
    BY SMT
  <2>2. a * c \in Nat /\ b * c \in Nat
    BY SMT
  <2>3. QED
    BY <2>1, <2>2
<1>3. CompletionRounds - r \in Nat /\ (CompletionRounds - r) + r = CompletionRounds
  BY <1>1
<1>4. /\ (CompletionRounds - r) * RoundSteps \in Nat
      /\ (CompletionRounds - r) * RoundSteps <= CompletionRounds * RoundSteps
  BY <1>1, <1>2, <1>3
<1>5. ASSUME r # CompletionRounds
      PROVE  (CompletionRounds - r) * RoundSteps
               = (CompletionRounds - (r + 1)) * RoundSteps + RoundSteps
  <2>1. /\ CompletionRounds - (r + 1) \in Nat
        /\ (CompletionRounds - (r + 1)) + 1 = CompletionRounds - r
    BY <1>1, <1>5
  <2>2. QED
    BY <1>1, <1>2, <2>1
<1>6. QED
  BY <1>4, <1>5

(* A step of a question's thread leaves it fewer.                            *)
LEMMA FewerSteps ==
  ASSUME QueryTypeOK, NEW q \in Queries, Counted(query[q]), QueryStep(q)
  PROVE  /\ Counted(query'[q]) /\ StepsLeft(query[q]) \in Nat
         /\ StepsLeft(query'[q]) \in Nat /\ StepsLeft(query'[q]) < StepsLeft(query[q])
<1> DEFINE c == query[q]
           d == query'[q]
           n == (CompletionRounds - c.rounds) * RoundSteps
           Less == /\ Counted(d) /\ StepsLeft(c) \in Nat
                   /\ StepsLeft(d) \in Nat /\ StepsLeft(d) < StepsLeft(c)
<1>1. c \in Asking
  <2>1. Typed
    BY DEF QueryTypeOK, Typed, Kinds
  <2>2. c.pc \in Phases
    BY DEF QueryStep, CheckState, Retrieve, RetrieveTests, ReadRelations, ReadOne,
           Complete, Normalize, Phases
  <2>3. QED
    BY <2>1, <2>2, AskingTyped
<1>2. \A x : Goes(q, x) => d = x
  BY DEF Goes, QueryTypeOK
<1>3. /\ RoundSteps = RelationSources + 2 /\ RelationSources \in Nat /\ CompletionRounds \in Nat
      /\ c.rounds \in 0..CompletionRounds /\ c.pc \in Phases
  BY <1>1, QueryBounds DEF RoundSteps, Counted, Asking, Phases
<1>4. n \in Nat /\ c.rounds # CompletionRounds =>
        /\ n \in Nat
        /\ n = (CompletionRounds - (c.rounds + 1)) * RoundSteps + RoundSteps
        /\ (CompletionRounds - (c.rounds + 1)) * RoundSteps \in Nat
  <2>1. c.rounds # CompletionRounds => c.rounds + 1 \in 0..CompletionRounds
    BY <1>3
  <2>2. QED
    BY <1>3, <2>1, RoundsLeft
<1>5. n \in Nat
  BY <1>3, RoundsLeft
<1>6. \A x : x.rounds = c.rounds => Later(x) = 1 + n
  BY DEF Later
<1> HIDE DEF n
<1>7. ASSUME d.pc = "answered", c.pc \in {"check", "query", "normalize"} PROVE Less
  <2>1. StepsLeft(d) = 0 /\ Counted(d)
    BY <1>7 DEF StepsLeft, Counted, Phases
  <2>2. StepsLeft(c) \in Nat /\ StepsLeft(c) > 0
    <3>1. Later(c) = 1 + n
      BY <1>6
    <3>2. QED
      BY <1>3, <1>5, <1>7, <3>1 DEF StepsLeft
  <2>3. QED
    BY <2>1, <2>2
<1>8. ASSUME d.pc = "normalize", d.rounds = c.rounds,
             c.pc \in {"read", "complete"}, c.pc = "complete" => Cardinality(c.pending) \in Nat
      PROVE  Less
  <2>1. StepsLeft(d) = 1 /\ Counted(d)
    BY <1>3, <1>8 DEF StepsLeft, Counted
  <2>2. Later(c) = 1 + n
    BY <1>6
  <2>3. StepsLeft(c) \in Nat /\ StepsLeft(c) > 1
    BY <1>3, <1>5, <1>8, <2>2 DEF StepsLeft
  <2>4. QED
    BY <2>1, <2>3
<1>9. ASSUME d.rounds = c.rounds,
             \/ c.pc = "check" /\ d.pc = "query"
             \/ c.pc = "query" /\ d.pc \in {"tail", "read"}
             \/ c.pc = "tail" /\ d.pc = "read"
      PROVE  Less
  <2>1. Counted(d)
    BY <1>3, <1>9 DEF Counted
  <2>2. Later(c) = 1 + n /\ Later(d) = 1 + n
    BY <1>6, <1>9
  <2>3. QED
    BY <1>3, <1>5, <1>9, <2>1, <2>2 DEF StepsLeft
<1>10. CASE CheckState(q)
  <2>1. CASE c.asked = NoRevision /\ Unsafe
    <3>1. d.pc = "answered"
      BY <1>2, <1>10, <2>1 DEF CheckState, Empty
    <3>2. QED
      BY <1>7, <1>10, <3>1 DEF CheckState
  <2>2. CASE ~(c.asked = NoRevision /\ Unsafe)
    <3>1. d = [c EXCEPT !.pc = "query"]
      BY <1>2, <1>10, <2>2 DEF CheckState
    <3>2. d.pc = "query" /\ d.rounds = c.rounds
      BY <1>1, <3>1 DEF Asking
    <3>3. QED
      BY <1>9, <1>10, <3>2 DEF CheckState
  <2>3. QED
    BY <2>1, <2>2
<1>11. CASE Retrieve(q)
  <2>1. ASSUME NEW chunks, Goes(q, Retrieved(q, chunks)) PROVE Less
    <3>1. d = Retrieved(q, chunks)
      BY <1>2, <2>1
    <3>2. d.pc \in {"tail", "read"} /\ d.rounds = c.rounds
      BY <1>1, <3>1 DEF Asking, Retrieved
    <3>3. QED
      BY <1>9, <1>11, <3>2 DEF Retrieve
  <2>2. ASSUME Empty(q, "unavailable", query[q].asked) PROVE Less
    <3>1. d.pc = "answered"
      BY <1>2, <2>2 DEF Empty
    <3>2. QED
      BY <1>7, <1>11, <3>1 DEF Retrieve
  <2>3. QED
    BY <1>11, <2>1, <2>2 DEF Retrieve
<1>12. CASE RetrieveTests(q)
  <2>1. ASSUME NEW window, Goes(q, [c EXCEPT !.pc = "read", !.window = window]) PROVE Less
    <3>1. d = [c EXCEPT !.pc = "read", !.window = window]
      BY <1>2, <2>1
    <3>2. d.pc = "read" /\ d.rounds = c.rounds
      BY <1>1, <3>1 DEF Asking
    <3>3. QED
      BY <1>9, <1>12, <3>2 DEF RetrieveTests
  <2>2. ASSUME Goes(q, [c EXCEPT !.pc = "read"]) PROVE Less
    <3>1. d = [c EXCEPT !.pc = "read"]
      BY <1>2, <2>2
    <3>2. d.pc = "read" /\ d.rounds = c.rounds
      BY <1>1, <3>1 DEF Asking
    <3>3. QED
      BY <1>9, <1>12, <3>2 DEF RetrieveTests
  <2>3. QED
    BY <1>12, <2>1, <2>2 DEF RetrieveTests
<1>13. CASE ReadRelations(q)
  <2>1. CASE Conflict(q)
    <3>1. d = [c EXCEPT !.pc = "normalize"]
      BY <1>2, <1>13, <2>1 DEF ReadRelations
    <3>2. d.pc = "normalize" /\ d.rounds = c.rounds
      BY <1>1, <3>1 DEF Asking
    <3>3. c.pc = "read"
      BY <1>13 DEF ReadRelations
    <3>4. QED
      BY <1>8, <3>2, <3>3
  <2>2. CASE ~Conflict(q)
    <3> DEFINE hits(S) == {s \in S : Cached(q, s)}
               read(S) == UNION {Cites(q, s, Lookup(q, s).read) : s \in hits(S)}
               next(S) == [c EXCEPT !.pc = "complete", !.pending = S \ hits(S),
                                    !.relations = read(S)]
    <3>1. PICK S \in Selections(c.window) : Goes(q, next(S))
      BY <1>13, <2>2 DEF ReadRelations
    <3>2. d = next(S)
      BY <1>2, <3>1
    <3> HIDE DEF hits, read
    <3>3. d.pc = "complete" /\ d.rounds = c.rounds /\ d.pending \subseteq S
      BY <1>1, <3>2 DEF Asking
    <3>4. IsFiniteSet(SourcesOf(c.window)) /\ Cardinality(SourcesOf(c.window)) \in Nat
      <4>1. SourcesOf(c.window) \subseteq Sources
        BY <1>1 DEF SourcesOf, Asking, Chunks
      <4>2. QED
        BY <4>1, QuerySets, FS_Subset, FS_CardinalityType
    <3>5. S \subseteq SourcesOf(c.window) /\ Cardinality(S) <= RelationSources
      BY <1>3, <3>4 DEF Selections
    <3>6. Cardinality(d.pending) \in 0..RelationSources
      <4>1. IsFiniteSet(S) /\ Cardinality(S) \in Nat
        BY <3>4, <3>5, FS_Subset, FS_CardinalityType
      <4>2. /\ IsFiniteSet(d.pending) /\ Cardinality(d.pending) \in Nat
            /\ Cardinality(d.pending) <= Cardinality(S)
        BY <3>3, <4>1, FS_Subset, FS_CardinalityType
      <4>3. QED
        BY <1>3, <3>5, <4>1, <4>2
    <3>7. Counted(d)
      BY <1>3, <3>3, <3>6 DEF Counted
    <3>8. Later(c) = 1 + n /\ Later(d) = 1 + n /\ c.pc = "read"
      BY <1>6, <1>13, <3>3 DEF ReadRelations
    <3>9. QED
      BY <1>3, <1>5, <3>3, <3>6, <3>7, <3>8 DEF StepsLeft
  <2>3. QED
    BY <2>1, <2>2
<1>14. ASSUME NEW s \in Sources, ReadOne(q, s) PROVE Less
  <2>1. PICK relations : d = [c EXCEPT !.pending = @ \ {s}, !.relations = relations]
    <3>1. CASE Goes(q, [c EXCEPT !.pending = @ \ {s},
                                 !.relations = @ \cup Cites(q, s, stored[s])])
      BY <1>2, <3>1
    <3>2. CASE Goes(q, [c EXCEPT !.pending = @ \ {s}])
      <4>1. d = [c EXCEPT !.pending = @ \ {s}, !.relations = c.relations]
        BY <1>1, <1>2, <3>2 DEF Asking
      <4>2. QED
        BY <4>1
    <3>3. QED
      BY <1>14, <3>1, <3>2 DEF ReadOne
  <2>2. /\ d.pc = "complete" /\ d.rounds = c.rounds /\ d.pending = c.pending \ {s}
        /\ c.pc = "complete" /\ s \in c.pending
    BY <1>1, <1>14, <2>1 DEF Asking, ReadOne
  <2>3. IsFiniteSet(c.pending)
    BY <1>1, QuerySets, FS_Subset DEF Asking
  <2>4. /\ Cardinality(c.pending) \in Nat /\ Cardinality(c.pending) <= RelationSources
        /\ Cardinality(d.pending) \in Nat
        /\ Cardinality(d.pending) = Cardinality(c.pending) - 1
    <3>1. /\ IsFiniteSet(c.pending \ {s})
          /\ Cardinality(c.pending \ {s}) = Cardinality(c.pending) - 1
      BY <2>2, <2>3, FS_RemoveElement
    <3>2. Cardinality(c.pending) \in 0..RelationSources
      BY <2>2 DEF Counted
    <3>3. QED
      BY <1>3, <2>2, <2>3, <3>1, <3>2, FS_CardinalityType
  <2>5. Counted(d)
    BY <1>3, <2>2, <2>4 DEF Counted
  <2>6. Later(c) = 1 + n /\ Later(d) = 1 + n
    BY <1>6, <2>2
  <2>7. QED
    BY <1>3, <1>5, <2>2, <2>4, <2>5, <2>6 DEF StepsLeft
<1>15. CASE Complete(q)
  <2>1. c.pc = "complete" /\ c.pending = {} /\ Cardinality(c.pending) = 0
    BY <1>15, FS_EmptySet DEF Complete
  <2>2. ASSUME d = [c EXCEPT !.pc = "normalize"] PROVE Less
    <3>1. d.pc = "normalize" /\ d.rounds = c.rounds
      BY <1>1, <2>2 DEF Asking
    <3>2. QED
      BY <1>8, <2>1, <3>1
  <2>3. ASSUME NEW chunks, d = Extended(q, chunks), c.rounds # CompletionRounds PROVE Less
    <3> DEFINE added == RevisionMatched(q, chunks) \ c.window
    <3>1. CASE added = {}
      BY <2>2, <2>3, <3>1 DEF Extended
    <3>2. CASE added # {}
      <4>1. d = [c EXCEPT !.pc = "read", !.window = @ \cup added, !.rounds = @ + 1]
        BY <2>3, <3>2 DEF Extended
      <4> HIDE DEF added
      <4>2. d.pc = "read" /\ d.rounds = c.rounds + 1
        BY <1>1, <4>1 DEF Asking
      <4>3. Counted(d)
        BY <1>3, <2>3, <4>2 DEF Counted
      <4> DEFINE m == (CompletionRounds - (c.rounds + 1)) * RoundSteps
      <4>4. n = m + RoundSteps /\ m \in Nat /\ Later(d) = 1 + m
        BY <1>4, <1>5, <2>3, <4>2 DEF Later
      <4>5. Later(c) = 1 + n
        BY <1>6
      <4> HIDE DEF m
      <4>6. QED
        BY <1>3, <1>5, <2>1, <4>2, <4>3, <4>4, <4>5 DEF StepsLeft
    <3>3. QED
      BY <3>1, <3>2
  <2>4. QED
    BY <1>2, <1>15, <2>2, <2>3 DEF Complete
<1>16. CASE Normalize(q)
  <2>1. d.pc = "answered"
    BY <1>2, <1>16 DEF Normalize, Conflicted, Empty
  <2>2. QED
    BY <1>7, <1>16, <2>1 DEF Normalize
<1>17. QED
  BY <1>10, <1>11, <1>12, <1>13, <1>14, <1>15, <1>16 DEF QueryStep

LEMMA AskedCounts ==
  ASSUME NEW q, NEW c, c.pc = "check", c.rounds = 0
  PROVE  Counted(c) /\ StepsLeft(c) \in 0..MostSteps
<1>1. Counted(c)
  BY QueryBounds DEF Counted
<1>2. CompletionRounds * RoundSteps \in Nat /\ Later(c) = 1 + CompletionRounds * RoundSteps
  <2>1. 0 \in 0..CompletionRounds /\ CompletionRounds - 0 = CompletionRounds
    BY QueryBounds
  <2>2. QED
    BY <2>1, RoundsLeft DEF Later
<1>3. (CompletionRounds + 1) * RoundSteps = CompletionRounds * RoundSteps + RoundSteps
      /\ RoundSteps \in Nat
  BY QueryBounds DEF RoundSteps
<1>4. QED
  BY <1>1, <1>2, <1>3 DEF StepsLeft, MostSteps

(* Nothing but a step of its thread, or a new question, changes a question.     *)
LEMMA StepOfQuestion ==
  ASSUME QueryTypeOK, AllCounted, [QueryNext]_vars, NEW q \in Queries
  PROVE  \/ query'[q] = query[q] /\ ~QueryStep(q)
         \/ QueryStep(q)
         \/ query[q].pc \in {"idle", "answered"} /\ query'[q].pc = "check" /\ query'[q].rounds = 0
<1>1. CASE UNCHANGED query
  BY <1>1
<1>2. ASSUME NEW p \in Queries, \/ QueryStep(p)
                                \/ \E policy \in Policies, r \in Revisions \cup {NoRevision} : Ask(p, policy, r)
      PROVE  p = q \/ query'[q] = query[q]
  <2>1. \E c : Goes(p, c)
    BY <1>2 DEF QueryStep, CheckState, Retrieve, RetrieveTests, ReadRelations, ReadOne,
           Complete, Normalize, Conflicted, Empty, Ask
  <2>2. QED
    BY <2>1 DEF Goes
<1>3. ASSUME NEW policy, NEW r, Ask(q, policy, r)
      PROVE  /\ query[q].pc \in {"idle", "answered"}
             /\ query'[q].pc = "check" /\ query'[q].rounds = 0
  BY <1>3 DEF Ask, Goes, QueryTypeOK
<1>4. QED
  BY <1>1, <1>2, <1>3 DEF QueryNext, vars, StartSync, EndSync, Replace

LEMMA CountsKept ==
  QueryTypeOK /\ AllCounted /\ StepsBounded /\ [QueryNext]_vars => (AllCounted /\ StepsBounded)'
<1> SUFFICES ASSUME QueryTypeOK, AllCounted, StepsBounded, [QueryNext]_vars,
                    NEW q \in Queries
             PROVE  Counted(query'[q]) /\ StepsLeft(query'[q]) \in 0..MostSteps
  BY DEF AllCounted, StepsBounded
<1>1. Counted(query[q]) /\ StepsLeft(query[q]) \in 0..MostSteps
  BY DEF AllCounted, StepsBounded
<1>2. CASE query'[q] = query[q]
  BY <1>1, <1>2
<1>3. CASE QueryStep(q)
  <2>1. MostSteps \in Nat
    <3>1. (CompletionRounds + 1) \in Nat /\ RoundSteps \in Nat
      BY QueryBounds DEF RoundSteps
    <3>2. (CompletionRounds + 1) * RoundSteps \in Nat
      BY <3>1, SMT
    <3>3. QED
      BY <3>2 DEF MostSteps
  <2>2. QED
    BY <1>1, <1>3, <2>1, FewerSteps
<1>4. CASE query'[q].pc = "check" /\ query'[q].rounds = 0
  BY <1>4, AskedCounts
<1>5. QED
  BY <1>2, <1>3, <1>4, StepOfQuestion

LEMMA Counts == QuerySpec => [](QueryTypeOK /\ AllCounted /\ StepsBounded)
<1>1. QueryInit => AllCounted /\ StepsBounded
  <2> SUFFICES ASSUME QueryInit, NEW q \in Queries
               PROVE  Counted(query[q]) /\ StepsLeft(query[q]) \in 0..MostSteps
    BY DEF AllCounted, StepsBounded
  <2>1. query[q].pc = "idle"
    BY DEF QueryInit, Idle
  <2>2. Counted(query[q]) /\ StepsLeft(query[q]) = 0
    BY <2>1 DEF Counted, StepsLeft, Phases
  <2>3. (CompletionRounds + 1) * RoundSteps \in Nat
    <3>1. (CompletionRounds + 1) \in Nat /\ RoundSteps \in Nat
      BY QueryBounds DEF RoundSteps
    <3>2. QED
      BY <3>1, SMT
  <2>4. QED
    BY <2>2, <2>3 DEF MostSteps
<1>2. QED
  BY <1>1, CountsKept, QueryTypes, PTL DEF QuerySpec

(* No question takes more than MostSteps steps: COMPLETION_ROUNDS rounds with    *)
(* the reads of each (query.py, _complete_window; relations.py,               *)
(* fetch_repository_relations), whatever synchronisations do meanwhile.        *)
THEOREM StepsAreBounded == QuerySpec => []StepsBounded
<1>1. QED
  BY Counts, PTL

(* Each step of a question's thread leaves it fewer steps, and nothing that      *)
(* others do gives it more: with a thread that runs, every question is answered  *)
(* (query.py, _retrieve and _complete_window).                               *)
THEOREM QuestionsRunOut == QuerySpec => StepsRunOut
<1> DEFINE Fewer ==
      \A q \in Queries :
        /\ QueryStep(q) => StepsLeft(query'[q]) < StepsLeft(query[q])
        /\ query[q].pc \in Phases => StepsLeft(query'[q]) <= StepsLeft(query[q])
<1>1. QueryTypeOK /\ AllCounted /\ StepsBounded /\ [QueryNext]_vars => [Fewer]_vars
  <2> SUFFICES ASSUME QueryTypeOK, AllCounted, StepsBounded, [QueryNext]_vars,
                      NEW q \in Queries
               PROVE  /\ QueryStep(q) => StepsLeft(query'[q]) < StepsLeft(query[q])
                      /\ query[q].pc \in Phases => StepsLeft(query'[q]) <= StepsLeft(query[q])
    OBVIOUS
  <2>1. StepsLeft(query[q]) \in Nat /\ Counted(query[q])
    BY DEF StepsBounded, AllCounted
  <2>2. CASE QueryStep(q)
    BY <2>1, <2>2, FewerSteps
  <2>3. CASE query'[q] = query[q] /\ ~QueryStep(q)
    BY <2>1, <2>3
  <2>4. CASE query[q].pc \in {"idle", "answered"} /\ ~QueryStep(q)
    BY <2>4 DEF Phases
  <2>5. QED
    BY <2>2, <2>3, <2>4, StepOfQuestion
<1>2. QED
  BY <1>1, Counts, PTL DEF QuerySpec, StepsRunOut
=============================================================================
