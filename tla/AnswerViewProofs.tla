--------------------------- MODULE AnswerViewProofs ---------------------------
(* What ordered flows, budgets and views guarantee for a response of any size.  *)
EXTENDS AnswerView, FiniteSetTheorems, SequenceTheorems, WellFoundedInduction, TLAPS

-----------------------------------------------------------------------------
(* Induction over numbers, as a fact about sets of numbers.                    *)

LEMMA LeastNat ==
  ASSUME NEW T \in SUBSET Nat, T # {}
  PROVE  \E m \in T : \A n \in T : m <= n
<1>1. OpToRel(<, Nat) = {ss \in Nat \X Nat : ss[1] < ss[2]}
  BY DEF OpToRel
<1>2. IsWellFoundedOn({ss \in Nat \X Nat : ss[1] < ss[2]}, Nat)
  BY <1>1, NatLessThanWellFounded
<1>3. T \subseteq Nat
  OBVIOUS
<1>4. PICK m \in T : \A n \in T : <<n, m>> \notin {ss \in Nat \X Nat : ss[1] < ss[2]}
  BY ONLY <1>2, <1>3, T # {}, WFMin, Zenon
<1>5. ASSUME NEW n \in T PROVE m <= n
  <2>1. n \in Nat /\ m \in Nat /\ <<n, m>> \in Nat \X Nat
    BY <1>3
  <2>2. <<n, m>>[1] = n /\ <<n, m>>[2] = m
    OBVIOUS
  <2>3. ~ n < m
    BY <1>4, <2>1, <2>2
  <2>4. QED
    BY <2>1, <2>3
<1>6. QED
  BY <1>5

LEMMA UpTo ==
  ASSUME NEW N \in Nat, NEW T, 0 \in T, \A n \in 0..N : n \in T /\ n < N => n + 1 \in T
  PROVE  \A n \in 0..N : n \in T
<1> DEFINE Out == {n \in 0..N : n \notin T}
<1> SUFFICES ASSUME Out # {} PROVE FALSE
  OBVIOUS
<1>1. Out \in SUBSET Nat
  OBVIOUS
<1>2. PICK m \in Out : \A n \in Out : m <= n
  <2> HIDE DEF Out
  <2>1. QED
    BY <1>1, LeastNat
<1>3. m # 0 /\ m - 1 \in 0..N /\ m - 1 < N /\ m - 1 \in T
  BY <1>2
<1>4. (m - 1) + 1 \in T
  BY <1>3
<1>5. QED
  BY <1>2, <1>4

(* A recursive function exists when each of its steps stays inside a set.       *)
Steps(N, S, base, step) == N \in Nat /\ base \in S /\ step \in [1..N -> [S -> S]]
Runs(f, N, S, base, step) ==
  f \in [0..N -> S] /\ f[0] = base /\ \A k \in 1..N : f[k] = step[k][f[k - 1]]

LEMMA Recursion ==
  ASSUME NEW N, NEW S, NEW base, NEW step, Steps(N, S, base, step)
  PROVE  \E f : Runs(f, N, S, base, step)
<1> USE DEF Steps
<1> DEFINE Good == {n \in 0..N : \E f : Runs(f, n, S, base, step)}
<1>1. 0 \in Good
  <2> DEFINE g == [k \in 0..0 |-> base]
  <2>1. Runs(g, 0, S, base, step)
    BY DEF Runs
  <2> HIDE DEF g
  <2>2. QED
    BY <2>1
<1>2. ASSUME NEW n \in 0..N, n \in Good, n < N PROVE n + 1 \in Good
  <2>1. PICK f : Runs(f, n, S, base, step)
    BY <1>2
  <2> DEFINE g == [k \in 0..(n + 1) |-> IF k = n + 1 THEN step[n + 1][f[n]] ELSE f[k]]
  <2>2. n + 1 \in 1..N /\ f[n] \in S
    BY <1>2, <2>1 DEF Runs
  <2>3. step[n + 1][f[n]] \in S
    BY <2>2
  <2>4. g \in [0..(n + 1) -> S]
    BY <2>1, <2>3 DEF Runs
  <2>5. ASSUME NEW k \in 1..(n + 1) PROVE g[k] = step[k][g[k - 1]]
    <3>1. CASE k = n + 1
      BY <3>1
    <3>2. CASE k # n + 1
      <4>1. k \in 1..n /\ k - 1 \in 0..n /\ k - 1 # n + 1
        BY <3>2
      <4>2. QED
        BY <2>1, <3>2, <4>1 DEF Runs
    <3>3. QED
      BY <3>1, <3>2
  <2>6. g[0] = base
    BY <2>1 DEF Runs
  <2>7. Runs(g, n + 1, S, base, step)
    BY <2>4, <2>5, <2>6 DEF Runs
  <2> HIDE DEF g
  <2>8. QED
    BY <2>2, <2>7
<1>3. N \in Good
  <2> HIDE DEF Good
  <2>1. \A n \in 0..N : n \in Good /\ n < N => n + 1 \in Good
    BY <1>2
  <2>2. \A n \in 0..N : n \in Good
    BY ONLY N \in Nat, <1>1, <2>1, UpTo
  <2>3. QED
    BY <2>2
<1>4. QED
  BY <1>3

-----------------------------------------------------------------------------
(* Sequences.                                                               *)

LEMMA ElementsOf ==
  ASSUME NEW V, NEW s \in Seq(V)
  PROVE  /\ Len(s) \in Nat /\ DOMAIN s = 1..Len(s) /\ ToSet(s) \subseteq V
         /\ \A x : x \in ToSet(s) <=> \E i \in 1..Len(s) : x = s[i]
         /\ s = <<>> <=> Len(s) = 0
  BY DEF ToSet

LEMMA WiderSeq ==
  ASSUME NEW U, NEW V, U \subseteq V, NEW s \in Seq(U)
  PROVE  s \in Seq(V)
<1>1. Len(s) \in Nat /\ \A i \in 1..Len(s) : s[i] \in V
  BY ElementOfSeq
<1>2. s = [i \in 1..Len(s) |-> s[i]]
  OBVIOUS
<1>3. QED
  BY <1>1, <1>2

LEMMA ElementsOfAppend ==
  ASSUME NEW V, NEW s \in Seq(V), NEW x \in V
  PROVE  /\ Append(s, x) \in Seq(V) /\ Len(Append(s, x)) = Len(s) + 1
         /\ ToSet(Append(s, x)) = ToSet(s) \cup {x}
         /\ Append(s, x)[Len(s) + 1] = x /\ \A i \in 1..Len(s) : Append(s, x)[i] = s[i]
<1>1. /\ Append(s, x) \in Seq(V) /\ Len(Append(s, x)) = Len(s) + 1
      /\ Append(s, x)[Len(s) + 1] = x /\ \A i \in 1..Len(s) : Append(s, x)[i] = s[i]
  BY AppendProperties
<1>2. Len(s) \in Nat /\ 1..(Len(s) + 1) = 1..Len(s) \cup {Len(s) + 1}
  BY ElementsOf
<1>3. ToSet(Append(s, x)) = ToSet(s) \cup {x}
  <2>1. ToSet(Append(s, x)) = {Append(s, x)[i] : i \in 1..(Len(s) + 1)}
    BY <1>1, ElementsOf DEF ToSet
  <2>2. ToSet(s) = {s[i] : i \in 1..Len(s)}
    BY ElementsOf DEF ToSet
  <2>3. QED
    BY <1>1, <1>2, <2>1, <2>2
<1>4. QED
  BY <1>1, <1>3

LEMMA AmongRuns ==
  ASSUME NEW V, NEW seq \in Seq(V), NEW S
  PROVE  \E f : /\ Among(seq, S) = f[Len(seq)] /\ f[0] = <<>>
                /\ \A k \in 1..Len(seq) :
                     f[k] = IF seq[k] \in S THEN Append(f[k - 1], seq[k]) ELSE f[k - 1]
<1> DEFINE N == Len(seq)
           Body(f) == [k \in 0..N |->
                        IF k = 0 THEN <<>>
                        ELSE IF seq[k] \in S THEN Append(f[k - 1], seq[k]) ELSE f[k - 1]]
           step == [k \in 1..N |-> [t \in Seq(V) |->
                      IF seq[k] \in S THEN Append(t, seq[k]) ELSE t]]
           kept == CHOOSE f : f = Body(f)
<1>1. N \in Nat /\ \A k \in 1..N : seq[k] \in V
  BY ElementOfSeq, ElementsOf
<1>2. step \in [1..N -> [Seq(V) -> Seq(V)]] /\ <<>> \in Seq(V)
  BY <1>1
<1>3. PICK f : Runs(f, N, Seq(V), <<>>, step)
  <2>1. Steps(N, Seq(V), <<>>, step)
    BY <1>1, <1>2 DEF Steps
  <2>2. QED
    BY ONLY <2>1, Recursion, Zenon
<1>4. \A k \in 0..N : f[k] = Body(f)[k]
  <2>1. ASSUME NEW k \in 1..N
        PROVE  f[k] = IF seq[k] \in S THEN Append(f[k - 1], seq[k]) ELSE f[k - 1]
    <3>1. k - 1 \in 0..N
      BY <1>1
    <3>2. f[k - 1] \in Seq(V)
      BY <1>3, <3>1 DEF Runs
    <3>3. QED
      BY <1>3, <3>2 DEF Runs
  <2>2. \A k \in 0..N : k = 0 \/ k \in 1..N
    BY <1>1
  <2>3. QED
    BY <1>3, <2>1, <2>2 DEF Runs
<1>5. f = Body(f)
  BY <1>3, <1>4 DEF Runs
<1>6. kept = Body(kept)
  <2> HIDE DEF Body
  <2>1. QED
    BY <1>5
<1>7. kept[0] = <<>>
  <2>1. 0 \in 0..N
    BY <1>1
  <2>2. QED
    BY <1>6, <2>1
<1>8. \A k \in 1..N : kept[k] = IF seq[k] \in S THEN Append(kept[k - 1], seq[k]) ELSE kept[k - 1]
  <2>1. \A k \in 1..N : k \in 0..N /\ k # 0
    BY <1>1
  <2> HIDE DEF kept
  <2>2. QED
    BY <1>6, <2>1
<1>9. Among(seq, S) = kept[N]
  BY DEF Among
<1> HIDE DEF kept
<1>10. QED
  BY <1>7, <1>8, <1>9

LEMMA AmongFacts ==
  ASSUME NEW V, NEW seq \in Seq(V), NEW S
  PROVE  /\ Among(seq, S) \in Seq(V)
         /\ ToSet(Among(seq, S)) = ToSet(seq) \cap S
<1> DEFINE N == Len(seq)
           Had(k) == {seq[i] : i \in 1..k} \cap S
<1>1. PICK f : /\ Among(seq, S) = f[N] /\ f[0] = <<>>
               /\ \A k \in 1..N :
                    f[k] = IF seq[k] \in S THEN Append(f[k - 1], seq[k]) ELSE f[k - 1]
  BY AmongRuns
<1>2. N \in Nat /\ ToSet(seq) = {seq[i] : i \in 1..N} /\ \A k \in 1..N : seq[k] \in V
  BY ElementOfSeq, ElementsOf DEF ToSet
<1> DEFINE T == {k \in 0..N : f[k] \in Seq(V) /\ ToSet(f[k]) = Had(k)}
<1> HIDE DEF N
<1>3. 0 \in T
  <2>1. ToSet(<<>>) = {} /\ Had(0) = {} /\ <<>> \in Seq(V) /\ 0 \in 0..N
    BY <1>2, EmptySeq DEF ToSet
  <2> HIDE DEF Had
  <2>2. QED
    BY <1>1, <2>1
<1>4. \A k \in 0..N : k \in T /\ k < N => k + 1 \in T
  <2> SUFFICES ASSUME NEW k \in 0..N, k \in T, k < N PROVE k + 1 \in T
    OBVIOUS
  <2>1. /\ k + 1 \in 1..N /\ k + 1 \in 0..N /\ (k + 1) - 1 = k /\ seq[k + 1] \in V
        /\ 1..(k + 1) = 1..k \cup {k + 1}
    BY <1>2
  <2>2. Had(k + 1) = IF seq[k + 1] \in S THEN Had(k) \cup {seq[k + 1]} ELSE Had(k)
    BY <2>1
  <2>3. f[k + 1] = IF seq[k + 1] \in S THEN Append(f[k], seq[k + 1]) ELSE f[k]
    BY <1>1, <2>1
  <2>4. f[k] \in Seq(V) /\ ToSet(f[k]) = Had(k)
    OBVIOUS
  <2> HIDE DEF Had
  <2>5. /\ Append(f[k], seq[k + 1]) \in Seq(V)
         /\ ToSet(Append(f[k], seq[k + 1])) = ToSet(f[k]) \cup {seq[k + 1]}
    BY ONLY <2>1, <2>4, ElementsOfAppend
  <2>6. f[k + 1] \in Seq(V) /\ ToSet(f[k + 1]) = Had(k + 1)
    BY <2>2, <2>3, <2>4, <2>5
  <2>7. QED
    BY <2>1, <2>6
<1>5. \A k \in 0..N : k \in T
  <2> HIDE DEF T
  <2>1. QED
    BY ONLY <1>2, <1>3, <1>4, UpTo
<1>6. N \in T
  <2>1. N \in 0..N
    BY <1>2
  <2> HIDE DEF T
  <2>2. QED
    BY <1>5, <2>1
<1>7. QED
  BY <1>1, <1>2, <1>6

LEMMA DistinctRuns ==
  ASSUME NEW V, NEW seq \in Seq(V)
  PROVE  \E f : /\ Distinct(seq) = f[Len(seq)] /\ f[0] = <<>>
                /\ \A k \in 1..Len(seq) :
                     f[k] = IF seq[k] \in ToSet(f[k - 1]) THEN f[k - 1] ELSE Append(f[k - 1], seq[k])
<1> DEFINE N == Len(seq)
           Body(f) == [k \in 0..N |->
                        IF k = 0 THEN <<>>
                        ELSE IF seq[k] \in ToSet(f[k - 1]) THEN f[k - 1] ELSE Append(f[k - 1], seq[k])]
           step == [k \in 1..N |-> [t \in Seq(V) |->
                      IF seq[k] \in ToSet(t) THEN t ELSE Append(t, seq[k])]]
           kept == CHOOSE f : f = Body(f)
<1>1. N \in Nat /\ \A k \in 1..N : seq[k] \in V
  BY ElementOfSeq, ElementsOf
<1>2. step \in [1..N -> [Seq(V) -> Seq(V)]] /\ <<>> \in Seq(V)
  BY <1>1
<1>3. PICK f : Runs(f, N, Seq(V), <<>>, step)
  <2>1. Steps(N, Seq(V), <<>>, step)
    BY <1>1, <1>2 DEF Steps
  <2>2. QED
    BY ONLY <2>1, Recursion, Zenon
<1>4. \A k \in 0..N : f[k] = Body(f)[k]
  <2>1. ASSUME NEW k \in 1..N
        PROVE  f[k] = IF seq[k] \in ToSet(f[k - 1]) THEN f[k - 1] ELSE Append(f[k - 1], seq[k])
    <3>1. k - 1 \in 0..N
      BY <1>1
    <3>2. f[k - 1] \in Seq(V)
      BY <1>3, <3>1 DEF Runs
    <3>3. QED
      BY <1>3, <3>2 DEF Runs
  <2>2. \A k \in 0..N : k = 0 \/ k \in 1..N
    BY <1>1
  <2>3. QED
    BY <1>3, <2>1, <2>2 DEF Runs
<1>5. f = Body(f)
  BY <1>3, <1>4 DEF Runs
<1>6. kept = Body(kept)
  <2> HIDE DEF Body
  <2>1. QED
    BY <1>5
<1>7. kept[0] = <<>>
  <2>1. 0 \in 0..N
    BY <1>1
  <2>2. QED
    BY <1>6, <2>1
<1>8. \A k \in 1..N :
        kept[k] = IF seq[k] \in ToSet(kept[k - 1]) THEN kept[k - 1] ELSE Append(kept[k - 1], seq[k])
  <2>1. \A k \in 1..N : k \in 0..N /\ k # 0
    BY <1>1
  <2> HIDE DEF kept
  <2>2. QED
    BY <1>6, <2>1
<1>9. Distinct(seq) = kept[N]
  BY DEF Distinct, Include
<1> HIDE DEF kept
<1>10. QED
  BY <1>7, <1>8, <1>9

LEMMA DistinctFacts ==
  ASSUME NEW V, NEW seq \in Seq(V)
  PROVE  Distinct(seq) \in Seq(V) /\ ToSet(Distinct(seq)) = ToSet(seq)
<1> DEFINE N == Len(seq)
           Had(k) == {seq[i] : i \in 1..k}
<1>1. PICK f : /\ Distinct(seq) = f[N] /\ f[0] = <<>>
               /\ \A k \in 1..N :
                    f[k] = IF seq[k] \in ToSet(f[k - 1]) THEN f[k - 1] ELSE Append(f[k - 1], seq[k])
  BY DistinctRuns
<1>2. N \in Nat /\ ToSet(seq) = Had(N) /\ \A k \in 1..N : seq[k] \in V
  BY ElementOfSeq, ElementsOf DEF ToSet
<1> DEFINE T == {k \in 0..N : f[k] \in Seq(V) /\ ToSet(f[k]) = Had(k)}
<1> HIDE DEF N
<1>3. 0 \in T
  <2>1. ToSet(<<>>) = {} /\ Had(0) = {} /\ <<>> \in Seq(V) /\ 0 \in 0..N
    BY <1>2, EmptySeq DEF ToSet
  <2> HIDE DEF Had
  <2>2. QED
    BY <1>1, <2>1
<1>4. \A k \in 0..N : k \in T /\ k < N => k + 1 \in T
  <2> SUFFICES ASSUME NEW k \in 0..N, k \in T, k < N PROVE k + 1 \in T
    OBVIOUS
  <2>1. /\ k + 1 \in 1..N /\ k + 1 \in 0..N /\ (k + 1) - 1 = k /\ seq[k + 1] \in V
        /\ 1..(k + 1) = 1..k \cup {k + 1}
    BY <1>2
  <2>2. Had(k + 1) = Had(k) \cup {seq[k + 1]}
    BY <2>1
  <2>3. f[k + 1] = IF seq[k + 1] \in ToSet(f[k]) THEN f[k] ELSE Append(f[k], seq[k + 1])
    BY <1>1, <2>1
  <2>4. f[k] \in Seq(V) /\ ToSet(f[k]) = Had(k)
    OBVIOUS
  <2> HIDE DEF Had
  <2>5. /\ Append(f[k], seq[k + 1]) \in Seq(V)
         /\ ToSet(Append(f[k], seq[k + 1])) = ToSet(f[k]) \cup {seq[k + 1]}
    BY ONLY <2>1, <2>4, ElementsOfAppend
  <2>6. f[k + 1] \in Seq(V) /\ ToSet(f[k + 1]) = Had(k + 1)
    BY <2>2, <2>3, <2>4, <2>5
  <2>7. QED
    BY <2>1, <2>6
<1>5. \A k \in 0..N : k \in T
  <2> HIDE DEF T
  <2>1. QED
    BY ONLY <1>2, <1>3, <1>4, UpTo
<1>6. N \in T
  <2>1. N \in 0..N
    BY <1>2
  <2> HIDE DEF T
  <2>2. QED
    BY <1>5, <2>1
<1>7. QED
  BY <1>1, <1>2, <1>6

LEMMA FlattenRuns ==
  ASSUME NEW V, NEW seqs \in Seq(Seq(V)), seqs # <<>>
  PROVE  \E f : /\ FlattenSeq(seqs) = f[Len(seqs)] /\ f[1] = seqs[1]
                /\ \A k \in 2..Len(seqs) : f[k] = f[k - 1] \o seqs[k]
<1> DEFINE N == Len(seqs)
           Body(f) == [i \in 1..N |-> IF i = 1 THEN seqs[i] ELSE f[i - 1] \o seqs[i]]
           step == [k \in 1..(N - 1) |-> [t \in Seq(V) |-> t \o seqs[k + 1]]]
           flat == CHOOSE f : f = Body(f)
<1>1. N \in Nat /\ N > 0 /\ N - 1 \in Nat /\ \A k \in 1..N : seqs[k] \in Seq(V)
  BY ElementOfSeq, ElementsOf
<1>2. step \in [1..(N - 1) -> [Seq(V) -> Seq(V)]] /\ seqs[1] \in Seq(V)
  <2>1. \A k \in 1..(N - 1) : k + 1 \in 1..N
    BY <1>1
  <2>2. QED
    BY <1>1, <2>1
<1>3. PICK g : Runs(g, N - 1, Seq(V), seqs[1], step)
  <2>1. Steps(N - 1, Seq(V), seqs[1], step)
    BY <1>1, <1>2 DEF Steps
  <2>2. QED
    BY ONLY <2>1, Recursion, Zenon
<1> DEFINE f == [i \in 1..N |-> g[i - 1]]
<1>4. \A i \in 1..N : f[i] = Body(f)[i]
  <2>1. ASSUME NEW i \in 2..N PROVE f[i] = f[i - 1] \o seqs[i]
    <3>1. i - 1 \in 1..(N - 1) /\ i - 1 \in 1..N /\ i \in 1..N /\ (i - 1) - 1 \in 0..(N - 1)
          /\ (i - 1) + 1 = i
      BY <1>1
    <3>2. g[(i - 1) - 1] \in Seq(V) /\ g[i - 1] = step[i - 1][g[(i - 1) - 1]]
      BY <1>3, <3>1 DEF Runs
    <3>3. g[i - 1] = g[(i - 1) - 1] \o seqs[i]
      BY <3>1, <3>2
    <3>4. QED
      BY <3>1, <3>3
  <2>2. f[1] = seqs[1]
    BY <1>1, <1>3 DEF Runs
  <2>3. \A i \in 1..N : i = 1 \/ i \in 2..N
    BY <1>1
  <2> HIDE DEF f
  <2>4. QED
    BY <2>1, <2>2, <2>3
<1>5. f = Body(f)
  BY <1>4
<1>6. flat = Body(flat)
  <2> HIDE DEF Body, f
  <2>1. QED
    BY <1>5
<1>7. flat[1] = seqs[1]
  <2>1. 1 \in 1..N
    BY <1>1
  <2>2. QED
    BY <1>6, <2>1
<1>8. \A k \in 2..N : flat[k] = flat[k - 1] \o seqs[k]
  <2>1. \A k \in 2..N : k \in 1..N /\ k # 1
    BY <1>1
  <2> HIDE DEF flat
  <2>2. QED
    BY <1>6, <2>1
<1>9. FlattenSeq(seqs) = flat[N]
  BY <1>1 DEF FlattenSeq
<1> HIDE DEF flat
<1>10. QED
  BY <1>7, <1>8, <1>9

LEMMA FlattenFacts ==
  ASSUME NEW V, NEW seqs \in Seq(Seq(V))
  PROVE  FlattenSeq(seqs) \in Seq(V) /\ ToSet(FlattenSeq(seqs)) = RelationsOf(seqs)
<1>1. CASE seqs = <<>>
  <2>1. FlattenSeq(seqs) = <<>>
    BY <1>1 DEF FlattenSeq
  <2>2. ToSet(<<>>) = {} /\ RelationsOf(seqs) = {} /\ <<>> \in Seq(V)
    BY <1>1, EmptySeq DEF ToSet, RelationsOf
  <2>3. QED
    BY <2>1, <2>2
<1>2. CASE seqs # <<>>
  <2> DEFINE N == Len(seqs)
             Had(k) == UNION {ToSet(seqs[i]) : i \in 1..k}
  <2>1. PICK f : /\ FlattenSeq(seqs) = f[N] /\ f[1] = seqs[1]
                 /\ \A k \in 2..N : f[k] = f[k - 1] \o seqs[k]
    BY <1>2, FlattenRuns
  <2>2. N \in Nat /\ N > 0 /\ RelationsOf(seqs) = Had(N) /\ \A k \in 1..N : seqs[k] \in Seq(V)
    <3>1. N \in Nat /\ DOMAIN seqs = 1..N /\ N # 0
      BY <1>2, EmptySeq
    <3>2. RelationsOf(seqs) = Had(N)
      BY <3>1 DEF RelationsOf
    <3>3. QED
      BY <3>1, <3>2, ElementOfSeq
  <2> DEFINE T == {k \in 0..N : k = 0 \/ (f[k] \in Seq(V) /\ ToSet(f[k]) = Had(k))}
  <2> HIDE DEF N
  <2>3. 0 \in T
    BY <2>2
  <2>4. \A k \in 0..N : k \in T /\ k < N => k + 1 \in T
    <3> SUFFICES ASSUME NEW k \in 0..N, k \in T, k < N PROVE k + 1 \in T
      OBVIOUS
    <3>1. k + 1 \in 1..N /\ k + 1 \in 0..N /\ (k + 1) - 1 = k /\ seqs[k + 1] \in Seq(V)
          /\ 1..(k + 1) = 1..k \cup {k + 1}
      BY <2>2
    <3>2. Had(k + 1) = Had(k) \cup ToSet(seqs[k + 1])
      BY <3>1
    <3>3. CASE k = 0
      <4>1. Had(0) = {}
        OBVIOUS
      <4>2. f[1] \in Seq(V) /\ ToSet(f[1]) = Had(1)
        BY <2>1, <3>1, <3>2, <3>3, <4>1
      <4>3. QED
        BY <3>1, <3>3, <4>2
    <3>4. CASE k # 0
      <4>1. k + 1 \in 2..N /\ f[k] \in Seq(V) /\ ToSet(f[k]) = Had(k)
        BY <2>2, <3>1, <3>4
      <4>2. f[k + 1] = f[k] \o seqs[k + 1]
        BY <2>1, <3>1, <4>1
      <4>3. f[k + 1] \in Seq(V) /\ Range(f[k + 1]) = Range(f[k]) \cup Range(seqs[k + 1])
        BY <3>1, <4>1, <4>2, ConcatProperties, RangeConcatenation
      <4>4. ToSet(f[k + 1]) = ToSet(f[k]) \cup ToSet(seqs[k + 1])
        BY <4>3 DEF ToSet, Range
      <4> HIDE DEF Had
      <4>5. QED
        BY <3>1, <3>2, <4>1, <4>3, <4>4
    <3>5. QED
      BY <3>3, <3>4
  <2>5. \A k \in 0..N : k \in T
    <3> HIDE DEF T
    <3>1. QED
      BY ONLY <2>2, <2>3, <2>4, UpTo
  <2>6. N \in 0..N /\ N # 0
    BY <2>2
  <2>7. f[N] \in Seq(V) /\ ToSet(f[N]) = Had(N)
    <3> HIDE DEF Had
    <3>1. QED
      BY <2>5, <2>6
  <2>8. QED
    BY <2>1, <2>2, <2>7
<1>3. QED
  BY <1>1, <1>2

-----------------------------------------------------------------------------
(* The order of edges.                                                      *)

Orderable(S) ==
  /\ IsFiniteSet(S) /\ S \subseteq Relations /\ \A e \in S : e.predicate \in WithFallback
  /\ Listed \in Seq(Relations) /\ S \subseteq ToSet(Listed)

LEMMA LeastFacts ==
  ASSUME NEW S \in SUBSET Nat, S # {}
  PROVE  Least(S) \in S /\ \A j \in S : Least(S) <= j
<1>1. \E i \in S : \A j \in S : i <= j
  BY LeastNat
<1>2. QED
  BY <1>1 DEF Least

(* Every relation of a response has a first place in it, and no two have the same. *)
LEMMA OrderFacts ==
  ASSUME NEW S, Orderable(S)
  PROVE  /\ \A e \in S : Order(e) \in Nat
         /\ \A e, f \in S : Order(e) = Order(f) => e = f
<1>1. Listed \in Seq(Relations) /\ S \subseteq ToSet(Listed) /\ DOMAIN Listed = 1..Len(Listed)
  BY ElementsOf DEF Orderable
<1>2. ASSUME NEW e \in S PROVE Order(e) \in Nat /\ Listed[Order(e)] = e
  <2> DEFINE places == {i \in DOMAIN Listed : Listed[i] = e}
  <2>1. places \in SUBSET Nat
    BY <1>1
  <2>2. places # {}
    BY <1>1 DEF ToSet
  <2>3. Order(e) = Least(places)
    BY DEF Order
  <2>4. Least(places) \in places
    <3> HIDE DEF places
    <3>1. QED
      BY <2>1, <2>2, LeastFacts
  <2>5. QED
    BY <2>1, <2>3, <2>4
<1>3. QED
  BY <1>2

LEMMA RankType ==
  ASSUME NEW p \in WithFallback
  PROVE  Rank(p) \in 1..6
<1> DEFINE all == PRIMARY_FLOW_PREDICATES \o FALLBACK_FLOW_PREDICATES
<1>1. /\ all[1] = "CALLS" /\ all[2] = "INVOKES" /\ all[3] = "DISPATCHES_TO"
      /\ all[4] = "INSTANTIATES" /\ all[5] = "HANDLES" /\ all[6] = "IMPORTS"
  <2> DEFINE p1 == <<"CALLS", "INVOKES", "DISPATCHES_TO", "INSTANTIATES", "HANDLES">>
             p2 == <<"IMPORTS">>
             V  == {"CALLS", "INVOKES", "DISPATCHES_TO", "INSTANTIATES", "HANDLES", "IMPORTS"}
  <2>1. /\ p1[1] = "CALLS" /\ p1[2] = "INVOKES" /\ p1[3] = "DISPATCHES_TO"
        /\ p1[4] = "INSTANTIATES" /\ p1[5] = "HANDLES" /\ p2[1] = "IMPORTS"
    OBVIOUS
  <2>2. p1 \in Seq(V) /\ Len(p1) = 5
    OBVIOUS
  <2>3. p2 \in Seq(V) /\ Len(p2) = 1
    OBVIOUS
  <2>4. all = p1 \o p2
    BY DEF PRIMARY_FLOW_PREDICATES, FALLBACK_FLOW_PREDICATES
  <2> HIDE DEF p1, p2, all, V
  <2>5. Len(p1) + Len(p2) = 6
    BY <2>2, <2>3
  <2>6. (\A i \in 1..5 : (p1 \o p2)[i] = p1[i]) /\ (p1 \o p2)[6] = p2[1]
    <3>1. \A i \in 1..(Len(p1) + Len(p2)) :
            (p1 \o p2)[i] = IF i <= Len(p1) THEN p1[i] ELSE p2[i - Len(p1)]
      BY ONLY <2>2, <2>3, ConcatProperties
    <3>2. \A i \in 1..6 : (p1 \o p2)[i] = IF i <= 5 THEN p1[i] ELSE p2[i - 5]
      BY <2>2, <2>5, <3>1
    <3>3. 6 \in 1..6 /\ ~(6 <= 5) /\ 6 - 5 = 1 /\ \A i \in 1..5 : i \in 1..6 /\ i <= 5
      OBVIOUS
    <3>4. (p1 \o p2)[6] = p2[6 - 5]
      BY <3>2, <3>3
    <3>5. QED
      BY <3>2, <3>3, <3>4
  <2>7. 1 \in 1..5 /\ 2 \in 1..5 /\ 3 \in 1..5 /\ 4 \in 1..5 /\ 5 \in 1..5
    OBVIOUS
  <2>8. QED
    BY <2>1, <2>4, <2>6, <2>7
<1>2. p \in {"CALLS", "INVOKES", "DISPATCHES_TO", "INSTANTIATES", "HANDLES", "IMPORTS"}
  BY DEF WithFallback, Primary, ToSet, PRIMARY_FLOW_PREDICATES, FALLBACK_FLOW_PREDICATES
<1>3. \E i \in 1..6 : all[i] = p
  <2> HIDE DEF all
  <2>1. 1 \in 1..6 /\ 2 \in 1..6 /\ 3 \in 1..6 /\ 4 \in 1..6 /\ 5 \in 1..6 /\ 6 \in 1..6
    OBVIOUS
  <2>2. QED
    BY <1>1, <1>2, <2>1
<1>4. QED
  BY <1>3 DEF Rank

LEMMA BeforeIsOrder ==
  ASSUME NEW S, Orderable(S), NEW e \in S, NEW f \in S, NEW g \in S
  PROVE  /\ ~Before(e, e)
         /\ Before(e, f) /\ Before(f, g) => Before(e, g)
         /\ e # f => Before(e, f) \/ Before(f, e)
<1>1. \A d \in S : Rank(d.predicate) \in Nat /\ d.target \in Nat /\ d.id \in Nat
  <2> SUFFICES ASSUME NEW d \in S
               PROVE  Rank(d.predicate) \in Nat /\ d.target \in Nat /\ d.id \in Nat
    OBVIOUS
  <2>1. d \in Relations /\ d.predicate \in WithFallback
    BY DEF Orderable
  <2>2. Rank(d.predicate) \in 1..6
    BY <2>1, RankType
  <2>3. d.target \in Nat /\ d.id \in Nat
    <3>1. d.target \in Nodes /\ d.id \in Nat
      BY <2>1, RelationSet
    <3>2. QED
      BY <3>1, NodeSets
  <2>4. QED
    BY <2>2, <2>3
<1>2. /\ Order(e) \in Nat /\ Order(f) \in Nat /\ Order(g) \in Nat
      /\ e # f => Order(e) # Order(f)
  BY OrderFacts
<1>a. e # f /\ e.id = f.id => e.id = NoId
  BY RelationSet DEF Orderable
<1>b. \A c, d \in S : Before(c, d) <=>
        \/ Rank(c.predicate) < Rank(d.predicate)
        \/ /\ Rank(c.predicate) = Rank(d.predicate)
           /\ \/ c.target < d.target
              \/ c.target = d.target /\ c.id < d.id
              \/ c.target = d.target /\ c.id = NoId /\ d.id = NoId /\ Order(c) < Order(d)
  BY DEF Before
<1>3. ~Before(e, e)
  BY <1>1, <1>2, <1>b
<1>4. Before(e, f) /\ Before(f, g) => Before(e, g)
  BY <1>1, <1>2, <1>b
<1>5. e # f => Before(e, f) \/ Before(f, e)
  BY <1>1, <1>2, <1>a, <1>b
<1>6. QED
  BY <1>3, <1>4, <1>5

Earlier(S, e) == {f \in S : Before(f, e)}

LEMMA EarlierFacts ==
  ASSUME NEW S, Orderable(S)
  PROVE  /\ Cardinality(S) \in Nat
         /\ \A e \in S : Cardinality(Earlier(S, e)) \in Nat /\ Cardinality(Earlier(S, e)) < Cardinality(S)
         /\ \A e, f \in S : Before(e, f) => Cardinality(Earlier(S, e)) < Cardinality(Earlier(S, f))
         /\ \A e, f \in S : Cardinality(Earlier(S, e)) = Cardinality(Earlier(S, f)) => e = f
<1>1. Cardinality(S) \in Nat /\ IsFiniteSet(S)
  BY FS_CardinalityType DEF Orderable
<1>2. ASSUME NEW e \in S
      PROVE  /\ IsFiniteSet(Earlier(S, e)) /\ Cardinality(Earlier(S, e)) \in Nat
             /\ Cardinality(Earlier(S, e)) < Cardinality(S)
  <2>1. Earlier(S, e) \in SUBSET S /\ e \notin Earlier(S, e)
    BY BeforeIsOrder DEF Earlier
  <2>2. /\ IsFiniteSet(Earlier(S, e)) /\ Cardinality(Earlier(S, e)) <= Cardinality(S)
        /\ Cardinality(S) = Cardinality(Earlier(S, e)) => S = Earlier(S, e)
    BY <1>1, <2>1, FS_Subset
  <2>3. Cardinality(Earlier(S, e)) \in Nat
    BY <2>2, FS_CardinalityType
  <2>4. QED
    BY <1>1, <2>1, <2>2, <2>3
<1>3. ASSUME NEW e \in S, NEW f \in S, Before(e, f)
      PROVE  Cardinality(Earlier(S, e)) < Cardinality(Earlier(S, f))
  <2>1. Earlier(S, e) \in SUBSET Earlier(S, f) /\ e \in Earlier(S, f) /\ e \notin Earlier(S, e)
    BY <1>3, BeforeIsOrder DEF Earlier
  <2>2. /\ Cardinality(Earlier(S, e)) <= Cardinality(Earlier(S, f))
        /\ Cardinality(Earlier(S, f)) = Cardinality(Earlier(S, e)) => Earlier(S, f) = Earlier(S, e)
    BY <1>2, <2>1, FS_Subset
  <2>3. QED
    BY <1>2, <2>1, <2>2
<1>4. ASSUME NEW e \in S, NEW f \in S, Cardinality(Earlier(S, e)) = Cardinality(Earlier(S, f)), e # f
      PROVE  FALSE
  <2>1. Before(e, f) \/ Before(f, e)
    BY <1>4, BeforeIsOrder
  <2>2. QED
    BY <1>2, <1>3, <1>4, <2>1
<1>5. QED
  BY <1>1, <1>2, <1>3, <1>4

(* A set of edges that is not empty has a first one.                          *)
LEMMA FirstExists ==
  ASSUME NEW S, Orderable(S), S # {}
  PROVE  \E e \in S : \A f \in S : ~Before(f, e)
<1> DEFINE Ranks == {Cardinality(Earlier(S, e)) : e \in S}
<1>1. Ranks \in SUBSET Nat /\ Ranks # {}
  BY EarlierFacts
<1>2. PICK m \in Ranks : \A n \in Ranks : m <= n
  <2> HIDE DEF Ranks
  <2>1. QED
    BY <1>1, LeastNat
<1>3. PICK e \in S : m = Cardinality(Earlier(S, e))
  OBVIOUS
<1>4. ASSUME NEW f \in S, Before(f, e) PROVE FALSE
  <2>1. Cardinality(Earlier(S, f)) < m /\ Cardinality(Earlier(S, f)) \in Nat /\ m \in Nat
    BY <1>3, <1>4, EarlierFacts
  <2>2. m <= Cardinality(Earlier(S, f))
    BY <1>2
  <2>3. QED
    BY <2>1, <2>2
<1>5. QED
  BY <1>4

(* InOrder lists every edge of a set once.                                   *)
LEMMA InOrderFacts ==
  ASSUME NEW S, Orderable(S)
  PROVE  /\ InOrder(S) \in Seq(S) /\ Len(InOrder(S)) = Cardinality(S)
         /\ ToSet(InOrder(S)) = S
<1> DEFINE N == Cardinality(S)
           rank == [e \in S |-> Cardinality(Earlier(S, e)) + 1]
           Place(k) == CHOOSE e \in S : Cardinality(Earlier(S, e)) = k - 1
<1>1. N \in Nat /\ IsFiniteSet(S)
  BY FS_CardinalityType DEF Orderable
<1>2. \A e \in S : Cardinality(Earlier(S, e)) \in Nat /\ Cardinality(Earlier(S, e)) < N
  BY EarlierFacts
<1>3. \A e, f \in S : Cardinality(Earlier(S, e)) = Cardinality(Earlier(S, f)) => e = f
  BY EarlierFacts
<1>4. rank \in Injection(S, 1..N)
  <2>1. rank \in [S -> 1..N]
    BY <1>1, <1>2
  <2>2. \A e, f \in S : rank[e] = rank[f] => e = f
    BY <1>2, <1>3
  <2>3. QED
    BY <2>1, <2>2 DEF Injection, IsInjective
<1>5. IsFiniteSet(1..N) /\ Cardinality(1..N) = N
  BY <1>1, FS_Interval
<1>6. rank \in Surjection(S, 1..N)
  <2> HIDE DEF rank
  <2>1. QED
    BY <1>4, <1>5, FS_Injection
<1>7. ASSUME NEW k \in 1..N PROVE \E e \in S : Cardinality(Earlier(S, e)) = k - 1
  <2>1. PICK e \in S : rank[e] = k
    <3> HIDE DEF rank
    <3>1. QED
      BY <1>6 DEF Surjection
  <2>2. QED
    BY <1>2, <2>1
<1>8. \A k \in 1..N : Place(k) \in S /\ Cardinality(Earlier(S, Place(k))) = k - 1
  BY <1>7
<1>9. InOrder(S) = [k \in 1..N |-> Place(k)]
  BY DEF InOrder, Earlier
<1> HIDE DEF Place
<1>10. InOrder(S) \in Seq(S) /\ Len(InOrder(S)) = N /\ DOMAIN InOrder(S) = 1..N
  BY <1>1, <1>8, <1>9
<1>11. S \subseteq ToSet(InOrder(S))
  <2> SUFFICES ASSUME NEW e \in S PROVE e \in ToSet(InOrder(S))
    OBVIOUS
  <2> DEFINE k == Cardinality(Earlier(S, e)) + 1
  <2>1. k \in 1..N /\ k - 1 = Cardinality(Earlier(S, e))
    BY <1>1, <1>2
  <2>2. Place(k) \in S /\ Cardinality(Earlier(S, Place(k))) = Cardinality(Earlier(S, e))
    BY <1>8, <2>1
  <2>3. Place(k) = e
    BY <1>3, <2>2
  <2>4. QED
    BY <1>9, <1>10, <2>1, <2>3 DEF ToSet
<1>12. ToSet(InOrder(S)) \subseteq S
  BY <1>10, ElementsOf
<1>13. QED
  BY <1>10, <1>11, <1>12

LEMMA OrderableSubset ==
  ASSUME NEW S, Orderable(S), NEW U \in SUBSET S
  PROVE  Orderable(U)
  BY FS_Subset DEF Orderable

-----------------------------------------------------------------------------
(* Balls, and the breadth-first search that has to agree with them.             *)

Usable(allowed) == {e \in Edges : e.predicate \in allowed}

LEMMA BallsFacts ==
  ASSUME NEW a \in Nodes, NEW allowed, Orderable(Edges)
  PROVE  /\ Balls(a, allowed)[0] = {a}
         /\ \A k \in 1..HopsPerPath :
              Balls(a, allowed)[k] = Balls(a, allowed)[k - 1] \cup
                {e.target : e \in {f \in Usable(allowed) : f.source \in Balls(a, allowed)[k - 1]}}
         /\ \A k \in 0..HopsPerPath : Balls(a, allowed)[k] \subseteq Nodes
<1> DEFINE N == HopsPerPath
           Next(B) == B \cup {e.target : e \in {f \in Edges : /\ f.predicate \in allowed
                                                            /\ f.source \in B}}
           Body(f) == [k \in 0..N |-> IF k = 0 THEN {a} ELSE Next(f[k - 1])]
           step == [k \in 1..N |-> [B \in SUBSET Nodes |-> Next(B)]]
           ball == CHOOSE f : f = Body(f)
<1>1. N \in Nat /\ \A e \in Edges : e.target \in Nodes
  BY Budgets, RelationSet DEF Orderable
<1>2. step \in [1..N -> [SUBSET Nodes -> SUBSET Nodes]] /\ {a} \in SUBSET Nodes
  BY <1>1
<1>3. PICK f : Runs(f, N, SUBSET Nodes, {a}, step)
  <2>1. Steps(N, SUBSET Nodes, {a}, step)
    BY <1>1, <1>2 DEF Steps
  <2>2. QED
    BY ONLY <2>1, Recursion, Zenon
<1>4. \A k \in 0..N : f[k] = Body(f)[k]
  <2>1. ASSUME NEW k \in 1..N PROVE f[k] = Next(f[k - 1])
    <3>1. k - 1 \in 0..N
      BY <1>1
    <3>2. f[k - 1] \in SUBSET Nodes
      BY <1>3, <3>1 DEF Runs
    <3> HIDE DEF Next
    <3>3. QED
      BY <1>3, <3>2 DEF Runs
  <2>2. \A k \in 0..N : k = 0 \/ k \in 1..N
    BY <1>1
  <2> HIDE DEF Next
  <2>3. QED
    BY <1>3, <2>1, <2>2 DEF Runs
<1>5. f = Body(f)
  BY <1>3, <1>4 DEF Runs
<1>6. ball = Body(ball)
  <2> HIDE DEF Body
  <2>1. QED
    BY <1>5
<1>7. Balls(a, allowed) = ball
  BY DEF Balls
<1> HIDE DEF ball
<1>8. ball[0] = {a}
  <2>1. 0 \in 0..N
    BY <1>1
  <2>2. QED
    BY <1>6, <2>1
<1>9. \A k \in 1..N : ball[k] = Next(ball[k - 1])
  <2>1. \A k \in 1..N : k \in 0..N /\ k # 0
    BY <1>1
  <2> HIDE DEF Next
  <2>2. QED
    BY <1>6, <2>1
<1>10. \A k \in 0..N : ball[k] \subseteq Nodes
  <2> DEFINE T == {k \in 0..N : ball[k] \subseteq Nodes}
  <2>1. 0 \in T
    BY <1>1, <1>8
  <2>2. \A k \in 0..N : k \in T /\ k < N => k + 1 \in T
    <3> SUFFICES ASSUME NEW k \in 0..N, k \in T, k < N PROVE k + 1 \in T
      OBVIOUS
    <3>1. k + 1 \in 1..N /\ k + 1 \in 0..N /\ (k + 1) - 1 = k
      BY <1>1
    <3>2. ball[k + 1] = Next(ball[k])
      BY <1>9, <3>1
    <3>3. QED
      BY <1>1, <3>1, <3>2
  <2>3. \A k \in 0..N : k \in T
    <3> HIDE DEF T
    <3>1. QED
      BY ONLY <1>1, <2>1, <2>2, UpTo
  <2>4. QED
    BY <2>3
<1>11. \A k \in 1..N : ball[k] = ball[k - 1] \cup
                {e.target : e \in {g \in Usable(allowed) : g.source \in ball[k - 1]}}
  BY <1>9 DEF Usable
<1>12. QED
  BY <1>7, <1>8, <1>10, <1>11

LEMMA BallsGrow ==
  ASSUME NEW a \in Nodes, NEW allowed, Orderable(Edges),
         NEW k \in 0..HopsPerPath, NEW j \in 0..k
  PROVE  Balls(a, allowed)[j] \subseteq Balls(a, allowed)[k]
<1> DEFINE B == Balls(a, allowed)
           N == HopsPerPath
           T == {n \in 0..N : n < j \/ B[j] \subseteq B[n]}
<1> HIDE DEF B
<1>1. N \in Nat /\ j \in Nat
  BY Budgets
<1>2. \A n \in 1..N : B[n - 1] \subseteq B[n]
  <2>1. \A n \in 1..N : B[n] = B[n - 1] \cup {e.target : e \in {f \in Usable(allowed) : f.source \in B[n - 1]}}
    BY BallsFacts DEF B
  <2>2. QED
    BY <2>1
<1>3. 0 \in T
  BY <1>1
<1>4. \A n \in 0..N : n \in T /\ n < N => n + 1 \in T
  <2> SUFFICES ASSUME NEW n \in 0..N, n \in T, n < N PROVE n + 1 \in T
    OBVIOUS
  <2>1. n + 1 \in 1..N /\ n + 1 \in 0..N /\ (n + 1) - 1 = n
    BY <1>1
  <2>2. B[n] \subseteq B[n + 1]
    BY <1>2, <2>1
  <2>3. n + 1 < j \/ n + 1 = j \/ ~ n < j
    BY <1>1
  <2>4. QED
    BY <2>1, <2>2, <2>3
<1>5. \A n \in 0..N : n \in T
  <2> HIDE DEF T
  <2>1. QED
    BY ONLY <1>1, <1>3, <1>4, UpTo
<1>6. k \in T /\ ~ k < j
  BY <1>1, <1>5
<1>7. QED
  BY <1>6 DEF B

SearchStates == [queue : Seq(Nodes), path : UNION {[D -> Seq(Edges)] : D \in SUBSET Nodes}]

(* What one round does: the edges it enters lead from the head of the queue to  *)
(* nodes that had no path, one edge to each.                                 *)
Entering(s, r, allowed, first, entered) ==
  LET h == Head(s.queue)
      D == DOMAIN s.path
      targets == {e.target : e \in first}
  IN  /\ first \subseteq Usable(allowed) /\ IsFiniteSet(first)
      /\ \A e \in first : Len(s.path[h]) < HopsPerPath /\ e.source = h /\ e.target \notin D
      /\ \A e, f \in first : e.target = f.target => e = f
      /\ Len(s.path[h]) < HopsPerPath =>
           \A e \in Usable(allowed) : e.source = h => e.target \in D \cup targets
      /\ r.path = [n \in D \cup targets |->
                     IF n \in D THEN s.path[n] ELSE Append(s.path[h], CHOOSE e \in first : e.target = n)]
      /\ r.queue = Tail(s.queue) \o entered
      /\ entered \in Seq(targets) /\ ToSet(entered) = targets /\ Len(entered) = Cardinality(first)

LEMMA RoundEnters ==
  ASSUME NEW s, NEW allowed, Orderable(Edges)
  PROVE  \E first, entered : Entering(s, Round(s, Edges, allowed), allowed, first, entered)
<1> DEFINE node == Head(s.queue)
           D == DOMAIN s.path
           open == {e \in Edges : /\ Len(s.path[node]) < HopsPerPath
                                  /\ e.source = node /\ e.predicate \in allowed
                                  /\ e.target \notin DOMAIN s.path}
           first == {e \in open : \A f \in open : f.target = e.target => ~Before(f, e)}
           order == InOrder(first)
           entered == [i \in DOMAIN order |-> order[i].target]
           targets == {e.target : e \in first}
           r == Round(s, Edges, allowed)
<1>1. Orderable(open) /\ Orderable(first)
  BY OrderableSubset
<1>2. \A e, f \in first : e.target = f.target => e = f
  <2> SUFFICES ASSUME NEW e \in first, NEW f \in first, e.target = f.target, e # f PROVE FALSE
    OBVIOUS
  <2>1. e \in open /\ f \in open /\ ~Before(e, f) /\ ~Before(f, e)
    OBVIOUS
  <2> HIDE DEF open, first
  <2>2. QED
    BY <1>1, <2>1, BeforeIsOrder
<1>3. \A e \in open : e.target \in targets
  <2> SUFFICES ASSUME NEW e \in open PROVE \E f \in first : f.target = e.target
    BY DEF targets
  <2> DEFINE same == {f \in open : f.target = e.target}
  <2>1. same \in SUBSET open /\ e \in same
    OBVIOUS
  <2>2. PICK f \in same : \A g \in same : ~Before(g, f)
    <3> HIDE DEF open, same
    <3>1. QED
      BY <1>1, <2>1, OrderableSubset, FirstExists
  <2>3. f \in first /\ f.target = e.target
    <3> HIDE DEF open
    <3>1. QED
      BY <2>2
  <2>4. QED
    BY <2>3
<1>4. order \in Seq(first) /\ Len(order) = Cardinality(first) /\ ToSet(order) = first
  <2> HIDE DEF first
  <2>1. QED
    BY <1>1, InOrderFacts
<1>5. entered \in Seq(targets) /\ ToSet(entered) = targets /\ Len(entered) = Cardinality(first)
  <2> HIDE DEF first, order
  <2>1. Len(order) \in Nat /\ DOMAIN order = 1..Len(order) /\ \A i \in 1..Len(order) : order[i] \in first
    BY <1>4
  <2>2. entered \in [1..Len(order) -> targets]
    BY <2>1
  <2>3. entered \in Seq(targets) /\ Len(entered) = Len(order) /\ DOMAIN entered = DOMAIN order
    BY <2>1, <2>2
  <2>4. ToSet(entered) = {order[i].target : i \in 1..Len(order)}
    BY <2>1, <2>3 DEF ToSet
  <2>5. first = {order[i] : i \in 1..Len(order)}
    BY <1>4, <2>1 DEF ToSet
  <2>6. QED
    BY <1>4, <2>3, <2>4, <2>5
<1>6. /\ r.queue = Tail(s.queue) \o entered
      /\ r.path = [n \in D \cup targets |->
                     IF n \in D THEN s.path[n] ELSE Append(s.path[node], CHOOSE e \in first : e.target = n)]
  <2> DEFINE queue == Tail(s.queue) \o entered
             path == [n \in D \cup targets |->
                        IF n \in D THEN s.path[n] ELSE Append(s.path[node], CHOOSE e \in first : e.target = n)]
  <2>1. r = [queue |-> queue, path |-> path]
    BY DEF Round
  <2> HIDE DEF queue, path, r
  <2>2. r.queue = queue /\ r.path = path
    BY <2>1
  <2>3. QED
    BY <2>2 DEF queue, path
<1>7. \A e \in first : Len(s.path[node]) < HopsPerPath /\ e.source = node /\ e.target \notin D
  OBVIOUS
<1>8. first \subseteq Usable(allowed) /\ IsFiniteSet(first)
  BY <1>1 DEF Usable, Orderable
<1>9. Len(s.path[node]) < HopsPerPath =>
        \A e \in Usable(allowed) : e.source = node => e.target \in D \cup targets
  <2> SUFFICES ASSUME Len(s.path[node]) < HopsPerPath, NEW e \in Usable(allowed), e.source = node, e.target \notin D
               PROVE  e.target \in targets
    OBVIOUS
  <2>1. e \in open
    BY DEF Usable
  <2> HIDE DEF open, targets
  <2>2. QED
    BY <1>3, <2>1
<1> HIDE DEF node, D, open, first, order, entered, targets, r
<1>10. Entering(s, r, allowed, first, entered)
  BY <1>2, <1>5, <1>6, <1>7, <1>8, <1>9 DEF Entering, node, D, targets
<1>11. QED
  BY <1>10 DEF r

(* What breadth-first search keeps.  Chains: paths are chains of usable edges,  *)
(* each with a path of its own to every node on it.  Nearest: no chain is       *)
(* shorter.  Sorted: the queue is in the order of distance, over two distances  *)
(* at most.  Closed: a node that left the queue has entered its neighbours.     *)
Chains(P, a, allowed) ==
  /\ a \in DOMAIN P
  /\ \A n \in DOMAIN P :
       /\ P[n] \in Seq(Usable(allowed)) /\ Len(P[n]) <= HopsPerPath
       /\ Len(P[n]) = 0 => n = a
       /\ Len(P[n]) > 0 => P[n][1].source = a /\ P[n][Len(P[n])].target = n
       /\ \A q \in 1..(Len(P[n]) - 1) : P[n][q].target = P[n][q + 1].source
       /\ \A q \in 1..Len(P[n]) : P[n][q].target \in DOMAIN P /\ Len(P[P[n][q].target]) = q

Nearest(P, a, allowed) ==
  \A n \in DOMAIN P :
    /\ n \in Balls(a, allowed)[Len(P[n])]
    /\ \A k \in 0..HopsPerPath : n \in Balls(a, allowed)[k] => Len(P[n]) <= k

Sorted(Q, P) ==
  /\ Q \in Seq(DOMAIN P)
  /\ \A i, j \in 1..Len(Q) : i <= j => /\ Len(P[Q[i]]) <= Len(P[Q[j]])
                                      /\ Len(P[Q[j]]) <= Len(P[Q[i]]) + 1

Closed(Q, P, allowed) ==
  \A n \in DOMAIN P \ ToSet(Q) :
    Len(P[n]) < HopsPerPath => \A e \in Usable(allowed) : e.source = n => e.target \in DOMAIN P

Searching(a, allowed) ==
  {s \in SearchStates : /\ Chains(s.path, a, allowed) /\ Nearest(s.path, a, allowed)
                        /\ Sorted(s.queue, s.path) /\ Closed(s.queue, s.path, allowed)}

(* A ball all of whose inner nodes left the queue has been entered whole.       *)
LEMMA Covered ==
  ASSUME NEW a \in Nodes, NEW allowed, Orderable(Edges), NEW Q, NEW P,
         Chains(P, a, allowed), Nearest(P, a, allowed), Closed(Q, P, allowed),
         NEW k \in 0..HopsPerPath, \A n \in DOMAIN P : Len(P[n]) < k => n \notin ToSet(Q)
  PROVE  Balls(a, allowed)[k] \subseteq DOMAIN P
<1> DEFINE B == Balls(a, allowed)
           T == {j \in 0..k : B[j] \subseteq DOMAIN P}
<1> HIDE DEF B
<1>1. k \in Nat /\ HopsPerPath \in Nat /\ k <= HopsPerPath
  BY Budgets
<1>2. 0 \in T
  <2>1. B[0] = {a}
    BY BallsFacts DEF B
  <2>2. a \in DOMAIN P
    BY DEF Chains
  <2>3. QED
    BY <1>1, <2>1, <2>2
<1>3. \A j \in 0..k : j \in T /\ j < k => j + 1 \in T
  <2> SUFFICES ASSUME NEW j \in 0..k, j \in T, j < k, NEW t \in B[j + 1] PROVE t \in DOMAIN P
    BY <1>1
  <2>1. j + 1 \in 1..HopsPerPath /\ j \in 0..HopsPerPath /\ (j + 1) - 1 = j
    BY <1>1
  <2>2. B[j + 1] = B[j] \cup {e.target : e \in {f \in Usable(allowed) : f.source \in B[j]}}
    BY <2>1, BallsFacts DEF B
  <2>3. CASE t \in B[j]
    BY <2>3
  <2>4. ASSUME NEW e \in Usable(allowed), e.source \in B[j], t = e.target PROVE t \in DOMAIN P
    <3> DEFINE n == e.source
    <3>1. n \in DOMAIN P
      BY <2>4
    <3>2. P[n] \in Seq(Usable(allowed))
      BY <3>1 DEF Chains
    <3>3. Len(P[n]) \in Nat
      BY <3>2, ElementsOf
    <3>4. Len(P[n]) <= j
      BY <2>1, <2>4, <3>1 DEF Nearest, B
    <3>5. Len(P[n]) < k /\ Len(P[n]) < HopsPerPath
      BY <1>1, <3>3, <3>4
    <3>6. n \notin ToSet(Q)
      BY <3>1, <3>5
    <3> HIDE DEF n
    <3>7. QED
      BY <2>4, <3>1, <3>5, <3>6 DEF Closed, n
  <2>5. QED
    BY <2>2, <2>3, <2>4
<1>4. \A j \in 0..k : j \in T
  <2> HIDE DEF T
  <2>1. QED
    BY ONLY <1>1, <1>2, <1>3, UpTo
<1>5. QED
  BY <1>1, <1>4 DEF B

LEMMA EnteredPaths ==
  ASSUME NEW a \in Nodes, NEW allowed, Orderable(Edges), NEW s \in Searching(a, allowed),
         s.queue # <<>>, NEW r, NEW first, NEW entered, Entering(s, r, allowed, first, entered)
  PROVE  LET h == Head(s.queue)
             D == DOMAIN s.path
             targets == {e.target : e \in first}
         IN  /\ D \subseteq Nodes /\ s.path \in [D -> Seq(Edges)]
             /\ targets \subseteq Nodes /\ targets \cap D = {}
             /\ h \in D /\ h = s.queue[1] /\ Len(s.queue) > 0 /\ Len(s.queue) \in Nat
             /\ Len(s.path[h]) \in Nat /\ s.path[h] \in Seq(Usable(allowed))
             /\ \A i \in 1..Len(s.queue) : s.queue[i] \in D /\ Len(s.path[s.queue[i]]) \in Nat
             /\ DOMAIN r.path = D \cup targets /\ \A n \in D : r.path[n] = s.path[n]
             /\ \A e \in first :
                  /\ e \in Usable(allowed) /\ e.source = h
                  /\ r.path[e.target] = Append(s.path[h], e)
                  /\ r.path[e.target] \in Seq(Usable(allowed))
                  /\ Len(r.path[e.target]) = Len(s.path[h]) + 1
                  /\ r.path[e.target][Len(s.path[h]) + 1] = e
                  /\ \A q \in 1..Len(s.path[h]) : r.path[e.target][q] = s.path[h][q]
                  /\ Len(s.path[h]) < HopsPerPath
<1> DEFINE h == Head(s.queue)
           D == DOMAIN s.path
           targets == {e.target : e \in first}
<1>1. s \in SearchStates /\ Chains(s.path, a, allowed) /\ Sorted(s.queue, s.path)
  BY DEF Searching
<1>2. D \subseteq Nodes /\ s.path \in [D -> Seq(Edges)]
  BY <1>1 DEF SearchStates
<1>3. s.queue \in Seq(D)
  BY <1>1 DEF Sorted
<1>4. h \in D /\ h = s.queue[1] /\ Len(s.queue) \in Nat /\ Len(s.queue) > 0
      /\ \A i \in 1..Len(s.queue) : s.queue[i] \in D
  <2> HIDE DEF D
  <2>1. QED
    BY <1>3
<1>5. \A n \in D : s.path[n] \in Seq(Usable(allowed)) /\ Len(s.path[n]) \in Nat
  BY <1>1, ElementsOf DEF Chains
<1>6. first \subseteq Usable(allowed) /\ \A e \in first : Len(s.path[h]) < HopsPerPath /\ e.source = h /\ e.target \notin D
  BY DEF Entering
<1>7. targets \subseteq Nodes /\ targets \cap D = {}
  <2>1. \A e \in first : e \in Relations
    BY <1>6 DEF Usable, Orderable
  <2>2. \A e \in first : e.target \in Nodes
    BY <2>1, RelationSet
  <2> HIDE DEF D, h
  <2>3. QED
    BY <1>6, <2>2
<1>8. r.path = [n \in D \cup targets |->
                  IF n \in D THEN s.path[n] ELSE Append(s.path[h], CHOOSE e \in first : e.target = n)]
  BY DEF Entering
<1>9. DOMAIN r.path = D \cup targets /\ \A n \in D : r.path[n] = s.path[n]
  <2> HIDE DEF D, h, targets
  <2>1. QED
    BY <1>8
<1>10. ASSUME NEW e \in first
       PROVE  /\ r.path[e.target] = Append(s.path[h], e)
              /\ r.path[e.target] \in Seq(Usable(allowed))
              /\ Len(r.path[e.target]) = Len(s.path[h]) + 1
              /\ r.path[e.target][Len(s.path[h]) + 1] = e
              /\ \A q \in 1..Len(s.path[h]) : r.path[e.target][q] = s.path[h][q]
  <2>1. e.target \in targets /\ e.target \notin D
    BY <1>6
  <2>2. \A f \in first : f.target = e.target => f = e
    BY DEF Entering
  <2>3. (CHOOSE f \in first : f.target = e.target) = e
    BY <2>2
  <2>4. r.path[e.target] = Append(s.path[h], e)
    <3> HIDE DEF D, h, targets
    <3>1. QED
      BY <1>8, <2>1, <2>3
  <2>5. s.path[h] \in Seq(Usable(allowed)) /\ e \in Usable(allowed)
    BY <1>4, <1>5, <1>6
  <2> HIDE DEF h
  <2>6. QED
    BY <2>4, <2>5, ElementsOfAppend
<1>11. QED
  BY <1>2, <1>4, <1>5, <1>6, <1>7, <1>9, <1>10

LEMMA RoundKeepsChains ==
  ASSUME NEW a \in Nodes, NEW allowed, Orderable(Edges), NEW s \in Searching(a, allowed),
         s.queue # <<>>, NEW r, NEW first, NEW entered, Entering(s, r, allowed, first, entered)
  PROVE  Chains(r.path, a, allowed)
<1> DEFINE h == Head(s.queue)
           D == DOMAIN s.path
           P == s.path
           R == r.path
           targets == {e.target : e \in first}
<1>1. Chains(P, a, allowed) /\ HopsPerPath \in Nat
  BY Budgets DEF Searching
<1>2. /\ h \in D /\ Len(P[h]) \in Nat /\ targets \cap D = {}
      /\ DOMAIN R = D \cup targets /\ \A n \in D : R[n] = P[n]
  BY EnteredPaths
<1>3. \A e \in first :
        /\ e \in Usable(allowed) /\ e.source = h /\ R[e.target] \in Seq(Usable(allowed))
        /\ Len(R[e.target]) = Len(P[h]) + 1 /\ R[e.target][Len(P[h]) + 1] = e
        /\ \A q \in 1..Len(P[h]) : R[e.target][q] = P[h][q]
        /\ Len(P[h]) < HopsPerPath
  BY EnteredPaths
<1>4. a \in DOMAIN R
  BY <1>1, <1>2 DEF Chains
<1> DEFINE Good(X, n) ==
       /\ X[n] \in Seq(Usable(allowed)) /\ Len(X[n]) <= HopsPerPath
       /\ Len(X[n]) = 0 => n = a
       /\ Len(X[n]) > 0 => X[n][1].source = a /\ X[n][Len(X[n])].target = n
       /\ \A q \in 1..(Len(X[n]) - 1) : X[n][q].target = X[n][q + 1].source
       /\ \A q \in 1..Len(X[n]) : X[n][q].target \in DOMAIN X /\ Len(X[X[n][q].target]) = q
<1>5. D = DOMAIN P /\ \A n \in D : Good(P, n)
  BY <1>1 DEF Chains
<1> HIDE DEF P, R, D, h
<1>6. ASSUME NEW n \in D PROVE Good(R, n)
  <2>1. R[n] = P[n] /\ Good(P, n)
    BY <1>2, <1>5
  <2>2. \A q \in 1..Len(P[n]) : P[n][q].target \in DOMAIN R /\ Len(R[P[n][q].target]) = q
    BY <1>2, <1>5, <2>1
  <2>3. QED
    BY <2>1, <2>2
<1>7. ASSUME NEW e \in first PROVE Good(R, e.target)
  <2> DEFINE n == e.target
             l == Len(P[h])
  <2>1. /\ l \in Nat /\ Len(R[n]) = l + 1 /\ R[n] \in Seq(Usable(allowed)) /\ l + 1 <= HopsPerPath
        /\ R[n][l + 1] = e /\ \A q \in 1..l : R[n][q] = P[h][q]
    BY <1>1, <1>2, <1>3
  <2>2. /\ l = 0 => h = a
        /\ l > 0 => P[h][1].source = a /\ P[h][l].target = h
        /\ \A q \in 1..(l - 1) : P[h][q].target = P[h][q + 1].source
        /\ \A q \in 1..l : P[h][q].target \in D /\ Len(P[P[h][q].target]) = q
    BY <1>2, <1>5
  <2>3. e.source = h /\ n \in targets /\ n \in DOMAIN R
    BY <1>2, <1>3
  <2> HIDE DEF n, l, Good
  <2>4. Len(R[n]) > 0 /\ Len(R[n]) <= HopsPerPath
    BY <2>1
  <2>5. R[n][1].source = a
    <3>1. CASE l = 0
      BY <2>1, <2>2, <2>3, <3>1
    <3>2. CASE l # 0
      <4>1. l > 0 /\ 1 \in 1..l
        BY <2>1, <3>2
      <4>2. QED
        BY <2>1, <2>2, <4>1
    <3>3. QED
      BY <3>1, <3>2
  <2>6. R[n][l + 1].target = n
    BY <2>1 DEF n
  <2>7. ASSUME NEW q \in 1..(Len(R[n]) - 1) PROVE R[n][q].target = R[n][q + 1].source
    <3>1. q \in 1..l /\ R[n][q] = P[h][q]
      BY <2>1
    <3>2. CASE q = l
      BY <2>1, <2>2, <2>3, <3>1, <3>2
    <3>3. CASE q # l
      <4>1. q \in 1..(l - 1) /\ q + 1 \in 1..l
        BY <2>1, <3>1, <3>3
      <4>2. QED
        BY <2>1, <2>2, <3>1, <4>1
    <3>4. QED
      BY <3>2, <3>3
  <2>8. ASSUME NEW q \in 1..Len(R[n]) PROVE R[n][q].target \in DOMAIN R /\ Len(R[R[n][q].target]) = q
    <3>1. CASE q = l + 1
      BY <2>1, <2>3, <2>6, <3>1
    <3>2. CASE q # l + 1
      <4>1. q \in 1..l
        BY <2>1, <3>2
      <4>2. QED
        BY <1>2, <2>1, <2>2, <4>1
    <3>3. QED
      BY <3>1, <3>2
  <2>9. QED
    BY <2>1, <2>4, <2>5, <2>6, <2>7, <2>8 DEF Good, n
<1>8. \A n \in DOMAIN R : Good(R, n)
  <2> HIDE DEF Good
  <2>1. QED
    BY <1>2, <1>6, <1>7
<1>9. QED
  BY <1>4, <1>8 DEF Chains, R

LEMMA RoundKeepsNearest ==
  ASSUME NEW a \in Nodes, NEW allowed, Orderable(Edges), NEW s \in Searching(a, allowed),
         s.queue # <<>>, NEW r, NEW first, NEW entered, Entering(s, r, allowed, first, entered)
  PROVE  Nearest(r.path, a, allowed)
<1> DEFINE h == Head(s.queue)
           D == DOMAIN s.path
           P == s.path
           R == r.path
           Q == s.queue
           B == Balls(a, allowed)
           l == Len(P[h])
           targets == {e.target : e \in first}
<1>1. /\ Chains(P, a, allowed) /\ Nearest(P, a, allowed) /\ Closed(Q, P, allowed) /\ Sorted(Q, P)
      /\ HopsPerPath \in Nat /\ D = DOMAIN P
  BY Budgets DEF Searching
<1>2. /\ h \in D /\ h = Q[1] /\ l \in Nat /\ Len(Q) > 0 /\ Len(Q) \in Nat
      /\ \A i \in 1..Len(Q) : Q[i] \in D /\ Len(P[Q[i]]) \in Nat
      /\ targets \cap D = {}
      /\ DOMAIN R = D \cup targets /\ \A n \in D : R[n] = P[n]
  <2>1. /\ h \in D /\ h = Q[1] /\ l \in Nat /\ Len(Q) > 0 /\ Len(Q) \in Nat
        /\ targets \cap D = {}
    BY EnteredPaths
  <2>2. DOMAIN R = D \cup targets /\ \A n \in D : R[n] = P[n]
    BY EnteredPaths
  <2>3. \A i \in 1..Len(Q) : Q[i] \in D /\ Len(P[Q[i]]) \in Nat
    BY EnteredPaths
  <2>4. QED
    BY <2>1, <2>2, <2>3
<1>3. \A e \in first : e \in Usable(allowed) /\ e.source = h /\ Len(R[e.target]) = l + 1 /\ l < HopsPerPath
  BY EnteredPaths
<1>4. l <= HopsPerPath
  BY <1>1, <1>2 DEF Chains
<1> HIDE DEF P, R, D, h, Q, B, l
<1>5. \A n \in DOMAIN P : Len(P[n]) < l => n \notin ToSet(Q)
  <2> SUFFICES ASSUME NEW n \in DOMAIN P, Len(P[n]) < l, n \in ToSet(Q) PROVE FALSE
    OBVIOUS
  <2>1. PICK i \in 1..Len(Q) : n = Q[i]
    BY <1>1, ElementsOf DEF Sorted
  <2>2. 1 \in 1..Len(Q) /\ 1 <= i
    BY <1>2
  <2>3. Len(P[Q[1]]) <= Len(P[Q[i]])
    BY <1>1, <2>2 DEF Sorted
  <2>4. QED
    BY <1>2, <2>1, <2>3 DEF l
<1>6. B[l] \subseteq D
  <2>1. l \in 0..HopsPerPath
    BY <1>1, <1>2, <1>4
  <2>2. QED
    BY <1>1, <1>5, <2>1, Covered DEF B
<1>7. ASSUME NEW e \in first
      PROVE  /\ e.target \in B[l + 1]
             /\ \A k \in 0..HopsPerPath : e.target \in B[k] => l + 1 <= k
  <2>1. l + 1 \in 1..HopsPerPath /\ (l + 1) - 1 = l
    BY <1>1, <1>2, <1>3
  <2>2. h \in B[l]
    BY <1>1, <1>2 DEF Nearest, B, l
  <2>3. B[l + 1] = B[l] \cup {f.target : f \in {g \in Usable(allowed) : g.source \in B[l]}}
    BY <2>1, BallsFacts DEF B
  <2>4. e.target \in B[l + 1]
    BY <1>3, <2>2, <2>3
  <2>5. ASSUME NEW k \in 0..HopsPerPath, e.target \in B[k], k <= l PROVE FALSE
    <3>1. B[k] \subseteq B[l]
      <4>1. l \in 0..HopsPerPath /\ k \in 0..l
        BY <1>1, <1>2, <1>4, <2>5
      <4>2. QED
        BY <4>1, BallsGrow DEF B
    <3>2. e.target \in D /\ e.target \in targets
      BY <1>6, <2>5, <3>1
    <3> HIDE DEF targets
    <3>3. QED
      BY <1>2, <3>2
  <2>6. QED
    BY <1>1, <1>2, <2>4, <2>5
<1>8. \A n \in D : n \in B[Len(R[n])] /\ \A k \in 0..HopsPerPath : n \in B[k] => Len(R[n]) <= k
  BY <1>1, <1>2 DEF Nearest, B
<1>9. \A n \in DOMAIN R : n \in B[Len(R[n])] /\ \A k \in 0..HopsPerPath : n \in B[k] => Len(R[n]) <= k
  BY <1>2, <1>3, <1>7, <1>8
<1>10. QED
  BY <1>9 DEF Nearest, R, B

LEMMA RoundKeepsQueue ==
  ASSUME NEW a \in Nodes, NEW allowed, Orderable(Edges), NEW s \in Searching(a, allowed),
         s.queue # <<>>, NEW r, NEW first, NEW entered, Entering(s, r, allowed, first, entered)
  PROVE  /\ Sorted(r.queue, r.path) /\ Closed(r.queue, r.path, allowed)
         /\ Len(r.queue) = Len(s.queue) - 1 + Cardinality(first)
<1> DEFINE h == Head(s.queue)
           D == DOMAIN s.path
           P == s.path
           R == r.path
           Q == s.queue
           Z == r.queue
           V == DOMAIN R
           tail == Tail(Q)
           l == Len(P[h])
           targets == {e.target : e \in first}
<1>1. /\ Chains(P, a, allowed) /\ Closed(Q, P, allowed) /\ Sorted(Q, P)
      /\ HopsPerPath \in Nat /\ D = DOMAIN P
  BY Budgets DEF Searching
<1>2. /\ h \in D /\ h = Q[1] /\ l \in Nat /\ Len(Q) > 0 /\ Len(Q) \in Nat
      /\ \A i \in 1..Len(Q) : Q[i] \in D /\ Len(P[Q[i]]) \in Nat
      /\ targets \cap D = {}
      /\ V = D \cup targets /\ \A n \in D : R[n] = P[n]
  <2>1. /\ h \in D /\ h = Q[1] /\ l \in Nat /\ Len(Q) > 0 /\ Len(Q) \in Nat
        /\ targets \cap D = {}
    BY EnteredPaths
  <2>2. V = D \cup targets /\ \A n \in D : R[n] = P[n]
    BY EnteredPaths
  <2>3. \A i \in 1..Len(Q) : Q[i] \in D /\ Len(P[Q[i]]) \in Nat
    BY EnteredPaths
  <2>4. QED
    BY <2>1, <2>2, <2>3
<1>3. \A e \in first : e \in Usable(allowed) /\ e.source = h /\ Len(R[e.target]) = l + 1 /\ l < HopsPerPath
  BY EnteredPaths
<1>4. /\ Z = tail \o entered
      /\ entered \in Seq(targets) /\ ToSet(entered) = targets /\ Len(entered) = Cardinality(first)
      /\ l < HopsPerPath => \A e \in Usable(allowed) : e.source = h => e.target \in V
  <2>1. /\ Z = tail \o entered
        /\ entered \in Seq(targets) /\ ToSet(entered) = targets /\ Len(entered) = Cardinality(first)
        /\ l < HopsPerPath => \A e \in Usable(allowed) : e.source = h => e.target \in D \cup targets
    BY DEF Entering
  <2>2. QED
    BY <1>2, <2>1
<1> HIDE DEF P, R, D, h, Q, l, Z, V, targets
<1>5. /\ tail \in Seq(D) /\ Len(tail) = Len(Q) - 1 /\ \A i \in 1..Len(tail) : tail[i] = Q[i + 1]
  <2>1. Q \in Seq(D) /\ Q # <<>>
    BY <1>1 DEF Sorted, Q
  <2>2. QED
    BY <2>1, HeadTailProperties
<1> HIDE DEF tail
<1>6. tail \in Seq(V) /\ entered \in Seq(V) /\ Len(entered) \in Nat /\ Len(tail) \in Nat
  <2>1. D \subseteq V /\ targets \subseteq V
    BY <1>2
  <2>2. \A i \in 1..Len(tail) : tail[i] \in V
    BY <1>5, <2>1, ElementOfSeq
  <2>3. \A i \in 1..Len(entered) : entered[i] \in V
    BY <1>4, <2>1, ElementOfSeq
  <2>4. Len(entered) \in Nat /\ Len(tail) \in Nat
    BY <1>4, <1>5, ElementsOf
  <2>5. entered = [i \in 1..Len(entered) |-> entered[i]] /\ tail = [i \in 1..Len(tail) |-> tail[i]]
    BY <1>4, <1>5
  <2>6. QED
    BY <2>2, <2>3, <2>4, <2>5
<1>7. /\ Z \in Seq(V) /\ Len(Z) = Len(tail) + Len(entered)
      /\ \A i \in 1..(Len(tail) + Len(entered)) :
           Z[i] = IF i <= Len(tail) THEN tail[i] ELSE entered[i - Len(tail)]
  BY <1>4, <1>6, ConcatProperties
<1>8. \A i \in 1..Len(Z) : \/ i <= Len(tail) /\ i + 1 \in 1..Len(Q) /\ Z[i] = Q[i + 1]
                           \/ i > Len(tail) /\ Z[i] \in targets
  <2> SUFFICES ASSUME NEW i \in 1..Len(Z)
               PROVE  \/ i <= Len(tail) /\ i + 1 \in 1..Len(Q) /\ Z[i] = Q[i + 1]
                      \/ i > Len(tail) /\ Z[i] \in targets
    OBVIOUS
  <2>1. CASE i <= Len(tail)
    <3>1. i \in 1..Len(tail) /\ i + 1 \in 1..Len(Q) /\ i \in 1..(Len(tail) + Len(entered))
      BY <1>2, <1>5, <1>6, <1>7, <2>1
    <3>2. QED
      BY <1>5, <1>7, <2>1, <3>1
  <2>2. CASE ~(i <= Len(tail))
    <3>1. i - Len(tail) \in 1..Len(entered) /\ i \in 1..(Len(tail) + Len(entered)) /\ i > Len(tail)
      BY <1>6, <1>7, <2>2
    <3>2. entered[i - Len(tail)] \in targets
      BY <1>4, <3>1, ElementOfSeq
    <3>3. QED
      BY <1>7, <2>2, <3>1, <3>2
  <2>3. QED
    BY <2>1, <2>2
<1>9. \A n \in targets : Len(R[n]) = l + 1
  BY <1>3 DEF targets
<1>10. \A i \in 1..Len(Q) : l <= Len(P[Q[i]]) /\ Len(P[Q[i]]) <= l + 1
  <2> SUFFICES ASSUME NEW i \in 1..Len(Q) PROVE l <= Len(P[Q[i]]) /\ Len(P[Q[i]]) <= l + 1
    OBVIOUS
  <2>1. 1 \in 1..Len(Q) /\ 1 <= i
    BY <1>2
  <2>2. QED
    BY <1>1, <1>2, <2>1 DEF Sorted, l
<1>11. ASSUME NEW i \in 1..Len(Z), NEW j \in 1..Len(Z), i <= j
       PROVE  Len(R[Z[i]]) <= Len(R[Z[j]]) /\ Len(R[Z[j]]) <= Len(R[Z[i]]) + 1
  <2>1. CASE j <= Len(tail)
    <3>1. i \in Nat /\ j \in Nat /\ Len(tail) \in Nat
      BY <1>6
    <3>2. i <= Len(tail)
      BY <1>11, <2>1, <3>1
    <3>3. /\ i + 1 \in 1..Len(Q) /\ j + 1 \in 1..Len(Q) /\ Z[i] = Q[i + 1] /\ Z[j] = Q[j + 1]
          /\ i + 1 <= j + 1
      BY <1>8, <1>11, <2>1, <3>1, <3>2
    <3>4. R[Z[i]] = P[Q[i + 1]] /\ R[Z[j]] = P[Q[j + 1]]
      BY <1>2, <3>3
    <3>5. QED
      BY <1>1, <3>3, <3>4 DEF Sorted
  <2>2. CASE ~(j <= Len(tail))
    <3>1. Z[j] \in targets /\ Len(R[Z[j]]) = l + 1
      BY <1>8, <1>9, <2>2
    <3>2. CASE i <= Len(tail)
      <4>1. i + 1 \in 1..Len(Q) /\ Z[i] = Q[i + 1]
        BY <1>6, <1>8, <3>2
      <4>2. R[Z[i]] = P[Q[i + 1]] /\ Len(P[Q[i + 1]]) \in Nat
        BY <1>2, <4>1
      <4>3. l <= Len(P[Q[i + 1]]) /\ Len(P[Q[i + 1]]) <= l + 1
        BY <1>10, <4>1
      <4>4. QED
        BY <1>2, <3>1, <4>2, <4>3
    <3>3. CASE ~(i <= Len(tail))
      <4>1. Len(R[Z[i]]) = l + 1
        BY <1>8, <1>9, <3>3
      <4>2. QED
        BY <1>2, <3>1, <4>1
    <3>4. QED
      BY <3>2, <3>3
  <2>3. QED
    BY <2>1, <2>2
<1>12. Sorted(Z, R)
  BY <1>7, <1>11 DEF Sorted, V
<1>13. ToSet(Z) = ToSet(tail) \cup targets /\ ToSet(Q) \subseteq ToSet(tail) \cup {h}
  <2>1. Range(Z) = Range(tail) \cup Range(entered)
    BY <1>4, <1>6, RangeConcatenation
  <2>2. ToSet(Z) = ToSet(tail) \cup ToSet(entered)
    BY <2>1 DEF ToSet, Range
  <2>3. ASSUME NEW i \in 1..Len(Q), Q[i] # h PROVE Q[i] \in ToSet(tail)
    <3>1. i # 1 /\ i - 1 \in 1..Len(tail) /\ (i - 1) + 1 = i
      BY <1>2, <1>5, <2>3
    <3>2. tail[i - 1] = Q[i]
      BY <1>5, <3>1
    <3>3. QED
      BY <1>5, <3>1, <3>2, ElementsOf
  <2>4. QED
    BY <1>1, <1>4, <2>2, <2>3, ElementsOf DEF Sorted
<1>14. ASSUME NEW n \in V \ ToSet(Z), Len(R[n]) < HopsPerPath, NEW e \in Usable(allowed), e.source = n
       PROVE  e.target \in V
  <2>1. n \in D /\ n \notin ToSet(tail) /\ R[n] = P[n]
    BY <1>2, <1>13
  <2>2. CASE n = h
    BY <1>4, <1>14, <2>1, <2>2 DEF l
  <2>3. CASE n # h
    <3>1. n \notin ToSet(Q)
      BY <1>13, <2>1, <2>3
    <3>2. e.target \in D
      BY <1>1, <1>14, <2>1, <3>1 DEF Closed
    <3>3. QED
      BY <1>2, <3>2
  <2>4. QED
    BY <2>2, <2>3
<1>15. Closed(Z, R, allowed)
  BY <1>14 DEF Closed, V
<1>16. Len(Z) = Len(Q) - 1 + Cardinality(first)
  BY <1>4, <1>5, <1>7
<1>17. QED
  BY <1>12, <1>15, <1>16 DEF Z, R, Q

LEMMA RoundKeeps ==
  ASSUME NEW a \in Nodes, NEW allowed, Orderable(Edges), NEW s \in Searching(a, allowed),
         s.queue # <<>>
  PROVE  LET r == Round(s, Edges, allowed)
         IN  /\ r \in Searching(a, allowed)
             /\ Cardinality(DOMAIN r.path) - Len(r.queue) = Cardinality(DOMAIN s.path) - Len(s.queue) + 1
<1> DEFINE r == Round(s, Edges, allowed)
           D == DOMAIN s.path
           E == DOMAIN r.path
<1>1. PICK first, entered : Entering(s, r, allowed, first, entered)
  BY RoundEnters
<1> DEFINE targets == {e.target : e \in first}
<1>2. r = [queue |-> r.queue, path |-> r.path]
  BY DEF Round
<1> HIDE DEF r
<1>3. /\ Chains(r.path, a, allowed) /\ Nearest(r.path, a, allowed)
      /\ Sorted(r.queue, r.path) /\ Closed(r.queue, r.path, allowed)
      /\ Len(r.queue) = Len(s.queue) - 1 + Cardinality(first)
  BY <1>1, RoundKeepsChains, RoundKeepsNearest, RoundKeepsQueue
<1>4. /\ D \subseteq Nodes /\ targets \subseteq Nodes /\ targets \cap D = {}
      /\ E = D \cup targets /\ Len(s.queue) \in Nat
  BY <1>1, EnteredPaths
<1>5. r \in SearchStates
  <2>1. r.path \in [E -> Seq(Edges)]
    <3>1. \A n \in E : r.path[n] \in Seq(Usable(allowed))
      BY <1>3 DEF Chains
    <3>2. \A n \in E : r.path[n] \in Seq(Edges)
      <4>1. Usable(allowed) \subseteq Edges
        BY DEF Usable
      <4>2. QED
        BY <3>1, <4>1, WiderSeq
    <3>3. r.path = [n \in E |-> r.path[n]]
      BY <1>1 DEF Entering
    <3> HIDE DEF E
    <3>4. QED
      BY <3>2, <3>3
  <2>2. r.queue \in Seq(Nodes)
    <3>1. r.queue \in Seq(E)
      BY <1>3 DEF Sorted
    <3> HIDE DEF E, D, targets
    <3>2. E \subseteq Nodes
      BY <1>4
    <3>3. QED
      BY <3>1, <3>2
  <2> DEFINE Paths == UNION {[X -> Seq(Edges)] : X \in SUBSET Nodes}
  <2>3. r.path \in Paths
    <3> HIDE DEF E, D, targets
    <3>1. E \in SUBSET Nodes
      BY <1>4
    <3>2. QED
      BY <2>1, <3>1
  <2> HIDE DEF Paths
  <2>4. r \in [queue : Seq(Nodes), path : Paths]
    BY <1>2, <2>2, <2>3
  <2>5. QED
    BY <2>4 DEF SearchStates, Paths
<1>6. Cardinality(E) = Cardinality(D) + Cardinality(first) /\ Cardinality(D) \in Nat /\ Cardinality(first) \in Nat
  <2> DEFINE goes == [e \in first |-> e.target]
  <2>1. IsFiniteSet(first) /\ \A e, f \in first : e.target = f.target => e = f
    BY <1>1 DEF Entering
  <2>2. goes \in Bijection(first, targets)
    BY <2>1 DEF Bijection, Injection, Surjection, IsInjective
  <2>3. ExistsBijection(first, targets)
    <3> HIDE DEF goes, targets
    <3>1. QED
      BY <2>2 DEF ExistsBijection
  <2> HIDE DEF goes, targets, D, E
  <2>4. IsFiniteSet(targets) /\ Cardinality(targets) = Cardinality(first)
    BY <2>1, <2>3, FS_Bijection
  <2>5. IsFiniteSet(D)
    BY <1>4, NodeSets, FS_Subset
  <2>6. /\ Cardinality(D \cup targets) = Cardinality(D) + Cardinality(targets) - Cardinality(D \cap targets)
        /\ D \cap targets = {} /\ Cardinality({}) = 0
    BY <1>4, <2>4, <2>5, FS_Union, FS_EmptySet
  <2>7. Cardinality(D \cap targets) = 0
    BY <2>6
  <2>8. Cardinality(D) \in Nat /\ Cardinality(first) \in Nat
    BY <2>1, <2>5, FS_CardinalityType
  <2>9. QED
    BY <1>4, <2>4, <2>6, <2>7, <2>8
<1>7. r \in Searching(a, allowed)
  BY <1>3, <1>5 DEF Searching
<1>8. Cardinality(E) - Len(r.queue) = Cardinality(D) - Len(s.queue) + 1
  BY <1>3, <1>4, <1>6
<1>9. QED
  BY <1>7, <1>8 DEF r

Start(a) == [queue |-> <<a>>, path |-> [n \in {a} |-> <<>>]]

LEMMA StartSearches ==
  ASSUME NEW a \in Nodes, NEW allowed, Orderable(Edges)
  PROVE  /\ Start(a) \in Searching(a, allowed)
         /\ Cardinality(DOMAIN Start(a).path) - Len(Start(a).queue) = 0
<1> DEFINE Q == Start(a).queue
           P == Start(a).path
<1>1. Q = <<a>> /\ P = [n \in {a} |-> <<>>]
  BY DEF Start
<1>2. /\ DOMAIN P = {a} /\ P[a] = <<>> /\ Len(P[a]) = 0 /\ P[a] \in Seq(Usable(allowed)) /\ P[a] \in Seq(Edges)
      /\ Q \in Seq({a}) /\ Len(Q) = 1 /\ Q[1] = a /\ Q \in Seq(Nodes)
  BY <1>1, EmptySeq
<1>3. P \in [{a} -> Seq(Edges)]
  BY <1>1, EmptySeq
<1>4. Start(a) \in SearchStates
  <2> DEFINE Paths == UNION {[X -> Seq(Edges)] : X \in SUBSET Nodes}
  <2>1. P \in Paths
    <3>1. {a} \in SUBSET Nodes
      OBVIOUS
    <3> HIDE DEF P
    <3>2. QED
      BY <1>3, <3>1
  <2>2. Start(a) = [queue |-> Q, path |-> P]
    BY DEF Start
  <2> HIDE DEF Paths, P, Q
  <2>3. Start(a) \in [queue : Seq(Nodes), path : Paths]
    BY <1>2, <2>1, <2>2
  <2>4. QED
    BY <2>3 DEF SearchStates, Paths
<1> HIDE DEF P, Q
<1>5. HopsPerPath \in Nat
  BY Budgets
<1>6. Chains(P, a, allowed)
  BY <1>2, <1>5 DEF Chains
<1>7. Nearest(P, a, allowed)
  <2>1. a \in Balls(a, allowed)[0]
    BY BallsFacts
  <2>2. QED
    BY <1>2, <2>1 DEF Nearest
<1>8. Sorted(Q, P)
  BY <1>2 DEF Sorted
<1>9. Closed(Q, P, allowed)
  <2>1. a \in ToSet(Q)
    BY <1>2, ElementsOf
  <2>2. QED
    BY <1>2, <2>1 DEF Closed
<1>10. Cardinality(DOMAIN P) = 1
  BY <1>2, FS_Singleton
<1>11. QED
  BY <1>2, <1>4, <1>6, <1>7, <1>8, <1>9, <1>10 DEF Searching, P, Q

LEMMA SearchRuns ==
  ASSUME NEW a \in Nodes, NEW allowed, Orderable(Edges), Cardinality(Nodes) \in Nat
  PROVE  \E f : /\ Search(Edges, a, allowed) = f[Cardinality(Nodes)].path
                /\ \A k \in 0..Cardinality(Nodes) : f[k] \in Searching(a, allowed)
                /\ f[0] = Start(a)
                /\ \A k \in 1..Cardinality(Nodes) :
                     f[k] = IF f[k - 1].queue = <<>> THEN f[k - 1] ELSE Round(f[k - 1], Edges, allowed)
<1> DEFINE N == Cardinality(Nodes)
           S == Searching(a, allowed)
           Then(s) == IF s.queue = <<>> THEN s ELSE Round(s, Edges, allowed)
           Body(f) == [k \in 0..N |->
                         IF k = 0 THEN [queue |-> <<a>>, path |-> [n \in {a} |-> <<>>]]
                         ELSE IF f[k - 1].queue = <<>> THEN f[k - 1]
                         ELSE Round(f[k - 1], Edges, allowed)]
           step == [k \in 1..N |-> [s \in S |-> Then(s)]]
           after == CHOOSE f : f = Body(f)
<1>1. step \in [1..N -> [S -> S]] /\ Start(a) \in S
  <2>1. Start(a) \in S
    BY StartSearches
  <2>2. \A s \in S : Then(s) \in S
    BY RoundKeeps
  <2> HIDE DEF S, Then
  <2>3. QED
    BY <2>1, <2>2
<1> HIDE DEF S
<1>2. PICK f : Runs(f, N, S, Start(a), step)
  <2>1. Steps(N, S, Start(a), step)
    BY <1>1 DEF Steps
  <2>2. QED
    BY ONLY <2>1, Recursion, Zenon
<1>3. \A k \in 0..N : f[k] = Body(f)[k]
  <2>1. ASSUME NEW k \in 1..N PROVE f[k] = Then(f[k - 1])
    <3>1. k - 1 \in 0..N
      OBVIOUS
    <3>2. f[k - 1] \in S
      BY <1>2, <3>1 DEF Runs
    <3> HIDE DEF Then
    <3>3. QED
      BY <1>2, <3>2 DEF Runs
  <2>2. \A k \in 0..N : k = 0 \/ k \in 1..N
    OBVIOUS
  <2>3. \A k \in 0..N : Body(f)[k] = IF k = 0 THEN Start(a) ELSE Then(f[k - 1])
    BY DEF Start
  <2> HIDE DEF Then, Body
  <2>4. f[0] = Start(a)
    BY <1>2 DEF Runs
  <2>5. QED
    BY <2>1, <2>2, <2>3, <2>4
<1>4. f = Body(f)
  BY <1>2, <1>3 DEF Runs
<1>5. after = Body(after)
  <2> HIDE DEF Body
  <2>1. QED
    BY <1>4
<1>6. Search(Edges, a, allowed) = after[N].path
  BY DEF Search, Continue
<1> HIDE DEF after
<1>7. after[0] = Start(a)
  <2>1. 0 \in 0..N
    OBVIOUS
  <2>2. QED
    BY <1>5, <2>1 DEF Start
<1>8. \A k \in 1..N : after[k] = Then(after[k - 1])
  <2>1. \A k \in 1..N : k \in 0..N /\ k # 0
    OBVIOUS
  <2>2. QED
    BY <1>5, <2>1
<1>9. \A k \in 0..N : after[k] \in S
  <2> DEFINE T == {k \in 0..N : after[k] \in S}
  <2>1. 0 \in T
    BY <1>1, <1>7
  <2>2. \A k \in 0..N : k \in T /\ k < N => k + 1 \in T
    <3> SUFFICES ASSUME NEW k \in 0..N, k \in T, k < N PROVE k + 1 \in T
      OBVIOUS
    <3>1. k + 1 \in 1..N /\ k + 1 \in 0..N /\ (k + 1) - 1 = k
      OBVIOUS
    <3>2. after[k + 1] = Then(after[k])
      BY <1>8, <3>1
    <3>3. Then(after[k]) \in S
      BY RoundKeeps DEF S
    <3> HIDE DEF Then
    <3>4. QED
      BY <3>1, <3>2, <3>3
  <2>3. \A k \in 0..N : k \in T
    <3> HIDE DEF T
    <3>1. QED
      BY ONLY N \in Nat, <2>1, <2>2, UpTo
  <2>4. QED
    BY <2>3
<1>10. QED
  BY <1>6, <1>7, <1>8, <1>9 DEF S

(* After as many rounds as there are nodes the queue is empty: the paths found   *)
(* are the shortest chains to exactly the nodes within HopsPerPath.             *)
LEMMA SearchFacts ==
  ASSUME NEW a \in Nodes, NEW allowed, Orderable(Edges)
  PROVE  LET P == Search(Edges, a, allowed)
         IN  /\ Chains(P, a, allowed) /\ Nearest(P, a, allowed)
             /\ DOMAIN P = Balls(a, allowed)[HopsPerPath]
<1> DEFINE N == Cardinality(Nodes)
           P == Search(Edges, a, allowed)
           S == Searching(a, allowed)
<1>1. N \in Nat /\ IsFiniteSet(Nodes)
  BY NodeSets, FS_CardinalityType
<1>2. PICK f : /\ P = f[N].path
               /\ \A k \in 0..N : f[k] \in S
               /\ f[0] = Start(a)
               /\ \A k \in 1..N :
                    f[k] = IF f[k - 1].queue = <<>> THEN f[k - 1] ELSE Round(f[k - 1], Edges, allowed)
  BY <1>1, SearchRuns
<1> HIDE DEF P, S
<1> DEFINE Entered(k) == Cardinality(DOMAIN f[k].path)
           Waiting(k) == Len(f[k].queue)
<1>3. \A k \in 0..N : /\ Entered(k) \in Nat /\ Entered(k) <= N
                      /\ Waiting(k) \in Nat /\ (Waiting(k) = 0 => f[k].queue = <<>>)
  <2> SUFFICES ASSUME NEW k \in 0..N
               PROVE  /\ Entered(k) \in Nat /\ Entered(k) <= N
                      /\ Waiting(k) \in Nat /\ (Waiting(k) = 0 => f[k].queue = <<>>)
    OBVIOUS
  <2>1. f[k] \in S
    BY <1>2
  <2>2. f[k] \in SearchStates
    BY <2>1 DEF S, Searching
  <2>3. DOMAIN f[k].path \in SUBSET Nodes /\ f[k].queue \in Seq(Nodes)
    BY <2>2 DEF SearchStates
  <2>4. QED
    BY <1>1, <2>3, FS_Subset, FS_CardinalityType, ElementsOf
<1> DEFINE T == {k \in 0..N : f[k].queue = <<>> \/ Entered(k) - Waiting(k) = k}
<1>4. 0 \in T
  <2>1. Cardinality(DOMAIN Start(a).path) - Len(Start(a).queue) = 0
    BY StartSearches
  <2>2. QED
    BY <1>1, <1>2, <2>1
<1>5. \A k \in 0..N : k \in T /\ k < N => k + 1 \in T
  <2> SUFFICES ASSUME NEW k \in 0..N, k \in T, k < N PROVE k + 1 \in T
    OBVIOUS
  <2>1. k + 1 \in 1..N /\ k + 1 \in 0..N /\ (k + 1) - 1 = k /\ k \in Nat
    BY <1>1
  <2>2. f[k + 1] = IF f[k].queue = <<>> THEN f[k] ELSE Round(f[k], Edges, allowed)
    BY <1>2, <2>1
  <2>3. CASE f[k].queue = <<>>
    BY <2>1, <2>2, <2>3
  <2>4. CASE f[k].queue # <<>>
    <3>1. Entered(k + 1) - Waiting(k + 1) = Entered(k) - Waiting(k) + 1
      <4>1. f[k + 1] = Round(f[k], Edges, allowed)
        BY <2>2, <2>4
      <4>2. f[k] \in Searching(a, allowed)
        BY <1>2 DEF S
      <4>3. /\ Cardinality(DOMAIN Round(f[k], Edges, allowed).path) - Len(Round(f[k], Edges, allowed).queue)
               = Cardinality(DOMAIN f[k].path) - Len(f[k].queue) + 1
        BY <2>4, <4>2, RoundKeeps
      <4>4. QED
        BY <4>1, <4>3
    <3>2. Entered(k) - Waiting(k) = k
      BY <2>4
    <3> HIDE DEF Entered, Waiting
    <3>3. QED
      BY <2>1, <3>1, <3>2
  <2>5. QED
    BY <2>3, <2>4
<1>6. \A k \in 0..N : k \in T
  <2> HIDE DEF T
  <2>1. QED
    BY ONLY <1>1, <1>4, <1>5, UpTo
<1>7. f[N].queue = <<>>
  <2>1. N \in 0..N
    BY <1>1
  <2>2. N \in T
    BY <1>6, <2>1
  <2>3. Entered(N) \in Nat /\ Entered(N) <= N /\ Waiting(N) \in Nat /\ (Waiting(N) = 0 => f[N].queue = <<>>)
    BY <1>3, <2>1
  <2> HIDE DEF Entered, Waiting
  <2>4. QED
    BY <1>1, <2>2, <2>3
<1>8. /\ Chains(P, a, allowed) /\ Nearest(P, a, allowed) /\ Closed(<<>>, P, allowed)
  <2>1. f[N] \in S
    BY <1>1, <1>2
  <2>2. QED
    BY <1>2, <1>7, <2>1 DEF S, Searching
<1>9. Balls(a, allowed)[HopsPerPath] \subseteq DOMAIN P
  <2>1. HopsPerPath \in 0..HopsPerPath
    BY Budgets
  <2>2. \A n \in DOMAIN P : n \notin ToSet(<<>>)
    BY DEF ToSet
  <2>3. QED
    BY <1>8, <2>1, <2>2, Covered
<1>10. DOMAIN P \subseteq Balls(a, allowed)[HopsPerPath]
  <2> SUFFICES ASSUME NEW n \in DOMAIN P PROVE n \in Balls(a, allowed)[HopsPerPath]
    OBVIOUS
  <2>1. P[n] \in Seq(Usable(allowed)) /\ Len(P[n]) <= HopsPerPath /\ n \in Balls(a, allowed)[Len(P[n])]
    BY <1>8 DEF Chains, Nearest
  <2>2. HopsPerPath \in 0..HopsPerPath /\ Len(P[n]) \in 0..HopsPerPath
    BY <2>1, Budgets, ElementsOf
  <2>3. QED
    BY <2>1, <2>2, BallsGrow
<1>11. QED
  BY <1>8, <1>9, <1>10 DEF P

-----------------------------------------------------------------------------
(* Flows.                                                                   *)

(* A shortest chain of usable edges, through different nodes.                 *)
Route(p, a, t, allowed) ==
  /\ p \in Seq(Usable(allowed)) /\ Len(p) \in 1..HopsPerPath
  /\ p[1].source = a /\ p[Len(p)].target = t
  /\ \A q \in 1..(Len(p) - 1) : p[q].target = p[q + 1].source
  /\ t \in Balls(a, allowed)[Len(p)]
  /\ \A k \in 0..HopsPerPath : t \in Balls(a, allowed)[k] => Len(p) <= k
  /\ \A q \in 1..Len(p) : p[q].target # a
  /\ \A q, w \in 1..Len(p) : p[q].target = p[w].target => q = w

LEMMA FoundIsRoute ==
  ASSUME NEW a \in Nodes, NEW allowed, Orderable(Edges), NEW t \in DOMAIN Search(Edges, a, allowed)
  PROVE  LET p == Search(Edges, a, allowed)[t]
         IN  /\ p \in Seq(Edges) /\ Len(p) \in Nat
             /\ Len(p) > 0 => Route(p, a, t, allowed)
             /\ Len(p) = 0 => t = a
<1> DEFINE P == Search(Edges, a, allowed)
           p == P[t]
<1>1. Chains(P, a, allowed) /\ Nearest(P, a, allowed)
  BY SearchFacts
<1> HIDE DEF P
<1>2. t \in DOMAIN P
  BY DEF P
<1>3. /\ p \in Seq(Usable(allowed)) /\ Len(p) <= HopsPerPath
      /\ Len(p) = 0 => t = a
      /\ Len(p) > 0 => p[1].source = a /\ p[Len(p)].target = t
      /\ \A q \in 1..(Len(p) - 1) : p[q].target = p[q + 1].source
      /\ \A q \in 1..Len(p) : p[q].target \in DOMAIN P /\ Len(P[p[q].target]) = q
  BY <1>1, <1>2 DEF Chains
<1>4. /\ t \in Balls(a, allowed)[Len(p)]
      /\ \A k \in 0..HopsPerPath : t \in Balls(a, allowed)[k] => Len(p) <= k
  BY <1>1, <1>2 DEF Nearest
<1>5. Len(p) \in Nat /\ HopsPerPath \in Nat
  BY <1>3, ElementsOf, Budgets
<1>6. p \in Seq(Edges)
  <2>1. Usable(allowed) \subseteq Edges
    BY DEF Usable
  <2>2. QED
    BY <1>3, <2>1, WiderSeq
<1>7. Len(P[a]) <= 0 /\ a \in DOMAIN P
  <2>1. a \in DOMAIN P
    BY <1>1 DEF Chains
  <2>2. 0 \in 0..HopsPerPath /\ a \in Balls(a, allowed)[0]
    BY <1>5, BallsFacts
  <2>3. QED
    BY <1>1, <2>1, <2>2 DEF Nearest
<1>8. \A q \in 1..Len(p) : p[q].target # a
  BY <1>3, <1>7
<1>9. \A q, w \in 1..Len(p) : p[q].target = p[w].target => q = w
  BY <1>3
<1>10. Len(p) > 0 => Route(p, a, t, allowed)
  BY <1>3, <1>4, <1>5, <1>8, <1>9 DEF Route
<1>11. QED
  BY <1>3, <1>5, <1>6, <1>10 DEF P

LEMMA FlowFacts ==
  ASSUME NEW a \in Nodes, NEW t \in Nodes, Orderable(Edges)
  PROVE  LET p == FlowBetween(Edges, a, t)
         IN  /\ p \in Seq(Edges) /\ Len(p) \in Nat
             /\ Len(p) > 0 => Route(p, a, t, Allowed(a, t))
             /\ t \in Balls(a, Allowed(a, t))[HopsPerPath] /\ t # a => Len(p) > 0
<1> DEFINE p == FlowBetween(Edges, a, t)
           primary == Search(Edges, a, Primary)
           all == Search(Edges, a, WithFallback)
<1>1. DOMAIN primary = Balls(a, Primary)[HopsPerPath] /\ DOMAIN all = Balls(a, WithFallback)[HopsPerPath]
  BY SearchFacts
<1>2. p = CASE t \in DOMAIN primary -> primary[t]
            [] t \notin DOMAIN primary /\ t \in DOMAIN all -> all[t]
            [] OTHER -> <<>>
  BY DEF FlowBetween
<1>3. t \in DOMAIN primary =>
        /\ primary[t] \in Seq(Edges) /\ Len(primary[t]) \in Nat
        /\ Len(primary[t]) > 0 => Route(primary[t], a, t, Primary)
        /\ Len(primary[t]) = 0 => t = a
  BY FoundIsRoute
<1>4. t \in DOMAIN all =>
        /\ all[t] \in Seq(Edges) /\ Len(all[t]) \in Nat
        /\ Len(all[t]) > 0 => Route(all[t], a, t, WithFallback)
        /\ Len(all[t]) = 0 => t = a
  BY FoundIsRoute
<1> HIDE DEF p, primary, all
<1>5. CASE t \in DOMAIN primary
  <2>1. p = primary[t] /\ Allowed(a, t) = Primary
    BY <1>1, <1>2, <1>5 DEF Allowed
  <2>2. QED
    BY <1>3, <1>5, <2>1 DEF p
<1>6. CASE t \notin DOMAIN primary /\ t \in DOMAIN all
  <2>1. p = all[t] /\ Allowed(a, t) = WithFallback
    BY <1>1, <1>2, <1>6 DEF Allowed
  <2>2. QED
    BY <1>4, <1>6, <2>1 DEF p
<1>7. CASE t \notin DOMAIN primary /\ t \notin DOMAIN all
  <2>1. p = <<>> /\ Allowed(a, t) = WithFallback
    BY <1>1, <1>2, <1>7 DEF Allowed
  <2>2. p \in Seq(Edges) /\ Len(p) = 0
    BY <2>1, EmptySeq
  <2>3. QED
    BY <1>1, <1>7, <2>1, <2>2 DEF p
<1>8. QED
  BY <1>5, <1>6, <1>7

LEMMA ConsideredRuns ==
  ASSUME NEW V, NEW candidates \in Seq(V)
  PROVE  \E f : /\ Considered(candidates) = f[Len(candidates)] /\ f[0] = <<>>
                /\ \A k \in 1..Len(candidates) : f[k] = Consider(f[k - 1], candidates[k])
<1> DEFINE N == Len(candidates)
           Body(f) == [k \in 0..N |-> IF k = 0 THEN <<>> ELSE Consider(f[k - 1], candidates[k])]
           step == [k \in 1..N |-> [t \in Seq(V) |-> Consider(t, candidates[k])]]
           found == CHOOSE f : f = Body(f)
<1>1. N \in Nat /\ \A k \in 1..N : candidates[k] \in V
  BY ElementOfSeq, ElementsOf
<1>2. step \in [1..N -> [Seq(V) -> Seq(V)]] /\ <<>> \in Seq(V)
  <2>1. \A k \in 1..N : \A t \in Seq(V) : Consider(t, candidates[k]) \in Seq(V)
    BY <1>1 DEF Consider
  <2>2. QED
    BY <2>1
<1>3. PICK f : Runs(f, N, Seq(V), <<>>, step)
  <2>1. Steps(N, Seq(V), <<>>, step)
    BY <1>1, <1>2 DEF Steps
  <2>2. QED
    BY ONLY <2>1, Recursion, Zenon
<1>4. \A k \in 0..N : f[k] = Body(f)[k]
  <2>1. ASSUME NEW k \in 1..N PROVE f[k] = Consider(f[k - 1], candidates[k])
    <3>1. k - 1 \in 0..N
      BY <1>1
    <3>2. f[k - 1] \in Seq(V)
      BY <1>3, <3>1 DEF Runs
    <3>3. QED
      BY <1>3, <3>2 DEF Runs
  <2>2. \A k \in 0..N : k = 0 \/ k \in 1..N
    BY <1>1
  <2>3. QED
    BY <1>3, <2>1, <2>2 DEF Runs
<1>5. f = Body(f)
  BY <1>3, <1>4 DEF Runs
<1>6. found = Body(found)
  <2> HIDE DEF Body
  <2>1. QED
    BY <1>5
<1>7. found[0] = <<>>
  <2>1. 0 \in 0..N
    BY <1>1
  <2>2. QED
    BY <1>6, <2>1
<1>8. \A k \in 1..N : found[k] = Consider(found[k - 1], candidates[k])
  <2>1. \A k \in 1..N : k \in 0..N /\ k # 0
    BY <1>1
  <2> HIDE DEF found
  <2>2. QED
    BY <1>6, <2>1
<1>9. Considered(candidates) = found[N]
  BY DEF Considered
<1> HIDE DEF found
<1>10. QED
  BY <1>7, <1>8, <1>9

(* What assembling keeps: the chosen paths are long enough and none repeats an   *)
(* earlier one; below the limit every long one lies on a chosen one.            *)
Chosen(F, C, V) ==
  /\ F \in Seq(V) /\ Len(F) <= MaxPaths
  /\ \A i \in 1..Len(F) : F[i] \in C /\ MinHops <= Len(F[i])
  /\ \A i \in 1..Len(F) : \A j \in 1..(i - 1) : ~ToSet(F[i]) \subseteq ToSet(F[j])
  /\ Len(F) < MaxPaths =>
       \A p \in C : MinHops <= Len(p) => \E i \in 1..Len(F) : ToSet(p) \subseteq ToSet(F[i])

LEMMA ConsiderKeeps ==
  ASSUME NEW V, NEW C, NEW F, Chosen(F, C, V), NEW p \in V, Len(p) \in Nat
  PROVE  Chosen(Consider(F, p), C \cup {p}, V)
<1> DEFINE G == Consider(F, p)
           D == C \cup {p}
           n == Len(F)
           Skipped == \/ n = MaxPaths \/ Len(p) < MinHops
                      \/ \E i \in 1..n : ToSet(p) \subseteq ToSet(F[i])
<1>1. F \in Seq(V) /\ n \in Nat /\ DOMAIN F = 1..n /\ MaxPaths \in Nat /\ MinHops \in Nat
  BY Budgets, ElementsOf DEF Chosen, MinHops
<1>2. G = IF Skipped THEN F ELSE Append(F, p)
  BY <1>1 DEF Consider
<1>3. CASE Skipped
  <2>1. n < MaxPaths /\ MinHops <= Len(p) => \E i \in 1..n : ToSet(p) \subseteq ToSet(F[i])
    <3> HIDE DEF n, G
    <3>1. QED
      BY <1>1, <1>3
  <2>2. G = F
    BY <1>2, <1>3
  <2>3. n < MaxPaths =>
          \A q \in D : MinHops <= Len(q) => \E i \in 1..n : ToSet(q) \subseteq ToSet(F[i])
    BY <2>1 DEF Chosen
  <2> HIDE DEF G, Skipped
  <2>4. Chosen(F, D, V)
    BY <2>3 DEF Chosen
  <2>5. QED
    BY <2>2, <2>4 DEF G
<1>4. CASE ~Skipped
  <2>1. /\ n # MaxPaths /\ MinHops <= Len(p) /\ G = Append(F, p)
        /\ \A i \in 1..n : ~ToSet(p) \subseteq ToSet(F[i])
    <3> HIDE DEF n, G
    <3>1. QED
      BY <1>1, <1>2, <1>4
  <2>2. /\ G \in Seq(V) /\ Len(G) = n + 1 /\ G[n + 1] = p /\ \A i \in 1..n : G[i] = F[i]
    <3>1. /\ Append(F, p) \in Seq(V) /\ Len(Append(F, p)) = n + 1
          /\ Append(F, p)[n + 1] = p /\ \A i \in 1..n : Append(F, p)[i] = F[i]
      BY ONLY <1>1, p \in V, ElementsOfAppend
    <3> HIDE DEF n, G
    <3>2. QED
      BY <2>1, <3>1
  <2>3. n <= MaxPaths /\ \A i \in 1..n : F[i] \in C /\ MinHops <= Len(F[i])
    BY DEF Chosen
  <2>4. \A i \in 1..n : \A j \in 1..(i - 1) : ~ToSet(F[i]) \subseteq ToSet(F[j])
    BY DEF Chosen
  <2>5. n < MaxPaths => \A q \in C : MinHops <= Len(q) => \E i \in 1..n : ToSet(q) \subseteq ToSet(F[i])
    BY DEF Chosen
  <2> HIDE DEF G, n, Skipped
  <2>6. Len(G) <= MaxPaths /\ n < MaxPaths
    BY <1>1, <2>1, <2>2, <2>3
  <2>7. \A i \in 1..Len(G) : i = n + 1 \/ i \in 1..n
    BY <1>1, <2>2
  <2>8. \A i \in 1..Len(G) : G[i] \in D /\ MinHops <= Len(G[i])
    BY <2>1, <2>2, <2>3, <2>7
  <2>9. ASSUME NEW i \in 1..Len(G), NEW j \in 1..(i - 1) PROVE ~ToSet(G[i]) \subseteq ToSet(G[j])
    <3>1. CASE i = n + 1
      <4>1. j \in 1..n
        BY <1>1, <3>1
      <4>2. QED
        BY <2>1, <2>2, <3>1, <4>1
    <3>2. CASE i \in 1..n
      <4>1. j \in 1..n
        BY <1>1, <3>2
      <4>2. QED
        BY <2>2, <2>4, <3>2, <4>1
    <3>3. QED
      BY <2>7, <3>1, <3>2
  <2>10. ASSUME NEW q \in D, MinHops <= Len(q)
         PROVE  \E i \in 1..Len(G) : ToSet(q) \subseteq ToSet(G[i])
    <3>1. n + 1 \in 1..Len(G) /\ \A i \in 1..n : i \in 1..Len(G)
      BY <1>1, <2>2
    <3>2. CASE q = p
      BY <2>2, <3>1, <3>2
    <3>3. CASE q \in C
      <4>1. PICK i \in 1..n : ToSet(q) \subseteq ToSet(F[i])
        BY <2>5, <2>6, <2>10, <3>3
      <4>2. QED
        BY <2>2, <3>1, <4>1
    <3>4. QED
      BY <3>2, <3>3
  <2>11. Chosen(G, D, V)
    BY <2>2, <2>6, <2>8, <2>9, <2>10 DEF Chosen
  <2>12. QED
    BY <2>11 DEF G
<1>5. QED
  BY <1>3, <1>4

LEMMA ConsideredFacts ==
  ASSUME NEW V, NEW candidates \in Seq(V), \A p \in V : Len(p) \in Nat
  PROVE  Chosen(Considered(candidates), ToSet(candidates), V)
<1> DEFINE N == Len(candidates)
           Had(k) == {candidates[i] : i \in 1..k}
<1>1. PICK f : /\ Considered(candidates) = f[N] /\ f[0] = <<>>
               /\ \A k \in 1..N : f[k] = Consider(f[k - 1], candidates[k])
  BY ConsideredRuns
<1>2. N \in Nat /\ ToSet(candidates) = Had(N) /\ \A k \in 1..N : candidates[k] \in V
  BY ElementOfSeq, ElementsOf DEF ToSet
<1> DEFINE T == {k \in 0..N : Chosen(f[k], Had(k), V)}
<1> HIDE DEF N
<1>3. 0 \in T
  <2>1. Had(0) = {} /\ <<>> \in Seq(V) /\ Len(<<>>) = 0 /\ MaxPaths \in Nat /\ 0 \in 0..N
    BY <1>2, EmptySeq, Budgets
  <2>2. 1..Len(<<>>) = {} /\ Len(<<>>) <= MaxPaths
    BY <2>1
  <2> HIDE DEF Had
  <2>3. Chosen(<<>>, {}, V)
    BY <2>1, <2>2 DEF Chosen
  <2>4. QED
    BY <1>1, <2>1, <2>3
<1>4. \A k \in 0..N : k \in T /\ k < N => k + 1 \in T
  <2> SUFFICES ASSUME NEW k \in 0..N, k \in T, k < N PROVE k + 1 \in T
    OBVIOUS
  <2>1. /\ k + 1 \in 1..N /\ k + 1 \in 0..N /\ (k + 1) - 1 = k /\ candidates[k + 1] \in V
        /\ 1..(k + 1) = 1..k \cup {k + 1}
    BY <1>2
  <2>2. Had(k + 1) = Had(k) \cup {candidates[k + 1]}
    BY <2>1
  <2>3. f[k + 1] = Consider(f[k], candidates[k + 1])
    BY <1>1, <2>1
  <2>4. Chosen(f[k], Had(k), V) /\ Len(candidates[k + 1]) \in Nat
    BY <2>1
  <2> HIDE DEF Had
  <2>5. Chosen(Consider(f[k], candidates[k + 1]), Had(k) \cup {candidates[k + 1]}, V)
    BY ONLY <2>1, <2>4, ConsiderKeeps
  <2>6. QED
    BY <2>1, <2>2, <2>3, <2>5
<1>5. \A k \in 0..N : k \in T
  <2> HIDE DEF T
  <2>1. QED
    BY ONLY <1>2, <1>3, <1>4, UpTo
<1>6. N \in T
  <2>1. N \in 0..N
    BY <1>2
  <2> HIDE DEF T
  <2>2. QED
    BY <1>5, <2>1
<1>7. QED
  BY <1>1, <1>2, <1>6

-----------------------------------------------------------------------------
(* The response, and the flows of every response.                             *)

(* TYPE INVARIANT. A response is made of chunks of the repository, each once,   *)
(* further texts, and groups of relations that are not empty (query.py,         *)
(* normalize_query_response reads these four lists).                          *)
AnswerTypeOK ==
  /\ chunks \in Seq(Nodes) /\ \A i, j \in DOMAIN chunks : chunks[i] = chunks[j] => i = j
  /\ additional \in Seq(Nodes)
  /\ related \in Seq(Seq(Relations)) /\ <<>> \notin ToSet(related)
  /\ paths \in Seq(Seq(Relations)) /\ <<>> \notin ToSet(paths) /\ Len(paths) <= ReturnedPaths

THEOREM ResponsesAreTyped == AnswerSpec => []AnswerTypeOK
<1>1. AnswerInit => AnswerTypeOK
  <2> SUFFICES ASSUME AnswerInit PROVE AnswerTypeOK
    OBVIOUS
  <2>1. chunks = <<>> /\ additional = <<>> /\ related = <<>> /\ paths = <<>>
    BY DEF AnswerInit
  <2>2. ReturnedPaths \in Nat /\ Len(<<>>) = 0
    BY Budgets
  <2>3. DOMAIN <<>> = {} /\ ToSet(<<>>) = {}
    BY EmptySeq DEF ToSet
  <2>4. QED
    BY <2>1, <2>2, <2>3, EmptySeq DEF AnswerTypeOK
<1>2. AnswerTypeOK /\ [AnswerNext]_answerVars => AnswerTypeOK'
  <2> SUFFICES ASSUME AnswerTypeOK, [AnswerNext]_answerVars PROVE AnswerTypeOK'
    OBVIOUS
  <2>1. ASSUME NEW n \in Nodes, ReturnChunk(n) PROVE AnswerTypeOK'
    <3>1. chunks \in Seq(Nodes) /\ chunks' = Append(chunks, n) /\ n \notin ToSet(chunks)
          /\ additional' = additional /\ related' = related /\ paths' = paths
      BY <2>1 DEF ReturnChunk, AnswerTypeOK
    <3>2. Len(chunks) \in Nat /\ DOMAIN chunks = 1..Len(chunks) /\ \A i \in 1..Len(chunks) : chunks[i] # n
      BY <3>1, ElementsOf
    <3>3. /\ chunks' \in Seq(Nodes) /\ Len(chunks') = Len(chunks) + 1 /\ chunks'[Len(chunks) + 1] = n
          /\ \A i \in 1..Len(chunks) : chunks'[i] = chunks[i]
      BY <3>1, ElementsOfAppend
    <3>4. DOMAIN chunks' = 1..(Len(chunks) + 1)
      BY <3>3
    <3>5. \A i, j \in 1..Len(chunks) : chunks[i] = chunks[j] => i = j
      BY <3>2 DEF AnswerTypeOK
    <3>6. \A i \in DOMAIN chunks' : i \in 1..Len(chunks) \/ i = Len(chunks) + 1
      BY <3>2, <3>4
    <3>7. \A i, j \in DOMAIN chunks' : chunks'[i] = chunks'[j] => i = j
      BY <3>2, <3>3, <3>5, <3>6
    <3>8. QED
      BY <3>1, <3>3, <3>7 DEF AnswerTypeOK
  <2>2. ASSUME NEW n \in Nodes, ReturnContext(n) PROVE AnswerTypeOK'
    <3>1. /\ additional \in Seq(Nodes) /\ additional' = Append(additional, n)
          /\ chunks' = chunks /\ related' = related /\ paths' = paths
      BY <2>2 DEF ReturnContext, AnswerTypeOK
    <3>2. additional' \in Seq(Nodes)
      BY <3>1, ElementsOfAppend
    <3>3. QED
      BY <3>1, <3>2 DEF AnswerTypeOK
  <2>3. ASSUME NEW g \in RelationGroups, ReturnRelation(g) PROVE AnswerTypeOK'
    <3>1. /\ related \in Seq(Seq(Relations)) /\ <<>> \notin ToSet(related)
          /\ related' = Append(related, g)
          /\ chunks' = chunks /\ additional' = additional /\ paths' = paths
      BY <2>3 DEF ReturnRelation, AnswerTypeOK
    <3>2. g \in Seq(Relations) /\ g # <<>>
      BY GroupSets
    <3>3. related' \in Seq(Seq(Relations)) /\ ToSet(related') = ToSet(related) \cup {g}
      BY <3>1, <3>2, ElementsOfAppend
    <3>4. QED
      BY <3>1, <3>2, <3>3 DEF AnswerTypeOK
  <2>4. ASSUME NEW g \in PathGroups, ReturnPath(g) PROVE AnswerTypeOK'
    <3>1. /\ paths \in Seq(Seq(Relations)) /\ <<>> \notin ToSet(paths)
          /\ paths' = Append(paths, g) /\ Len(paths) < ReturnedPaths
          /\ chunks' = chunks /\ additional' = additional /\ related' = related
      BY <2>4 DEF ReturnPath, AnswerTypeOK
    <3>2. g \in Seq(Relations) /\ g # <<>>
      BY GroupSets
    <3>3. Len(paths) \in Nat /\ ReturnedPaths \in Nat
      BY <3>1, ElementsOf, Budgets
    <3>4. /\ paths' \in Seq(Seq(Relations)) /\ Len(paths') = Len(paths) + 1
          /\ ToSet(paths') = ToSet(paths) \cup {g}
      BY <3>1, <3>2, ElementsOfAppend
    <3>5. QED
      BY <3>1, <3>2, <3>3, <3>4 DEF AnswerTypeOK
  <2>5. CASE UNCHANGED answerVars
    BY <2>5 DEF answerVars, AnswerTypeOK
  <2>6. QED
    BY <2>1, <2>2, <2>3, <2>4, <2>5 DEF AnswerNext
<1>3. QED
  BY <1>1, <1>2, PTL DEF AnswerSpec

LEMMA RelationsOfFacts ==
  ASSUME NEW V, NEW groups \in Seq(Seq(V))
  PROVE  /\ RelationsOf(groups) \subseteq V
         /\ \A x : x \in RelationsOf(groups) <=> \E g \in ToSet(groups) : x \in ToSet(g)
<1>1. RelationsOf(groups) = UNION {ToSet(g) : g \in ToSet(groups)}
  BY DEF RelationsOf, ToSet
<1>2. \A g \in ToSet(groups) : g \in Seq(V)
  BY ElementsOf
<1>3. \A g \in ToSet(groups) : ToSet(g) \subseteq V
  BY <1>2, ElementsOf
<1>4. QED
  BY <1>1, <1>3

LEMMA GroundedFacts ==
  ASSUME NEW V, NEW groups \in Seq(Seq(V))
  PROVE  /\ GroundedGroups(groups) \in Seq(Seq(V))
         /\ ToSet(GroundedGroups(groups)) = {g \in ToSet(groups) : IsGrounded(g)}
<1> DEFINE S == {g \in ToSet(groups) : IsGrounded(g)}
<1>1. S = ToSet(groups) \cap S
  OBVIOUS
<1> HIDE DEF S
<1>2. Among(groups, S) \in Seq(Seq(V)) /\ ToSet(Among(groups, S)) = S
  BY <1>1, AmongFacts
<1>3. QED
  BY <1>2 DEF GroundedGroups, S

LEMMA JoinFacts ==
  ASSUME NEW V, NEW s \in Seq(V), NEW t \in Seq(V)
  PROVE  s \o t \in Seq(V) /\ ToSet(s \o t) = ToSet(s) \cup ToSet(t)
<1>1. s \o t \in Seq(V) /\ Range(s \o t) = Range(s) \cup Range(t)
  BY ConcatProperties, RangeConcatenation
<1>2. QED
  BY <1>1 DEF ToSet, Range

LEMMA EdgesFacts ==
  ASSUME AnswerTypeOK
  PROVE  /\ Orderable(Edges) /\ Edges \subseteq Returned /\ Returned \subseteq Relations
         /\ paths \o related \in Seq(Seq(Relations))
         /\ ToSet(Listed) = RelationsOf(GroundedGroups(paths \o related))
<1>1. paths \o related \in Seq(Seq(Relations))
  BY JoinFacts DEF AnswerTypeOK
<1> DEFINE groups == paths \o related
<1> HIDE DEF groups
<1>2. groups \in Seq(Seq(Relations))
  BY <1>1 DEF groups
<1>3. /\ GroundedGroups(groups) \in Seq(Seq(Relations))
      /\ ToSet(GroundedGroups(groups)) \subseteq ToSet(groups)
  BY <1>2, GroundedFacts
<1>4. RelationsOf(GroundedGroups(groups)) \subseteq RelationsOf(groups)
  BY <1>2, <1>3, RelationsOfFacts
<1>5. RelationsOf(groups) \subseteq Relations
  BY <1>2, RelationsOfFacts
<1>a. Listed \in Seq(Relations) /\ ToSet(Listed) = RelationsOf(GroundedGroups(groups))
  BY <1>3, FlattenFacts DEF Listed, groups
<1>6. Edges \subseteq ToSet(Listed) /\ Edges \subseteq Returned /\ Returned \subseteq Relations
  BY <1>4, <1>5, <1>a DEF Edges, Returned, groups
<1>7. Orderable(Edges)
  <2>1. \A e \in Edges : e.predicate \in WithFallback
    BY DEF Edges
  <2>2. Edges \in SUBSET Relations
    BY <1>6
  <2>3. IsFiniteSet(Edges)
    BY <2>2, RelationSet, FS_Subset
  <2>4. QED
    BY <1>6, <1>a, <2>1, <2>2, <2>3 DEF Orderable
<1>8. QED
  BY <1>1, <1>6, <1>7, <1>a DEF groups

LEMMA EndsFacts ==
  ASSUME AnswerTypeOK
  PROVE  Anchors \in Seq(Nodes) /\ Targets \in Seq(Nodes)
<1>1. \A S : Among(chunks, S) \in Seq(Nodes)
  BY AmongFacts DEF AnswerTypeOK
<1>2. Targets \in Seq(Nodes)
  BY <1>1 DEF Targets, Ordered
<1>3. Anchors \in Seq(Nodes)
  <2>1. \E S : Anchors = Ordered(S)
    BY DEF Anchors
  <2>2. QED
    BY <1>1, <2>1 DEF Ordered
<1>4. QED
  BY <1>2, <1>3

(* The flows are chosen among one route for every anchor and target.            *)
Candidates ==
  UNION {{FlowBetween(Edges, a, t) : a \in ToSet(Anchors)} : t \in ToSet(Targets)}

LEMMA FlowsChosen ==
  ASSUME AnswerTypeOK
  PROVE  Chosen(Flows, Candidates, Seq(Edges))
<1> DEFINE V == Seq(Edges)
           anchors == Anchors
           targets == Targets
           to(t) == [i \in DOMAIN anchors |-> FlowBetween(Edges, anchors[i], t)]
           all == [j \in DOMAIN targets |-> to(targets[j])]
           C == UNION {{FlowBetween(Edges, a, t) : a \in ToSet(anchors)} : t \in ToSet(targets)}
<1>1. Orderable(Edges)
  BY EdgesFacts
<1>2. /\ anchors \in Seq(Nodes) /\ targets \in Seq(Nodes)
      /\ Len(anchors) \in Nat /\ Len(targets) \in Nat
      /\ DOMAIN anchors = 1..Len(anchors) /\ DOMAIN targets = 1..Len(targets)
      /\ \A i \in 1..Len(anchors) : anchors[i] \in Nodes
      /\ \A j \in 1..Len(targets) : targets[j] \in Nodes
  BY EndsFacts, ElementsOf, ElementOfSeq
<1>3. \A a, t \in Nodes : FlowBetween(Edges, a, t) \in V
  BY <1>1, FlowFacts
<1> HIDE DEF V, anchors, targets
<1>4. \A t \in Nodes : /\ to(t) \in Seq(V)
                       /\ ToSet(to(t)) = {FlowBetween(Edges, a, t) : a \in ToSet(anchors)}
  <2> SUFFICES ASSUME NEW t \in Nodes
               PROVE  /\ to(t) \in Seq(V)
                      /\ ToSet(to(t)) = {FlowBetween(Edges, a, t) : a \in ToSet(anchors)}
    OBVIOUS
  <2>1. to(t) \in [1..Len(anchors) -> V]
    BY <1>2, <1>3
  <2>2. DOMAIN to(t) = DOMAIN anchors /\ \A i \in DOMAIN anchors : to(t)[i] = FlowBetween(Edges, anchors[i], t)
    OBVIOUS
  <2>3. ToSet(to(t)) = {FlowBetween(Edges, a, t) : a \in ToSet(anchors)}
    BY <2>2 DEF ToSet
  <2> HIDE DEF to
  <2>4. QED
    BY <1>2, <2>1, <2>3
<1>5. all \in Seq(Seq(V)) /\ DOMAIN all = 1..Len(targets)
  <2>1. all \in [1..Len(targets) -> Seq(V)]
    <3> HIDE DEF to
    <3>1. QED
      BY <1>2, <1>4
  <2> HIDE DEF all
  <2>2. QED
    BY <1>2, <2>1
<1>6. RelationsOf(all) = C
  <2>1. RelationsOf(all) = UNION {ToSet(to(targets[j])) : j \in 1..Len(targets)}
    <3> HIDE DEF to
    <3>1. \A j \in 1..Len(targets) : all[j] = to(targets[j])
      BY <1>2
    <3> HIDE DEF all
    <3>2. QED
      BY <1>5, <3>1 DEF RelationsOf
  <2>2. \A j \in 1..Len(targets) : ToSet(to(targets[j])) = {FlowBetween(Edges, a, targets[j]) : a \in ToSet(anchors)}
    <3> HIDE DEF to
    <3>1. QED
      BY <1>2, <1>4
  <2>3. ToSet(targets) = {targets[j] : j \in 1..Len(targets)}
    BY <1>2 DEF ToSet
  <2> HIDE DEF to
  <2>4. \A x : x \in RelationsOf(all) <=>
               \E j \in 1..Len(targets) : \E a \in ToSet(anchors) : x = FlowBetween(Edges, a, targets[j])
    BY <2>1, <2>2
  <2>5. \A x : x \in C <=> \E a \in ToSet(anchors) : \E t \in ToSet(targets) : x = FlowBetween(Edges, a, t)
    OBVIOUS
  <2> HIDE DEF C
  <2>6. \A x : x \in RelationsOf(all) <=> x \in C
    BY <2>3, <2>4, <2>5
  <2>7. QED
    BY <2>6
<1>7. FlattenSeq(all) \in Seq(V) /\ ToSet(FlattenSeq(all)) = C
  <2> HIDE DEF all, C
  <2>1. QED
    BY <1>5, <1>6, FlattenFacts
<1>8. Flows = Considered(FlattenSeq(all))
  BY DEF Flows, anchors, targets
<1>9. \A p \in V : Len(p) \in Nat
  BY ElementsOf DEF V
<1>10. Chosen(Considered(FlattenSeq(all)), C, V)
  <2> HIDE DEF all, C
  <2>1. QED
    BY <1>7, <1>9, ConsideredFacts
<1>11. QED
  BY <1>8, <1>10 DEF V, anchors, targets, Candidates

LEMMA CandidateIsRoute ==
  ASSUME AnswerTypeOK, NEW p \in Candidates, MinHops <= Len(p)
  PROVE  /\ p[1].source \in ToSet(Anchors) /\ Last(p).target \in ToSet(Targets)
         /\ p[1].source \in Nodes /\ Last(p).target \in Nodes
         /\ Route(p, p[1].source, Last(p).target, Allowed(p[1].source, Last(p).target))
<1>1. PICK t \in ToSet(Targets) : \E a \in ToSet(Anchors) : p = FlowBetween(Edges, a, t)
  BY DEF Candidates
<1>2. PICK a \in ToSet(Anchors) : p = FlowBetween(Edges, a, t)
  BY <1>1
<1>3. a \in Nodes /\ t \in Nodes /\ Orderable(Edges)
  BY EndsFacts, EdgesFacts, ElementsOf
<1>4. Len(p) \in Nat /\ (Len(p) > 0 => Route(p, a, t, Allowed(a, t)))
  BY <1>2, <1>3, FlowFacts
<1>5. Route(p, a, t, Allowed(a, t))
  BY <1>4 DEF MinHops
<1>6. p[1].source = a /\ Last(p).target = t
  BY <1>5 DEF Route, Last
<1>7. QED
  BY <1>3, <1>5, <1>6

(* SAFETY. Every flow of every answer is a shortest chain of returned and        *)
(* grounded relations from an anchor to a target, uses imports only where no      *)
(* chain of calls leads, and tells more than the flows before it (flow.py,       *)
(* _shortest_path and assemble_flow_paths).                                   *)
LEMMA FlowsAreShortestHolds ==
  ASSUME AnswerTypeOK
  PROVE  FlowsAreShortest
<1> DEFINE flows == Flows
<1> SUFFICES ASSUME NEW i \in DOMAIN flows
             PROVE  LET p == flows[i]
                        a == p[1].source
                        t == Last(p).target
                    IN  /\ a \in ToSet(Anchors) /\ t \in ToSet(Targets)
                        /\ \A k \in 1..(Len(p) - 1) : p[k].target = p[k + 1].source
                        /\ ToSet(p) \subseteq {e \in Edges : e.predicate \in Allowed(a, t)}
                        /\ Len(p) \in MinHops..HopsPerPath /\ Distant(a, t, Len(p))
                        /\ \A j \in 1..(i - 1) : ~ToSet(p) \subseteq ToSet(flows[j])
  BY DEF FlowsAreShortest, AreShortest
<1> DEFINE p == flows[i]
           a == p[1].source
           t == Last(p).target
<1>1. Chosen(flows, Candidates, Seq(Edges))
  BY FlowsChosen
<1> HIDE DEF flows
<1>2. i \in 1..Len(flows)
  BY <1>1, ElementsOf DEF Chosen
<1>3. p \in Candidates /\ MinHops <= Len(p)
  BY <1>1, <1>2 DEF Chosen
<1>4. a \in ToSet(Anchors) /\ t \in ToSet(Targets) /\ Route(p, a, t, Allowed(a, t))
  BY <1>3, CandidateIsRoute
<1>5. \A j \in 1..(i - 1) : ~ToSet(p) \subseteq ToSet(flows[j])
  BY <1>1, <1>2 DEF Chosen
<1> HIDE DEF p, a, t
<1>6. /\ p \in Seq(Usable(Allowed(a, t))) /\ Len(p) \in 1..HopsPerPath
      /\ \A k \in 1..(Len(p) - 1) : p[k].target = p[k + 1].source
      /\ t \in Balls(a, Allowed(a, t))[Len(p)]
      /\ \A k \in 0..HopsPerPath : t \in Balls(a, Allowed(a, t))[k] => Len(p) <= k
  BY <1>4 DEF Route
<1>7. ToSet(p) \subseteq {e \in Edges : e.predicate \in Allowed(a, t)}
  BY <1>6, ElementsOf DEF Usable
<1>8. Len(p) \in MinHops..HopsPerPath
  BY <1>3, <1>6, Budgets DEF MinHops
<1>9. Distant(a, t, Len(p))
  <2>1. Len(p) - 1 \in 0..HopsPerPath /\ ~(Len(p) <= Len(p) - 1)
    BY <1>6, Budgets
  <2>2. t \notin Balls(a, Allowed(a, t))[Len(p) - 1]
    BY <1>6, <2>1
  <2>3. QED
    BY <1>6, <2>2 DEF Distant
<1>10. QED
  BY <1>4, <1>5, <1>6, <1>7, <1>8, <1>9 DEF p, a, t

THEOREM FlowsStayShortest == AnswerSpec => []FlowsAreShortest
  BY ResponsesAreTyped, FlowsAreShortestHolds, PTL

(* A route inside another one is a stretch of it.                             *)
LEMMA RouteInside ==
  ASSUME NEW w, NEW W, NEW f, NEW F, NEW b, NEW u, NEW a, NEW t,
         Route(w, a, t, W), Route(f, b, u, F), ToSet(w) \subseteq ToSet(f)
  PROVE  \E j, k \in 1..Len(f) : j <= k /\ f[j].source = a /\ f[k].target = t
<1> DEFINE n == Len(w)
           m == Len(f)
<1>1. /\ n \in Nat /\ n > 0 /\ m \in Nat
      /\ ToSet(w) = {w[i] : i \in 1..n} /\ ToSet(f) = {f[i] : i \in 1..m}
  <2>1. n \in 1..HopsPerPath /\ m \in 1..HopsPerPath /\ HopsPerPath \in Nat
    BY Budgets DEF Route
  <2>2. DOMAIN w = 1..n /\ DOMAIN f = 1..m
    BY DEF Route
  <2>3. QED
    BY <2>1, <2>2 DEF ToSet
<1>2. /\ w[1].source = a /\ w[n].target = t
      /\ \A q \in 1..(n - 1) : w[q].target = w[q + 1].source
  BY DEF Route
<1>3. /\ f[1].source = b /\ \A q \in 1..(m - 1) : f[q].target = f[q + 1].source
      /\ \A q \in 1..m : f[q].target # b
      /\ \A q, r \in 1..m : f[q].target = f[r].target => q = r
  BY DEF Route
<1>4. \A q \in 1..n : \E j \in 1..m : w[q] = f[j]
  BY <1>1
<1> HIDE DEF n, m
<1>5. 1 \in 1..n /\ n - 1 \in Nat
  BY <1>1
<1>6. PICK j \in 1..m : w[1] = f[j]
  BY <1>4, <1>5
<1> DEFINE T == {q \in 0..(n - 1) : j + q \in 1..m /\ w[q + 1] = f[j + q]}
<1>7. 0 \in T
  BY <1>1, <1>5, <1>6
<1>8. \A q \in 0..(n - 1) : q \in T /\ q < n - 1 => q + 1 \in T
  <2> SUFFICES ASSUME NEW q \in 0..(n - 1), q \in T, q < n - 1 PROVE q + 1 \in T
    OBVIOUS
  <2>1. q + 1 \in 1..(n - 1) /\ (q + 1) + 1 \in 1..n /\ q + 1 \in 0..(n - 1) /\ j + (q + 1) = (j + q) + 1
    BY <1>1
  <2>2. PICK k \in 1..m : w[(q + 1) + 1] = f[k]
    BY <1>4, <2>1
  <2>3. f[j + q].target = f[k].source
    BY <1>2, <2>1, <2>2
  <2>4. k # 1
    BY <1>3, <2>3
  <2>5. k - 1 \in 1..(m - 1) /\ k - 1 \in 1..m /\ (k - 1) + 1 = k
    BY <1>1, <2>4
  <2>6. f[k - 1].target = f[k].source
    BY <1>3, <2>5
  <2>7. j + q = k - 1
    BY <1>3, <2>3, <2>5, <2>6
  <2>8. j + (q + 1) = k
    BY <2>1, <2>5, <2>7
  <2>9. QED
    BY <2>1, <2>2, <2>8
<1>9. \A q \in 0..(n - 1) : q \in T
  <2> HIDE DEF T
  <2>1. QED
    BY ONLY <1>5, <1>7, <1>8, UpTo
<1>10. n - 1 \in T /\ (n - 1) + 1 = n
  <2>1. n - 1 \in 0..(n - 1)
    BY <1>5
  <2> HIDE DEF T
  <2>2. QED
    BY <1>1, <1>9, <2>1
<1>11. j + (n - 1) \in 1..m /\ f[j + (n - 1)] = w[n] /\ j <= j + (n - 1)
  BY <1>1, <1>10
<1>12. QED
  BY <1>2, <1>6, <1>11 DEF m

(* SAFETY. Below the limit of paths, whatever an anchor reaches in two or more    *)
(* steps lies behind it on a flow, for every response (flow.py,                *)
(* assemble_flow_paths leaves out only what a kept path tells already).         *)
LEMMA NoFlowMissedHolds ==
  ASSUME AnswerTypeOK
  PROVE  NoFlowMissed
<1> DEFINE flows == Flows
<1> SUFFICES ASSUME Len(flows) < MaxPaths,
                    NEW a \in ToSet(Anchors), NEW t \in ToSet(Targets) \ {a},
                    NEW k \in MinHops..HopsPerPath, Distant(a, t, k)
             PROVE  \E i \in DOMAIN flows : \E j, n \in DOMAIN flows[i] :
                      j <= n /\ flows[i][j].source = a /\ flows[i][n].target = t
  BY DEF NoFlowMissed, MissNothing
<1> DEFINE w == FlowBetween(Edges, a, t)
           A == Allowed(a, t)
<1>1. Chosen(flows, Candidates, Seq(Edges))
  BY FlowsChosen
<1> HIDE DEF flows
<1>2. a \in Nodes /\ t \in Nodes /\ Orderable(Edges)
  BY EndsFacts, EdgesFacts, ElementsOf
<1>3. w \in Candidates
  BY DEF Candidates
<1>4. /\ Len(w) \in Nat /\ (Len(w) > 0 => Route(w, a, t, A))
      /\ t \in Balls(a, A)[HopsPerPath] => Len(w) > 0
  BY <1>2, FlowFacts
<1>5. t \in Balls(a, A)[k] /\ t \notin Balls(a, A)[k - 1]
  BY DEF Distant
<1> HIDE DEF w, A
<1>6. /\ k \in Nat /\ k >= 2 /\ HopsPerPath \in Nat /\ k \in 0..HopsPerPath
      /\ HopsPerPath \in 0..HopsPerPath /\ k - 1 \in 0..HopsPerPath
  BY Budgets DEF MinHops
<1>7. t \in Balls(a, A)[HopsPerPath]
  <2>1. Balls(a, A)[k] \subseteq Balls(a, A)[HopsPerPath]
    BY <1>2, <1>6, BallsGrow
  <2>2. QED
    BY <1>5, <2>1
<1>8. Route(w, a, t, A)
  BY <1>4, <1>7
<1>9. MinHops <= Len(w)
  <2>1. t \in Balls(a, A)[Len(w)]
    BY <1>8 DEF Route
  <2>2. ASSUME Len(w) <= k - 1 PROVE FALSE
    <3>1. Len(w) \in 0..(k - 1)
      BY <1>4, <1>6, <2>2
    <3>2. Balls(a, A)[Len(w)] \subseteq Balls(a, A)[k - 1]
      BY <1>2, <1>6, <3>1, BallsGrow
    <3>3. QED
      BY <1>5, <2>1, <3>2
  <2>3. QED
    BY <1>4, <1>6, <2>2 DEF MinHops
<1>10. PICK i \in 1..Len(flows) : ToSet(w) \subseteq ToSet(flows[i])
  BY <1>1, <1>3, <1>9 DEF Chosen
<1> DEFINE f == flows[i]
<1>11. f \in Candidates /\ MinHops <= Len(f)
  BY <1>1, <1>10 DEF Chosen
<1>12. Route(f, f[1].source, Last(f).target, Allowed(f[1].source, Last(f).target))
  BY <1>11, CandidateIsRoute
<1>13. \E j, n \in 1..Len(f) : j <= n /\ f[j].source = a /\ f[n].target = t
  <2> HIDE DEF f
  <2>1. QED
    BY <1>8, <1>10, <1>12, RouteInside DEF f
<1>14. DOMAIN flows = 1..Len(flows) /\ DOMAIN f = 1..Len(f)
  <2>1. flows \in Seq(Seq(Edges))
    BY <1>1 DEF Chosen
  <2>2. f \in Seq(Edges)
    BY <1>10, <2>1, ElementOfSeq
  <2> HIDE DEF f
  <2>3. QED
    BY <2>1, <2>2
<1>15. QED
  BY <1>10, <1>13, <1>14

THEOREM FlowsMissNothing == AnswerSpec => []NoFlowMissed
  BY ResponsesAreTyped, NoFlowMissedHolds, PTL

-----------------------------------------------------------------------------
(* Budgets.                                                                 *)

LEMMA PrefixFacts ==
  ASSUME NEW V, NEW s \in Seq(V), NEW n \in 0..Len(s)
  PROVE  /\ SubSeq(s, 1, n) \in Seq(V) /\ Len(SubSeq(s, 1, n)) = n
         /\ ToSet(SubSeq(s, 1, n)) \subseteq ToSet(s)
         /\ n = Len(s) => SubSeq(s, 1, n) = s
<1>1. Len(s) \in Nat /\ n \in Nat /\ n <= Len(s) /\ \A i \in 1..n : i \in 1..Len(s) /\ s[i] \in V
  BY ElementsOf, ElementOfSeq
<1>2. /\ SubSeq(s, 1, n) \in Seq(V) /\ Len(SubSeq(s, 1, n)) = n
      /\ \A i \in 1..n : SubSeq(s, 1, n)[i] = s[i]
  BY <1>1, SubSeqProperties
<1>3. ASSUME NEW x \in ToSet(SubSeq(s, 1, n)) PROVE x \in ToSet(s)
  <2> DEFINE prefix == SubSeq(s, 1, n)
  <2> HIDE DEF prefix
  <2>1. prefix \in Seq(V) /\ Len(prefix) = n /\ \A i \in 1..n : prefix[i] = s[i]
    BY <1>2 DEF prefix
  <2>2. x \in ToSet(prefix)
    BY <1>3 DEF prefix
  <2>3. PICK i \in 1..n : x = prefix[i]
    BY <2>1, <2>2, ElementsOf
  <2>4. i \in 1..Len(s) /\ x = s[i]
    BY <1>1, <2>1, <2>3
  <2>5. QED
    BY <2>4, ElementsOf
<1>4. n = Len(s) => SubSeq(s, 1, n) = s
  BY SubSeqFull
<1>5. QED
  BY <1>2, <1>3, <1>4

Accounts(V) == [kept : Seq(Seq(V)), left : Nat, cut : BOOLEAN]

LEMMA TakeFacts ==
  ASSUME NEW V, NEW acc \in Accounts(V), NEW group \in Seq(V)
  PROVE  /\ Take(acc, group) \in Accounts(V)
         /\ ~Take(acc, group).cut => ~acc.cut /\ ToSet(Take(acc, group).kept) = ToSet(acc.kept) \cup {group}
         /\ RelationsOf(Take(acc, group).kept) \subseteq RelationsOf(acc.kept) \cup ToSet(group)
<1> DEFINE n == Least({Len(group), HopsPerPath, acc.left})
           cutGroup == SubSeq(group, 1, n)
           t == Take(acc, group)
<1>1. acc.kept \in Seq(Seq(V)) /\ acc.left \in Nat /\ acc.cut \in BOOLEAN
  BY DEF Accounts
<1>2. CASE acc.left = 0
  <2>1. t = [acc EXCEPT !.cut = TRUE]
    BY <1>2 DEF Take
  <2>2. t \in Accounts(V) /\ t.cut = TRUE /\ t.kept = acc.kept
    BY <2>1 DEF Accounts
  <2>3. QED
    BY <2>2
<1>3. CASE acc.left # 0
  <2>1. Len(group) \in Nat /\ HopsPerPath \in Nat
    BY ElementsOf, Budgets
  <2>2. n \in Nat /\ n <= Len(group) /\ n <= acc.left
    <3>1. {Len(group), HopsPerPath, acc.left} \in SUBSET Nat
      BY <1>1, <2>1
    <3>2. Len(group) \in {Len(group), HopsPerPath, acc.left} /\ acc.left \in {Len(group), HopsPerPath, acc.left}
      OBVIOUS
    <3>3. QED
      BY <3>1, <3>2, LeastFacts
  <2>3. t = [kept |-> Append(acc.kept, cutGroup), left |-> acc.left - n, cut |-> acc.cut \/ n < Len(group)]
    BY <1>3 DEF Take
  <2> HIDE DEF n, t
  <2>4. /\ cutGroup \in Seq(V) /\ ToSet(cutGroup) \subseteq ToSet(group)
        /\ n = Len(group) => cutGroup = group
    <3>1. n \in 0..Len(group)
      BY <2>1, <2>2
    <3>2. QED
      BY <3>1, PrefixFacts
  <2> HIDE DEF cutGroup
  <2>5. /\ Append(acc.kept, cutGroup) \in Seq(Seq(V))
        /\ ToSet(Append(acc.kept, cutGroup)) = ToSet(acc.kept) \cup {cutGroup}
    BY <1>1, <2>4, ElementsOfAppend
  <2>6. /\ t.kept = Append(acc.kept, cutGroup) /\ t.left = acc.left - n
        /\ t.cut = (acc.cut \/ n < Len(group))
    BY <2>3
  <2>7. t \in Accounts(V)
    <3>1. acc.left - n \in Nat /\ (acc.cut \/ n < Len(group)) \in BOOLEAN
      BY <1>1, <2>1, <2>2
    <3>2. QED
      BY <2>3, <2>5, <3>1 DEF Accounts
  <2>8. ~t.cut => ~acc.cut /\ ToSet(t.kept) = ToSet(acc.kept) \cup {group}
    <3> SUFFICES ASSUME ~t.cut PROVE ~acc.cut /\ ToSet(t.kept) = ToSet(acc.kept) \cup {group}
      OBVIOUS
    <3>1. ~acc.cut /\ ~(n < Len(group))
      BY <2>6, Zenon
    <3>2. n = Len(group)
      BY <2>1, <2>2, <3>1
    <3>3. QED
      BY <2>4, <2>5, <2>6, <3>1, <3>2
  <2>9. RelationsOf(t.kept) \subseteq RelationsOf(acc.kept) \cup ToSet(group)
    <3> SUFFICES ASSUME NEW x \in RelationsOf(t.kept), x \notin ToSet(group)
                 PROVE  x \in RelationsOf(acc.kept)
      OBVIOUS
    <3>1. t.kept \in Seq(Seq(V))
      BY <2>5, <2>6
    <3>2. PICK g \in ToSet(t.kept) : x \in ToSet(g)
      BY <3>1, RelationsOfFacts
    <3>3. g \in ToSet(acc.kept)
      BY <2>4, <2>5, <2>6, <3>2
    <3>4. QED
      BY <1>1, <3>2, <3>3, RelationsOfFacts
  <2>10. QED
    BY <2>7, <2>8, <2>9 DEF t
<1>4. QED
  BY <1>2, <1>3

(* The groups within the limit are taken one after the other.                   *)
LimitedRun(f, within, V, groups, groupLimit, hopLimit) ==
  /\ within \in 0..Len(groups)
  /\ Len(groups) <= groupLimit => within = Len(groups)
  /\ Limited(groups, groupLimit, hopLimit) = f[within]
  /\ f[0] = [kept |-> <<>>, left |-> hopLimit, cut |-> Len(groups) > groupLimit]
  /\ \A k \in 0..within : f[k] \in Accounts(V)
  /\ \A k \in 1..within : f[k] = Take(f[k - 1], groups[k])

LEMMA LimitedRuns ==
  ASSUME NEW V, NEW groups \in Seq(Seq(V)), NEW groupLimit \in Nat, NEW hopLimit \in Nat
  PROVE  \E within, f : LimitedRun(f, within, V, groups, groupLimit, hopLimit)
<1> DEFINE N == Least({groupLimit, Len(groups)})
           S == Accounts(V)
           base == [kept |-> <<>>, left |-> hopLimit, cut |-> Len(groups) > groupLimit]
           Body(f) == [k \in 0..N |->
                         IF k = 0 THEN [kept |-> <<>>, left |-> hopLimit, cut |-> Len(groups) > groupLimit]
                         ELSE Take(f[k - 1], groups[k])]
           step == [k \in 1..N |-> [t \in S |-> Take(t, groups[k])]]
           after == CHOOSE f : f = Body(f)
<1>1. /\ N \in Nat /\ Len(groups) \in Nat /\ N <= Len(groups)
      /\ Len(groups) <= groupLimit => N = Len(groups)
      /\ \A k \in 1..N : groups[k] \in Seq(V)
  <2>1. Len(groups) \in Nat /\ {groupLimit, Len(groups)} \in SUBSET Nat
    BY ElementsOf
  <2>2. N \in {groupLimit, Len(groups)} /\ N <= groupLimit /\ N <= Len(groups)
    BY <2>1, LeastFacts
  <2> HIDE DEF N
  <2>3. QED
    BY <2>1, <2>2, ElementOfSeq
<1>2. base \in S
  <2>1. <<>> \in Seq(Seq(V)) /\ (Len(groups) > groupLimit) \in BOOLEAN
    BY EmptySeq
  <2>2. QED
    BY <2>1 DEF Accounts
<1>3. \A k \in 1..N : \A t \in S : Take(t, groups[k]) \in S
  BY <1>1, TakeFacts
<1> HIDE DEF N, S
<1>4. step \in [1..N -> [S -> S]]
  BY <1>3
<1>5. PICK f : Runs(f, N, S, base, step)
  <2>1. Steps(N, S, base, step)
    BY <1>1, <1>2, <1>4 DEF Steps
  <2>2. QED
    BY ONLY <2>1, Recursion, Zenon
<1>6. \A k \in 0..N : f[k] = Body(f)[k]
  <2>1. ASSUME NEW k \in 1..N PROVE f[k] = Take(f[k - 1], groups[k])
    <3>1. k - 1 \in 0..N
      BY <1>1
    <3>2. f[k - 1] \in S
      BY <1>5, <3>1 DEF Runs
    <3>3. QED
      BY <1>5, <3>2 DEF Runs
  <2>2. \A k \in 0..N : k = 0 \/ k \in 1..N
    BY <1>1
  <2>3. QED
    BY <1>5, <2>1, <2>2 DEF Runs
<1>7. f = Body(f)
  BY <1>5, <1>6 DEF Runs
<1>8. after = Body(after)
  <2> HIDE DEF Body
  <2>1. QED
    BY <1>7
<1>9. Limited(groups, groupLimit, hopLimit) = after[N]
  BY DEF Limited, N
<1> HIDE DEF after
<1>10. after[0] = base
  <2>1. 0 \in 0..N
    BY <1>1
  <2>2. QED
    BY <1>8, <2>1
<1>11. \A k \in 1..N : after[k] = Take(after[k - 1], groups[k])
  <2>1. \A k \in 1..N : k \in 0..N /\ k # 0
    BY <1>1
  <2>2. QED
    BY <1>8, <2>1
<1>12. \A k \in 0..N : after[k] \in S
  <2> DEFINE T == {k \in 0..N : after[k] \in S}
  <2>1. 0 \in T
    BY <1>1, <1>2, <1>10
  <2>2. \A k \in 0..N : k \in T /\ k < N => k + 1 \in T
    <3> SUFFICES ASSUME NEW k \in 0..N, k \in T, k < N PROVE k + 1 \in T
      OBVIOUS
    <3>1. k + 1 \in 1..N /\ k + 1 \in 0..N /\ (k + 1) - 1 = k
      BY <1>1
    <3>2. after[k + 1] = Take(after[k], groups[k + 1])
      BY <1>11, <3>1
    <3>3. QED
      BY <1>3, <3>1, <3>2
  <2>3. \A k \in 0..N : k \in T
    <3> HIDE DEF T
    <3>1. QED
      BY ONLY <1>1, <2>1, <2>2, UpTo
  <2>4. QED
    BY <2>3
<1>13. N \in 0..Len(groups)
  BY <1>1
<1>14. LimitedRun(after, N, V, groups, groupLimit, hopLimit)
  BY <1>1, <1>9, <1>10, <1>11, <1>12, <1>13 DEF S, LimitedRun
<1>15. QED
  BY <1>14

(* What is kept within limits was there; with no cut it is all there was.        *)
LEMMA LimitedFacts ==
  ASSUME NEW V, NEW groups \in Seq(Seq(V)), NEW groupLimit \in Nat, NEW hopLimit \in Nat
  PROVE  LET limited == Limited(groups, groupLimit, hopLimit)
         IN  /\ limited \in Accounts(V)
             /\ RelationsOf(limited.kept) \subseteq RelationsOf(groups)
             /\ ~limited.cut => RelationsOf(limited.kept) = RelationsOf(groups)
<1> DEFINE Had(k) == {groups[i] : i \in 1..k}
<1>a. PICK N, f : LimitedRun(f, N, V, groups, groupLimit, hopLimit)
  BY LimitedRuns
<1>1. /\ N \in 0..Len(groups)
      /\ Len(groups) <= groupLimit => N = Len(groups)
      /\ Limited(groups, groupLimit, hopLimit) = f[N]
      /\ f[0] = [kept |-> <<>>, left |-> hopLimit, cut |-> Len(groups) > groupLimit]
      /\ \A k \in 0..N : f[k] \in Accounts(V)
      /\ \A k \in 1..N : f[k] = Take(f[k - 1], groups[k])
  BY <1>a DEF LimitedRun
<1>2. /\ Len(groups) \in Nat /\ N \in Nat /\ N <= Len(groups) /\ ToSet(groups) = Had(Len(groups))
      /\ \A k \in 1..N : groups[k] \in Seq(V) /\ groups[k] \in ToSet(groups)
  <2>1. Len(groups) \in Nat /\ DOMAIN groups = 1..Len(groups)
    BY ElementsOf
  <2>a. N \in Nat /\ N <= Len(groups)
    <3>1. N \in 0..Len(groups)
      BY <1>1
    <3>2. QED
      BY <2>1, <3>1
  <2>b. ToSet(groups) = Had(Len(groups))
    BY <2>1 DEF ToSet
  <2>2. N \in Nat /\ N <= Len(groups) /\ ToSet(groups) = Had(Len(groups))
    BY <2>a, <2>b
  <2>3. \A k \in 1..N : k \in 1..Len(groups)
    BY <2>1, <2>2
  <2> HIDE DEF Had
  <2>4. QED
    BY <2>1, <2>2, <2>3, ElementOfSeq, ElementsOf
<1> DEFINE Keeps(k) == /\ RelationsOf(f[k].kept) \subseteq RelationsOf(groups)
                       /\ ~f[k].cut => Len(groups) <= groupLimit /\ ToSet(f[k].kept) = Had(k)
           T == {k \in 0..N : Keeps(k)}
<1>3. 0 \in T
  <2>1. f[0].kept = <<>> /\ f[0].cut = (Len(groups) > groupLimit)
    BY <1>1
  <2>2. ToSet(<<>>) = {} /\ RelationsOf(<<>>) = {} /\ Had(0) = {}
    BY EmptySeq DEF ToSet, RelationsOf
  <2>3. ASSUME ~f[0].cut PROVE Len(groups) <= groupLimit
    <3>1. ~(Len(groups) > groupLimit)
      BY <2>1, <2>3, Zenon
    <3>2. QED
      BY <1>2, <3>1
  <2> HIDE DEF Had
  <2>4. Keeps(0)
    BY <2>1, <2>2, <2>3
  <2>5. 0 \in 0..N
    BY <1>2
  <2> HIDE DEF Keeps
  <2>6. QED
    BY <2>4, <2>5
<1>4. \A k \in 0..N : k \in T /\ k < N => k + 1 \in T
  <2> SUFFICES ASSUME NEW k \in 0..N, k \in T, k < N PROVE k + 1 \in T
    OBVIOUS
  <2>1. k + 1 \in 1..N /\ k + 1 \in 0..N /\ (k + 1) - 1 = k /\ 1..(k + 1) = 1..k \cup {k + 1}
    BY <1>2
  <2>2. Had(k + 1) = Had(k) \cup {groups[k + 1]}
    BY <2>1
  <2>3. /\ f[k + 1] = Take(f[k], groups[k + 1]) /\ f[k] \in Accounts(V)
        /\ groups[k + 1] \in Seq(V) /\ groups[k + 1] \in ToSet(groups)
    BY <1>1, <1>2, <2>1
  <2> HIDE DEF Had
  <2>4. /\ ~f[k + 1].cut => ~f[k].cut /\ ToSet(f[k + 1].kept) = ToSet(f[k].kept) \cup {groups[k + 1]}
        /\ RelationsOf(f[k + 1].kept) \subseteq RelationsOf(f[k].kept) \cup ToSet(groups[k + 1])
    <3>1. /\ ~Take(f[k], groups[k + 1]).cut =>
               ~f[k].cut /\ ToSet(Take(f[k], groups[k + 1]).kept) = ToSet(f[k].kept) \cup {groups[k + 1]}
          /\ RelationsOf(Take(f[k], groups[k + 1]).kept) \subseteq
               RelationsOf(f[k].kept) \cup ToSet(groups[k + 1])
      <4> DEFINE acc == f[k]
                 group == groups[k + 1]
      <4>1. acc \in Accounts(V) /\ group \in Seq(V)
        BY <2>3
      <4> HIDE DEF acc, group
      <4>2. /\ ~Take(acc, group).cut => ~acc.cut /\ ToSet(Take(acc, group).kept) = ToSet(acc.kept) \cup {group}
            /\ RelationsOf(Take(acc, group).kept) \subseteq RelationsOf(acc.kept) \cup ToSet(group)
        BY ONLY <4>1, TakeFacts
      <4>3. QED
        BY <4>2 DEF acc, group
    <3>2. QED
      BY <2>3, <3>1, Zenon
  <2>5. Keeps(k)
    OBVIOUS
  <2>6. ToSet(groups[k + 1]) \subseteq RelationsOf(groups)
    BY <2>3, RelationsOfFacts
  <2>7. Keeps(k + 1)
    <3>1. RelationsOf(f[k + 1].kept) \subseteq RelationsOf(groups)
      BY <2>4, <2>5, <2>6
    <3>2. ~f[k + 1].cut => Len(groups) <= groupLimit /\ ToSet(f[k + 1].kept) = Had(k + 1)
      BY <2>2, <2>4, <2>5
    <3>3. QED
      BY <3>1, <3>2
  <2> HIDE DEF Keeps
  <2>8. QED
    BY <2>1, <2>7
<1>5. \A k \in 0..N : k \in T
  <2> HIDE DEF T
  <2>1. QED
    BY ONLY <1>2, <1>3, <1>4, UpTo
<1>6. Keeps(N) /\ f[N] \in Accounts(V)
  <2>1. N \in 0..N
    BY <1>2
  <2> HIDE DEF Keeps
  <2>2. QED
    BY <1>1, <1>5, <2>1
<1>7. ~f[N].cut => RelationsOf(f[N].kept) = RelationsOf(groups)
  <2> SUFFICES ASSUME ~f[N].cut PROVE RelationsOf(f[N].kept) = RelationsOf(groups)
    OBVIOUS
  <2>1. N = Len(groups) /\ ToSet(f[N].kept) = Had(N)
    BY <1>1, <1>6
  <2>2. ToSet(f[N].kept) = ToSet(groups)
    BY <1>2, <2>1
  <2>3. f[N].kept \in Seq(Seq(V))
    BY <1>6 DEF Accounts
  <2> HIDE DEF Keeps
  <2>4. \A x : x \in RelationsOf(f[N].kept) <=> x \in RelationsOf(groups)
    BY <2>2, <2>3, RelationsOfFacts
  <2>5. QED
    BY <2>4
<1>8. QED
  BY <1>1, <1>6, <1>7

-----------------------------------------------------------------------------
(* Answers and views.                                                       *)

LEMMA UncoveredFacts ==
  ASSUME NEW V, NEW groups \in Seq(Seq(V)), NEW flows
  PROVE  /\ Uncovered(groups, flows) \in Seq(Seq(V))
         /\ \A g : g \in ToSet(Uncovered(groups, flows)) <=>
              /\ g \in ToSet(groups)
              /\ \/ Identifiers(g) = {}
                 \/ \A i \in DOMAIN flows : ~(Identifiers(g) \subseteq Identifiers(flows[i]))
<1> DEFINE S == {g \in ToSet(groups) :
                   \/ Identifiers(g) = {}
                   \/ \A i \in DOMAIN flows : ~(Identifiers(g) \subseteq Identifiers(flows[i]))}
<1>1. S = ToSet(groups) \cap S
  OBVIOUS
<1>2. Uncovered(groups, flows) = Among(groups, S)
  BY DEF Uncovered
<1> HIDE DEF S
<1>3. Among(groups, S) \in Seq(Seq(V)) /\ ToSet(Among(groups, S)) = S
  BY <1>1, AmongFacts
<1>4. QED
  BY <1>2, <1>3 DEF S

(* The texts are clipped one after the other.                                 *)
Clippings == [left : Nat, shown : Seq(Nat), cut : BOOLEAN]

LEMMA ClipFacts ==
  ASSUME NEW acc \in Clippings, NEW n \in Nodes
  PROVE  /\ Clip(acc, n) \in Clippings
         /\ Len(Clip(acc, n).shown) = Len(acc.shown) + 1
         /\ \A i \in 1..Len(acc.shown) : Clip(acc, n).shown[i] = acc.shown[i]
         /\ ~Clip(acc, n).cut => ~acc.cut /\ Clip(acc, n).shown[Len(acc.shown) + 1] = TextSize[n]
<1> DEFINE size == Least({TextSize[n], acc.left})
           more == size < TextSize[n]
<1>1. acc.left \in Nat /\ acc.shown \in Seq(Nat) /\ acc.cut \in BOOLEAN /\ TextSize[n] \in Nat
  BY NodeSets DEF Clippings
<1>2. size \in Nat /\ size <= TextSize[n] /\ size <= acc.left
  <2>1. {TextSize[n], acc.left} \in SUBSET Nat
    BY <1>1
  <2>2. size \in {TextSize[n], acc.left} /\ size <= TextSize[n] /\ size <= acc.left
    BY <2>1, LeastFacts
  <2>3. QED
    BY <1>1, <2>2
<1>3. Clip(acc, n) = [left |-> acc.left - size, shown |-> Append(acc.shown, size),
                      cut |-> (acc.cut \/ more)]
  BY DEF Clip
<1> HIDE DEF size
<1>4. /\ Append(acc.shown, size) \in Seq(Nat) /\ Len(Append(acc.shown, size)) = Len(acc.shown) + 1
      /\ Append(acc.shown, size)[Len(acc.shown) + 1] = size
      /\ \A i \in 1..Len(acc.shown) : Append(acc.shown, size)[i] = acc.shown[i]
  BY <1>1, <1>2, ElementsOfAppend
<1>5. ~more => size = TextSize[n]
  BY <1>1, <1>2
<1>6. acc.left - size \in Nat
  BY <1>1, <1>2
<1> HIDE DEF more
<1>7. /\ Clip(acc, n).shown = Append(acc.shown, size) /\ Clip(acc, n).left = acc.left - size
      /\ Clip(acc, n).cut = (acc.cut \/ more)
  BY <1>3
<1>8. Clip(acc, n) \in Clippings
  BY <1>3, <1>4, <1>6 DEF Clippings
<1>9. ~Clip(acc, n).cut => ~acc.cut /\ ~more
  BY <1>7, Zenon
<1>10. QED
  BY <1>4, <1>5, <1>7, <1>8, <1>9

LEMMA TextRuns ==
  ASSUME NEW cards \in Seq(Nodes), cards = chunks \o additional
  PROVE  \E f : /\ Texts = f[Len(cards)]
                /\ \A k \in 0..Len(cards) : f[k] \in Clippings
                /\ f[0] = [left |-> MaxContext, shown |-> <<>>, cut |-> FALSE]
                /\ \A k \in 1..Len(cards) : f[k] = Clip(f[k - 1], cards[k])
<1> DEFINE N == Len(cards)
           base == [left |-> MaxContext, shown |-> <<>>, cut |-> FALSE]
           Body(f) == [k \in 0..N |-> IF k = 0 THEN [left |-> MaxContext, shown |-> <<>>, cut |-> FALSE]
                                     ELSE Clip(f[k - 1], cards[k])]
           step == [k \in 1..N |-> [t \in Clippings |-> Clip(t, cards[k])]]
           after == CHOOSE f : f = Body(f)
<1>1. N \in Nat /\ \A k \in 1..N : cards[k] \in Nodes
  BY ElementOfSeq, ElementsOf
<1>2. base \in Clippings
  BY Budgets DEF Clippings
<1>3. \A k \in 1..N : \A t \in Clippings : Clip(t, cards[k]) \in Clippings
  BY <1>1, ClipFacts
<1>4. step \in [1..N -> [Clippings -> Clippings]]
  BY <1>3
<1>5. Texts = after[N]
  BY DEF Texts
<1> HIDE DEF N
<1>6. PICK f : Runs(f, N, Clippings, base, step)
  <2>1. Steps(N, Clippings, base, step)
    BY <1>1, <1>2, <1>4 DEF Steps
  <2>2. QED
    BY ONLY <2>1, Recursion, Zenon
<1>7. \A k \in 0..N : f[k] = Body(f)[k]
  <2>1. ASSUME NEW k \in 1..N PROVE f[k] = Clip(f[k - 1], cards[k])
    <3>1. k - 1 \in 0..N
      BY <1>1
    <3>2. f[k - 1] \in Clippings
      BY <1>6, <3>1 DEF Runs
    <3>3. QED
      BY <1>6, <3>2 DEF Runs
  <2>2. \A k \in 0..N : k = 0 \/ k \in 1..N
    BY <1>1
  <2>3. QED
    BY <1>6, <2>1, <2>2 DEF Runs
<1>8. f = Body(f)
  BY <1>6, <1>7 DEF Runs
<1>9. after = Body(after)
  <2> HIDE DEF Body
  <2>1. QED
    BY <1>8
<1> HIDE DEF after
<1>10. after[0] = base
  <2>1. 0 \in 0..N
    BY <1>1
  <2>2. QED
    BY <1>9, <2>1
<1>11. \A k \in 1..N : after[k] = Clip(after[k - 1], cards[k])
  <2>1. \A k \in 1..N : k \in 0..N /\ k # 0
    BY <1>1
  <2>2. QED
    BY <1>9, <2>1
<1>12. \A k \in 0..N : after[k] \in Clippings
  <2> DEFINE T == {k \in 0..N : after[k] \in Clippings}
  <2>1. 0 \in T
    BY <1>1, <1>2, <1>10
  <2>2. \A k \in 0..N : k \in T /\ k < N => k + 1 \in T
    <3> SUFFICES ASSUME NEW k \in 0..N, k \in T, k < N PROVE k + 1 \in T
      OBVIOUS
    <3>1. k + 1 \in 1..N /\ k + 1 \in 0..N /\ (k + 1) - 1 = k
      BY <1>1
    <3>2. after[k + 1] = Clip(after[k], cards[k + 1])
      BY <1>11, <3>1
    <3>3. QED
      BY <1>3, <3>1, <3>2
  <2>3. \A k \in 0..N : k \in T
    <3> HIDE DEF T
    <3>1. QED
      BY ONLY <1>1, <2>1, <2>2, UpTo
  <2>4. QED
    BY <2>3
<1>13. QED
  BY <1>5, <1>10, <1>11, <1>12 DEF N

(* Texts that were not cut are whole.                                         *)
LEMMA TextFacts ==
  ASSUME AnswerTypeOK, ~Texts.cut, NEW i \in DOMAIN (chunks \o additional)
  PROVE  Texts.shown[i] = TextSize[(chunks \o additional)[i]]
<1> DEFINE cards == chunks \o additional
           N == Len(cards)
<1>1. cards \in Seq(Nodes)
  BY JoinFacts DEF AnswerTypeOK
<1>2. PICK f : /\ Texts = f[N]
               /\ \A k \in 0..N : f[k] \in Clippings
               /\ f[0] = [left |-> MaxContext, shown |-> <<>>, cut |-> FALSE]
               /\ \A k \in 1..N : f[k] = Clip(f[k - 1], cards[k])
  BY <1>1, TextRuns
<1> HIDE DEF cards
<1>3. N \in Nat /\ DOMAIN cards = 1..N /\ \A k \in 1..N : cards[k] \in Nodes
  BY <1>1, ElementsOf, ElementOfSeq
<1> DEFINE Whole(k) == /\ Len(f[k].shown) = k
                       /\ ~f[k].cut => \A j \in 1..k : f[k].shown[j] = TextSize[cards[j]]
           T == {k \in 0..N : Whole(k)}
<1> HIDE DEF N
<1>4. 0 \in T
  <2>1. f[0].shown = <<>> /\ Len(<<>>) = 0 /\ 0 \in 0..N
    BY <1>2, <1>3
  <2>2. QED
    BY <2>1
<1>5. \A k \in 0..N : k \in T /\ k < N => k + 1 \in T
  <2> SUFFICES ASSUME NEW k \in 0..N, k \in T, k < N PROVE k + 1 \in T
    OBVIOUS
  <2>1. /\ k + 1 \in 1..N /\ k + 1 \in 0..N /\ (k + 1) - 1 = k
        /\ \A j \in 1..(k + 1) : j \in 1..k \/ j = k + 1
    BY <1>3
  <2>2. f[k + 1] = Clip(f[k], cards[k + 1]) /\ f[k] \in Clippings /\ cards[k + 1] \in Nodes
    BY <1>2, <1>3, <2>1
  <2>3. Whole(k)
    OBVIOUS
  <2>4. /\ Len(f[k + 1].shown) = k + 1
        /\ \A j \in 1..k : f[k + 1].shown[j] = f[k].shown[j]
        /\ ~f[k + 1].cut => ~f[k].cut /\ f[k + 1].shown[k + 1] = TextSize[cards[k + 1]]
    BY <2>2, <2>3, ClipFacts
  <2>5. Whole(k + 1)
    BY <2>1, <2>3, <2>4
  <2> HIDE DEF Whole
  <2>6. QED
    BY <2>1, <2>5
<1>6. \A k \in 0..N : k \in T
  <2> HIDE DEF T
  <2>1. QED
    BY ONLY <1>3, <1>4, <1>5, UpTo
<1>7. Whole(N)
  <2>1. N \in 0..N
    BY <1>3
  <2> HIDE DEF Whole
  <2>2. QED
    BY <1>6, <2>1
<1>8. i \in 1..N
  BY <1>3 DEF cards
<1>9. QED
  BY <1>2, <1>7, <1>8 DEF cards

(* Relations of the answer were returned, and their chunks came back; an answer  *)
(* that does not say it is truncated has all those promised, and whole texts.   *)
LEMMA AnswerFacts ==
  ASSUME AnswerTypeOK
  PROVE  /\ Answer.paths \in Seq(Seq(Relations)) /\ Answer.relations \in Seq(Seq(Relations))
         /\ \A r \in RelationsOf(Answer.paths \o Answer.relations) : r \in Returned /\ r.chunk \in Window
         /\ ~Answer.truncated =>
              /\ Promised \subseteq RelationsOf(Answer.paths \o Answer.relations)
              /\ Answer.texts = Texts.shown /\ ~Texts.cut
<1> DEFINE flows == Flows
           fromPaths == GroundedGroups(paths)
           rest == Uncovered(fromPaths, flows)
           told == flows \o rest
           first == Limited(told, MaxPaths, MaxRelations)
           grounded == GroundedGroups(related)
           second == Limited(grounded, Len(grounded), first.left)
           omitted == {g \in ToSet(paths \o related) : ~IsGrounded(g)}
           given == first.kept \o second.kept
<1>1. /\ Answer.paths = first.kept /\ Answer.relations = second.kept /\ Answer.texts = Texts.shown
      /\ Answer.truncated = (first.cut \/ second.cut \/ omitted # {} \/ Texts.cut)
  BY DEF Answer, AnswerOf
<1>2. /\ paths \in Seq(Seq(Relations)) /\ related \in Seq(Seq(Relations))
      /\ paths \o related \in Seq(Seq(Relations)) /\ ToSet(paths \o related) = ToSet(paths) \cup ToSet(related)
  BY JoinFacts DEF AnswerTypeOK
<1>3. \A g \in ToSet(paths) \cup ToSet(related) : g \in Seq(Relations) /\ ToSet(g) \subseteq Returned
  <2>1. \A g \in ToSet(paths) \cup ToSet(related) : g \in Seq(Relations)
    BY <1>2, ElementsOf
  <2>2. \A g \in ToSet(paths) \cup ToSet(related) : ToSet(g) \subseteq Returned
    BY <1>2, RelationsOfFacts DEF Returned
  <2>3. QED
    BY <2>1, <2>2
<1>4. \A g \in ToSet(paths) \cup ToSet(related) : IsGrounded(g) => \A r \in ToSet(g) : r.chunk \in Window
  <2> SUFFICES ASSUME NEW g \in ToSet(paths) \cup ToSet(related), IsGrounded(g), NEW r \in ToSet(g)
               PROVE  r.chunk \in Window
    OBVIOUS
  <2>1. g \in Seq(Relations)
    BY <1>3
  <2>2. PICK i \in 1..Len(g) : r = g[i]
    BY <2>1, ElementsOf
  <2>3. DOMAIN g = 1..Len(g)
    BY <2>1, ElementsOf
  <2>4. QED
    BY <2>2, <2>3 DEF IsGrounded
<1>5. /\ fromPaths \in Seq(Seq(Relations)) /\ ToSet(fromPaths) = {g \in ToSet(paths) : IsGrounded(g)}
      /\ grounded \in Seq(Seq(Relations)) /\ ToSet(grounded) = {g \in ToSet(related) : IsGrounded(g)}
  BY <1>2, GroundedFacts
<1>6. /\ flows \in Seq(Seq(Relations))
      /\ \A g \in ToSet(flows) : \A r \in ToSet(g) : r \in Returned /\ r.chunk \in Window
  <2>1. flows \in Seq(Seq(Edges)) /\ Edges \subseteq Returned /\ Returned \subseteq Relations
    BY FlowsChosen, EdgesFacts DEF Chosen
  <2>2. Seq(Edges) \subseteq Seq(Relations)
    BY <2>1, WiderSeq
  <2>3. flows \in Seq(Seq(Relations))
    BY <2>1, <2>2, WiderSeq
  <2>4. \A g \in ToSet(flows) : ToSet(g) \subseteq Edges
    BY <2>1, ElementsOf
  <2>5. \A r \in Edges : r.chunk \in Window
    <3> SUFFICES ASSUME NEW r \in Edges PROVE r.chunk \in Window
      OBVIOUS
    <3> DEFINE groups == GroundedGroups(paths \o related)
    <3>1. /\ groups \in Seq(Seq(Relations))
          /\ ToSet(groups) = {g \in ToSet(paths) \cup ToSet(related) : IsGrounded(g)}
      BY <1>2, GroundedFacts
    <3>2. r \in RelationsOf(groups)
      BY EdgesFacts DEF Edges
    <3> HIDE DEF groups
    <3>3. PICK g \in ToSet(groups) : r \in ToSet(g)
      BY <3>1, <3>2, RelationsOfFacts
    <3>4. QED
      BY <1>4, <3>1, <3>3
  <2> HIDE DEF flows
  <2>6. QED
    BY <2>1, <2>3, <2>4, <2>5
<1> HIDE DEF flows, fromPaths, grounded
<1>7. /\ rest \in Seq(Seq(Relations))
      /\ \A g : g \in ToSet(rest) <=>
           /\ g \in ToSet(fromPaths)
           /\ \/ Identifiers(g) = {}
              \/ \A i \in DOMAIN flows : ~(Identifiers(g) \subseteq Identifiers(flows[i]))
  <2>1. fromPaths \in Seq(Seq(Relations))
    BY <1>5
  <2>2. QED
    BY <2>1, UncoveredFacts
<1> HIDE DEF rest
<1>8. told \in Seq(Seq(Relations)) /\ ToSet(told) = ToSet(flows) \cup ToSet(rest)
  BY <1>6, <1>7, JoinFacts
<1> HIDE DEF told
<1>9. /\ first \in Accounts(Relations) /\ RelationsOf(first.kept) \subseteq RelationsOf(told)
      /\ ~first.cut => RelationsOf(first.kept) = RelationsOf(told)
  BY <1>8, Budgets, LimitedFacts
<1>10. first.kept \in Seq(Seq(Relations)) /\ first.left \in Nat
  BY <1>9 DEF Accounts
<1> HIDE DEF first
<1>11. /\ second \in Accounts(Relations) /\ RelationsOf(second.kept) \subseteq RelationsOf(grounded)
       /\ ~second.cut => RelationsOf(second.kept) = RelationsOf(grounded)
  <2>1. Len(grounded) \in Nat
    BY <1>5, ElementsOf
  <2>2. QED
    BY <1>5, <1>10, <2>1, LimitedFacts
<1>12. second.kept \in Seq(Seq(Relations))
  BY <1>11 DEF Accounts
<1> HIDE DEF second
<1>13. \A r : r \in RelationsOf(given) <=> r \in RelationsOf(first.kept) \/ r \in RelationsOf(second.kept)
  <2>1. given \in Seq(Seq(Relations)) /\ ToSet(given) = ToSet(first.kept) \cup ToSet(second.kept)
    BY <1>10, <1>12, JoinFacts
  <2> HIDE DEF given
  <2>2. QED
    BY <1>10, <1>12, <2>1, RelationsOfFacts
<1>14. \A r : r \in RelationsOf(told) <=> \E g \in ToSet(flows) \cup ToSet(rest) : r \in ToSet(g)
  BY <1>8, RelationsOfFacts
<1>15. \A r : r \in RelationsOf(grounded) <=> \E g \in ToSet(grounded) : r \in ToSet(g)
  BY <1>5, RelationsOfFacts
<1>16. ASSUME NEW r \in RelationsOf(given) PROVE r \in Returned /\ r.chunk \in Window
  <2>1. r \in RelationsOf(told) \/ r \in RelationsOf(grounded)
    BY <1>9, <1>11, <1>13
  <2>2. CASE r \in RelationsOf(told)
    <3>1. PICK g \in ToSet(flows) \cup ToSet(rest) : r \in ToSet(g)
      BY <1>14, <2>2
    <3>2. CASE g \in ToSet(flows)
      BY <1>6, <3>1, <3>2
    <3>3. CASE g \in ToSet(rest)
      <4>1. g \in ToSet(paths) /\ IsGrounded(g)
        BY <1>5, <1>7, <3>3
      <4>2. QED
        BY <1>3, <1>4, <3>1, <4>1
    <3>4. QED
      BY <3>1, <3>2, <3>3
  <2>3. CASE r \in RelationsOf(grounded)
    <3>1. PICK g \in ToSet(grounded) : r \in ToSet(g)
      BY <1>15, <2>3
    <3>2. g \in ToSet(related) /\ IsGrounded(g)
      BY <1>5, <3>1
    <3>3. QED
      BY <1>3, <1>4, <3>1, <3>2
  <2>4. QED
    BY <2>1, <2>2, <2>3
<1>17. ~Answer.truncated => ~first.cut /\ ~second.cut /\ omitted = {} /\ ~Texts.cut
  BY <1>1, Zenon
<1>18. ASSUME ~Answer.truncated, NEW g \in ToSet(related), NEW r \in ToSet(g)
       PROVE  r \in RelationsOf(given)
  BY <1>2, <1>5, <1>11, <1>13, <1>15, <1>17, <1>18
<1>19. ASSUME ~Answer.truncated, NEW g \in ToSet(paths), NEW r \in ToSet(g),
              r.id # NoId \/ Identifiers(g) = {}
       PROVE  r \in RelationsOf(given)
  <2>1. ~first.cut /\ g \in ToSet(fromPaths)
    BY <1>2, <1>5, <1>17, <1>19
  <2>2. r \in RelationsOf(told)
    <3>1. CASE g \in ToSet(rest)
      BY <1>14, <3>1
    <3>2. CASE g \notin ToSet(rest)
      <4>1. PICK i \in DOMAIN flows : Identifiers(g) \subseteq Identifiers(flows[i])
        BY <1>7, <2>1, <3>2
      <4>2. Identifiers(g) # {} /\ r.id # NoId
        BY <1>7, <1>19, <2>1, <3>2
      <4>3. r.id \in Identifiers(g)
        BY <4>2 DEF Identifiers, ToSet
      <4>4. PICK k \in DOMAIN flows[i] : flows[i][k].id = r.id
        BY <4>1, <4>3 DEF Identifiers
      <4>5. flows[i] \in ToSet(flows) /\ flows[i] \in Seq(Relations)
        BY <1>6, ElementsOf DEF ToSet
      <4>6. flows[i][k] \in ToSet(flows[i]) /\ flows[i][k] \in Relations
        BY <4>5, ElementsOf DEF ToSet
      <4>7. r \in Relations
        BY <1>3, ElementsOf
      <4>8. flows[i][k] = r
        BY <4>2, <4>4, <4>6, <4>7, RelationSet
      <4>9. QED
        BY <1>14, <4>5, <4>6, <4>8
    <3>3. QED
      BY <3>1, <3>2
  <2>3. QED
    BY <1>9, <1>13, <2>1, <2>2
<1>20. ASSUME ~Answer.truncated, NEW r \in Promised PROVE r \in RelationsOf(given)
  <2>1. CASE r \in RelationsOf(related)
    <3>1. PICK g \in ToSet(related) : r \in ToSet(g)
      BY <1>2, <2>1, RelationsOfFacts
    <3>2. QED
      BY <1>18, <1>20, <3>1
  <2>2. CASE r.id # NoId
    <3>1. r \in Returned
      BY DEF Promised
    <3>2. PICK g \in ToSet(paths) \cup ToSet(related) : r \in ToSet(g)
      BY <1>2, <3>1, RelationsOfFacts DEF Returned
    <3>3. QED
      BY <1>18, <1>19, <1>20, <2>2, <3>2
  <2>3. CASE \E i \in DOMAIN paths : r \in ToSet(paths[i]) /\ Identifiers(paths[i]) = {}
    <3>1. PICK i \in DOMAIN paths : r \in ToSet(paths[i]) /\ Identifiers(paths[i]) = {}
      BY <2>3
    <3>2. paths[i] \in ToSet(paths)
      BY DEF ToSet
    <3>3. QED
      BY <1>19, <1>20, <3>1, <3>2
  <2>4. QED
    BY <2>1, <2>2, <2>3 DEF Promised
<1>21. QED
  BY <1>1, <1>10, <1>12, <1>16, <1>17, <1>20

(* A graph whose edges lead between its nodes.                                *)
Framed(graph, V, E) ==
  /\ graph.nodes \in Seq(V) /\ graph.edges \in Seq(E)
  /\ \A e \in ToSet(graph.edges) : {e.source, e.target} \subseteq ToSet(graph.nodes)

LEMMA ViewFacts ==
  ASSUME NEW V, NEW E, NEW graph, Framed(graph, V, E), NEW answer, ~View(graph, answer).truncated
  PROVE  ToSet(View(graph, answer).edges) = ToSet(graph.edges) /\ ~answer.truncated
<1> DEFINE n == Least({MaxNodes, Len(graph.nodes)})
           nodes == SubSeq(graph.nodes, 1, n)
           inside == {e \in ToSet(graph.edges) : {e.source, e.target} \subseteq ToSet(nodes)}
           eligible == Among(graph.edges, inside)
           m == Least({MaxEdges, Len(eligible)})
           edges == SubSeq(eligible, 1, m)
<1>1. View(graph, answer) = [nodes |-> nodes, edges |-> edges,
                              truncated |-> \/ Len(nodes) < Len(graph.nodes)
                                            \/ Len(edges) < Len(eligible)
                                            \/ answer.truncated]
  BY DEF View
<1>2. graph.nodes \in Seq(V) /\ graph.edges \in Seq(E)
  BY DEF Framed
<1>3. eligible \in Seq(E) /\ ToSet(eligible) = ToSet(graph.edges) \cap inside
  <2> HIDE DEF inside
  <2>1. QED
    BY <1>2, AmongFacts
<1> HIDE DEF eligible
<1>4. \A M \in Nat, s \in Seq(V) \cup Seq(E) :
        /\ Least({M, Len(s)}) \in 0..Len(s)
        /\ Len(s) \in Nat
  <2> SUFFICES ASSUME NEW M \in Nat, NEW s \in Seq(V) \cup Seq(E)
               PROVE  Least({M, Len(s)}) \in 0..Len(s) /\ Len(s) \in Nat
    OBVIOUS
  <2>1. Len(s) \in Nat
    BY ElementsOf
  <2>2. Least({M, Len(s)}) \in {M, Len(s)} /\ Least({M, Len(s)}) <= Len(s)
    <3>1. {M, Len(s)} \in SUBSET Nat /\ Len(s) \in {M, Len(s)}
      BY <2>1
    <3>2. QED
      BY <3>1, LeastFacts
  <2>3. QED
    BY <2>1, <2>2
<1>5. /\ n \in 0..Len(graph.nodes) /\ Len(graph.nodes) \in Nat
      /\ m \in 0..Len(eligible) /\ Len(eligible) \in Nat
  BY <1>2, <1>3, <1>4, Budgets
<1> HIDE DEF n, m
<1>6. /\ Len(nodes) = n /\ (n = Len(graph.nodes) => nodes = graph.nodes)
      /\ Len(edges) = m /\ (m = Len(eligible) => edges = eligible)
  BY <1>2, <1>3, <1>5, PrefixFacts
<1>7. ~(Len(nodes) < Len(graph.nodes)) /\ ~(Len(edges) < Len(eligible)) /\ ~answer.truncated
      /\ View(graph, answer).edges = edges
  <2> DEFINE a == Len(nodes) < Len(graph.nodes)
             b == Len(edges) < Len(eligible)
             c == answer.truncated
  <2> HIDE DEF nodes, edges, a, b, c
  <2>1. View(graph, answer) = [nodes |-> nodes, edges |-> edges, truncated |-> (a \/ b \/ c)]
    BY <1>1 DEF a, b, c
  <2>2. View(graph, answer).truncated = (a \/ b \/ c) /\ View(graph, answer).edges = edges
    BY <2>1
  <2>3. ~a /\ ~b /\ ~c
    BY <2>2, Zenon
  <2>4. QED
    BY <2>2, <2>3 DEF a, b, c
<1>8. nodes = graph.nodes /\ edges = eligible
  <2> HIDE DEF nodes, edges
  <2>1. QED
    BY <1>5, <1>6, <1>7
<1>9. ToSet(eligible) = ToSet(graph.edges)
  <2>1. \A e \in ToSet(graph.edges) : e \in inside
    <3> HIDE DEF nodes
    <3>1. QED
      BY <1>8 DEF Framed
  <2> HIDE DEF inside
  <2>2. QED
    BY <1>3, <2>1
<1>10. QED
  BY <1>7, <1>8, <1>9

LEMMA SymbolGraphFacts ==
  ASSUME AnswerTypeOK
  PROVE  LET graph == SymbolGraph(Answer)
         IN  /\ Framed(graph, Nodes, EdgesOf(Relations))
             /\ ToSet(graph.edges) \subseteq EdgesOf(Drawn)
             /\ ~Answer.truncated => EdgesOf(Drawn \cap Promised) \subseteq ToSet(graph.edges)
<1> DEFINE told == Hops(Answer)
           S == {hop \in ToSet(told) : HasCards(hop)}
           hops == Among(told, S)
           ends == [i \in DOMAIN hops |-> <<hops[i].source, hops[i].target>>]
           edges == [i \in DOMAIN hops |-> EdgeOf(hops[i])]
           graph == SymbolGraph(Answer)
           X == RelationsOf(Answer.paths \o Answer.relations)
<1>1. /\ Answer.paths \o Answer.relations \in Seq(Seq(Relations))
      /\ \A r \in X : r \in Returned /\ r.chunk \in Window
      /\ ~Answer.truncated => Promised \subseteq X
  <2>1. Answer.paths \in Seq(Seq(Relations)) /\ Answer.relations \in Seq(Seq(Relations))
    BY AnswerFacts
  <2>2. Answer.paths \o Answer.relations \in Seq(Seq(Relations))
    BY <2>1, JoinFacts
  <2>3. QED
    BY <2>2, AnswerFacts
<1>2. told \in Seq(Relations) /\ ToSet(told) = X
  BY <1>1, FlattenFacts DEF Hops
<1>3. graph = [nodes |-> Distinct(FlattenSeq(ends)), edges |-> Distinct(edges)]
  BY DEF SymbolGraph
<1> HIDE DEF told, graph, X
<1>4. hops \in Seq(Relations) /\ ToSet(hops) = S
  <2>1. S = ToSet(told) \cap S
    OBVIOUS
  <2> HIDE DEF S
  <2>2. QED
    BY <1>2, <2>1, AmongFacts
<1> HIDE DEF hops
<1>5. Distinct(edges) \in Seq(EdgesOf(Relations)) /\ ToSet(Distinct(edges)) = EdgesOf(S)
  <2>1. /\ Len(hops) \in Nat /\ DOMAIN hops = 1..Len(hops)
        /\ \A i \in 1..Len(hops) : hops[i] \in Relations
    BY <1>4, ElementsOf, ElementOfSeq
  <2>2. edges \in [1..Len(hops) -> EdgesOf(Relations)]
    BY <2>1 DEF EdgesOf
  <2>3. DOMAIN edges = DOMAIN hops /\ \A i \in DOMAIN hops : edges[i] = EdgeOf(hops[i])
    OBVIOUS
  <2> HIDE DEF edges, S
  <2>4. ToSet(edges) = {EdgeOf(r) : r \in ToSet(hops)}
    BY <2>3 DEF ToSet
  <2>5. ToSet(edges) = EdgesOf(S)
    BY <1>4, <2>4 DEF EdgesOf
  <2>6. edges \in Seq(EdgesOf(Relations))
    BY <2>1, <2>2
  <2>7. QED
    BY <2>5, <2>6, DistinctFacts
<1> HIDE DEF edges
<1>6. /\ Len(hops) \in Nat /\ DOMAIN hops = 1..Len(hops)
      /\ \A i \in 1..Len(hops) : hops[i].source \in Nodes /\ hops[i].target \in Nodes
  <2>1. Len(hops) \in Nat /\ DOMAIN hops = 1..Len(hops) /\ \A i \in 1..Len(hops) : hops[i] \in Relations
    BY <1>4, ElementsOf, ElementOfSeq
  <2>2. QED
    BY <2>1, RelationSet
<1>7. ends \in Seq(Seq(Nodes)) /\ DOMAIN ends = 1..Len(hops)
  <2>1. \A i \in 1..Len(hops) : <<hops[i].source, hops[i].target>> \in Seq(Nodes)
    BY <1>6
  <2>2. ends \in [1..Len(hops) -> Seq(Nodes)]
    BY <1>6, <2>1
  <2> HIDE DEF ends
  <2>3. QED
    BY <1>6, <2>2
<1>8. /\ FlattenSeq(ends) \in Seq(Nodes) /\ ToSet(FlattenSeq(ends)) = RelationsOf(ends)
  <2> HIDE DEF ends
  <2>1. QED
    BY <1>7, FlattenFacts
<1>9. Distinct(FlattenSeq(ends)) \in Seq(Nodes) /\ ToSet(Distinct(FlattenSeq(ends))) = RelationsOf(ends)
  <2> HIDE DEF ends
  <2>1. QED
    BY <1>8, DistinctFacts
<1>10. \A e \in S : {e.source, e.target} \subseteq RelationsOf(ends)
  <2> SUFFICES ASSUME NEW e \in S PROVE e.source \in RelationsOf(ends) /\ e.target \in RelationsOf(ends)
    OBVIOUS
  <2>1. PICK i \in 1..Len(hops) : e = hops[i]
    <3> HIDE DEF S
    <3>1. QED
      BY <1>4, ElementsOf
  <2>2. ends[i] = <<e.source, e.target>> /\ i \in DOMAIN ends
    BY <1>6, <1>7, <2>1
  <2>3. e.source \in ToSet(<<e.source, e.target>>) /\ e.target \in ToSet(<<e.source, e.target>>)
    <3> DEFINE s == e.source
               t == e.target
    <3> HIDE DEF s, t
    <3>1. DOMAIN <<s, t>> = 1..2 /\ <<s, t>>[1] = s /\ <<s, t>>[2] = t /\ 1 \in 1..2 /\ 2 \in 1..2
      OBVIOUS
    <3>2. s \in ToSet(<<s, t>>) /\ t \in ToSet(<<s, t>>)
      BY <3>1 DEF ToSet
    <3>3. QED
      BY <3>2 DEF s, t
  <2> HIDE DEF ends
  <2>4. QED
    BY <2>2, <2>3 DEF RelationsOf
<1>11. /\ graph.nodes \in Seq(Nodes) /\ graph.edges \in Seq(EdgesOf(Relations))
       /\ ToSet(graph.nodes) = RelationsOf(ends) /\ ToSet(graph.edges) = EdgesOf(S)
  <2> HIDE DEF ends, S
  <2>1. QED
    BY <1>3, <1>5, <1>9
<1>12. Framed(graph, Nodes, EdgesOf(Relations))
  <2> HIDE DEF ends, S
  <2>1. \A e \in S : EdgeOf(e).source = e.source /\ EdgeOf(e).target = e.target
    BY DEF EdgeOf
  <2>2. \A e \in EdgesOf(S) : {e.source, e.target} \subseteq RelationsOf(ends)
    BY <1>10, <2>1 DEF EdgesOf
  <2>3. QED
    BY <1>11, <2>2 DEF Framed
<1>13. S = {r \in X : HasCards(r)}
  BY <1>2
<1> HIDE DEF S
<1>14. S \subseteq Drawn
  BY <1>1, <1>13 DEF Drawn, HasCards, Window
<1>15. ~Answer.truncated => Drawn \cap Promised \subseteq S
  BY <1>1, <1>13 DEF Drawn, HasCards, Window
<1>16. QED
  BY <1>11, <1>12, <1>14, <1>15 DEF graph, EdgesOf

LEMMA AggregatedFacts ==
  ASSUME NEW graph, Framed(graph, Nodes, EdgesOf(Relations))
  PROVE  LET wide == Aggregated(graph)
             crossing == {e \in ToSet(graph.edges) : Crosses(e)}
         IN  /\ Framed(wide, {Module[n] : n \in Nodes}, {HopKey(e) : e \in EdgesOf(Relations)})
             /\ ToSet(wide.edges) = {HopKey(e) : e \in crossing}
<1> DEFINE V == {Module[n] : n \in Nodes}
           K == {HopKey(e) : e \in EdgesOf(Relations)}
           S == {e \in ToSet(graph.edges) : Crosses(e)}
           crossing == Among(graph.edges, S)
           modules == [i \in DOMAIN graph.nodes |-> Module[graph.nodes[i]]]
           keys == [i \in DOMAIN crossing |-> HopKey(crossing[i])]
           wide == Aggregated(graph)
<1>1. /\ graph.nodes \in Seq(Nodes) /\ graph.edges \in Seq(EdgesOf(Relations))
      /\ \A e \in ToSet(graph.edges) : e.source \in ToSet(graph.nodes) /\ e.target \in ToSet(graph.nodes)
  BY DEF Framed
<1>2. wide = [nodes |-> Distinct(modules), edges |-> Distinct(keys)]
  BY DEF Aggregated
<1> HIDE DEF wide
<1>3. crossing \in Seq(EdgesOf(Relations)) /\ ToSet(crossing) = S
  <2>1. S = ToSet(graph.edges) \cap S
    OBVIOUS
  <2> HIDE DEF S
  <2>2. QED
    BY <1>1, <2>1, AmongFacts
<1> HIDE DEF crossing
<1>4. modules \in Seq(V) /\ ToSet(modules) = {Module[n] : n \in ToSet(graph.nodes)}
  <2>1. /\ Len(graph.nodes) \in Nat /\ DOMAIN graph.nodes = 1..Len(graph.nodes)
        /\ \A i \in 1..Len(graph.nodes) : graph.nodes[i] \in Nodes
    BY <1>1, ElementsOf, ElementOfSeq
  <2>2. modules \in [1..Len(graph.nodes) -> V]
    BY <2>1
  <2>3. DOMAIN modules = DOMAIN graph.nodes
    OBVIOUS
  <2>4. ToSet(modules) = {Module[n] : n \in ToSet(graph.nodes)}
    BY <2>3 DEF ToSet
  <2> HIDE DEF modules, V
  <2>5. QED
    BY <2>1, <2>2, <2>4
<1>5. keys \in Seq(K) /\ ToSet(keys) = {HopKey(e) : e \in ToSet(crossing)}
  <2>1. /\ Len(crossing) \in Nat /\ DOMAIN crossing = 1..Len(crossing)
        /\ \A i \in 1..Len(crossing) : crossing[i] \in EdgesOf(Relations)
    BY <1>3, ElementsOf, ElementOfSeq
  <2>2. keys \in [1..Len(crossing) -> K]
    BY <2>1
  <2>3. DOMAIN keys = DOMAIN crossing
    OBVIOUS
  <2>4. ToSet(keys) = {HopKey(e) : e \in ToSet(crossing)}
    BY <2>3 DEF ToSet
  <2> HIDE DEF keys, K
  <2>5. QED
    BY <2>1, <2>2, <2>4
<1> HIDE DEF modules, keys, V, K
<1>6. /\ Distinct(modules) \in Seq(V) /\ ToSet(Distinct(modules)) = ToSet(modules)
      /\ Distinct(keys) \in Seq(K) /\ ToSet(Distinct(keys)) = ToSet(keys)
  BY <1>4, <1>5, DistinctFacts
<1>7. /\ wide.nodes \in Seq(V) /\ wide.edges \in Seq(K)
      /\ ToSet(wide.nodes) = {Module[n] : n \in ToSet(graph.nodes)}
      /\ ToSet(wide.edges) = {HopKey(e) : e \in S}
  BY <1>2, <1>3, <1>4, <1>5, <1>6
<1>8. \A k \in ToSet(wide.edges) : {k.source, k.target} \subseteq ToSet(wide.nodes)
  <2> SUFFICES ASSUME NEW e \in S
               PROVE  HopKey(e).source \in ToSet(wide.nodes) /\ HopKey(e).target \in ToSet(wide.nodes)
    BY <1>7
  <2>1. e.source \in ToSet(graph.nodes) /\ e.target \in ToSet(graph.nodes)
    BY <1>1
  <2>2. HopKey(e).source = Module[e.source] /\ HopKey(e).target = Module[e.target]
    BY DEF HopKey
  <2>3. QED
    BY <1>7, <2>1, <2>2
<1>9. QED
  BY <1>7, <1>8 DEF Framed, wide, V, K

(* SAFETY. For every response, and for every budget, an answer that does not say   *)
(* it was truncated has every text whole and every returned relation but those    *)
(* without an identifier that came only beside identified ones; so has a view,    *)
(* which draws nothing else, and an aggregated view counts every exact one        *)
(* between two groups (query.py, _normalize_groups, _without_covered_groups and   *)
(* _budget_context; views.py, _symbol_graph and _aggregate).                    *)
LEMMA NothingLostSilentlyHolds ==
  ASSUME AnswerTypeOK
  PROVE  NothingLostSilently
<1> DEFINE answer == Answer
           graph == SymbolGraph(answer)
           wide == Aggregated(graph)
           view == View(graph, answer)
           aggregated == View(wide, answer)
           crossing == {e \in ToSet(graph.edges) : Crosses(e)}
<1>1. /\ Framed(graph, Nodes, EdgesOf(Relations))
      /\ ToSet(graph.edges) \subseteq EdgesOf(Drawn)
      /\ ~answer.truncated => EdgesOf(Drawn \cap Promised) \subseteq ToSet(graph.edges)
  BY SymbolGraphFacts
<1>2. ASSUME ~answer.truncated
      PROVE  /\ Promised \subseteq RelationsOf(answer.paths \o answer.relations)
             /\ \A i \in DOMAIN (chunks \o additional) :
                  answer.texts[i] = TextSize[(chunks \o additional)[i]]
  BY <1>2, AnswerFacts, TextFacts
<1> HIDE DEF graph, answer
<1>3. /\ Framed(wide, {Module[n] : n \in Nodes}, {HopKey(e) : e \in EdgesOf(Relations)})
      /\ ToSet(wide.edges) = {HopKey(e) : e \in crossing}
  BY <1>1, AggregatedFacts
<1> HIDE DEF wide
<1>4. ~view.truncated => ~answer.truncated /\ ToSet(view.edges) = ToSet(graph.edges)
  BY <1>1, ViewFacts
<1>5. ~aggregated.truncated =>
        ~answer.truncated /\ ToSet(aggregated.edges) = {HopKey(e) : e \in crossing}
  BY <1>3, ViewFacts
<1>6. \A r : /\ Crosses(EdgeOf(r)) <=> (r.exact /\ Module[r.source] # Module[r.target])
             /\ HopKey(EdgeOf(r)) = HopKey(r)
  BY DEF EdgeOf, Crosses, HopKey
<1>7. crossing \subseteq EdgesOf(Crossing)
  BY <1>1, <1>6 DEF EdgesOf, Crossing
<1>8. ~answer.truncated => EdgesOf(Crossing \cap Promised) \subseteq crossing
  BY <1>1, <1>6 DEF EdgesOf, Crossing
<1> HIDE DEF view, aggregated
<1>9. ASSUME ~aggregated.truncated
      PROVE  /\ KeysOf(Crossing \cap Promised) \subseteq ToSet(aggregated.edges)
             /\ ToSet(aggregated.edges) \subseteq KeysOf(Crossing)
             /\ UNION {Contributing(graph, key) : key \in ToSet(aggregated.edges)} = crossing
  <2>1. ~answer.truncated /\ ToSet(aggregated.edges) = {HopKey(e) : e \in crossing}
    BY <1>5, <1>9
  <2>2. ASSUME NEW key \in ToSet(aggregated.edges) PROVE key \in KeysOf(Crossing)
    <3>1. PICK e \in crossing : key = HopKey(e)
      BY <2>1
    <3> HIDE DEF crossing
    <3>2. PICK r \in Crossing : e = EdgeOf(r)
      BY <1>7 DEF EdgesOf
    <3>3. QED
      BY <1>6, <3>1, <3>2 DEF KeysOf
  <2>3. ASSUME NEW r \in Crossing \cap Promised PROVE HopKey(r) \in ToSet(aggregated.edges)
    <3>1. EdgeOf(r) \in crossing
      BY <1>8, <2>1 DEF EdgesOf
    <3> HIDE DEF crossing
    <3>2. QED
      BY <1>6, <2>1, <3>1
  <2>4. \A key : Contributing(graph, key) = {e \in crossing : HopKey(e) = key}
    BY DEF Contributing
  <2> HIDE DEF crossing
  <2>5. QED
    BY <2>1, <2>2, <2>3, <2>4 DEF KeysOf
<1>10. LosesNothing(answer, graph)
  <2> HIDE DEF crossing
  <2>1. ~view.truncated =>
          Between(EdgesOf(Drawn \cap Promised), ToSet(view.edges), EdgesOf(Drawn))
    BY <1>1, <1>4 DEF Between
  <2>2. ~aggregated.truncated =>
          /\ Between(KeysOf(Crossing \cap Promised), ToSet(aggregated.edges), KeysOf(Crossing))
          /\ Between(EdgesOf(Crossing \cap Promised),
                     UNION {Contributing(graph, key) : key \in ToSet(aggregated.edges)},
                     EdgesOf(Crossing))
    BY <1>5, <1>7, <1>8, <1>9 DEF Between
  <2>3. QED
    BY <1>2, <2>1, <2>2 DEF LosesNothing, view, aggregated, wide
<1>11. QED
  BY <1>10 DEF NothingLostSilently, LosesNothingOf, answer, graph

THEOREM NothingIsLostSilently == AnswerSpec => []NothingLostSilently
  BY ResponsesAreTyped, NothingLostSilentlyHolds, PTL
=============================================================================
