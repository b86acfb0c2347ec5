-------------------------- MODULE RepositoryQuery --------------------------
(***************************************************************************)
(* One question to the repository (query.py, relations.py): which revision    *)
(* is asked for, the queries that fill the window of chunks, the reads of      *)
(* stored relations with their cache, the rounds that complete the window,     *)
(* and the answer - while a synchronisation replaces sources one by one.      *)
(*                                                                         *)
(* A chunk is named by its source and the revision it was uploaded for; a new  *)
(* upload makes a new chunk.  A source's relations cite its own chunk.         *)
(* Rankings, texts and budgets are left out.                                 *)
(***************************************************************************)
EXTENDS Naturals, Sequences, FiniteSets, Functions

CONSTANTS Queries,
          Sources, Tests,     \* sources, and those whose cards have is_test set
          Revisions, NoRevision,
          CacheLimit,         \* RelationCache limit
          RelationSources,    \* relation_sources: sources whose relations are read
          CompletionSources,  \* completion_sources: names looked for in a round
          CompletionRounds,   \* COMPLETION_ROUNDS
          MaxQuestions,       \* questions asked (bound)
          MaxSyncs,           \* synchronisations (bound)
          MaxFaults           \* failed or unfiltered HydraDB answers (bound)

ASSUME QueryBounds ==
  /\ {RelationSources, CompletionSources, CompletionRounds} \subseteq Nat
  /\ {MaxQuestions, MaxSyncs, MaxFaults} \subseteq Nat
  /\ CacheLimit \in Nat \ {0}
ASSUME QuerySets == Tests \subseteq Sources /\ NoRevision \notin Revisions
                    /\ IsFiniteSet(Sources) /\ IsFiniteSet(Revisions)

Chunks == [source : Sources, rev : Revisions]
Policies == {"mixed", "only", "last"}
Idle == [pc |-> "idle"]
Asking ==
  [pc : {"check", "query", "tail", "read", "complete", "normalize"},
   asked : Revisions \cup {NoRevision},      \* NoRevision asks for "current"
   expected : Revisions \cup {NoRevision},
   policy : Policies,
   window : SUBSET Chunks,                   \* chunks returned so far
   pending : SUBSET Sources,                 \* relations still to be read
   relations : SUBSET Chunks,                \* chunks cited by the relations at hand
   rounds : Nat]
Answers == [pc : {"answered"}, status : {"ready", "degraded", "unavailable"},
            revision : Revisions \cup {NoRevision},
            window : SUBSET Chunks, relations : SUBSET Chunks]

VARIABLES stored,     \* HydraDB collection: revision every source was uploaded for
          sync,       \* status and verified revision; the revision being uploaded
          cache,      \* RelationCache: entries [key, rev, source -> chunk], oldest first
          query,      \* question in progress or its answer
          questions, syncs, faults

vars == <<stored, sync, cache, query, questions, syncs, faults>>
world == <<stored, sync, syncs>>

(* An entry of the cache: the relations read for a source when that revision   *)
(* was asked for.  NoRevision: the read found none.                          *)
Entries == [rev : Revisions \cup {NoRevision}, source : Sources,
            read : Revisions \cup {NoRevision}]

QueryTypeOK ==
  /\ stored \in [Sources -> Revisions \cup {NoRevision}]
  /\ sync \in [status : {"ready", "indexing", "unsafe"},
               revision : Revisions \cup {NoRevision}, target : Revisions]
  /\ cache \in Seq(Entries) /\ Len(cache) <= CacheLimit
  /\ \A i, j \in DOMAIN cache :   \* an entry per key
       cache[i].rev = cache[j].rev /\ cache[i].source = cache[j].source => i = j
  /\ query \in [Queries -> {Idle} \cup Asking \cup Answers]
  /\ questions \in 0..MaxQuestions /\ syncs \in 0..MaxSyncs /\ faults \in 0..MaxFaults

QueryInit ==
  /\ \E r \in Revisions :
       \/ stored = [s \in Sources |-> r]
          /\ sync = [status |-> "ready", revision |-> r, target |-> r]
       \/ stored = [s \in Sources |-> NoRevision]
          /\ sync = [status |-> "ready", revision |-> NoRevision, target |-> r]
  /\ cache = <<>>
  /\ query = [q \in Queries |-> Idle]
  /\ questions = 0 /\ syncs = 0 /\ faults = 0

Unsafe == sync.status \in {"indexing", "unsafe"}
Goes(q, c) == query' = [query EXCEPT ![q] = c]
Fault == faults < MaxFaults /\ faults' = faults + 1

-----------------------------------------------------------------------------
(* The synchronisation as a query sees it (SyncService has the details).       *)

StartSync ==
  /\ sync.status # "indexing"
  /\ syncs < MaxSyncs /\ syncs' = syncs + 1
  /\ \E r \in Revisions : sync' = [sync EXCEPT !.status = "indexing", !.target = r]
  /\ UNCHANGED <<stored, cache, query, questions, faults>>

(* HydraDB replaces a source of the upload.                                  *)
Replace(s) ==
  /\ sync.status = "indexing" /\ stored[s] # sync.target
  /\ stored' = [stored EXCEPT ![s] = sync.target]
  /\ UNCHANGED <<sync, cache, query, questions, syncs, faults>>

EndSync ==
  /\ sync.status = "indexing"
  /\ \/ /\ \A s \in Sources : stored[s] = sync.target
        /\ sync' = [sync EXCEPT !.status = "ready", !.revision = sync.target]
        /\ UNCHANGED faults
     \/ Fault /\ sync' = [sync EXCEPT !.status = "unsafe"]
  /\ UNCHANGED <<stored, cache, query, questions, syncs>>

-----------------------------------------------------------------------------
(* repository_query: the verified revision first, then the state.  A question   *)
(* that names its revision needs neither.                                   *)

Ask(q, policy, revision) ==
  /\ query[q].pc \in {"idle", "answered"}
  /\ questions < MaxQuestions /\ questions' = questions + 1
  /\ Goes(q, [pc |-> "check", asked |-> revision, policy |-> policy,
              expected |-> IF revision = NoRevision THEN sync.revision ELSE revision,
              window |-> {}, pending |-> {}, relations |-> {}, rounds |-> 0])
  /\ UNCHANGED <<world, cache, faults>>

Empty(q, status, revision) ==
  Goes(q, [pc |-> "answered", status |-> status, revision |-> revision,
           window |-> {}, relations |-> {}])

CheckState(q) ==
  /\ query[q].pc = "check"
  /\ IF query[q].asked = NoRevision /\ Unsafe THEN Empty(q, "degraded", query[q].asked)
     ELSE Goes(q, [query[q] EXCEPT !.pc = "query"])
  /\ UNCHANGED <<world, cache, questions, faults>>

(* Chunks HydraDB may return now: any of those that pass the filters.  The     *)
(* revision is filtered only when it is known.                               *)
Stored == {c \in Chunks : stored[c.source] = c.rev}
OfRevision(q, chunks) ==
  {c \in chunks : query[q].expected \in {NoRevision, c.rev}}
Matching(q, kinds) == {c \in OfRevision(q, Stored) : c.source \in kinds}

KindsAsked(q) == CASE query[q].policy = "mixed" -> Sources
                   [] query[q].policy = "only"  -> Tests
                   [] query[q].policy = "last"  -> Sources \ Tests

Retrieved(q, chunks) ==
  [query[q] EXCEPT !.pc = IF query[q].policy = "last" THEN "tail" ELSE "read",
                   !.window = chunks]

(* _retrieve, first half.  Chunks of another revision come back only when       *)
(* HydraDB does not apply the filter.                                        *)
Retrieve(q) ==
  /\ query[q].pc = "query"
  /\ \/ \E chunks \in SUBSET Matching(q, KindsAsked(q)) : Goes(q, Retrieved(q, chunks))
        /\ UNCHANGED faults
     \/ /\ Fault
        /\ \/ \E chunks \in SUBSET Stored : Goes(q, Retrieved(q, chunks))
           \/ Empty(q, "unavailable", query[q].asked)
  /\ UNCHANGED <<world, cache, questions>>

(* Second half: tests behind.  Losing them does not lose the answer.          *)
RetrieveTests(q) ==
  /\ query[q].pc = "tail"
  /\ \/ \E chunks \in SUBSET Matching(q, Tests) :
          Goes(q, [query[q] EXCEPT !.pc = "read", !.window = @ \cup chunks])
        /\ UNCHANGED faults
     \/ Fault /\ Goes(q, [query[q] EXCEPT !.pc = "read"])
  /\ UNCHANGED <<world, cache, questions>>

-----------------------------------------------------------------------------
(* _revision_conflict: the chunks mix revisions, or miss the expected one.      *)

RevisionsOf(window) == {c.rev : c \in window}
Conflict(q) ==
  LET revs == RevisionsOf(query[q].window)
  IN  /\ query[q].window # {}
      /\ \/ Cardinality(revs) > 1
         \/ query[q].expected # NoRevision /\ revs # {query[q].expected}

(* fetch_repository_relations.  The best ranked sources of the window are       *)
(* looked up in the cache, and the others are read from HydraDB in parallel.   *)
Key(q, s) == [rev |-> query[q].expected, source |-> s]
Hit(q, s, e) == [rev |-> e.rev, source |-> e.source] = Key(q, s)
Cached(q, s) == \E i \in DOMAIN cache : Hit(q, s, cache[i])
Lookup(q, s) == CHOOSE e \in Range(cache) : Hit(q, s, e)
Cites(q, s, rev) == IF rev = NoRevision THEN {} ELSE {[source |-> s, rev |-> rev]}

SourcesOf(window) == {c.source : c \in window}
Selections(window) ==
  LET all == SourcesOf(window)
  IN  {S \in SUBSET all :
         Cardinality(S) = IF Cardinality(all) < RelationSources
                          THEN Cardinality(all) ELSE RelationSources}

(* A use makes an entry the newest; the sources are looked up in the order of   *)
(* their rank, which may be any.                                            *)
Touched(q, S) ==
  LET used(i) == \E s \in S : Hit(q, s, cache[i])
      orders == {p \in Bijection(DOMAIN cache, DOMAIN cache) :
                   \A i, j \in DOMAIN cache :
                     i < j => /\ used(p[i]) => used(p[j])
                              /\ ~used(p[j]) => p[i] < p[j]}
  IN  {[i \in DOMAIN cache |-> cache[p[i]]] : p \in orders}

ReadRelations(q) ==
  /\ query[q].pc = "read"
  /\ IF Conflict(q) THEN Goes(q, [query[q] EXCEPT !.pc = "normalize"]) /\ UNCHANGED cache
     ELSE \E S \in Selections(query[q].window) :
            LET hits == {s \in S : Cached(q, s)}
            IN  /\ Goes(q, [query[q] EXCEPT
                         !.pc = "complete", !.pending = S \ hits,
                         !.relations = UNION {Cites(q, s, Lookup(q, s).read) : s \in hits}])
                /\ cache' \in Touched(q, hits)
  /\ UNCHANGED <<world, questions, faults>>

(* Mutation: one entry too many is kept.                                    *)
KeptOneMore(entries) ==
  IF Len(entries) <= CacheLimit + 1 THEN entries ELSE Tail(entries)

Kept(entries) ==
  IF Len(entries) <= CacheLimit THEN entries ELSE Tail(entries)
Put(q, s, read) ==
  LET others == IF Cached(q, s)
                THEN LET i == CHOOSE n \in DOMAIN cache : Hit(q, s, cache[n])
                     IN  SubSeq(cache, 1, i - 1) \o SubSeq(cache, i + 1, Len(cache))
                ELSE cache
  IN  Kept(Append(others, [rev |-> query[q].expected, source |-> s, read |-> read]))

(* _read_one asks by source alone: it gets what is stored now.  A failed read   *)
(* leaves the source without relations and out of the cache.                 *)
ReadOne(q, s) ==
  /\ query[q].pc = "complete" /\ s \in query[q].pending
  /\ \/ /\ Goes(q, [query[q] EXCEPT !.pending = @ \ {s},
                                    !.relations = @ \cup Cites(q, s, stored[s])])
        /\ cache' = Put(q, s, stored[s])
        /\ UNCHANGED faults
     \/ /\ Fault
        /\ Goes(q, [query[q] EXCEPT !.pending = @ \ {s}])
        /\ UNCHANGED cache
  /\ UNCHANGED <<world, questions>>

-----------------------------------------------------------------------------
(* _complete_window: cards that join the matched ones, implementation as well   *)
(* when the question is about tests only.  Only those that carry the requested  *)
(* revision are taken in.                                                   *)

RevisionMatched(q, chunks) == {c \in chunks : c.rev = query[q].expected}
Completing(q) ==
  IF query[q].policy = "only" THEN Sources ELSE Sources \ Tests
(* Mutation: a round that adds nothing is not the last one.                  *)
ExtendedAgain(q, chunks) ==
  [query[q] EXCEPT !.pc = "read", !.window = @ \cup RevisionMatched(q, chunks)]

Extended(q, chunks) ==
  LET added == RevisionMatched(q, chunks) \ query[q].window
  IN  IF added = {} THEN [query[q] EXCEPT !.pc = "normalize"]
      ELSE [query[q] EXCEPT !.pc = "read", !.window = @ \cup added, !.rounds = @ + 1]

Complete(q) ==
  /\ query[q].pc = "complete" /\ query[q].pending = {}
  /\ IF query[q].rounds = CompletionRounds \/ CompletionSources = 0 \/ query[q].window = {}
     THEN Goes(q, [query[q] EXCEPT !.pc = "normalize"]) /\ UNCHANGED faults
     ELSE \/ \E chunks \in SUBSET Matching(q, Completing(q)) :
               /\ Cardinality(chunks) <= CompletionSources
               /\ Goes(q, Extended(q, chunks))
             /\ UNCHANGED faults
          \/ /\ Fault
             /\ \/ \E chunks \in SUBSET Stored :
                     /\ Cardinality(chunks) <= CompletionSources
                     /\ Goes(q, Extended(q, chunks))
                \/ Goes(q, [query[q] EXCEPT !.pc = "normalize"])
  /\ UNCHANGED <<world, cache, questions>>

(* normalize_query_response: the conflict is looked for again; relations that   *)
(* cite a chunk outside the window are dropped.                              *)
(* Mutation: relations are kept wherever their chunk is.                     *)
GroundedAnywhere(q) == query[q].relations

Grounded(q) == query[q].relations \cap query[q].window
RevisionNamed(q) ==
  IF query[q].window = {} THEN query[q].expected
  ELSE CHOOSE r \in RevisionsOf(query[q].window) : TRUE

(* _revision_conflict_response: no evidence, and the revision asked for.       *)
Conflicted(q) == Empty(q, "degraded", query[q].expected)

Normalize(q) ==
  /\ query[q].pc = "normalize"
  /\ IF Conflict(q) THEN Conflicted(q)
     ELSE Goes(q, [pc |-> "answered", status |-> "ready", revision |-> RevisionNamed(q),
                   window |-> query[q].window, relations |-> Grounded(q)])
  /\ UNCHANGED <<world, cache, questions, faults>>

-----------------------------------------------------------------------------
QueryStep(q) ==
  \/ CheckState(q) \/ Retrieve(q) \/ RetrieveTests(q) \/ ReadRelations(q)
  \/ (\E s \in Sources : ReadOne(q, s)) \/ Complete(q) \/ Normalize(q)

QueryNext ==
  \/ StartSync \/ EndSync \/ (\E s \in Sources : Replace(s))
  \/ \E q \in Queries :
       \/ QueryStep(q)
       \/ \E p \in Policies, r \in Revisions \cup {NoRevision} : Ask(q, p, r)

(* The threads that serve queries are scheduled.                             *)
QueryFairness == \A q \in Queries : WF_vars(QueryStep(q))
QuerySpec == QueryInit /\ [][QueryNext]_vars /\ QueryFairness

-----------------------------------------------------------------------------
(* A ready answer stays inside one revision, the one it names, whatever was    *)
(* uploaded while its chunks, tests, relations and joining cards were          *)
(* collected, and whatever the cache remembers of other questions.            *)
OneRevision ==
  \A q \in Queries :
    query[q].pc = "answered" /\ query[q].status = "ready" =>
      \A c \in query[q].window \cup query[q].relations : c.rev = query[q].revision

(* Every question is answered, however often the window grows.                *)
QueryEnds == \A q \in Queries : query[q].pc = "check" ~> query[q].pc = "answered"

(* relations.py, RelationCache: "A source is immutable inside one revision, so  *)
(* a hit can never serve a relation from another revision."                   *)
HitsAreOfTheirRevision ==
  \A i \in DOMAIN cache :
    cache[i].rev # NoRevision => cache[i].read \in {cache[i].rev, NoRevision}
=============================================================================
