-------------------------- MODULE ComparisonProofs --------------------------
(* What Evolution and Comparison guarantee for any number of handlers,       *)
(* revisions, facts, faults and commands, and any sizes of batches.          *)
EXTENDS Comparison, TLAPS, SequenceTheorems

-----------------------------------------------------------------------------
(* The inductive invariant.                                                 *)

(* Where a handler is when it holds the operation lock.                      *)
Working == {"analyse", "verify", "store", "send", "wait"}

(* The records of handlers: captures, captures with a graph, writes.          *)
CaptureCalls == [pc : {"check", "lock", "analyse"}, op : {"capture"}, slot : Slots,
                 revision : Revisions, read : Revisions \cup {NoRevision}]
StoreCalls == [pc : {"verify", "store"}, op : {"capture"}, slot : Slots,
               revision : Revisions, content : Revisions]
WriteCalls == [pc : {"lock", "send", "wait", "clear"}, op : {"publish", "lens"},
               cards : SUBSET Cards, left : SUBSET Cards,
               baseline : Revisions \cup {NoRevision}, view : Nat]

(* An acceptance names a view, a write of the lens carries a revision, and one  *)
(* that waits for the lock has sent nothing.                                *)
Lawful(c, known) ==
  /\ c.pc = "rebuild" => c.view \in known
  /\ c \in WriteCalls /\ LensCard \in c.cards => c.baseline \in Revisions
  /\ c \in WriteCalls /\ c.pc = "lock" => c.left = c.cards

(* What is true of the record of a handler: a capture about to be stored was  *)
(* verified; of a write, the cards no longer in `left` were sent (while it     *)
(* sends) or found completed (while it waits), the lens with its baseline.     *)
Sound(c, states, saved, known) ==
  /\ c.pc = "store" => c.content = c.revision
  /\ c.pc \in {"send", "wait"} => c.left \subseteq c.cards
  /\ c.pc = "send" /\ LensCard \in c.cards \ c.left => saved = c.baseline
  /\ c.pc = "wait" /\ LensCard \in c.cards => saved = c.baseline
  /\ c.pc = "wait" => \A k \in c.cards \ c.left : states[k] = "completed"
  /\ Lawful(c, known)

CallsOK ==
  /\ call \in [Threads -> Calls] /\ lock \in Threads \cup {Nobody}
  /\ \A t \in Threads : lock = t <=> call[t].pc \in Working
  /\ \A t \in Threads : Sound(call[t], cards, baseline, DOMAIN views)

DataOK ==
  /\ tree \in Revisions
  /\ sync \in [status : {"ready", "indexing", "failed", "unsafe"},
               revision : Revisions \cup {NoRevision}, candidate : Revisions]
  /\ slots \in [Slots -> Checkpoint]
  /\ cards \in [Cards -> CardStates]
  /\ baseline \in Revisions \cup {NoRevision}
  /\ cards[LensCard] # "absent" => baseline \in Revisions
  /\ views \in Seq(Revisions) /\ refresh \subseteq DOMAIN views
  /\ edits \in 0..MaxEdits /\ faults \in 0..MaxFaults

ServiceOK == CallsOK /\ DataOK /\ SlotsVerified

(* The window asks for what it remembers.                                   *)
WindowOK ==
  /\ flow \in [before : Revisions \cup {NoRevision}, after : Revisions \cup {NoRevision}]
  /\ step \in [at : {"idle", "before", "after", "describe", "review", "publish"},
               revision : Revisions \cup {NoRevision}]
  /\ requests \in Threads \cup {Nobody}
  /\ commands \in 0..MaxCommands
  /\ shared \in BOOLEAN
  /\ step.at \in Slots => step.revision \in Revisions
  /\ step.at = "after" => flow.before \in Revisions
  /\ step.at \in {"describe", "review", "publish"} =>
       flow.before \in Revisions /\ flow.after \in Revisions

IInv == ServiceOK /\ WindowOK

-----------------------------------------------------------------------------
(* The records of handlers.                                                 *)

LEMMA Shapes ==
  ASSUME NEW c \in Calls
  PROVE  /\ c.pc \in {"check", "analyse"} => c \in CaptureCalls
         /\ c.pc \in {"verify", "store"} => c \in StoreCalls
         /\ c.pc \in {"send", "wait", "clear"} => c \in WriteCalls
         /\ c.pc = "lock" => (c \in CaptureCalls \/ c \in WriteCalls)
         /\ c.pc = "query" => c.saved \in Revisions
         /\ c.pc = "rebuild" => c.view \in Nat
BY DEF Calls, Idle, CaptureCalls, StoreCalls, WriteCalls

LEMMA Included == /\ CaptureCalls \subseteq Calls
                  /\ StoreCalls \subseteq Calls
                  /\ WriteCalls \subseteq Calls
BY DEF Calls, CaptureCalls, StoreCalls, WriteCalls

LEMMA AnsweredIsCall ==
  ASSUME NEW op \in {"capture", "publish", "lens", "open"}, NEW result \in Results
  PROVE  [pc |-> "answered", op |-> op, result |-> result] \in Calls
BY DEF Calls

LEMMA WritingIsCall ==
  ASSUME NEW op \in {"publish", "lens"}, NEW ids \in SUBSET Cards,
         NEW revision \in Revisions \cup {NoRevision}, NEW view \in Nat
  PROVE  Writing(op, ids, revision, view) \in Calls /\ Writing(op, ids, revision, view).pc = "lock"
BY Included DEF Writing, WriteCalls

LEMMA LensIsCard == {LensCard} \in SUBSET Cards
BY DEF Cards

LEMMA EventCardsAreCards ==
  ASSUME NEW b \in Revisions, NEW a \in Revisions
  PROVE  EventCards(b, a) \subseteq Cards /\ LensCard \notin EventCards(b, a)
<1>1. EventCards(b, a) \subseteq Cards
  BY DEF Cards
<1>2. LensCard \notin EventCards(b, a)
  BY Sentinels DEF EventCards, LensCard
<1>3. QED
  BY <1>1, <1>2

-----------------------------------------------------------------------------
(* A handler that neither holds the lock nor takes it goes on.               *)
LEMMA Outside ==
  ASSUME CallsOK, NEW t \in Threads, NEW c \in Calls, Runs(t, c),
         call[t].pc \notin Working, c.pc \notin Working,
         UNCHANGED <<lock, cards, baseline>>,
         DOMAIN views \subseteq DOMAIN views',
         Lawful(c, DOMAIN views)
  PROVE  CallsOK'
<1>1. call' \in [Threads -> Calls]
  BY DEF CallsOK, Runs
<1>2. call'[t] = c /\ \A u \in Threads \ {t} : call'[u] = call[u]
  BY DEF CallsOK, Runs
<1>3. \A u \in Threads : lock' = u <=> call'[u].pc \in Working
  BY <1>2 DEF CallsOK
<1>4. ASSUME NEW u \in Threads PROVE Sound(call'[u], cards', baseline', DOMAIN views')
  <2>1. CASE u = t
    BY <1>2, <2>1 DEF Sound, Lawful, Working
  <2>2. CASE u # t
    <3>1. call'[u] = call[u] /\ Sound(call[u], cards, baseline, DOMAIN views)
      BY <1>2, <2>2 DEF CallsOK
    <3>2. QED
      BY <3>1 DEF Sound, Lawful
  <2>3. QED
    BY <2>1, <2>2
<1>5. QED
  BY <1>1, <1>3, <1>4 DEF CallsOK

(* The holder of the lock, or a handler that takes the free lock, goes on; the *)
(* others are outside, so nothing they rely on can be disturbed.              *)
LEMMA Inside ==
  ASSUME CallsOK, NEW t \in Threads, NEW c \in Calls, Runs(t, c),
         lock \in {t, Nobody},
         lock' = (IF c.pc \in Working THEN t ELSE Nobody),
         Sound(c, cards', baseline', DOMAIN views'), UNCHANGED views
  PROVE  CallsOK'
<1>1. call' \in [Threads -> Calls] /\ lock' \in Threads \cup {Nobody}
  BY DEF CallsOK, Runs
<1>2. call'[t] = c /\ \A u \in Threads \ {t} : call'[u] = call[u]
  BY DEF CallsOK, Runs
<1>3. \A u \in Threads \ {t} : call[u].pc \notin Working
  BY Sentinels DEF CallsOK
<1>4. \A u \in Threads : lock' = u <=> call'[u].pc \in Working
  BY <1>2, <1>3, Sentinels
<1>5. ASSUME NEW u \in Threads PROVE Sound(call'[u], cards', baseline', DOMAIN views')
  <2>1. CASE u = t
    BY <1>2, <2>1
  <2>2. CASE u # t
    <3>1. call'[u] = call[u] /\ Sound(call[u], cards, baseline, DOMAIN views) /\ call[u].pc \notin Working
      BY <1>2, <1>3, <2>2 DEF CallsOK
    <3>2. QED
      BY <3>1 DEF Sound, Working
  <2>3. QED
    BY <2>1, <2>2
<1>6. QED
  BY <1>1, <1>4, <1>5 DEF CallsOK

(* The end of an operation that held the lock.                               *)
LEMMA Released ==
  ASSUME CallsOK, NEW t \in Threads, call[t].pc \in Working,
         NEW op \in {"capture", "publish", "lens", "open"}, NEW result \in Results,
         Answers(t, op, result), lock' = Nobody, UNCHANGED views
  PROVE  CallsOK'
<1> DEFINE c == [pc |-> "answered", op |-> op, result |-> result]
<1>1. c \in Calls
  BY AnsweredIsCall
<1>2. lock = t
  BY DEF CallsOK
<1>3. Sound(c, cards', baseline', DOMAIN views')
  BY DEF Sound, Lawful, WriteCalls
<1>4. Runs(t, c)
  BY DEF Answers
<1>5. c.pc \notin Working
  BY DEF Working
<1> HIDE DEF c
<1>6. QED
  BY <1>1, <1>2, <1>3, <1>4, <1>5, Inside

(* The end of one that did not.                                             *)
LEMMA Ended ==
  ASSUME CallsOK, NEW t \in Threads, call[t].pc \notin Working,
         NEW op \in {"capture", "publish", "lens", "open"}, NEW result \in Results,
         Answers(t, op, result), UNCHANGED <<lock, cards, baseline>>,
         DOMAIN views \subseteq DOMAIN views'
  PROVE  CallsOK'
<1> DEFINE c == [pc |-> "answered", op |-> op, result |-> result]
<1>1. c \in Calls
  BY AnsweredIsCall
<1>2. c.pc \notin Working /\ Lawful(c, DOMAIN views)
  BY DEF Working, Lawful, WriteCalls
<1>3. Runs(t, c)
  BY DEF Answers
<1> HIDE DEF c
<1>4. QED
  BY <1>1, <1>2, <1>3, Outside

-----------------------------------------------------------------------------
(* Every operation of the service keeps ServiceOK.                           *)

LEMMA CaptureSteps ==
  ASSUME ServiceOK, NEW t \in Threads
  PROVE  /\ \A slot \in Slots, r \in Revisions : AskCapture(t, slot, r) => ServiceOK'
         /\ CheckCapture(t) => ServiceOK'
         /\ Analyse(t) => ServiceOK'
         /\ VerifyCapture(t) => ServiceOK'
         /\ StoreCapture(t) => ServiceOK'
<1> USE DEF ServiceOK
<1>1. ASSUME NEW slot \in Slots, NEW r \in Revisions, AskCapture(t, slot, r)
      PROVE  ServiceOK'
  <2> DEFINE c == [pc |-> "check", op |-> "capture", slot |-> slot, revision |-> r,
                   read |-> sync.revision]
  <2>1. c \in Calls /\ c.pc \notin Working /\ Lawful(c, DOMAIN views)
    BY Included DEF CaptureCalls, DataOK, Working, Lawful, WriteCalls
  <2>2. call[t].pc \notin Working /\ Runs(t, c)
    BY <1>1 DEF AskCapture, Idle, Working
  <2>3. CallsOK'
    <3> HIDE DEF c
    <3>1. QED
      BY <1>1, <2>1, <2>2, Outside DEF AskCapture, store
  <2>4. DataOK' /\ SlotsVerified'
    BY <1>1 DEF AskCapture, DataOK, SlotsVerified, local, store
  <2>5. QED
    BY <2>3, <2>4
<1>2. ASSUME CheckCapture(t) PROVE ServiceOK'
  <2>1. call[t] \in Calls /\ call[t].pc = "check" /\ call[t].pc \notin Working
    BY <1>2 DEF CheckCapture, CallsOK, Working
  <2>2. CASE Answers(t, "capture", "refused")
    BY <1>2, <2>1, <2>2, Ended DEF CheckCapture, Results, store, local, DataOK, SlotsVerified
  <2>3. CASE Runs(t, [call[t] EXCEPT !.pc = "lock"])
    <3> DEFINE c == [call[t] EXCEPT !.pc = "lock"]
    <3>1. call[t] \in CaptureCalls
      BY <2>1, Shapes
    <3>2. c \in Calls /\ c.pc \notin Working /\ Lawful(c, DOMAIN views)
      BY <3>1, Included DEF CaptureCalls, Working, Lawful, WriteCalls
    <3> HIDE DEF c
    <3>3. QED
      BY <1>2, <2>1, <2>3, <3>2, Outside
         DEF CheckCapture, store, local, DataOK, SlotsVerified, c
  <2>4. QED
    BY <1>2, <2>2, <2>3 DEF CheckCapture
<1>3. ASSUME Analyse(t) PROVE ServiceOK'
  <2> DEFINE c == [pc |-> "verify", op |-> "capture", slot |-> call[t].slot,
                   revision |-> call[t].revision, content |-> tree]
  <2>1. call[t] \in CaptureCalls
    BY <1>3, Shapes DEF Analyse, CallsOK
  <2>2. c \in Calls
    BY <2>1, Included DEF CaptureCalls, StoreCalls, DataOK
  <2>3. lock = t /\ lock' = t /\ Runs(t, c) /\ c.pc \in Working
    BY <1>3 DEF Analyse, CallsOK, Working
  <2>4. Sound(c, cards', baseline', DOMAIN views')
    BY DEF Sound, Lawful, WriteCalls
  <2>5. UNCHANGED views
    BY <1>3 DEF Analyse
  <2> HIDE DEF c
  <2>6. CallsOK'
    BY <2>2, <2>3, <2>4, <2>5, Inside
  <2>7. QED
    BY <1>3, <2>6 DEF Analyse, store, local, DataOK, SlotsVerified
<1>4. ASSUME VerifyCapture(t) PROVE ServiceOK'
  <2>1. call[t] \in StoreCalls /\ call[t].pc \in Working /\ lock = t
    BY <1>4, Shapes DEF VerifyCapture, CallsOK, Working
  <2>2. CASE Verified(call[t].revision, call[t].content)
    <3> DEFINE c == [call[t] EXCEPT !.pc = "store"]
    <3>1. c \in Calls /\ c.pc = "store" /\ c.content = c.revision /\ c \in StoreCalls
      BY <2>1, <2>2, Included DEF StoreCalls, Verified
    <3>2. Sound(c, cards', baseline', DOMAIN views')
      BY <3>1 DEF Sound, Lawful, StoreCalls, WriteCalls
    <3>3. Runs(t, c) /\ lock' = t /\ c.pc \in Working
      BY <1>4, <2>1, <2>2, <3>1 DEF VerifyCapture, Working
    <3> HIDE DEF c
    <3>4. CallsOK'
      BY <1>4, <2>1, <3>1, <3>2, <3>3, Inside DEF VerifyCapture
    <3>5. QED
      BY <1>4, <3>4 DEF VerifyCapture, store, local, DataOK, SlotsVerified
  <2>3. CASE ~Verified(call[t].revision, call[t].content)
    <3>1. CallsOK'
      BY <1>4, <2>1, <2>3, Released DEF VerifyCapture, Results
    <3>2. QED
      BY <1>4, <3>1 DEF VerifyCapture, store, local, DataOK, SlotsVerified
  <2>4. QED
    BY <2>2, <2>3
<1>5. ASSUME StoreCapture(t) PROVE ServiceOK'
  <2>1. call[t] \in StoreCalls /\ call[t].pc \in Working
    BY <1>5, Shapes DEF StoreCapture, CallsOK, Working
  <2>2. call[t].content = call[t].revision
    BY <1>5 DEF StoreCapture, CallsOK, Sound
  <2>3. CallsOK'
    BY <1>5, <2>1, Released DEF StoreCapture, Results
  <2>4. slots' \in [Slots -> Checkpoint] /\ SlotsVerified'
    BY <1>5, <2>1, <2>2 DEF StoreCapture, StoreCalls, Checkpoint, DataOK, SlotsVerified
  <2>5. faults' \in 0..MaxFaults
    BY <1>5, EvolutionBounds DEF StoreCapture, Fault, DataOK
  <2>6. QED
    BY <1>5, <2>3, <2>4, <2>5 DEF StoreCapture, store, local, DataOK
<1>6. QED
  BY <1>1, <1>2, <1>3, <1>4, <1>5

(* A publication is only prepared from checkpoints that are there.            *)
LEMMA PublishStep ==
  ASSUME ServiceOK, NEW t \in Threads, NEW b \in Revisions, NEW a \in Revisions,
         NEW confirm \in BOOLEAN, Publish(t, b, a, confirm)
  PROVE  ServiceOK'
<1>1. call[t].pc \notin Working
  BY DEF Publish, Idle, Working
<1>2. UNCHANGED <<local, slots, lock, store, views, refresh>> /\ faults' \in 0..MaxFaults
  BY EvolutionBounds DEF Publish, Fault, ServiceOK, DataOK
<1>3. CASE \E result \in {"refused", "preview"} : Answers(t, "publish", result)
  <2>1. CallsOK'
    BY <1>1, <1>2, <1>3, Ended DEF ServiceOK, Results, store
  <2>2. QED
    BY <1>2, <2>1 DEF ServiceOK, store, local, DataOK, SlotsVerified
<1>4. CASE /\ Publishable(b, a)
           /\ Runs(t, Writing("publish",
                         EventCards(slots["before"].content, slots["after"].content),
                         NoRevision, 0))
  <2>1. slots["before"].content = b /\ slots["after"].content = a
    BY <1>4 DEF Publishable, Loads, ServiceOK, SlotsVerified, Slots
  <2> DEFINE c == Writing("publish", EventCards(b, a), NoRevision, 0)
  <2>2. c \in Calls /\ c.pc = "lock"
    BY EventCardsAreCards, WritingIsCall
  <2>3. Runs(t, c) /\ c.pc \notin Working /\ Lawful(c, DOMAIN views)
    BY <1>4, <2>1, <2>2, EventCardsAreCards DEF Working, Lawful, Writing
  <2> HIDE DEF c
  <2>4. CallsOK'
    BY <1>1, <1>2, <2>2, <2>3, Outside DEF ServiceOK, store
  <2>5. QED
    BY <1>2, <2>4 DEF ServiceOK, store, local, DataOK, SlotsVerified
<1>5. QED
  BY <1>3, <1>4 DEF Publish

(* Opening, saving and accepting the lens.                                   *)
LEMMA LensSteps ==
  ASSUME ServiceOK, NEW t \in Threads
  PROVE  /\ OpenLens(t) => ServiceOK'
         /\ Refresh(t) => ServiceOK'
         /\ \A r \in Revisions : SaveLens(t, r) => ServiceOK'
         /\ \A v \in DOMAIN views : AcceptLens(t, v) => ServiceOK'
         /\ Rebuild(t) => ServiceOK'
<1> USE DEF ServiceOK
<1>1. ASSUME OpenLens(t) PROVE ServiceOK'
  <2>1. call[t].pc \notin Working
    BY <1>1 DEF OpenLens, Idle, Working
  <2>2. CASE Answers(t, "open", "refused")
    BY <1>1, <2>1, <2>2, Ended DEF OpenLens, Results, store, local, DataOK, SlotsVerified
  <2>3. CASE Retrievable(LensCard) /\ Runs(t, [pc |-> "query", op |-> "open", saved |-> baseline])
    <3> DEFINE c == [pc |-> "query", op |-> "open", saved |-> baseline]
    <3>1. baseline \in Revisions
      BY <2>3 DEF Retrievable, DataOK
    <3>2. c \in Calls /\ c.pc \notin Working /\ Lawful(c, DOMAIN views)
      BY <3>1 DEF Calls, Working, Lawful, WriteCalls
    <3> HIDE DEF c
    <3>3. QED
      BY <1>1, <2>1, <2>3, <3>2, Outside DEF OpenLens, store, local, DataOK, SlotsVerified, c
  <2>4. QED
    BY <1>1, <2>2, <2>3 DEF OpenLens
<1>2. ASSUME Refresh(t) PROVE ServiceOK'
  <2>1. call[t].pc \notin Working
    BY <1>2 DEF Refresh, Working
  <2>2. CASE Unserved
    BY <1>2, <2>1, <2>2, Ended DEF Refresh, Results, store, local, DataOK, SlotsVerified
  <2>3. CASE ~Unserved
    <3>1. sync.revision \in Revisions
      BY <2>3 DEF Unserved, DataOK
    <3>2. /\ views' \in Seq(Revisions) /\ Len(views') = Len(views) + 1
          /\ Len(views) \in Nat /\ DOMAIN views = 1..Len(views) /\ DOMAIN views' = 1..Len(views')
      BY <1>2, <2>3, <3>1, AppendProperties, LenProperties DEF Refresh, DataOK
    <3>3. refresh' \subseteq DOMAIN views' /\ DOMAIN views \subseteq DOMAIN views'
      <4>1. DOMAIN views \subseteq DOMAIN views' /\ Len(views') \in DOMAIN views'
        BY <3>2
      <4>2. refresh' = Kept(refresh \cup {Len(views')})
        BY <1>2, <2>3 DEF Refresh
      <4>3. \A V : Kept(V) \subseteq V
        BY DEF Kept
      <4>4. QED
        BY <4>1, <4>2, <4>3 DEF DataOK
    <3>4. Answers(t, "open", "opened") /\ UNCHANGED <<lock, cards, baseline>>
      BY <1>2, <2>3 DEF Refresh, store
    <3>5. CallsOK'
      BY <2>1, <3>3, <3>4, Ended DEF Results
    <3>6. QED
      BY <1>2, <3>2, <3>3, <3>5 DEF Refresh, store, local, DataOK, SlotsVerified
  <2>4. QED
    BY <2>2, <2>3
<1>3. ASSUME NEW r \in Revisions, SaveLens(t, r) PROVE ServiceOK'
  <2> DEFINE c == Writing("lens", {LensCard}, r, 0)
  <2>1. c \in Calls /\ c.pc = "lock"
    BY WritingIsCall, LensIsCard
  <2>2. c.pc \notin Working /\ Lawful(c, DOMAIN views)
    BY <2>1 DEF Working, Lawful, Writing
  <2>3. /\ call[t].pc \notin Working
        /\ Runs(t, c) \/ Answers(t, "lens", "refused")
        /\ UNCHANGED <<local, slots, lock, store, views, refresh>>
        /\ faults' \in 0..MaxFaults
    BY <1>3, EvolutionBounds DEF SaveLens, Fault, Idle, Working, ServiceOK, DataOK
  <2> HIDE DEF c
  <2>4. CASE Runs(t, c)
    <3>1. CallsOK'
      BY <2>1, <2>2, <2>3, <2>4, Outside DEF store
    <3>2. QED
      BY <2>3, <3>1 DEF store, local, DataOK, SlotsVerified
  <2>5. CASE Answers(t, "lens", "refused")
    BY <2>3, <2>5, Ended DEF Results, store, local, DataOK, SlotsVerified
  <2>6. QED
    BY <2>3, <2>4, <2>5
<1>4. ASSUME NEW v \in DOMAIN views, AcceptLens(t, v) PROVE ServiceOK'
  <2>1. call[t].pc \notin Working
    BY <1>4 DEF AcceptLens, Idle, Working
  <2>2. CASE Answers(t, "lens", "refused")
    BY <1>4, <2>1, <2>2, Ended DEF AcceptLens, Results, store, local, DataOK, SlotsVerified
  <2>3. CASE Runs(t, [pc |-> "rebuild", op |-> "accept", view |-> v])
    <3> DEFINE c == [pc |-> "rebuild", op |-> "accept", view |-> v]
    <3>1. v \in Nat
      BY LenProperties DEF DataOK
    <3>2. c \in Calls /\ c.pc \notin Working /\ Lawful(c, DOMAIN views)
      BY <3>1 DEF Calls, Working, Lawful, WriteCalls
    <3> HIDE DEF c
    <3>3. QED
      BY <1>4, <2>1, <2>3, <3>2, Outside DEF AcceptLens, store, local, DataOK, SlotsVerified, c
  <2>4. QED
    BY <1>4, <2>2, <2>3 DEF AcceptLens
<1>5. ASSUME Rebuild(t) PROVE ServiceOK'
  <2>1. call[t].pc \notin Working /\ call[t].view \in Nat /\ call[t].view \in DOMAIN views
    BY <1>5, Shapes DEF Rebuild, Working, CallsOK, Sound, Lawful
  <2>2. CASE \E result \in {"preview", "refused"} : Answers(t, "lens", result)
    BY <1>5, <2>1, <2>2, Ended DEF Rebuild, Results, store, local, DataOK, SlotsVerified
  <2>3. CASE Runs(t, Writing("lens", {LensCard}, views[call[t].view], call[t].view))
    <3> DEFINE c == Writing("lens", {LensCard}, views[call[t].view], call[t].view)
    <3>1. views[call[t].view] \in Revisions
      BY <2>1, ElementOfSeq, LenProperties DEF DataOK
    <3>2. c \in Calls /\ c.pc = "lock"
      BY <2>1, <3>1, WritingIsCall, LensIsCard
    <3>3. c.pc \notin Working /\ Lawful(c, DOMAIN views)
      BY <3>1, <3>2 DEF Working, Lawful, Writing
    <3> HIDE DEF c
    <3>4. QED
      BY <1>5, <2>1, <2>3, <3>2, <3>3, Outside
         DEF Rebuild, store, local, DataOK, SlotsVerified, c
  <2>4. QED
    BY <1>5, <2>2, <2>3 DEF Rebuild
<1>6. QED
  BY <1>1, <1>2, <1>3, <1>4, <1>5

(* Taking the lock and writing.                                              *)
LEMMA LockStep ==
  ASSUME ServiceOK, NEW t \in Threads, TakeLock(t)
  PROVE  ServiceOK'
<1> DEFINE c == [call[t] EXCEPT !.pc = IF call[t].op = "capture" THEN "analyse" ELSE "send"]
<1>1. call[t] \in CaptureCalls \/ call[t] \in WriteCalls
  BY Shapes DEF TakeLock, ServiceOK, CallsOK
<1>2. Lawful(call[t], DOMAIN views)
  BY DEF ServiceOK, CallsOK, Sound
<1>3. CASE call[t] \in CaptureCalls
  <2>1. c \in Calls /\ c.pc = "analyse" /\ c \in CaptureCalls
    BY <1>3, Included DEF CaptureCalls
  <2>2. Sound(c, cards', baseline', DOMAIN views')
    BY <2>1 DEF Sound, Lawful, CaptureCalls, WriteCalls
  <2>3. QED
    BY <2>1, <2>2, Inside
       DEF TakeLock, Working, ServiceOK, store, local, DataOK, SlotsVerified
<1>4. CASE call[t] \in WriteCalls
  <2>0. call[t].left = call[t].cards
    BY <1>2, <1>4 DEF TakeLock, Lawful
  <2>1. c \in Calls /\ c.pc = "send" /\ c \in WriteCalls /\ c.cards = call[t].cards
        /\ c.left = call[t].left /\ c.baseline = call[t].baseline
    BY <1>4, Included DEF WriteCalls
  <2>2. Sound(c, cards', baseline', DOMAIN views')
    BY <1>2, <1>4, <2>0, <2>1 DEF Sound, Lawful
  <2>3. QED
    BY <2>1, <2>2, Inside
       DEF TakeLock, Working, ServiceOK, store, local, DataOK, SlotsVerified
<1>5. QED
  BY <1>1, <1>3, <1>4

(* A batch is sent: accepted whole, or in part and the operation ends.        *)
LEMMA SendStep ==
  ASSUME ServiceOK, NEW t \in Threads, Send(t)
  PROVE  ServiceOK'
<1> DEFINE w == call[t]
<1>1. w \in WriteCalls /\ w.pc = "send" /\ w.pc \in Working /\ lock = t
  BY Shapes DEF Send, ServiceOK, CallsOK, Working
<1>2. Sound(w, cards, baseline, DOMAIN views)
  BY DEF ServiceOK, CallsOK
<1>3. PICK batch \in Batches(w.left) :
         \/ /\ cards' = Upserted(batch) /\ baseline' = Saved(t, batch)
            /\ LET rest == w.left \ batch
               IN  Runs(t, IF rest = {}
                           THEN [w EXCEPT !.pc = "wait", !.left = Awaited(t, batch)]
                           ELSE [w EXCEPT !.left = rest])
            /\ UNCHANGED <<lock, faults>>
         \/ /\ Fault
            /\ \E part \in SUBSET batch : cards' = Upserted(part) /\ baseline' = Saved(t, part)
            /\ Answers(t, w.op, "indeterminate")
            /\ lock' = Nobody
  BY DEF Send
<1>4. batch \subseteq w.left /\ w.left \subseteq w.cards /\ w.cards \subseteq Cards
  BY <1>1, <1>2, <1>3 DEF Batches, Sound, WriteCalls
<1>5. /\ w.baseline \in Revisions \cup {NoRevision}
      /\ LensCard \in w.cards => w.baseline \in Revisions
  BY <1>1, <1>2 DEF WriteCalls, Sound, Lawful
<1>6. ASSUME NEW part \in SUBSET batch, cards' = Upserted(part), baseline' = Saved(t, part)
      PROVE  /\ cards' \in [Cards -> CardStates]
             /\ baseline' \in Revisions \cup {NoRevision}
             /\ cards'[LensCard] # "absent" => baseline' \in Revisions
  <2>1. cards \in [Cards -> CardStates] /\ LensCard \in Cards
    BY LensIsCard DEF ServiceOK, DataOK
  <2>2. cards' \in [Cards -> CardStates]
    BY <1>6, <2>1 DEF Upserted, CardStates
  <2>3. CASE LensCard \in part
    BY <1>4, <1>5, <1>6, <2>2, <2>3 DEF Saved
  <2>4. CASE LensCard \notin part
    BY <1>6, <2>1, <2>2, <2>4 DEF Saved, Upserted, ServiceOK, DataOK
  <2>5. QED
    BY <2>3, <2>4, <2>2
<1>7. UNCHANGED <<tree, sync, edits, slots, views, refresh>>
  BY DEF Send, local
<1>8. CASE /\ cards' = Upserted(batch) /\ baseline' = Saved(t, batch)
           /\ LET rest == w.left \ batch
              IN  Runs(t, IF rest = {}
                          THEN [w EXCEPT !.pc = "wait", !.left = Awaited(t, batch)]
                          ELSE [w EXCEPT !.left = rest])
           /\ UNCHANGED <<lock, faults>>
  <2>1. LensCard \in w.cards \ (w.left \ batch) => baseline' = w.baseline
    <3>1. CASE LensCard \in batch
      BY <1>8, <3>1 DEF Saved
    <3>2. CASE LensCard \notin batch
      BY <1>1, <1>2, <1>8, <3>2 DEF Saved, Sound
    <3>3. QED
      BY <3>1, <3>2
  <2>2. CASE w.left \ batch = {}
    <3> DEFINE c == [w EXCEPT !.pc = "wait", !.left = w.cards]
    <3>1. c \in WriteCalls /\ c.pc = "wait" /\ c.left = w.cards /\ c.cards = w.cards
          /\ c.baseline = w.baseline
      BY <1>1 DEF WriteCalls
    <3>2. Sound(c, cards', baseline', DOMAIN views')
      BY <1>5, <2>1, <2>2, <3>1 DEF Sound, Lawful
    <3>3. Runs(t, c) /\ c \in Calls /\ c.pc \in Working
      BY <1>8, <2>2, <3>1, Included DEF Awaited, Working
    <3> HIDE DEF c
    <3>4. CallsOK'
      BY <1>1, <1>7, <1>8, <3>2, <3>3, Inside DEF ServiceOK
    <3>5. QED
      BY <1>6, <1>7, <1>8, <3>4 DEF ServiceOK, DataOK, SlotsVerified
  <2>3. CASE w.left \ batch # {}
    <3> DEFINE c == [w EXCEPT !.left = w.left \ batch]
    <3>1. c \in WriteCalls /\ c.pc = "send" /\ c.left = w.left \ batch /\ c.cards = w.cards
          /\ c.baseline = w.baseline
      BY <1>1 DEF WriteCalls
    <3>2. Sound(c, cards', baseline', DOMAIN views')
      BY <1>4, <1>5, <2>1, <3>1 DEF Sound, Lawful
    <3>3. Runs(t, c) /\ c \in Calls /\ c.pc \in Working
      BY <1>8, <2>3, <3>1, Included DEF Working
    <3> HIDE DEF c
    <3>4. CallsOK'
      BY <1>1, <1>7, <1>8, <3>2, <3>3, Inside DEF ServiceOK
    <3>5. QED
      BY <1>6, <1>7, <1>8, <3>4 DEF ServiceOK, DataOK, SlotsVerified
  <2>4. QED
    BY <2>2, <2>3
<1>9. CASE /\ Fault
           /\ \E part \in SUBSET batch : cards' = Upserted(part) /\ baseline' = Saved(t, part)
           /\ Answers(t, w.op, "indeterminate")
           /\ lock' = Nobody
  <2>1. w.op \in {"capture", "publish", "lens", "open"}
    BY <1>1 DEF WriteCalls
  <2>2. CallsOK'
    BY <1>1, <1>7, <1>9, <2>1, Released DEF ServiceOK, Results
  <2>3. faults' \in 0..MaxFaults
    BY <1>9, EvolutionBounds DEF Fault, ServiceOK, DataOK
  <2>4. QED
    BY <1>6, <1>7, <1>9, <2>2, <2>3 DEF ServiceOK, DataOK, SlotsVerified
<1>10. QED
  BY <1>3, <1>8, <1>9

(* A poll ends the wait, or leaves fewer cards to wait for.                   *)
LEMMA PollStep ==
  ASSUME ServiceOK, NEW t \in Threads, Poll(t)
  PROVE  ServiceOK'
<1> DEFINE w == call[t]
<1>1. w \in WriteCalls /\ w.pc = "wait" /\ w.pc \in Working /\ lock = t
  BY Shapes DEF Poll, ServiceOK, CallsOK, Working
<1>2. Sound(w, cards, baseline, DOMAIN views) /\ w.op \in {"capture", "publish", "lens", "open"}
  BY <1>1 DEF ServiceOK, CallsOK, WriteCalls
<1>3. UNCHANGED <<tree, sync, edits, slots, cards, baseline, views>>
  BY DEF Poll, local, store
<1>4. refresh' \subseteq refresh /\ faults' \in 0..MaxFaults
  BY EvolutionBounds DEF Poll, Fault, ServiceOK, DataOK
<1>5. DataOK' /\ SlotsVerified'
  BY <1>3, <1>4 DEF ServiceOK, DataOK, SlotsVerified
<1>6. CASE \E op \in {w.op, "lens"}, result \in Results : Answers(t, op, result) /\ lock' = Nobody
  <2>1. CallsOK'
    BY <1>1, <1>2, <1>3, <1>6, Released DEF ServiceOK
  <2>2. QED
    BY <1>5, <2>1 DEF ServiceOK
<1>7. CASE Runs(t, [w EXCEPT !.left = StillPending(t)]) /\ UNCHANGED lock
  <2> DEFINE c == [w EXCEPT !.left = StillPending(t)]
  <2>1. StillPending(t) \subseteq w.left /\ \A k \in w.left \ StillPending(t) : cards[k] = "completed"
    BY DEF StillPending
  <2>2. c \in WriteCalls /\ c.pc = "wait" /\ c.left = StillPending(t) /\ c.cards = w.cards
        /\ c.baseline = w.baseline
    BY <1>1, <2>1 DEF WriteCalls
  <2>3. Sound(c, cards', baseline', DOMAIN views')
    BY <1>1, <1>2, <1>3, <2>1, <2>2 DEF Sound, Lawful
  <2>4. c \in Calls /\ c.pc \in Working
    BY <2>2, Included DEF Working
  <2> HIDE DEF c
  <2>5. CallsOK'
    BY <1>1, <1>3, <1>7, <2>3, <2>4, Inside DEF ServiceOK, c
  <2>6. QED
    BY <1>5, <2>5 DEF ServiceOK
<1>8. CASE Runs(t, [w EXCEPT !.pc = "clear", !.left = {}]) /\ lock' = Nobody
  <2> DEFINE c == [w EXCEPT !.pc = "clear", !.left = {}]
  <2>1. c \in WriteCalls /\ c.pc = "clear" /\ c.cards = w.cards /\ c.baseline = w.baseline
    BY <1>1 DEF WriteCalls
  <2>2. Sound(c, cards', baseline', DOMAIN views')
    BY <1>1, <1>2, <2>1 DEF Sound, Lawful
  <2>3. c \in Calls /\ c.pc \notin Working
    BY <2>1, Included DEF Working
  <2> HIDE DEF c
  <2>4. CallsOK'
    BY <1>1, <1>3, <1>8, <2>2, <2>3, Inside DEF ServiceOK, c
  <2>5. QED
    BY <1>5, <2>4 DEF ServiceOK
<1>9. QED
  BY <1>6, <1>7, <1>8 DEF Poll, Results

LEMMA ClearStep ==
  ASSUME ServiceOK, NEW t \in Threads, Clear(t)
  PROVE  ServiceOK'
<1>1. call[t].pc \notin Working /\ UNCHANGED <<tree, sync, edits, lock, cards, baseline, views, refresh>>
  BY DEF Clear, Working, local, store
<1>2. CallsOK'
  BY <1>1, Ended DEF Clear, ServiceOK, Results
<1>3. slots' \in [Slots -> Checkpoint] /\ SlotsVerified' /\ faults' \in 0..MaxFaults
  BY EvolutionBounds
     DEF Clear, Fault, ServiceOK, DataOK, SlotsVerified, NoCheckpoint, Checkpoint
<1>4. QED
  BY <1>1, <1>2, <1>3 DEF ServiceOK, DataOK

(* HydraDB finishes cards: what was completed stays completed.                *)
LEMMA EnvironmentStep ==
  ASSUME ServiceOK, Environment
  PROVE  ServiceOK'
<1> USE DEF ServiceOK
<1>1. CASE Edit \/ StartIndexing \/ EndIndexing
  <2>1. UNCHANGED <<slots, lock, cards, baseline, views, refresh, call>>
    BY <1>1 DEF Edit, StartIndexing, EndIndexing, store
  <2>2. CallsOK' /\ SlotsVerified'
    BY <2>1 DEF CallsOK, SlotsVerified
  <2>3. tree' \in Revisions /\ edits' \in 0..MaxEdits /\ faults' \in 0..MaxFaults
    BY <1>1, EvolutionBounds DEF Edit, StartIndexing, EndIndexing, Fault, DataOK
  <2>4. sync' \in [status : {"ready", "indexing", "failed", "unsafe"},
                   revision : Revisions \cup {NoRevision}, candidate : Revisions]
    BY <1>1 DEF Edit, StartIndexing, EndIndexing, DataOK
  <2>5. QED
    BY <2>1, <2>2, <2>3, <2>4 DEF DataOK
<1>2. ASSUME NEW k \in Cards, IndexCard(k) PROVE ServiceOK'
  <2>1. UNCHANGED <<tree, sync, edits, slots, lock, baseline, views, refresh, call>>
    BY <1>2 DEF IndexCard, local
  <2>2. /\ cards' \in [Cards -> CardStates]
        /\ \A j \in Cards : /\ cards[j] = "completed" => cards'[j] = "completed"
                            /\ cards[j] = "absent" => cards'[j] = "absent"
    BY <1>2 DEF IndexCard, CardStates, DataOK
  <2>3. ASSUME NEW t \in Threads
        PROVE  Sound(call'[t], cards', baseline', DOMAIN views')
    <3>1. call'[t] = call[t] /\ Sound(call[t], cards, baseline, DOMAIN views)
      BY <2>1 DEF CallsOK
    <3>2. CASE call[t].pc = "wait"
      <4>1. call[t].cards \subseteq Cards
        BY <3>2, Shapes DEF CallsOK, WriteCalls
      <4>2. QED
        BY <2>1, <2>2, <3>1, <3>2, <4>1 DEF Sound
    <3>3. CASE call[t].pc # "wait"
      BY <2>1, <3>1, <3>3 DEF Sound
    <3>4. QED
      BY <3>2, <3>3
  <2>4. CallsOK' /\ SlotsVerified'
    BY <2>1, <2>3 DEF CallsOK, SlotsVerified
  <2>5. cards'[LensCard] # "absent" => baseline' \in Revisions
    BY <2>1, <2>2, LensIsCard DEF DataOK
  <2>6. faults' \in 0..MaxFaults
    BY <1>2, EvolutionBounds DEF IndexCard, Fault, DataOK
  <2>7. QED
    BY <2>1, <2>2, <2>4, <2>5, <2>6 DEF DataOK
<1>3. QED
  BY <1>1, <1>2 DEF Environment

LEMMA IdleIsSound ==
  ASSUME NEW states, NEW saved, NEW known
  PROVE  Idle \in Calls /\ Idle.pc \notin Working /\ Sound(Idle, states, saved, known)
BY DEF Idle, Calls, Working, Sound, Lawful, WriteCalls

(* A restart forgets what handlers were about to do, not what is stored.      *)
LEMMA CrashStep ==
  ASSUME ServiceOK, Crash
  PROVE  ServiceOK'
<1>1. UNCHANGED <<tree, edits, slots, cards, baseline, views>>
  BY DEF Crash, store
<1>2. \A t \in Threads : call'[t] = Idle
  BY DEF Crash
<1>3. CallsOK'
  BY <1>2, IdleIsSound, Sentinels DEF Crash, CallsOK
<1>4. sync' \in [status : {"ready", "indexing", "failed", "unsafe"},
                 revision : Revisions \cup {NoRevision}, candidate : Revisions]
  BY DEF Crash, ServiceOK, DataOK
<1>5. faults' \in 0..MaxFaults /\ refresh' = {}
  BY EvolutionBounds DEF Crash, Fault, ServiceOK, DataOK
<1>6. QED
  BY <1>1, <1>3, <1>4, <1>5 DEF ServiceOK, DataOK, SlotsVerified

-----------------------------------------------------------------------------
(* Every step of the composition keeps the invariant.                        *)

LEMMA HandlerSteps ==
  ASSUME ServiceOK, NEW t \in Threads, HandlerStep(t)
  PROVE  ServiceOK'
BY CaptureSteps, LensSteps, LockStep, SendStep, PollStep, ClearStep DEF HandlerStep

(* The window settles a request, or nobody reads its answer.                  *)
LEMMA AnswerRead ==
  ASSUME ServiceOK, NEW t \in Threads, call[t].pc = "answered", Runs(t, Idle),
         UNCHANGED <<local, slots, lock, store, views, refresh, faults>>
  PROVE  ServiceOK'
<1>1. call[t].pc \notin Working /\ Lawful(Idle, DOMAIN views)
  BY DEF Working, Lawful, Idle, WriteCalls
<1>2. CallsOK'
  BY <1>1, IdleIsSound, Outside DEF ServiceOK, store
<1>3. QED
  BY <1>2 DEF ServiceOK, store, local, DataOK, SlotsVerified

LEMMA WindowSteps ==
  ASSUME IInv, WindowStep
  PROVE  IInv'
<1> USE DEF IInv
<1>1. CASE StartCompare
  <2>1. ServiceOK'
    BY <1>1 DEF StartCompare, vars, ServiceOK, CallsOK, DataOK, SlotsVerified
  <2>2. Healthy => sync.revision \in Revisions
    BY DEF Healthy, ServiceOK, DataOK
  <2>3. WindowOK'
    BY <1>1, <2>2 DEF StartCompare, Quiet, Pending, NextSlot, Slots, WindowOK
  <2>4. QED
    BY <2>1, <2>3
<1>2. CASE Cancel
  <2>1. ServiceOK'
    BY <1>2 DEF Cancel, vars, ServiceOK, CallsOK, DataOK, SlotsVerified
  <2>2. WindowOK'
    BY <1>2 DEF Cancel, Quiet, Slots, WindowOK
  <2>3. QED
    BY <2>1, <2>2
<1>3. ASSUME NEW t \in Threads, Capture(t) PROVE IInv'
  <2>1. ServiceOK'
    BY <1>3, CaptureSteps DEF Capture, WindowOK
  <2>2. WindowOK'
    BY <1>3 DEF Capture, WindowOK
  <2>3. QED
    BY <2>1, <2>2
<1>4. ASSUME NEW t \in Threads, Captured(t) PROVE IInv'
  <2>1. ServiceOK'
    BY <1>4, AnswerRead DEF Captured, Answer, Settled
  <2>2. WindowOK'
    <3>1. UNCHANGED <<commands, shared>> /\ requests' = Nobody
      BY <1>4 DEF Captured, Settled
    <3>2. CASE flow' = flow /\ step' = Quiet
      BY <3>1, <3>2 DEF Quiet, Slots, WindowOK
    <3>3. CASE /\ flow' = [flow EXCEPT ![step.at] = step.revision]
               /\ step' = IF step.at = "before" THEN Quiet
                          ELSE [at |-> "describe", revision |-> NoRevision]
      <4>1. step.at \in Slots /\ step.revision \in Revisions
        BY <1>4 DEF Captured, WindowOK
      <4>2. CASE step.at = "before"
        BY <3>1, <3>3, <4>1, <4>2 DEF Quiet, Slots, WindowOK
      <4>3. CASE step.at = "after"
        BY <3>1, <3>3, <4>1, <4>3 DEF Slots, WindowOK
      <4>4. QED
        BY <4>1, <4>2, <4>3 DEF Slots
    <3>4. QED
      BY <1>4, <3>2, <3>3 DEF Captured
  <2>3. QED
    BY <2>1, <2>2
<1>5. ASSUME NEW t \in Threads, Describe(t) PROVE IInv'
  <2>1. ServiceOK'
    BY <1>5, PublishStep DEF Describe, WindowOK
  <2>2. WindowOK'
    BY <1>5 DEF Describe, WindowOK
  <2>3. QED
    BY <2>1, <2>2
<1>6. ASSUME NEW t \in Threads, Described(t) PROVE IInv'
  <2>1. ServiceOK'
    BY <1>6, AnswerRead DEF Described, Answer, Settled
  <2>2. WindowOK'
    BY <1>6 DEF Described, Settled, Quiet, Slots, WindowOK
  <2>3. QED
    BY <2>1, <2>2
<1>7. ASSUME NEW t \in Threads, Confirm(t) PROVE IInv'
  <2>1. ServiceOK'
    BY <1>7, PublishStep DEF Confirm, WindowOK
  <2>2. WindowOK'
    BY <1>7 DEF Confirm, Slots, WindowOK
  <2>3. QED
    BY <2>1, <2>2
<1>8. ASSUME NEW t \in Threads, Published(t) PROVE IInv'
  <2>1. ServiceOK'
    BY <1>8, AnswerRead DEF Published, Answer, Settled
  <2>2. WindowOK'
    BY <1>8 DEF Published, Settled, NoPair, Quiet, Slots, WindowOK
  <2>3. QED
    BY <2>1, <2>2
<1>9. QED
  BY <1>1, <1>2, <1>3, <1>4, <1>5, <1>6, <1>7, <1>8 DEF WindowStep

LEMMA OtherSteps ==
  ASSUME IInv, NEW t \in Threads, Other(t)
  PROVE  IInv'
<1> USE DEF IInv
<1>1. commands' \in 0..MaxCommands /\ shared' \in BOOLEAN /\ UNCHANGED <<flow, step, requests>>
  <2>1. commands' \in 0..MaxCommands /\ UNCHANGED <<flow, step, requests>>
    BY ComparisonBounds DEF Other, WindowOK
  <2>2. shared' = TRUE \/ shared' = shared
    BY DEF Other
  <2>3. shared' \in BOOLEAN
    BY <2>2 DEF WindowOK
  <2>4. QED
    BY <2>1, <2>3
<1>2. WindowOK'
  BY <1>1 DEF WindowOK
<1>3. ASSUME NEW s \in Slots, sync.revision # NoRevision, AskCapture(t, s, sync.revision)
      PROVE  ServiceOK'
  BY <1>3, CaptureSteps DEF ServiceOK, DataOK
<1>4. ASSUME \A s \in Slots : slots[s] # NoCheckpoint,
             Publish(t, slots["before"].revision, slots["after"].revision, TRUE)
      PROVE  ServiceOK'
  <2>1. ASSUME NEW s \in Slots PROVE slots[s].revision \in Revisions
    <3>1. slots[s] \in Checkpoint /\ slots[s].content = slots[s].revision
      BY DEF ServiceOK, DataOK, SlotsVerified
    <3>2. slots[s].revision # NoRevision
      BY <1>4, <3>1 DEF Checkpoint, NoCheckpoint
    <3>3. QED
      BY <3>1, <3>2 DEF Checkpoint
  <2>2. QED
    BY <1>4, <2>1, PublishStep DEF Slots
<1>5. ASSUME LensRequest(t) PROVE ServiceOK'
  BY <1>5, LensSteps DEF LensRequest
<1>6. QED
  BY <1>2, <1>3, <1>4, <1>5 DEF Other

LEMMA InvariantStep == IInv /\ [CompareNext]_compareVars => IInv'
<1> SUFFICES ASSUME IInv, [CompareNext]_compareVars PROVE IInv'
  OBVIOUS
<1> USE DEF IInv
<1>1. ASSUME UNCHANGED window PROVE WindowOK'
  BY <1>1 DEF window, WindowOK
<1>2. CASE UNCHANGED compareVars
  <2>1. ServiceOK'
    BY <1>2 DEF compareVars, vars, local, store, ServiceOK, CallsOK, DataOK, SlotsVerified
  <2>2. QED
    BY <1>1, <1>2, <2>1 DEF compareVars, window
<1>3. CASE Abandon
  <2>1. UNCHANGED <<tree, sync, slots, lock, cards, baseline, views, refresh, call, edits>>
        /\ faults' \in 0..MaxFaults
    BY <1>3, EvolutionBounds DEF Abandon, Fault, local, store, ServiceOK, DataOK
  <2>2. ServiceOK'
    BY <2>1 DEF ServiceOK, CallsOK, DataOK, SlotsVerified
  <2>3. WindowOK'
    BY <1>3 DEF Abandon, Quiet, Slots, WindowOK
  <2>4. QED
    BY <2>2, <2>3
<1>4. CASE ServiceCrash
  <2>1. ServiceOK'
    BY <1>4, CrashStep DEF ServiceCrash
  <2>2. WindowOK'
    BY <1>4 DEF ServiceCrash, Quiet, Slots, WindowOK
  <2>3. QED
    BY <2>1, <2>2
<1>5. ASSUME NEW t \in Threads, Unread(t) PROVE IInv'
  BY <1>1, <1>5, AnswerRead DEF Unread
<1>6. ASSUME NEW t \in Threads, HandlerStep(t), UNCHANGED window PROVE IInv'
  BY <1>1, <1>6, HandlerSteps
<1>7. CASE Environment /\ UNCHANGED window
  BY <1>1, <1>7, EnvironmentStep
<1>8. QED
  BY <1>2, <1>3, <1>4, <1>5, <1>6, <1>7, WindowSteps, OtherSteps DEF CompareNext

LEMMA InvariantInit == CompareInit => IInv
<1> SUFFICES ASSUME CompareInit PROVE IInv
  OBVIOUS
<1>1. CallsOK
  BY IdleIsSound, Sentinels DEF CompareInit, Init, CallsOK
<1>2. DataOK
  BY EvolutionBounds, LensIsCard, EmptySeq
     DEF CompareInit, Init, DataOK, Checkpoint, NoCheckpoint, CardStates
<1>3. SlotsVerified
  BY DEF CompareInit, Init, SlotsVerified, NoCheckpoint
<1>4. WindowOK
  <2>1. shared \in BOOLEAN /\ requests \in Threads \cup {Nobody}
    BY DEF CompareInit
  <2>2. commands \in 0..MaxCommands
    BY ComparisonBounds DEF CompareInit
  <2>3. QED
    BY <2>1, <2>2 DEF CompareInit, NoPair, Quiet, Slots, WindowOK
<1>5. QED
  BY <1>1, <1>2, <1>3, <1>4 DEF IInv, ServiceOK

LEMMA Invariant == CompareSpec => []IInv
BY InvariantInit, InvariantStep, PTL DEF CompareSpec

-----------------------------------------------------------------------------
(* Every variable of the service and of the window keeps its type.            *)
THEOREM TypeCorrect == CompareSpec => []CompareTypeOK
<1>1. IInv => CompareTypeOK
  BY DEF IInv, ServiceOK, CallsOK, DataOK, WindowOK, CompareTypeOK, TypeOK
<1>2. QED
  BY <1>1, Invariant, PTL

(* A checkpoint holds the content its revision names.                         *)
THEOREM CheckpointsVerified == CompareSpec => []SlotsVerified
<1>1. IInv => SlotsVerified
  BY DEF IInv, ServiceOK
<1>2. QED
  BY <1>1, Invariant, PTL

(* One handler at a time analyses or writes.                                 *)
THEOREM OneOperation == CompareSpec => []LockHeld
<1>1. IInv => LockHeld
  BY DEF IInv, ServiceOK, CallsOK, LockHeld, Working
<1>2. QED
  BY <1>1, Invariant, PTL

(* A lens that is waited for is saved with the baseline of who waits.         *)
THEOREM BaselineKept == CompareSpec => []OwnBaseline
<1>1. IInv => OwnBaseline
  BY DEF IInv, ServiceOK, CallsOK, Sound, OwnBaseline
<1>2. QED
  BY <1>1, Invariant, PTL

(* Nothing but its own poll takes a handler from waiting to clearing.         *)
LEMMA OnlyPollEndsWait ==
  ASSUME call \in [Threads -> Calls], NEW t \in Threads,
         call[t].pc = "wait", call'[t].pc = "clear", CompareNext
  PROVE  Poll(t)
<1>1. ASSUME NEW u \in Threads, NEW c, Runs(u, c), call[u].pc # "wait" PROVE FALSE
  BY <1>1 DEF Runs
<1>2. ASSUME UNCHANGED call PROVE FALSE
  BY <1>2
<1>3. \A u \in Threads : call[u] = Idle => call[u].pc # "wait"
  BY DEF Idle
<1>4. CASE WindowStep
  <2>1. CASE StartCompare \/ Cancel
    BY <1>2, <2>1 DEF StartCompare, Cancel, vars
  <2>2. ASSUME NEW u \in Threads, Capture(u) PROVE FALSE
    BY <1>1, <1>3, <2>2 DEF Capture, AskCapture
  <2>3. ASSUME NEW u \in Threads, Captured(u) \/ Described(u) \/ Published(u) PROVE FALSE
    BY <1>1, <2>3 DEF Captured, Described, Published, Answer, Settled
  <2>4. ASSUME NEW u \in Threads, Describe(u) \/ Confirm(u) PROVE FALSE
    BY <1>1, <1>3, <2>4 DEF Describe, Confirm, Publish, Answers
  <2>5. QED
    BY <1>4, <2>1, <2>2, <2>3, <2>4 DEF WindowStep
<1>5. CASE Abandon \/ Environment
  BY <1>2, <1>5 DEF Abandon, Environment, Edit, StartIndexing, EndIndexing, IndexCard
<1>6. CASE ServiceCrash
  BY <1>6 DEF ServiceCrash, Crash, Idle
<1>7. ASSUME NEW u \in Threads, Unread(u) PROVE FALSE
  BY <1>1, <1>7 DEF Unread
<1>8. ASSUME NEW u \in Threads, Other(u) PROVE FALSE
  BY <1>1, <1>3, <1>8
     DEF Other, AskCapture, Publish, LensRequest, OpenLens, SaveLens, AcceptLens, Answers
<1>9. ASSUME NEW u \in Threads, HandlerStep(u), ~Poll(u) PROVE FALSE
  <2>1. CASE CheckCapture(u) \/ Analyse(u) \/ VerifyCapture(u) \/ StoreCapture(u)
    BY <1>1, <2>1 DEF CheckCapture, Analyse, VerifyCapture, StoreCapture, Answers
  <2>2. CASE Refresh(u) \/ Rebuild(u) \/ TakeLock(u) \/ Clear(u)
    BY <1>1, <2>2 DEF Refresh, Rebuild, TakeLock, Clear, Answers
  <2>3. CASE Send(u)
    BY <1>1, <2>3 DEF Send, Answers
  <2>4. QED
    BY <1>9, <2>1, <2>2, <2>3 DEF HandlerStep
<1>10. ASSUME NEW u \in Threads, Poll(u), u # t PROVE FALSE
  BY <1>10 DEF Poll, Answers, Runs
<1>11. QED
  BY <1>4, <1>5, <1>6, <1>7, <1>8, <1>9, <1>10 DEF CompareNext

(* A publication goes on to its end only when all of its cards can be          *)
(* retrieved.                                                              *)
THEOREM WholePublication == CompareSpec => WholeWhenReady
<1> DEFINE Whole == \A t \in Threads :
                      call[t].pc = "wait" /\ call'[t].pc = "clear" =>
                        \A c \in call[t].cards : Retrievable(c)
<1>1. IInv /\ [CompareNext]_compareVars => [Whole]_vars
  <2> SUFFICES ASSUME IInv, [CompareNext]_compareVars, ~UNCHANGED vars,
                      NEW t \in Threads, call[t].pc = "wait", call'[t].pc = "clear",
                      NEW c \in call[t].cards
               PROVE  cards[c] = "completed"
    BY DEF Retrievable
  <2>1. call \in [Threads -> Calls] /\ Sound(call[t], cards, baseline, DOMAIN views)
    BY DEF IInv, ServiceOK, CallsOK
  <2>2. CompareNext
    BY DEF compareVars
  <2>3. Poll(t)
    BY <2>1, <2>2, OnlyPollEndsWait
  <2>4. call[t] \in WriteCalls
    BY <2>1, Shapes
  <2>5. StillPending(t) = {}
    <3>1. ASSUME NEW op, NEW result, Answers(t, op, result) PROVE FALSE
      BY <2>1, <3>1 DEF Answers, Runs
    <3>2. ASSUME Runs(t, [call[t] EXCEPT !.left = StillPending(t)]) PROVE FALSE
      BY <2>1, <2>4, <3>2 DEF Runs, WriteCalls
    <3>3. QED
      BY <2>3, <3>1, <3>2 DEF Poll
  <2>6. CASE c \in call[t].left
    BY <2>5, <2>6 DEF StillPending
  <2>7. CASE c \notin call[t].left
    BY <2>1, <2>7 DEF Sound
  <2>8. QED
    BY <2>6, <2>7
<1>2. QED
  BY <1>1, Invariant, PTL DEF CompareSpec, WholeWhenReady
=============================================================================
