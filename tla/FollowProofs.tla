----------------------------- MODULE FollowProofs -----------------------------
(* What Observe guarantees for any number of handlers, streams, sessions and   *)
(* events, and any limits of the ring, the queues, the registry and the log.   *)
EXTENDS Follow, TLAPS, SequenceTheorems, FiniteSetTheorems, WellFoundedInduction

-----------------------------------------------------------------------------
(* Types of the service.                                                    *)

(* The records of handlers, by what they carry.                             *)
AppendCalls == [pc : {"append"}, event : Event]
DeliverCalls == [pc : {"deliver"}, event : Event, number : Nat, left : SUBSET Streams]
FullCalls == [pc : {"drop", "again"}, event : Event, number : Nat,
              left : SUBSET Streams, at : Streams]

LEMMA Shapes ==
  ASSUME NEW c \in Calls
  PROVE  /\ c.pc = "append" => c \in AppendCalls
         /\ c.pc = "deliver" => c \in DeliverCalls
         /\ c.pc \in {"drop", "again"} => c \in FullCalls
         /\ c.pc = "register" => c.rev \in Labels
         /\ c.pc = "label" => c.sid \in Nat
         /\ c.pc = "answer" => c.event \in Event
         /\ c.pc = "store" => c.number \in Nat
BY DEF Calls, Idle, AppendCalls, DeliverCalls, FullCalls

LEMMA IdleIsCall == Idle \in Calls /\ Idle.pc = "idle"
BY DEF Calls, Idle

LEMMA EmitsIsCall ==
  ASSUME NEW sid \in Nat, NEW rev \in Labels,
         NEW type \in {"started", "completed", "recorded", "query", "result", "sync"}
  PROVE  /\ Emits(sid, type, rev) \in Calls
         /\ Emits(sid, type, rev).pc = "append"
         /\ Emits(sid, type, rev).event.type = type
         /\ Emits(sid, type, rev).event.sid = sid
BY DEF Calls, Emits, Event, Types

(* After an event a handler is nowhere near another append.                  *)
LEMMA DeliveringIsCall ==
  ASSUME NEW event \in Event, NEW number \in Nat, NEW left \in SUBSET Streams
  PROVE  /\ Delivering(event, number, left) \in Calls
         /\ Delivering(event, number, left).pc # "append"
<1>1. AfterDelivery(event, number) \in Calls /\ AfterDelivery(event, number).pc # "append"
  <2>1. CASE event.type = "query"
    BY <2>1 DEF AfterDelivery, Calls
  <2>2. CASE event.type = "result"
    BY <2>2 DEF AfterDelivery, Calls
  <2>3. CASE event.type \notin {"query", "result"}
    BY <2>3, IdleIsCall DEF AfterDelivery
  <2>4. QED
    BY <2>1, <2>2, <2>3
<1>2. CASE left = {}
  BY <1>1, <1>2 DEF Delivering
<1>3. CASE left # {}
  BY <1>3 DEF Delivering, Calls
<1>4. QED
  BY <1>2, <1>3

LEMMA NewestTyped ==
  ASSUME NEW S, NEW s \in Seq(S), NEW n \in Nat
  PROVE  Newest(s, n) \in Seq(S)
<1>1. Len(s) \in Nat /\ \A i \in 1..Len(s) : s[i] \in S
  BY LenProperties, ElementOfSeq
<1>2. DEFINE m == IF Len(s) > n THEN Len(s) - n + 1 ELSE 1
<1>3. m \in Int /\ 1 <= m
  BY <1>1
<1>4. SubSeq(s, m, Len(s)) \in Seq(S)
  BY <1>1, <1>3, SubSeqProperties
<1>5. QED
  BY <1>4 DEF Newest

LEMMA RunsTyped ==
  ASSUME call \in [Threads -> Calls], NEW t \in Threads, NEW c \in Calls, Runs(t, c)
  PROVE  /\ call' \in [Threads -> Calls]
         /\ call'[t] = c
         /\ \A u \in Threads \ {t} : call'[u] = call[u]
BY DEF Runs

-----------------------------------------------------------------------------
(* The service: sessions start once and complete once.                       *)

Once == {"started", "completed"}
Due(u, type) == call[u].pc = "append" /\ call[u].event.type = type

(* Events of this type name a session, each another one, and so do the         *)
(* handlers about to append one.                                            *)
OnceOK(type) ==
  /\ \A i \in 1..Len(emitted) : emitted[i].type = type => emitted[i].sid \in Sessions
  /\ \A u \in Threads : Due(u, type) => call[u].event.sid \in Sessions
  /\ \A i, j \in 1..Len(emitted) :
       emitted[i].type = type /\ emitted[j].type = type /\ emitted[i].sid = emitted[j].sid => i = j
  /\ \A u \in Threads, i \in 1..Len(emitted) :
       Due(u, type) /\ emitted[i].type = type => emitted[i].sid # call[u].event.sid
  /\ \A u, v \in Threads :
       Due(u, type) /\ Due(v, type) /\ call[u].event.sid = call[v].event.sid => u = v

(* A session with a completion, made or due, is not active.                  *)
Retired ==
  /\ \A i \in 1..Len(emitted) : emitted[i].type = "completed" => emitted[i].sid \notin active
  /\ \A u \in Threads : Due(u, "completed") => call[u].event.sid \notin active

ServiceInv == TypeOK /\ SessionsBounded /\ OnceOK("started") /\ OnceOK("completed") /\ Retired

(* A step that touches neither sessions nor history, nor starts or ends one.   *)
Calm ==
  /\ UNCHANGED <<registry, emitted>>
  /\ \A u \in Threads :
       call'[u].pc = "append" /\ call'[u].event.type \in Once => call'[u] = call[u]

LEMMA CalmKeeps ==
  ASSUME ServiceInv, TypeOK', Calm
  PROVE  ServiceInv'
<1>1. SessionsBounded'
  BY DEF ServiceInv, SessionsBounded, Calm, registry
<1>2. ASSUME NEW type \in Once, OnceOK(type) PROVE OnceOK(type)'
  <2>1. \A u \in Threads : Due(u, type)' => Due(u, type) /\ call'[u] = call[u]
    BY DEF Calm, Due
  <2>2. emitted' = emitted /\ Sessions' = Sessions
    BY DEF Calm, registry, Sessions
  <2>3. QED
    BY <1>2, <2>1, <2>2 DEF OnceOK
<1>3. Retired'
  <2>1. \A u \in Threads : Due(u, "completed")' => Due(u, "completed") /\ call'[u] = call[u]
    BY DEF Calm, Due, Once
  <2>2. emitted' = emitted /\ active' = active
    BY DEF Calm, registry
  <2>3. QED
    BY <2>1, <2>2 DEF Retired, ServiceInv
<1>4. QED
  BY <1>1, <1>2, <1>3 DEF ServiceInv, Once

LEMMA RunsCalm ==
  ASSUME TypeOK, NEW t \in Threads, NEW c \in Calls, Runs(t, c),
         c.pc = "append" => c.event.type \notin Once,
         UNCHANGED <<registry, emitted>>
  PROVE  Calm /\ call' \in [Threads -> Calls]
BY RunsTyped DEF Calm, TypeOK

-----------------------------------------------------------------------------
(* The steps of the service that leave sessions and history alone.            *)

LEMMA PutCalm ==
  ASSUME TypeOK, NEW t \in Threads, NEW s \in Streams, Put(t, s)
  PROVE  TypeOK' /\ Calm
<1>1. call[t] \in DeliverCalls
  BY Shapes DEF TypeOK, Put
<1>2. UNCHANGED <<registry, emitted, open, views, ready, syncs>>
  BY DEF Put, registry
<1>3. CASE Full(s)
  <2>1. DEFINE c == [pc |-> "drop", event |-> call[t].event, number |-> call[t].number,
                     left |-> call[t].left, at |-> s]
  <2>2. c \in Calls /\ c.pc = "drop"
    BY <1>1 DEF Calls, DeliverCalls
  <2>3. Runs(t, c) /\ queue' = queue
    BY <1>3 DEF Put
  <2> HIDE DEF c
  <2>4. Calm /\ call' \in [Threads -> Calls]
    BY <1>2, <2>2, <2>3, RunsCalm
  <2>5. QED
    BY <1>2, <2>3, <2>4 DEF TypeOK, Sessions, registry
<1>4. CASE ~Full(s)
  <2>1. DEFINE c == Delivering(call[t].event, call[t].number, call[t].left \ {s})
  <2>2. c \in Calls /\ c.pc # "append"
    BY <1>1, DeliveringIsCall DEF DeliverCalls
  <2>3. Runs(t, c) /\ queue' = [queue EXCEPT ![s] = Append(@, call[t].number)]
    BY <1>4 DEF Put
  <2> HIDE DEF c
  <2>4. Calm /\ call' \in [Threads -> Calls]
    BY <1>2, <2>2, <2>3, RunsCalm
  <2>5. Append(queue[s], call[t].number) \in Seq(Nat)
    BY <1>1, AppendProperties DEF TypeOK, DeliverCalls
  <2>6. QED
    BY <1>2, <2>3, <2>4, <2>5 DEF TypeOK, Sessions, registry
<1>5. QED
  BY <1>3, <1>4

LEMMA TailTyped ==
  ASSUME NEW s \in Seq(Nat)
  PROVE  (IF s = <<>> THEN s ELSE Tail(s)) \in Seq(Nat)
BY HeadTailProperties

LEMMA DropCalm ==
  ASSUME TypeOK, NEW t \in Threads, DropOldest(t)
  PROVE  TypeOK' /\ Calm
<1>1. call[t] \in FullCalls
  BY Shapes DEF TypeOK, DropOldest
<1>2. DEFINE c == [call[t] EXCEPT !.pc = "again"]
<1>3. c \in Calls /\ c.pc = "again"
  BY <1>1 DEF Calls, FullCalls
<1>4. Runs(t, c) /\ UNCHANGED <<registry, emitted, open, views, ready, syncs>>
  BY DEF DropOldest, registry
<1> HIDE DEF c
<1>5. Calm /\ call' \in [Threads -> Calls]
  BY <1>3, <1>4, RunsCalm
<1>6. queue' \in [Streams -> Seq(Nat)]
  <2>1. call[t].at \in Streams
    BY <1>1 DEF FullCalls
  <2>2. queue[call[t].at] \in Seq(Nat)
    BY <2>1 DEF TypeOK
  <2>3. QED
    BY <2>1, <2>2, TailTyped DEF DropOldest, TypeOK
<1>7. QED
  BY <1>4, <1>5, <1>6 DEF TypeOK, Sessions, registry

LEMMA AgainCalm ==
  ASSUME TypeOK, NEW t \in Threads, PutAgain(t)
  PROVE  TypeOK' /\ Calm
<1>1. call[t] \in FullCalls
  BY Shapes DEF TypeOK, PutAgain
<1>2. DEFINE s == call[t].at
             c == Delivering(call[t].event, call[t].number, call[t].left \ {s})
<1>3. c \in Calls /\ c.pc # "append" /\ s \in Streams
  BY <1>1, DeliveringIsCall DEF FullCalls
<1>4. Runs(t, c) /\ UNCHANGED <<registry, emitted, open, views, ready, syncs>>
  BY DEF PutAgain, registry
<1>5. queue' \in [Streams -> Seq(Nat)]
  <2>1. Append(queue[s], call[t].number) \in Seq(Nat)
    BY <1>1, <1>3, AppendProperties DEF TypeOK, FullCalls
  <2>2. QED
    BY <1>3, <2>1 DEF PutAgain, TypeOK
<1> HIDE DEF c
<1>6. Calm /\ call' \in [Threads -> Calls]
  BY <1>3, <1>4, RunsCalm
<1>7. QED
  BY <1>4, <1>5, <1>6 DEF TypeOK, Sessions, registry

LEMMA StreamsCalm ==
  ASSUME TypeOK, StreamStep
  PROVE  TypeOK' /\ Calm
<1>1. PICK s \in Streams : Subscribe(s) \/ Read(s) \/ Unsubscribe(s)
  BY DEF StreamStep
<1>2. UNCHANGED <<registry, emitted, views, ready, syncs, call>>
  BY <1>1 DEF Subscribe, Read, Unsubscribe, registry
<1>3. open' \subseteq Streams
  BY <1>1 DEF Subscribe, Read, Unsubscribe, TypeOK
<1>4. queue' \in [Streams -> Seq(Nat)]
  <2>1. CASE Subscribe(s)
    BY <2>1, EmptySeq DEF Subscribe, TypeOK
  <2>2. CASE Read(s)
    BY <2>2, HeadTailProperties DEF Read, TypeOK
  <2>3. CASE Unsubscribe(s)
    BY <2>3 DEF Unsubscribe, TypeOK
  <2>4. QED
    BY <1>1, <2>1, <2>2, <2>3
<1>5. QED
  BY <1>2, <1>3, <1>4 DEF TypeOK, Sessions, registry, Calm

(* Handlers that only decide what to do next.                               *)
LEMMA DecisionCalm ==
  ASSUME TypeOK, NEW t \in Threads, NEW c \in Calls, Runs(t, c),
         c.pc = "append" => c.event.type \notin Once,
         UNCHANGED <<registry, bus, views>>, ready' \in Labels, syncs' \in 0..MaxSyncs
  PROVE  TypeOK' /\ Calm
<1>1. UNCHANGED <<registry, emitted>>
  BY DEF bus
<1>2. Calm /\ call' \in [Threads -> Calls]
  BY <1>1, RunsCalm
<1>3. QED
  BY <1>2 DEF TypeOK, Sessions, registry, bus

LEMMA SessionRevision ==
  ASSUME TypeOK, NEW sid \in Sessions
  PROVE  sid \in Nat /\ pinned[sid] \in Labels
BY ElementOfSeq DEF TypeOK, Sessions

LEMMA AskSessionCalm ==
  ASSUME TypeOK, NEW t \in Threads, AskSession(t)
  PROVE  TypeOK' /\ Calm
<1>1. DEFINE c == [pc |-> "register", rev |-> ready]
<1>2. c \in Calls /\ c.pc # "append"
  BY DEF Calls, TypeOK
<1>3. Runs(t, c) /\ UNCHANGED <<registry, bus, views, ready, syncs>>
  BY DEF AskSession
<1> HIDE DEF c
<1>4. QED
  BY <1>2, <1>3, DecisionCalm DEF TypeOK

LEMMA RecordCalm ==
  ASSUME TypeOK, NEW t \in Threads, NEW sid \in Sessions, Record(t, sid)
  PROVE  TypeOK' /\ Calm
<1>1. DEFINE c == Emits(sid, "recorded", pinned[sid])
<1>2. c \in Calls /\ c.event.type = "recorded"
  BY SessionRevision, EmitsIsCall
<1>3. Runs(t, c) /\ UNCHANGED <<registry, bus, views, ready, syncs>>
  BY DEF Record
<1> HIDE DEF c
<1>4. QED
  BY <1>2, <1>3, DecisionCalm DEF TypeOK, Once

LEMMA PinCalm ==
  ASSUME TypeOK, NEW t \in Threads, NEW sid \in Sessions, NEW v \in 1..Len(emitted),
         Pin(t, sid, v)
  PROVE  TypeOK' /\ Calm
<1>1. DEFINE c == Emits(sid, "recorded", emitted[v].rev)
<1>2. c \in Calls /\ c.event.type = "recorded"
  <2>1. emitted[v] \in Event
    BY ElementOfSeq DEF TypeOK
  <2>2. emitted[v].rev \in Labels
    BY <2>1 DEF Event
  <2>3. QED
    BY <2>2, SessionRevision, EmitsIsCall
<1>3. Runs(t, c) /\ UNCHANGED <<registry, bus, views, ready, syncs>>
  BY DEF Pin
<1> HIDE DEF c
<1>4. QED
  BY <1>2, <1>3, DecisionCalm DEF TypeOK, Once

LEMMA QueryCalm ==
  ASSUME TypeOK, NEW t \in Threads, NEW sid \in Sessions, Query(t, sid)
  PROVE  TypeOK' /\ Calm
<1>1. DEFINE c == [pc |-> "label", sid |-> sid]
<1>2. c \in Calls /\ c.pc # "append"
  BY SessionRevision DEF Calls
<1>3. Runs(t, c) /\ UNCHANGED <<registry, bus, views, ready, syncs>>
  BY DEF Query
<1> HIDE DEF c
<1>4. QED
  BY <1>2, <1>3, DecisionCalm DEF TypeOK

LEMMA LabelCalm ==
  ASSUME TypeOK, NEW t \in Threads, Label(t)
  PROVE  TypeOK' /\ Calm
<1>1. DEFINE c == Emits(call[t].sid, "query", ready)
<1>2. c \in Calls /\ c.event.type = "query"
  <2>1. call[t].sid \in Nat /\ ready \in Labels
    BY Shapes DEF TypeOK, Label
  <2>2. QED
    BY <2>1, EmitsIsCall
<1>3. Runs(t, c) /\ UNCHANGED <<registry, bus, views, ready, syncs>>
  BY DEF Label
<1> HIDE DEF c
<1>4. QED
  BY <1>2, <1>3, DecisionCalm DEF TypeOK, Once

LEMMA AnswerCalm ==
  ASSUME TypeOK, NEW t \in Threads, Answer(t)
  PROVE  TypeOK' /\ Calm
<1>1. UNCHANGED <<registry, bus, views, ready, syncs>>
  BY DEF Answer
<1>2. DEFINE c == Emits(call[t].event.sid, "result", call[t].event.rev)
<1>3. CASE Runs(t, c)
  <2>1. call[t].event.sid \in Nat /\ call[t].event.rev \in Labels
    <3>1. call[t].event \in Event
      BY Shapes DEF TypeOK, Answer
    <3>2. QED
      BY <3>1 DEF Event
  <2>2. c \in Calls /\ c.event.type = "result"
    BY <2>1, EmitsIsCall
  <2> HIDE DEF c
  <2>3. QED
    BY <1>1, <1>3, <2>2, DecisionCalm DEF TypeOK, Once
<1>4. CASE Runs(t, Idle)
  BY <1>1, <1>4, IdleIsCall, DecisionCalm DEF TypeOK
<1>5. QED
  BY <1>3, <1>4 DEF Answer

LEMMA StoreCalm ==
  ASSUME TypeOK, NEW t \in Threads, StoreView(t)
  PROVE  TypeOK' /\ Calm
<1>1. Runs(t, Idle) /\ UNCHANGED <<registry, bus, emitted, open, queue, ready, syncs>>
  BY DEF StoreView, bus
<1>2. Calm /\ call' \in [Threads -> Calls]
  BY <1>1, IdleIsCall, RunsCalm
<1>3. views' \in Seq(Nat)
  <2>1. call[t].number \in Nat
    BY Shapes DEF TypeOK, StoreView
  <2>2. Append(views, call[t].number) \in Seq(Nat)
    BY <2>1, AppendProperties DEF TypeOK
  <2>3. QED
    BY <2>2, NewestTyped, BusBounds DEF StoreView
<1>4. QED
  BY <1>1, <1>2, <1>3 DEF TypeOK, Sessions, registry

LEMMA ResyncCalm ==
  ASSUME TypeOK, NEW t \in Threads, Resync(t)
  PROVE  TypeOK' /\ Calm
<1>1. PICK rev \in Labels : ready' = rev /\ Runs(t, Emits(NoSession, "sync", rev))
  BY DEF Resync
<1>2. DEFINE c == Emits(NoSession, "sync", rev)
<1>3. c \in Calls /\ c.event.type = "sync"
  BY EmitsIsCall DEF NoSession
<1>4. Runs(t, c) /\ UNCHANGED <<registry, bus, views>> /\ syncs' \in 0..MaxSyncs
  BY <1>1, ModelBounds DEF Resync, TypeOK
<1> HIDE DEF c
<1>5. QED
  BY <1>1, <1>3, <1>4, DecisionCalm DEF Once

-----------------------------------------------------------------------------
(* The steps that start sessions, complete them, and append events.           *)

LEMMA AppendKeeps ==
  ASSUME ServiceInv, NEW t \in Threads, AppendEvent(t)
  PROVE  ServiceInv'
<1>1. DEFINE e == call[t].event
             n == Len(emitted)
             c == Delivering(e, Len(emitted'), open)
<1>2. e \in Event /\ n \in Nat /\ TypeOK
  BY Shapes, LenProperties DEF ServiceInv, TypeOK, AppendEvent, AppendCalls
<1>3. /\ emitted' \in Seq(Event) /\ Len(emitted') = n + 1
      /\ \A i \in 1..n : emitted'[i] = emitted[i]
      /\ emitted'[n + 1] = e
  BY <1>2, AppendProperties DEF AppendEvent, TypeOK
<1>4. c \in Calls /\ c.pc # "append" /\ Runs(t, c)
  BY <1>2, <1>3, DeliveringIsCall DEF AppendEvent, TypeOK
<1>5. UNCHANGED <<ready, registry, open, queue, views, syncs>>
  BY DEF AppendEvent
<1>6. /\ call' \in [Threads -> Calls] /\ call'[t].pc # "append"
      /\ \A u \in Threads \ {t} : call'[u] = call[u]
  <2> HIDE DEF c
  <2>1. QED
    BY <1>2, <1>4, RunsTyped DEF TypeOK
<1> HIDE DEF c
<1>7. TypeOK'
  BY <1>2, <1>3, <1>5, <1>6 DEF TypeOK, Sessions, registry
<1>8. SessionsBounded'
  BY <1>5 DEF ServiceInv, SessionsBounded, registry
<1>9. ASSUME NEW type \in Once, OnceOK(type) PROVE OnceOK(type)'
  <2>1. \A u \in Threads : Due(u, type)' => u # t /\ Due(u, type) /\ call'[u] = call[u]
    BY <1>6 DEF Due
  <2>2. Sessions' = Sessions
    BY <1>5 DEF registry, Sessions
  <2>3. e.type = type => Due(t, type) /\ e.sid \in Sessions
    BY <1>9 DEF AppendEvent, Due, OnceOK
  <2>4. \A i \in 1..(n + 1) : i = n + 1 \/ i \in 1..n
    BY <1>2
  <2>5. \A i \in 1..Len(emitted') : emitted'[i].type = type => emitted'[i].sid \in Sessions'
    BY <1>9, <1>3, <2>2, <2>3, <2>4 DEF OnceOK
  <2>6. \A u \in Threads : Due(u, type)' => call'[u].event.sid \in Sessions'
    BY <1>9, <2>1, <2>2 DEF OnceOK
  <2>7. \A i \in 1..n : emitted[i].type = type /\ e.type = type => emitted[i].sid # e.sid
    BY <1>9, <2>3 DEF OnceOK
  <2>8. \A i, j \in 1..Len(emitted') :
          emitted'[i].type = type /\ emitted'[j].type = type /\ emitted'[i].sid = emitted'[j].sid
          => i = j
    BY <1>9, <1>3, <2>4, <2>7 DEF OnceOK
  <2>9. \A u \in Threads, i \in 1..Len(emitted') :
          Due(u, type)' /\ emitted'[i].type = type => emitted'[i].sid # call'[u].event.sid
    <3>1. \A u \in Threads \ {t} : Due(u, type) /\ e.type = type => call[u].event.sid # e.sid
      BY <1>9, <2>3 DEF OnceOK
    <3>2. QED
      BY <1>9, <1>3, <2>1, <2>4, <3>1 DEF OnceOK
  <2>10. \A u, v \in Threads :
           Due(u, type)' /\ Due(v, type)' /\ call'[u].event.sid = call'[v].event.sid => u = v
    BY <1>9, <2>1 DEF OnceOK
  <2>11. QED
    BY <2>5, <2>6, <2>8, <2>9, <2>10 DEF OnceOK
<1>10. Retired'
  <2>1. \A u \in Threads : Due(u, "completed")' => Due(u, "completed") /\ call'[u] = call[u]
    BY <1>6 DEF Due
  <2>2. e.type = "completed" => e.sid \notin active
    BY DEF ServiceInv, Retired, Due, AppendEvent
  <2>3. \A i \in 1..(n + 1) : i = n + 1 \/ i \in 1..n
    BY <1>2
  <2>4. active' = active
    BY <1>5 DEF registry
  <2>5. QED
    BY <1>3, <2>1, <2>2, <2>3, <2>4 DEF ServiceInv, Retired
<1>11. QED
  BY <1>7, <1>8, <1>9, <1>10 DEF ServiceInv, Once

LEMMA SessionsFinite ==
  ASSUME TypeOK
  PROVE  IsFiniteSet(active) /\ Cardinality(active) \in Nat /\ Len(finished) \in Nat
         /\ Len(pinned) \in Nat
<1>1. Len(pinned) \in Nat /\ Len(finished) \in Nat
  BY LenProperties DEF TypeOK
<1>2. IsFiniteSet(Sessions)
  BY <1>1, FS_Interval DEF Sessions
<1>3. IsFiniteSet(active)
  BY <1>2, FS_Subset DEF TypeOK
<1>4. QED
  BY <1>1, <1>3, FS_CardinalityType

LEMMA CompleteKeeps ==
  ASSUME ServiceInv, NEW t \in Threads, NEW sid \in Sessions, Complete(t, sid)
  PROVE  ServiceInv'
<1>1. TypeOK
  BY DEF ServiceInv
<1>2. DEFINE c == Emits(sid, "completed", pinned[sid])
<1>3. c \in Calls /\ c.pc = "append" /\ c.event.type = "completed" /\ c.event.sid = sid
  BY <1>1, SessionRevision, EmitsIsCall
<1>4. Runs(t, c) /\ UNCHANGED <<ready, pinned, bus, views, syncs>> /\ call[t] = Idle
  BY DEF Complete
<1> HIDE DEF c
<1>5. /\ call' \in [Threads -> Calls] /\ call'[t] = c
      /\ \A u \in Threads \ {t} : call'[u] = call[u]
  BY <1>1, <1>3, <1>4, RunsTyped DEF TypeOK
<1>6. active' = active \ {sid} /\ sid \in active /\ finished' = Append(finished, sid)
      /\ emitted' = emitted /\ Sessions' = Sessions
  BY <1>4 DEF Complete, bus, Sessions
<1>7. finished' \in Seq(Sessions) /\ Len(finished') = Len(finished) + 1
  BY <1>1, <1>6, AppendProperties DEF TypeOK
<1>8. TypeOK'
  BY <1>1, <1>4, <1>5, <1>6, <1>7 DEF TypeOK, bus
<1>9. SessionsBounded'
  <2>1. Cardinality(active') = Cardinality(active) - 1
    BY <1>1, <1>6, SessionsFinite, FS_RemoveElement
  <2>2. QED
    BY <1>1, <1>7, <2>1, SessionsFinite, SessionBounds DEF ServiceInv, SessionsBounded
<1>10. OnceOK("started")'
  <2>1. \A u \in Threads : Due(u, "started")' => Due(u, "started") /\ call'[u] = call[u]
    BY <1>3, <1>5 DEF Due
  <2>2. QED
    BY <1>6, <2>1 DEF ServiceInv, OnceOK
<1>11. OnceOK("completed")'
  <2>1. \A u \in Threads : Due(u, "completed")' =>
          \/ u = t /\ call'[u].event.sid = sid
          \/ u # t /\ Due(u, "completed") /\ call'[u] = call[u]
    BY <1>3, <1>5 DEF Due
  <2>2. \A u \in Threads : Due(u, "completed") => call[u].event.sid # sid
    BY <1>6 DEF ServiceInv, Retired
  <2>3. \A i \in 1..Len(emitted) : emitted[i].type = "completed" => emitted[i].sid # sid
    BY <1>6 DEF ServiceInv, Retired
  <2>4. QED
    BY <1>6, <2>1, <2>2, <2>3 DEF ServiceInv, OnceOK
<1>12. Retired'
  <2>1. \A u \in Threads : Due(u, "completed")' =>
          \/ call'[u].event.sid = sid
          \/ Due(u, "completed") /\ call'[u] = call[u]
    BY <1>3, <1>5 DEF Due
  <2>2. QED
    BY <1>6, <2>1 DEF ServiceInv, Retired
<1>13. QED
  BY <1>8, <1>9, <1>10, <1>11, <1>12 DEF ServiceInv

(* Completed sessions leave until there is room for the new one.             *)
LEMMA PrunedFits ==
  ASSUME TypeOK, NEW size \in Nat, size <= MaxActive, NEW sessions, Cardinality(sessions) = size
  PROVE  /\ Pruned(sessions) \in Seq(Sessions)
         /\ size + Len(Pruned(sessions)) <= SessionLimit
<1>1. /\ finished \in Seq(Sessions) /\ Len(finished) \in Nat
      /\ size <= SessionLimit /\ SessionLimit \in Nat
  BY SessionsFinite, SessionBounds DEF TypeOK
<1>2. CASE size + Len(finished) <= SessionLimit
  BY <1>1, <1>2 DEF Pruned
<1>3. CASE ~(size + Len(finished) <= SessionLimit)
  <2>1. DEFINE first == Excess(sessions) + 1
  <2>2. /\ first = size + Len(finished) - SessionLimit + 1
        /\ first \in 1..(Len(finished) + 1)
    BY <1>1, <1>3 DEF Excess
  <2>3. Pruned(sessions) = SubSeq(finished, first, Len(finished))
    BY <1>3 DEF Pruned
  <2> HIDE DEF first
  <2>4. /\ SubSeq(finished, first, Len(finished)) \in Seq(Sessions)
        /\ Len(SubSeq(finished, first, Len(finished)))
             = IF first <= Len(finished) THEN Len(finished) - first + 1 ELSE 0
    BY <1>1, <2>2, SubSeqProperties
  <2>5. QED
    BY <1>1, <2>2, <2>3, <2>4
<1>4. QED
  BY <1>2, <1>3

LEMMA RegisterKeeps ==
  ASSUME ServiceInv, NEW t \in Threads, Register(t)
  PROVE  ServiceInv'
<1>1. TypeOK
  BY DEF ServiceInv
<1>2. CASE TooMany
  <2>1. Runs(t, Idle) /\ UNCHANGED <<registry, bus, views, ready, syncs>>
    BY <1>2 DEF Register
  <2>2. TypeOK' /\ Calm
    BY <1>1, <2>1, IdleIsCall, DecisionCalm DEF TypeOK
  <2>3. QED
    BY <2>2, CalmKeeps
<1>3. CASE ~TooMany
  <2>1. DEFINE sid == Len(pinned) + 1
               c == Emits(sid, "started", call[t].rev)
  <2>2. call[t].rev \in Labels /\ sid \in Nat /\ sid \notin Sessions
    BY <1>1, Shapes, SessionsFinite DEF TypeOK, Register, Sessions
  <2>3. c \in Calls /\ c.pc = "append" /\ c.event.type = "started" /\ c.event.sid = sid
    BY <2>2, EmitsIsCall
  <2>4. /\ active' = active \cup {sid} /\ finished' = Pruned(active')
        /\ pinned' = Append(pinned, call[t].rev)
        /\ Runs(t, c) /\ UNCHANGED <<ready, bus, views, syncs>>
    BY <1>3 DEF Register
  <2> HIDE DEF c
  <2>5. /\ call' \in [Threads -> Calls] /\ call'[t] = c
        /\ \A u \in Threads \ {t} : call'[u] = call[u]
    BY <1>1, <2>3, <2>4, RunsTyped DEF TypeOK
  <2>6. pinned' \in Seq(Labels) /\ Len(pinned') = sid
    BY <1>1, <2>2, <2>4, AppendProperties DEF TypeOK
  <2>7. Sessions' = Sessions \cup {sid} /\ emitted' = emitted
    BY <1>1, <2>4, <2>6, SessionsFinite DEF Sessions, bus
  <2> HIDE DEF sid
  <2>8. Cardinality(active') = Cardinality(active) + 1 /\ Cardinality(active') <= MaxActive
        /\ Cardinality(active') \in Nat
    <3>1. sid \notin active
      BY <1>1, <2>2 DEF TypeOK
    <3>2. Cardinality(active') = Cardinality(active) + 1
      BY <1>1, <2>4, <3>1, SessionsFinite, FS_AddElement
    <3>3. QED
      BY <1>1, <1>3, <3>2, SessionsFinite, SessionBounds DEF TooMany
  <2>9. /\ finished' \in Seq(Sessions)
        /\ Cardinality(active') + Len(finished') <= SessionLimit
    BY <1>1, <2>4, <2>8, PrunedFits
  <2>10. TypeOK'
    <3>1. finished' \in Seq(Sessions')
      BY <2>7, <2>9, SeqMonotonic
    <3>2. active' \subseteq Sessions'
      BY <1>1, <2>4, <2>7 DEF TypeOK
    <3>3. QED
      BY <1>1, <2>4, <2>5, <2>6, <3>1, <3>2 DEF TypeOK, bus
  <2>11. SessionsBounded'
    BY <2>8, <2>9 DEF SessionsBounded
  <2>12. OnceOK("started")'
    <3>1. \A u \in Threads : Due(u, "started")' =>
            \/ u = t /\ call'[u].event.sid = sid
            \/ u # t /\ Due(u, "started") /\ call'[u] = call[u]
      BY <2>3, <2>5 DEF Due
    <3>2. \A u \in Threads : Due(u, "started") => call[u].event.sid # sid
      BY <2>2 DEF ServiceInv, OnceOK
    <3>3. \A i \in 1..Len(emitted) : emitted[i].type = "started" => emitted[i].sid # sid
      BY <2>2 DEF ServiceInv, OnceOK
    <3>4. QED
      BY <2>7, <3>1, <3>2, <3>3 DEF ServiceInv, OnceOK
  <2>13. \A u \in Threads : Due(u, "completed")' => Due(u, "completed") /\ call'[u] = call[u]
    BY <2>3, <2>5 DEF Due
  <2>14. OnceOK("completed")'
    BY <2>7, <2>13 DEF ServiceInv, OnceOK
  <2>15. Retired'
    <3>1. \A i \in 1..Len(emitted) : emitted[i].type = "completed" => emitted[i].sid # sid
      BY <2>2 DEF ServiceInv, OnceOK
    <3>2. \A u \in Threads : Due(u, "completed") => call[u].event.sid # sid
      BY <2>2 DEF ServiceInv, OnceOK
    <3>3. QED
      BY <2>4, <2>7, <2>13, <3>1, <3>2 DEF ServiceInv, Retired
  <2>16. QED
    BY <2>10, <2>11, <2>12, <2>14, <2>15 DEF ServiceInv
<1>4. QED
  BY <1>2, <1>3

LEMMA HandlerKeeps ==
  ASSUME ServiceInv, NEW t \in Threads, HandlerStep(t)
  PROVE  ServiceInv'
<1>1. TypeOK
  BY DEF ServiceInv
<1>2. CASE AppendEvent(t)
  BY <1>2, AppendKeeps
<1>3. CASE Register(t)
  BY <1>3, RegisterKeeps
<1>4. CASE \E s \in Streams : Put(t, s)
  BY <1>1, <1>4, PutCalm, CalmKeeps
<1>5. CASE DropOldest(t)
  BY <1>1, <1>5, DropCalm, CalmKeeps
<1>6. CASE PutAgain(t)
  BY <1>1, <1>6, AgainCalm, CalmKeeps
<1>7. CASE Label(t)
  BY <1>1, <1>7, LabelCalm, CalmKeeps
<1>8. CASE Answer(t)
  BY <1>1, <1>8, AnswerCalm, CalmKeeps
<1>9. CASE StoreView(t)
  BY <1>1, <1>9, StoreCalm, CalmKeeps
<1>10. QED
  BY <1>2, <1>3, <1>4, <1>5, <1>6, <1>7, <1>8, <1>9 DEF HandlerStep

LEMMA RequestKeeps ==
  ASSUME ServiceInv, NEW t \in Threads, Request(t)
  PROVE  ServiceInv'
<1>1. TypeOK
  BY DEF ServiceInv
<1>2. CASE AskSession(t)
  BY <1>1, <1>2, AskSessionCalm, CalmKeeps
<1>3. CASE Resync(t)
  BY <1>1, <1>3, ResyncCalm, CalmKeeps
<1>4. ASSUME NEW sid \in Sessions, Complete(t, sid) PROVE ServiceInv'
  BY <1>4, CompleteKeeps
<1>5. ASSUME NEW sid \in Sessions, Record(t, sid) PROVE ServiceInv'
  BY <1>1, <1>5, RecordCalm, CalmKeeps
<1>6. ASSUME NEW sid \in Sessions, Query(t, sid) PROVE ServiceInv'
  BY <1>1, <1>6, QueryCalm, CalmKeeps
<1>7. ASSUME NEW sid \in Sessions, NEW v \in 1..Len(emitted), Pin(t, sid, v) PROVE ServiceInv'
  BY <1>1, <1>7, PinCalm, CalmKeeps
<1>8. QED
  BY <1>2, <1>3, <1>4, <1>5, <1>6, <1>7 DEF Request

-----------------------------------------------------------------------------
(* The window: of its steps, only the report and the completion reach the     *)
(* service.                                                                 *)

LEMMA QuietKeeps ==
  ASSUME ServiceInv, UNCHANGED serviceVars
  PROVE  ServiceInv'
<1>1. TypeOK'
  BY DEF serviceVars, bus, registry, TypeOK, ServiceInv, Sessions
<1>2. Calm
  BY DEF serviceVars, bus, Calm
<1>3. QED
  BY <1>1, <1>2, CalmKeeps

LEMMA LeaveKeeps ==
  ASSUME ServiceInv, NEW t \in Threads, NEW sid, Leave(t, sid)
  PROVE  ServiceInv'
<1>1. CASE Complete(t, sid)
  <2>1. sid \in Sessions
    BY <1>1 DEF Complete, ServiceInv, TypeOK
  <2>2. QED
    BY <1>1, <2>1, CompleteKeeps
<1>2. CASE UNCHANGED serviceVars
  BY <1>2, QuietKeeps
<1>3. QED
  BY <1>1, <1>2 DEF Leave

LEMMA ReportKeeps ==
  ASSUME ServiceInv, NEW t \in Threads, Report(t)
  PROVE  ServiceInv'
<1>1. Record(t, log.sid)
  BY DEF Report
<1>2. log.sid \in Sessions /\ TypeOK
  BY <1>1 DEF Record, ViewContext, ServiceInv, TypeOK
<1>3. QED
  BY <1>1, <1>2, RecordCalm, CalmKeeps

LEMMA ClientKeeps ==
  ASSUME ServiceInv, Client
  PROVE  ServiceInv'
<1>1. ASSUME NEW t \in Threads, NEW sid \in leaving, Leave(t, sid) PROVE ServiceInv'
  BY <1>1, LeaveKeeps
<1>2. ASSUME NEW t \in Threads, Report(t) PROVE ServiceInv'
  BY <1>2, ReportKeeps
<1>3. ASSUME NEW sid \in Sessions, Begin(sid) PROVE UNCHANGED serviceVars
  BY <1>3 DEF Begin
<1>4. ASSUME NEW f \in fetching, ViewArrives(f) PROVE UNCHANGED serviceVars
  BY <1>4 DEF ViewArrives
<1>5. ASSUME Pause \/ Resume \/ Stop \/ Polling \/ Reported \/ ReportFails
      PROVE  UNCHANGED serviceVars
  BY <1>5 DEF Pause, Resume, Stop, Polling, Ask, Serve, Receive, Break, Ignore,
              Reported, ReportFails
<1>6. QED
  BY <1>1, <1>2, <1>3, <1>4, <1>5, QuietKeeps DEF Client

LEMMA ServiceStart ==
  ASSUME Init
  PROVE  ServiceInv
<1>1. /\ active = {} /\ finished = <<>> /\ pinned = <<>> /\ emitted = <<>>
      /\ \A t \in Threads : call[t].pc # "append"
  BY IdleIsCall DEF Init, ServiceInit
<1>2. TypeOK
  BY <1>1, IdleIsCall, ModelBounds, EmptySeq DEF Init, ServiceInit, TypeOK, Labels
<1>3. Cardinality(active) = 0 /\ Len(finished) = 0 /\ Len(emitted) = 0
  BY <1>1, FS_EmptySet
<1>4. SessionsBounded
  BY <1>3, SessionBounds DEF SessionsBounded
<1>5. \A type \in Once : OnceOK(type)
  BY <1>1, <1>3 DEF OnceOK, Due
<1>6. Retired
  BY <1>1, <1>3 DEF Retired, Due
<1>7. QED
  BY <1>2, <1>4, <1>5, <1>6 DEF ServiceInv, Once

LEMMA ServiceStep ==
  ASSUME ServiceInv, [Next]_vars
  PROVE  ServiceInv'
<1>1. ASSUME NEW t \in Threads, Handler(t) PROVE ServiceInv'
  BY <1>1, HandlerKeeps DEF Handler
<1>2. ASSUME NEW t \in Threads, Others(t) PROVE ServiceInv'
  BY <1>2, RequestKeeps DEF Others
<1>3. CASE Listeners
  <2>1. TypeOK' /\ Calm
    BY <1>3, StreamsCalm DEF Listeners, ServiceInv
  <2>2. QED
    BY <2>1, CalmKeeps
<1>4. CASE Client
  BY <1>4, ClientKeeps
<1>5. CASE UNCHANGED vars
  BY <1>5, QuietKeeps DEF vars
<1>6. QED
  BY <1>1, <1>2, <1>3, <1>4, <1>5 DEF Next

LEMMA ServiceHolds == Spec => []ServiceInv
<1>1. Init => ServiceInv
  BY ServiceStart
<1>2. ServiceInv /\ [Next]_vars => ServiceInv'
  BY ServiceStep
<1>3. QED
  BY <1>1, <1>2, PTL DEF Spec

(* However requests to start and complete sessions race, the registry keeps    *)
(* its bounds: the check and the insertion of register are one step under its *)
(* lock, and pruning makes room for as much as was added.                    *)
THEOREM SessionBound == Spec => []SessionsBounded
<1>1. ServiceInv => SessionsBounded
  BY DEF ServiceInv
<1>2. QED
  BY <1>1, ServiceHolds, PTL

(* A session is completed by one event, although complete() emits it after the *)
(* lock is released: between the two the session is already inactive.        *)
THEOREM OneCompletion == Spec => []CompletedOnce
<1>1. ServiceInv => CompletedOnce
  BY DEF ServiceInv, OnceOK, CompletedOnce
<1>2. QED
  BY <1>1, ServiceHolds, PTL

-----------------------------------------------------------------------------
(* The log of the window.                                                   *)

(* History only grows, and so does the list of sessions.                     *)
Grown ==
  /\ Len(emitted) <= Len(emitted')
  /\ \A i \in 1..Len(emitted) : emitted'[i] = emitted[i]
  /\ Len(pinned) <= Len(pinned')

LEMMA GreatestIsLast ==
  ASSUME NEW n \in Nat, NEW S \in SUBSET (1..n), S # {}
  PROVE  Greatest(S) \in S /\ \A j \in S : j <= Greatest(S)
<1>1. DEFINE T == {n - i : i \in S}
             less == {p \in Nat \X Nat : p[1] < p[2]}
<1>2. T \subseteq Nat /\ T # {}
  <2>1. \A i \in S : i \in Nat /\ n - i \in Nat
    OBVIOUS
  <2>2. PICK i \in S : TRUE
    OBVIOUS
  <2>3. n - i \in T
    BY <2>2
  <2>4. QED
    BY <2>1, <2>3
<1>3. IsWellFoundedOn(less, Nat)
  BY NatLessThanWellFounded DEF OpToRel
<1> HIDE DEF T
<1>4. PICK m \in T : \A y \in T : ~(<<y, m>> \in less)
  <2> HIDE DEF less
  <2>1. QED
    BY <1>2, <1>3, WFMin
<1>5. \A y \in T : m <= y
  <2>1. SUFFICES ASSUME NEW y \in T PROVE m <= y
    OBVIOUS
  <2>2. y \in Nat /\ m \in Nat
    BY <1>2
  <2>3. ~(y < m)
    <3>1. ASSUME y < m PROVE <<y, m>> \in less
      BY <2>2, <3>1
    <3>2. QED
      BY <1>4, <3>1
  <2>4. QED
    BY <2>2, <2>3
<1>6. PICK i \in S : m = n - i
  BY DEF T
<1>7. \A j \in S : j <= i
  BY <1>5, <1>6 DEF T
<1>8. QED
  BY <1>7 DEF Greatest

LEMMA EventsFinite ==
  ASSUME TypeOK, NEW S \in SUBSET (1..Len(emitted))
  PROVE  IsFiniteSet(S) /\ Cardinality(S) \in Nat
<1>1. Len(emitted) \in Nat
  BY LenProperties DEF TypeOK
<1>2. IsFiniteSet(1..Len(emitted))
  BY <1>1, FS_Interval
<1>3. QED
  BY <1>2, FS_Subset, FS_CardinalityType

(* A set of no more than n numbers is the n newest of them.                  *)
LEMMA NewestOfFew ==
  ASSUME TypeOK, NEW S \in SUBSET (1..Len(emitted)), NEW n \in Nat, Cardinality(S) <= n
  PROVE  NewestOf(S, n) = S
<1>1. ASSUME NEW i \in S PROVE Cardinality({j \in S : j > i}) < n
  <2>1. DEFINE later == {j \in S : j > i}
  <2>2. IsFiniteSet(S \ {i}) /\ Cardinality(S \ {i}) = Cardinality(S) - 1
        /\ Cardinality(S) \in Nat
    BY EventsFinite, FS_RemoveElement
  <2>3. later \in SUBSET (S \ {i})
    <3>1. i \in Nat
      OBVIOUS
    <3>2. QED
      BY <3>1
  <2>4. Cardinality(later) \in Nat
    BY EventsFinite
  <2> HIDE DEF later
  <2>5. Cardinality(later) <= Cardinality(S \ {i})
    BY <2>2, <2>3, FS_Subset
  <2>6. Cardinality(later) < n
    BY <2>2, <2>4, <2>5
  <2>7. QED
    BY <2>6 DEF later
<1>2. QED
  BY <1>1 DEF NewestOf

(* The ring holds no more than HistoryLimit events.                          *)
LEMMA HistoryIsBounded ==
  ASSUME TypeOK, NEW S \in SUBSET History
  PROVE  Cardinality(S) <= HistoryLimit /\ Cardinality(S) \in Nat
<1>1. DEFINE n == Len(emitted)
             span == (n - HistoryLimit + 1)..n
<1>2. n \in Nat /\ HistoryLimit \in Nat \ {0}
  BY LenProperties, BusBounds DEF TypeOK
<1>3. IsFiniteSet(span) /\ Cardinality(span) = HistoryLimit
  BY <1>2, FS_Interval
<1>4. S \in SUBSET span
  BY <1>2 DEF History
<1> HIDE DEF span
<1>5. QED
  BY <1>3, <1>4, FS_Subset, FS_CardinalityType

LogFields == {"sid", "cursor", "seen", "got", "accepts", "visible", "buffered", "dropped", "paused"}

(* A log over a history of n events.                                        *)
LogOf(l, n) ==
  /\ DOMAIN l = LogFields
  /\ {l.cursor} \cup l.got \cup l.visible \cup l.buffered \subseteq 1..n
  /\ DOMAIN l.seen \subseteq l.got /\ l.seen \in [DOMAIN l.seen -> Nat]
  /\ {l.dropped, l.accepts} \subseteq Nat /\ l.paused \in BOOLEAN

LogInv ==
  /\ begun \subseteq Sessions
  /\ Following => log.sid \in begun /\ LogOf(log, Len(emitted))
  /\ NeverSkips

(* A request for the followed session asks after its cursor, and an answer has *)
(* no hole between the cursor and its last event.                           *)
PollInv ==
  /\ poll.pc \in {"quiet", "asked", "answered", "gap", "failed"}
  /\ poll.pc # "quiet" => poll.sid \in begun
  /\ poll.pc = "asked" /\ Current => poll.cursor = log.cursor
  /\ poll.pc = "answered" =>
       /\ poll.batch \subseteq OfSession(poll.sid)
       /\ Cardinality(poll.batch) <= HistoryLimit
       /\ Current => \A b \in poll.batch, j \in OfSession(poll.sid) :
                       log.cursor < j /\ j <= b => j \in poll.batch

LEMMA HandlerGrows ==
  ASSUME TypeOK, NEW t \in Threads, HandlerStep(t)
  PROVE  Grown
<1>1. CASE AppendEvent(t)
  <2>1. call[t].event \in Event
    BY <1>1, Shapes DEF TypeOK, AppendEvent, AppendCalls
  <2>2. Len(emitted) \in Nat /\ Len(pinned) \in Nat
    BY LenProperties DEF TypeOK
  <2>3. QED
    BY <1>1, <2>1, <2>2, AppendProperties DEF AppendEvent, TypeOK, Grown, registry
<1>2. CASE Register(t)
  <2>1. call[t].rev \in Labels
    BY <1>2, Shapes DEF TypeOK, Register
  <2>2. pinned' = pinned \/ pinned' = Append(pinned, call[t].rev)
    BY <1>2 DEF Register, registry
  <2>3. emitted' = emitted /\ Len(emitted) \in Nat /\ Len(pinned) \in Nat
    BY <1>2, LenProperties DEF Register, bus, TypeOK
  <2>4. QED
    BY <2>1, <2>2, <2>3, AppendProperties DEF TypeOK, Grown
<1>3. CASE UNCHANGED <<emitted, pinned>>
  BY <1>3, LenProperties DEF TypeOK, Grown
<1>4. QED
  BY <1>1, <1>2, <1>3 DEF HandlerStep, Put, DropOldest, PutAgain, Label, Answer, StoreView,
                         registry, bus

LEMMA OthersLeaveHistory ==
  ASSUME NEW t \in Threads, Request(t) \/ StreamStep \/ Client
  PROVE  UNCHANGED <<emitted, pinned>>
<1>1. CASE Request(t)
  BY <1>1 DEF Request, AskSession, Resync, Complete, Record, Query, Pin, registry, bus
<1>2. CASE StreamStep
  BY <1>2 DEF StreamStep, Subscribe, Read, Unsubscribe, registry
<1>3. CASE Client
  <2>1. ASSUME NEW u \in Threads, NEW sid \in leaving, Leave(u, sid)
        PROVE  UNCHANGED <<emitted, pinned>>
    BY <2>1 DEF Leave, Complete, bus, registry, serviceVars
  <2>2. ASSUME NEW u \in Threads, Report(u) PROVE UNCHANGED <<emitted, pinned>>
    BY <2>2 DEF Report, Record, bus, registry
  <2>3. CASE UNCHANGED serviceVars
    BY <2>3 DEF serviceVars, bus, registry
  <2>4. QED
    BY <1>3, <2>1, <2>2, <2>3
       DEF Client, Begin, ViewArrives, Pause, Resume, Stop, Polling, Ask, Serve, Receive,
           Break, Ignore, Reported, ReportFails
<1>4. QED
  BY <1>1, <1>2, <1>3

(* Old events keep their sessions.                                          *)
LEMMA OldEvents ==
  ASSUME TypeOK, TypeOK', Grown, NEW sid
  PROVE  /\ 1..Len(emitted) \subseteq 1..Len(emitted')
         /\ Sessions \subseteq Sessions'
         /\ OfSession(sid) \subseteq OfSession(sid)'
         /\ \A j \in OfSession(sid)' : j <= Len(emitted) => j \in OfSession(sid)
<1>1. /\ Len(emitted) \in Nat /\ Len(emitted') \in Nat
      /\ Len(pinned) \in Nat /\ Len(pinned') \in Nat
  BY LenProperties DEF TypeOK
<1>2. QED
  BY <1>1 DEF Grown, Sessions, OfSession

(* Steps that leave the log alone.                                          *)
LEMMA LogKept ==
  ASSUME TypeOK, TypeOK', LogInv, Grown, UNCHANGED <<log, begun>>
  PROVE  LogInv'
<1>1. begun' \subseteq Sessions'
  BY OldEvents DEF LogInv
<1>2. Following' => log'.sid \in begun' /\ LogOf(log', Len(emitted'))
  BY OldEvents DEF LogInv, Following, LogOf
<1>3. NeverSkips'
  <2>1. SUFFICES ASSUME Following, NEW i \in OfSession(log.sid)', NEW j \in OfSession(log.sid)',
                        emitted'[i].type = "started", i <= j, j <= log.cursor
                 PROVE  j \in log.got
    BY DEF NeverSkips, Following
  <2>2. log.cursor \in 1..Len(emitted) /\ Len(emitted) \in Nat
    BY <2>1, LenProperties DEF LogInv, LogOf, TypeOK
  <2>3. i \in 1..Len(emitted) /\ j \in 1..Len(emitted)
    <3>1. i \in Nat /\ j \in Nat /\ 1 <= i /\ 1 <= j
      BY LenProperties DEF OfSession, TypeOK
    <3>2. QED
      BY <2>1, <2>2, <3>1
  <2>4. i \in OfSession(log.sid) /\ j \in OfSession(log.sid) /\ emitted[i].type = "started"
    <3>1. i \in OfSession(log.sid) /\ j \in OfSession(log.sid)
      BY <2>2, <2>3, OldEvents
    <3>2. QED
      BY <2>1, <2>3, <3>1 DEF Grown
  <2>5. QED
    BY <2>1, <2>4 DEF LogInv, NeverSkips
<1>4. QED
  BY <1>1, <1>2, <1>3 DEF LogInv

(* Steps that leave the poll alone and do not move the cursor.                *)
LEMMA PollKept ==
  ASSUME TypeOK, TypeOK', LogInv, PollInv, Grown, UNCHANGED poll, begun \subseteq begun',
         Current' => Current /\ log'.cursor = log.cursor
  PROVE  PollInv'
<1>1. /\ poll'.pc \in {"quiet", "asked", "answered", "gap", "failed"}
      /\ poll'.pc # "quiet" => poll'.sid \in begun'
      /\ poll'.pc = "asked" /\ Current' => poll'.cursor = log'.cursor
  BY DEF PollInv
<1>2. /\ OfSession(poll.sid) \subseteq OfSession(poll.sid)'
      /\ \A j \in OfSession(poll.sid)' : j <= Len(emitted) => j \in OfSession(poll.sid)
  <2>1. Len(emitted) \in Nat /\ Len(emitted') \in Nat
    BY LenProperties DEF TypeOK
  <2>2. QED
    BY <2>1 DEF OfSession, Grown
<1>3. ASSUME poll.pc = "answered"
      PROVE  /\ poll.batch \subseteq OfSession(poll.sid)'
             /\ Cardinality(poll.batch) <= HistoryLimit
  BY <1>2, <1>3 DEF PollInv
<1>4. ASSUME poll.pc = "answered", Current', NEW b \in poll.batch, NEW j \in OfSession(poll.sid)',
             log.cursor < j, j <= b
      PROVE  j \in poll.batch
  <2>1. b \in 1..Len(emitted) /\ Len(emitted) \in Nat /\ j \in Nat
    BY <1>4, LenProperties DEF PollInv, OfSession, TypeOK
  <2>2. j \in OfSession(poll.sid)
    BY <1>2, <1>4, <2>1
  <2>3. QED
    BY <1>4, <2>2 DEF PollInv
<1>5. QED
  BY <1>1, <1>3, <1>4 DEF PollInv

(* What ingest makes of the log.                                            *)
LEMMA IngestIsLog ==
  ASSUME TypeOK, LogInv, Following, NEW S \in SUBSET (1..Len(emitted)), NEW advance \in BOOLEAN
  PROVE  LET mine == OwnRevision(NewestOf(S, ClientHistory))
             l == Ingest(S, advance)
         IN  /\ LogOf(l, Len(emitted))
             /\ l.sid = log.sid
             /\ l.got = log.got \cup mine
             /\ l.cursor = IF advance /\ mine # {} THEN Greatest(mine) ELSE log.cursor
<1>1. DEFINE mine == OwnRevision(NewestOf(S, ClientHistory))
             accepted == mine \ DOMAIN log.seen
             combined == log.buffered \cup accepted
             numbered == Numbered(log.seen, accepted, log.accepts)
             fresh == Remember(numbered)
             cursor == IF advance /\ mine # {} THEN Greatest(mine) ELSE log.cursor
             noted == [log EXCEPT !.cursor = cursor,
                                  !.seen = fresh,
                                  !.got = @ \cup accepted,
                                  !.accepts = @ + Cardinality(accepted)]
             kept == NewestOf(combined, BufferLimit)
<1>2. LogOf(log, Len(emitted)) /\ Len(emitted) \in Nat
  BY LenProperties DEF LogInv, TypeOK
<1>3. mine \in SUBSET (1..Len(emitted)) /\ accepted \in SUBSET (1..Len(emitted))
  BY DEF OwnRevision, NewestOf
<1>4. Cardinality(accepted) \in Nat
  BY <1>3, EventsFinite
<1>5. cursor \in 1..Len(emitted)
  BY <1>2, <1>3, GreatestIsLast DEF LogOf
<1>6. combined \in SUBSET (1..Len(emitted)) /\ kept \in SUBSET combined
      /\ NewestOf(log.visible \cup accepted, ClientHistory) \in SUBSET (1..Len(emitted))
  BY <1>2, <1>3 DEF LogOf, NewestOf
<1>7. Cardinality(combined \ kept) \in Nat
  BY <1>6, EventsFinite
<1>8. /\ DOMAIN Remember(numbered) \subseteq log.got \cup accepted
      /\ Remember(numbered) \in [DOMAIN Remember(numbered) -> Nat]
  <2>1. DOMAIN numbered = DOMAIN log.seen \cup accepted
    BY DEF Numbered
  <2>2. \A i \in DOMAIN numbered : numbered[i] \in Nat
    <3>1. SUFFICES ASSUME NEW i \in DOMAIN numbered PROVE numbered[i] \in Nat
      OBVIOUS
    <3>2. CASE i \in accepted
      <4>1. Cardinality({j \in accepted : j < i}) \in Nat
        <5>1. {j \in accepted : j < i} \in SUBSET (1..Len(emitted))
          BY <1>3
        <5>2. QED
          BY <5>1, EventsFinite
      <4>2. numbered[i] = log.accepts + Cardinality({j \in accepted : j < i})
        BY <2>1, <3>2 DEF Numbered
      <4>3. log.accepts \in Nat
        BY <1>2 DEF LogOf
      <4>4. QED
        BY <4>1, <4>2, <4>3
    <3>3. CASE i \notin accepted
      <4>1. numbered[i] = log.seen[i] /\ i \in DOMAIN log.seen
        BY <2>1, <3>3 DEF Numbered
      <4>2. QED
        BY <1>2, <4>1 DEF LogOf
    <3>4. QED
      BY <3>2, <3>3
  <2> HIDE DEF numbered
  <2>3. DOMAIN Remember(numbered) \subseteq DOMAIN numbered
        /\ \A i \in DOMAIN Remember(numbered) : Remember(numbered)[i] = numbered[i]
    BY DEF Remember, Restrict
  <2>4. Remember(numbered) = [i \in DOMAIN Remember(numbered) |-> Remember(numbered)[i]]
    BY DEF Remember, Restrict
  <2>5. log.got \cup accepted = log.got \cup mine /\ DOMAIN log.seen \subseteq log.got
    BY <1>2 DEF LogOf
  <2>6. QED
    BY <2>1, <2>2, <2>3, <2>4, <2>5
<1>9. log.got \cup accepted = log.got \cup mine
  BY <1>2 DEF LogOf
<1>10. Ingest(S, advance) =
         IF log.paused
         THEN [noted EXCEPT !.buffered = kept, !.dropped = @ + Cardinality(combined \ kept)]
         ELSE [noted EXCEPT !.visible = NewestOf(@ \cup accepted, ClientHistory)]
  BY DEF Ingest
<1> DEFINE shown == NewestOf(log.visible \cup accepted, ClientHistory)
<1>11. /\ DOMAIN noted = LogFields
       /\ noted.sid = log.sid /\ noted.cursor = cursor /\ noted.seen = fresh
       /\ noted.got = log.got \cup accepted /\ noted.accepts = log.accepts + Cardinality(accepted)
       /\ noted.visible = log.visible /\ noted.buffered = log.buffered
       /\ noted.dropped = log.dropped /\ noted.paused = log.paused
  <2> HIDE DEF accepted, cursor, fresh
  <2>1. QED
    BY <1>2 DEF LogOf, LogFields
<1> HIDE DEF noted, cursor, fresh, accepted, kept, combined, shown, mine
<1>12. CASE log.paused
  <2>1. DEFINE l == [noted EXCEPT !.buffered = kept,
                                  !.dropped = @ + Cardinality(combined \ kept)]
  <2>2. /\ DOMAIN l = LogFields
        /\ l.sid = log.sid /\ l.cursor = cursor /\ l.seen = fresh
        /\ l.got = log.got \cup accepted /\ l.accepts = log.accepts + Cardinality(accepted)
        /\ l.visible = log.visible /\ l.buffered = kept
        /\ l.dropped = log.dropped + Cardinality(combined \ kept) /\ l.paused = log.paused
    BY <1>11 DEF LogFields
  <2> HIDE DEF l
  <2>3. LogOf(l, Len(emitted))
    <3>1. {l.cursor} \cup l.got \cup l.visible \cup l.buffered \subseteq 1..Len(emitted)
      BY <1>2, <1>3, <1>5, <1>6, <2>2 DEF LogOf
    <3>2. DOMAIN l.seen \subseteq l.got /\ l.seen \in [DOMAIN l.seen -> Nat]
      BY <1>8, <2>2 DEF fresh
    <3>3. {l.dropped, l.accepts} \subseteq Nat /\ l.paused \in BOOLEAN
      BY <1>2, <1>4, <1>7, <2>2 DEF LogOf
    <3>4. QED
      BY <2>2, <3>1, <3>2, <3>3 DEF LogOf
  <2>4. QED
    BY <1>9, <1>10, <1>12, <2>2, <2>3 DEF l, mine, cursor
<1>13. CASE ~log.paused
  <2>1. DEFINE l == [noted EXCEPT !.visible = NewestOf(@ \cup accepted, ClientHistory)]
  <2>2. /\ DOMAIN l = LogFields
        /\ l.sid = log.sid /\ l.cursor = cursor /\ l.seen = fresh
        /\ l.got = log.got \cup accepted /\ l.accepts = log.accepts + Cardinality(accepted)
        /\ l.visible = shown /\ l.buffered = log.buffered
        /\ l.dropped = log.dropped /\ l.paused = log.paused
    BY <1>11 DEF LogFields, shown
  <2> HIDE DEF l
  <2>3. LogOf(l, Len(emitted))
    <3>1. {l.cursor} \cup l.got \cup l.visible \cup l.buffered \subseteq 1..Len(emitted)
      BY <1>2, <1>3, <1>5, <1>6, <2>2 DEF LogOf, shown
    <3>2. DOMAIN l.seen \subseteq l.got /\ l.seen \in [DOMAIN l.seen -> Nat]
      BY <1>8, <2>2 DEF fresh
    <3>3. {l.dropped, l.accepts} \subseteq Nat /\ l.paused \in BOOLEAN
      BY <1>2, <1>4, <2>2 DEF LogOf
    <3>4. QED
      BY <2>2, <3>1, <3>2, <3>3 DEF LogOf
  <2>4. QED
    BY <1>9, <1>10, <1>13, <2>2, <2>3 DEF l, mine, cursor
<1>14. QED
  BY <1>12, <1>13

(* Steps that change what the log shows, and not the cursor.                 *)
LEMMA LogEdited ==
  ASSUME TypeOK, LogInv, UNCHANGED <<emitted, pinned, begun>>, Following,
         log'.sid = log.sid, log'.cursor = log.cursor, log.got \subseteq log'.got,
         LogOf(log', Len(emitted))
  PROVE  LogInv' /\ ((Current' => Current /\ log'.cursor = log.cursor) \/ poll' # poll)
<1>1. emitted' = emitted /\ Sessions' = Sessions /\ begun' = begun
  BY DEF Sessions
<1>2. Following' => log'.sid \in begun' /\ LogOf(log', Len(emitted'))
  BY <1>1 DEF LogInv
<1>3. NeverSkips'
  BY <1>1 DEF LogInv, NeverSkips, Following, OfSession
<1>4. QED
  BY <1>1, <1>2, <1>3 DEF LogInv, Current, Following

(* The session that is forgotten.                                           *)
LEMMA LogDropped ==
  ASSUME LogInv, log' = NoLog, UNCHANGED <<emitted, pinned, begun>>
  PROVE  LogInv' /\ ~Current'
BY DEF LogInv, NoLog, Following, NeverSkips, Current, Sessions

LEMMA QuietPoll ==
  ASSUME poll' = Quiet
  PROVE  PollInv'
<1>1. poll'.pc = "quiet"
  BY DEF Quiet
<1>2. QED
  BY <1>1 DEF PollInv

LEMMA UnchangedGrows ==
  ASSUME TypeOK, UNCHANGED <<emitted, pinned>>
  PROVE  Grown
BY LenProperties DEF TypeOK, Grown

(* The log is seeded with the only session_started of its session.            *)
LEMMA BeginKeeps ==
  ASSUME ServiceInv, ServiceInv', LogInv, PollInv, NEW sid \in Sessions, Begin(sid)
  PROVE  LogInv' /\ PollInv'
<1>1. UNCHANGED <<emitted, pinned, poll>> /\ TypeOK /\ TypeOK' /\ sid \notin begun
      /\ begun' = begun \cup {sid}
  BY DEF Begin, serviceVars, bus, registry, ServiceInv
<1>2. PICK i \in OfSession(sid) :
        /\ emitted[i].type = "started"
        /\ log' = [sid |-> sid, cursor |-> i, seen |-> [j \in {i} |-> 0], got |-> {i},
                   accepts |-> 1, visible |-> {i}, buffered |-> {}, dropped |-> 0,
                   paused |-> FALSE]
  BY DEF Begin
<1>3. i \in 1..Len(emitted) /\ Len(emitted) \in Nat
  BY <1>1, LenProperties DEF OfSession, TypeOK
<1>4. begun' \subseteq Sessions' /\ emitted' = emitted
  BY <1>1 DEF LogInv, Sessions
<1>5. LogOf(log', Len(emitted'))
  BY <1>2, <1>3, <1>4 DEF LogOf, LogFields
<1>6. NeverSkips'
  <2>1. \A j, k \in OfSession(sid) :
          emitted[j].type = "started" /\ j <= k /\ k <= i => k \in {i}
    <3>1. \A j \in OfSession(sid) : emitted[j].type = "started" => j = i
      BY <1>2 DEF ServiceInv, OnceOK, OfSession
    <3>2. SUFFICES ASSUME NEW j \in OfSession(sid), NEW k \in OfSession(sid),
                          emitted[j].type = "started", j <= k, k <= i
                   PROVE  k = i
      OBVIOUS
    <3>3. j = i /\ k \in Nat /\ i \in Nat
      BY <1>3, <3>1, <3>2 DEF OfSession
    <3>4. QED
      BY <3>2, <3>3
  <2>2. log'.sid = sid /\ log'.cursor = i /\ log'.got = {i}
    BY <1>2
  <2>3. QED
    BY <1>4, <2>1, <2>2 DEF NeverSkips, OfSession
<1>7. LogInv'
  BY <1>1, <1>2, <1>4, <1>5, <1>6 DEF LogInv
<1>8. PollInv'
  <2>1. poll.pc # "quiet" => ~Current'
    BY <1>1, <1>2 DEF PollInv, Current
  <2>2. emitted' = emitted
    BY <1>4
  <2>3. QED
    BY <1>1, <2>1, <2>2 DEF PollInv, OfSession
<1>9. QED
  BY <1>7, <1>8

LEMMA PauseKeeps ==
  ASSUME ServiceInv, ServiceInv', LogInv, PollInv, Pause \/ Resume
  PROVE  LogInv' /\ PollInv'
<1>1. /\ UNCHANGED <<emitted, pinned, poll, begun>> /\ TypeOK /\ TypeOK' /\ Following
      /\ LogOf(log, Len(emitted))
  BY DEF Pause, Resume, serviceVars, bus, registry, ServiceInv, LogInv
<1>2. /\ log'.sid = log.sid /\ log'.cursor = log.cursor /\ log'.got = log.got
      /\ LogOf(log', Len(emitted))
  <2>1. CASE Pause
    BY <1>1, <2>1 DEF Pause, LogOf, LogFields
  <2>2. CASE Resume
    <3>1. log' = [log EXCEPT !.paused = FALSE, !.buffered = {},
                             !.visible = NewestOf(log.visible \cup log.buffered, ClientHistory)]
      BY <2>2 DEF Resume
    <3>2. NewestOf(log.visible \cup log.buffered, ClientHistory) \subseteq 1..Len(emitted)
      BY <1>1 DEF LogOf, NewestOf
    <3>3. QED
      BY <1>1, <3>1, <3>2 DEF LogOf, LogFields
  <2>3. QED
    BY <2>1, <2>2
<1>3. LogInv' /\ (Current' => Current /\ log'.cursor = log.cursor)
  BY <1>1, <1>2, LogEdited DEF Current, Following
<1>4. QED
  BY <1>1, <1>3, UnchangedGrows, PollKept

LEMMA AskKeeps ==
  ASSUME ServiceInv, ServiceInv', LogInv, PollInv, Ask
  PROVE  LogInv' /\ PollInv'
<1>1. /\ UNCHANGED <<emitted, pinned, log, begun>> /\ TypeOK /\ TypeOK'
      /\ poll' = [pc |-> "asked", sid |-> log.sid, cursor |-> log.cursor]
      /\ log.sid \in begun
  BY DEF Ask, serviceVars, bus, registry, ServiceInv, LogInv
<1>2. LogInv'
  BY <1>1, UnchangedGrows, LogKept
<1>3. PollInv'
  BY <1>1 DEF PollInv
<1>4. QED
  BY <1>2, <1>3

(* An answer has no hole, because the cursor was still in the ring.           *)
LEMMA ServeKeeps ==
  ASSUME ServiceInv, ServiceInv', LogInv, PollInv, Serve
  PROVE  LogInv' /\ PollInv'
<1>1. /\ UNCHANGED <<emitted, pinned, log, begun>> /\ TypeOK /\ TypeOK'
      /\ poll.pc = "asked" /\ poll.sid \in begun
  BY DEF Serve, serviceVars, bus, registry, ServiceInv, PollInv
<1>2. LogInv'
  BY <1>1, UnchangedGrows, LogKept
<1>3. CASE poll' = Recent(poll.sid, poll.cursor)
  <2>1. CASE poll' = [pc |-> "failed", sid |-> poll.sid] \/ poll' = [pc |-> "gap", sid |-> poll.sid]
    BY <1>1, <1>2, <2>1 DEF PollInv
  <2>2. CASE /\ poll.cursor \in Retained(poll.sid)
             /\ poll' = [pc |-> "answered", sid |-> poll.sid,
                         batch |-> {i \in Retained(poll.sid) : i > poll.cursor}]
    <3>1. DEFINE batch == {i \in Retained(poll.sid) : i > poll.cursor}
    <3>2. poll'.pc = "answered" /\ poll'.sid = poll.sid /\ poll'.batch = batch
      BY <2>2
    <3>3. batch \subseteq OfSession(poll.sid) /\ batch \in SUBSET History
      BY DEF Retained
    <3>4. Cardinality(batch) <= HistoryLimit
      BY <1>1, <3>3, HistoryIsBounded
    <3>5. ASSUME Current, NEW b \in batch, NEW j \in OfSession(poll.sid), log.cursor < j
          PROVE  j \in batch
      <4>1. poll.cursor = log.cursor
        BY <1>1, <3>5 DEF PollInv
      <4>2. Len(emitted) \in Nat /\ HistoryLimit \in Nat /\ log.cursor \in History
            /\ j \in 1..Len(emitted)
        BY <1>1, <2>2, <4>1, LenProperties, BusBounds DEF TypeOK, Retained, OfSession
      <4>3. j \in History
        BY <3>5, <4>2 DEF History
      <4>4. QED
        BY <3>5, <4>1, <4>2, <4>3 DEF Retained
    <3> HIDE DEF batch
    <3>6. QED
      BY <1>1, <1>2, <3>2, <3>3, <3>4, <3>5 DEF PollInv, Current, Following, OfSession
  <2>3. QED
    BY <1>3, <2>1, <2>2 DEF Recent
<1>4. CASE poll' = [pc |-> "failed", sid |-> poll.sid]
  BY <1>1, <1>2, <1>4 DEF PollInv
<1>5. QED
  BY <1>2, <1>3, <1>4 DEF Serve

(* The whole of an answer is accepted: it fits into what the log keeps.        *)
LEMMA ReceiveKeeps ==
  ASSUME ServiceInv, ServiceInv', LogInv, PollInv, Receive
  PROVE  LogInv' /\ PollInv'
<1>1. DEFINE batch == poll.batch
<1>2. /\ UNCHANGED <<emitted, pinned, begun>> /\ TypeOK /\ poll.pc = "answered" /\ Current
      /\ Following /\ log' = Ingest(batch, TRUE) /\ poll' = Quiet
      /\ NewestOf(batch, ClientHistory) = OwnRevision(NewestOf(batch, ClientHistory))
  BY DEF Receive, serviceVars, bus, registry, ServiceInv, Current, WrongRevision
<1>3. /\ batch \subseteq OfSession(log.sid) /\ Cardinality(batch) <= HistoryLimit
      /\ batch \in SUBSET (1..Len(emitted)) /\ Cardinality(batch) \in Nat
      /\ \A b \in batch, j \in OfSession(log.sid) : log.cursor < j /\ j <= b => j \in batch
  <2>1. batch \in SUBSET (1..Len(emitted))
    BY <1>2 DEF PollInv, OfSession
  <2>2. QED
    BY <1>2, <2>1, EventsFinite DEF PollInv, Current
<1> HIDE DEF batch
<1>4. NewestOf(batch, ClientHistory) = batch
  <2>1. Cardinality(batch) <= ClientHistory /\ ClientHistory \in Nat
    BY <1>3, LogBounds, BusBounds
  <2>2. QED
    BY <1>2, <1>3, <2>1, NewestOfFew
<1>5. /\ LogOf(log', Len(emitted)) /\ log'.sid = log.sid
      /\ log'.got = log.got \cup batch
      /\ log'.cursor = IF batch # {} THEN Greatest(batch) ELSE log.cursor
  BY <1>2, <1>3, <1>4, IngestIsLog
<1>6. Len(emitted) \in Nat /\ log.cursor \in 1..Len(emitted) /\ log.sid \in begun
  BY <1>2, LenProperties DEF LogInv, LogOf, TypeOK
<1>7. NeverSkips'
  <2>1. SUFFICES ASSUME NEW i \in OfSession(log.sid), NEW j \in OfSession(log.sid),
                        emitted[i].type = "started", i <= j, j <= log'.cursor
                 PROVE  j \in log'.got
    BY <1>2, <1>5 DEF NeverSkips, OfSession
  <2>2. j \in Nat
    BY DEF OfSession
  <2>3. CASE j <= log.cursor
    BY <1>2, <1>5, <2>1, <2>3 DEF LogInv, NeverSkips
  <2>4. CASE ~(j <= log.cursor)
    <3>1. batch # {}
      BY <1>5, <2>1, <2>4
    <3>2. Greatest(batch) \in batch /\ j <= Greatest(batch)
      BY <1>3, <1>5, <1>6, <2>1, <3>1, GreatestIsLast
    <3>3. log.cursor < j
      BY <1>6, <2>2, <2>4
    <3>4. QED
      BY <1>3, <1>5, <3>2, <3>3
  <2>5. QED
    BY <2>3, <2>4
<1>8. LogInv'
  BY <1>2, <1>5, <1>6, <1>7 DEF LogInv, Sessions
<1>9. QED
  BY <1>2, <1>8, QuietPoll

-----------------------------------------------------------------------------
(* The rest of the window.                                                  *)

Fetches(n) == [sid : begun, ref : 1..n]
Reports(n) == [sid : begun \cup {NoSession}, by : Threads \cup {NoThread}, number : 0..n]

RestInv ==
  /\ base \in 0..Len(emitted) /\ (base # 0 => Following)
  /\ misses \in [1..MaxEvents -> Nat]
  /\ fetching \subseteq Fetches(Len(emitted))
  /\ report \in Reports(Len(emitted))
  /\ leaving \subseteq begun
  /\ pauses \in 0..MaxPauses /\ faults \in 0..MaxFaults

ClientInv == LogInv /\ PollInv /\ RestInv

LEMMA RestKept ==
  ASSUME TypeOK, TypeOK', Grown, begun \subseteq begun',
         base' \in 0..Len(emitted), base' # 0 => Following',
         misses' \in [1..MaxEvents -> Nat],
         fetching' \subseteq Fetches(Len(emitted)),
         report' \in Reports(Len(emitted)) \cup Reports(Len(emitted')),
         leaving' \subseteq begun',
         pauses' \in 0..MaxPauses, faults' \in 0..MaxFaults
  PROVE  RestInv'
<1>1. Len(emitted) \in Nat /\ Len(emitted') \in Nat /\ Len(emitted) <= Len(emitted')
  BY LenProperties DEF TypeOK, Grown
<1>2. 0..Len(emitted) \subseteq 0..Len(emitted') /\ 1..Len(emitted) \subseteq 1..Len(emitted')
  BY <1>1
<1>3. fetching' \subseteq [sid : begun', ref : 1..Len(emitted')]
  BY <1>2 DEF Fetches
<1>4. report' \in [sid : begun' \cup {NoSession}, by : Threads \cup {NoThread},
                   number : 0..Len(emitted')]
  BY <1>2 DEF Reports
<1>5. QED
  BY <1>2, <1>3, <1>4 DEF RestInv, Fetches, Reports

LEMMA ResolveTyped ==
  ASSUME RestInv, NEW l, l.sid \in begun, l.visible \subseteq 1..Len(emitted), Resolve(l)
  PROVE  fetching' \subseteq Fetches(Len(emitted))
<1>1. Wanted(l) \subseteq 1..Len(emitted)
  BY DEF Wanted, References
<1>2. QED
  BY <1>1 DEF Resolve, Fetches, RestInv

LEMMA FaultCounted ==
  ASSUME RestInv, faults' = faults \/ (faults < MaxFaults /\ faults' = faults + 1)
  PROVE  faults' \in 0..MaxFaults
BY ClientModelBounds DEF RestInv

LEMMA Forgotten ==
  ASSUME LogInv, RestInv, Following, Forget
  PROVE  /\ log' = NoLog /\ base' = 0 /\ misses' \in [1..MaxEvents -> Nat]
         /\ leaving' \subseteq begun
BY DEF Forget, LogInv, RestInv

(* The event of a report has its number from the history.                    *)
LEMMA HandlerRest ==
  ASSUME ServiceInv, ServiceInv', ClientInv, NEW t \in Threads, Handler(t)
  PROVE  ClientInv'
<1>1. /\ TypeOK /\ TypeOK' /\ HandlerStep(t) /\ Grown
      /\ UNCHANGED <<log, base, misses, poll, fetching, begun, leaving, pauses, faults>>
  BY HandlerGrows DEF Handler, ServiceInv
<1>2. LogInv'
  BY <1>1, LogKept DEF ClientInv
<1>3. PollInv'
  BY <1>1, PollKept DEF ClientInv, Current, Following
<1>4. report' \in Reports(Len(emitted)) \cup Reports(Len(emitted'))
  <2>1. report \in Reports(Len(emitted)) /\ Len(emitted) \in Nat /\ Len(emitted') \in Nat
        /\ Len(emitted) <= Len(emitted')
    BY <1>1, LenProperties DEF ClientInv, RestInv, TypeOK, Grown
  <2>2. report' = [report EXCEPT !.number = Len(emitted')] \/ report' = report
    BY DEF Handler
  <2>3. QED
    BY <2>1, <2>2 DEF Reports
<1>5. RestInv'
  BY <1>1, <1>4, RestKept DEF ClientInv, RestInv, Following
<1>6. QED
  BY <1>2, <1>3, <1>5 DEF ClientInv

(* Steps of the service and of the window that leave the log and the poll alone. *)
LEMMA AsideRest ==
  ASSUME ServiceInv, ServiceInv', ClientInv,
         UNCHANGED <<emitted, pinned, log, poll, begun, misses, base, pauses>>,
         fetching' \subseteq Fetches(Len(emitted)), report' \in Reports(Len(emitted)),
         leaving' \subseteq begun,
         faults' = faults \/ (faults < MaxFaults /\ faults' = faults + 1)
  PROVE  ClientInv'
<1>1. TypeOK /\ TypeOK' /\ Grown
  BY UnchangedGrows DEF ServiceInv
<1>2. LogInv'
  BY <1>1, LogKept DEF ClientInv
<1>3. PollInv'
  BY <1>1, PollKept DEF ClientInv, Current, Following
<1>4. faults' \in 0..MaxFaults
  BY FaultCounted DEF ClientInv
<1>5. RestInv'
  BY <1>1, <1>4, RestKept DEF ClientInv, RestInv, Following
<1>6. QED
  BY <1>2, <1>3, <1>5 DEF ClientInv

LEMMA CounterSet ==
  ASSUME NEW D, NEW m \in [D -> Nat], NEW r, NEW v, r \in D => v \in Nat
  PROVE  [m EXCEPT ![r] = v] \in [D -> Nat]
OBVIOUS

LEMMA ViewRest ==
  ASSUME ServiceInv, ServiceInv', ClientInv, NEW f \in fetching, ViewArrives(f)
  PROVE  ClientInv'
<1>1. /\ TypeOK /\ TypeOK' /\ Grown
      /\ UNCHANGED <<emitted, pinned, log, poll, begun, report, leaving, pauses>>
      /\ fetching' = fetching \ {f}
      /\ faults' = faults \/ (faults < MaxFaults /\ faults' = faults + 1)
  BY UnchangedGrows DEF ServiceInv, ViewArrives, serviceVars, bus, registry
<1>2. LogInv'
  BY <1>1, LogKept DEF ClientInv
<1>3. PollInv'
  BY <1>1, PollKept DEF ClientInv, Current, Following
<1>4. /\ base' \in 0..Len(emitted) /\ (base' # 0 => Following')
      /\ misses' \in [1..MaxEvents -> Nat]
  <2>1. f.ref \in 1..Len(emitted) /\ Len(emitted) \in Nat
    BY <1>1, LenProperties DEF ClientInv, RestInv, Fetches, TypeOK
  <2>2. misses \in [1..MaxEvents -> Nat] /\ base \in 0..Len(emitted)
        /\ (base # 0 => Following) /\ Following' = Following
    BY <1>1 DEF ClientInv, RestInv, Following
  <2>3. CASE UNCHANGED <<base, misses>>
    BY <2>2, <2>3
  <2>4. CASE Following /\ base' = f.ref /\ misses' = [misses EXCEPT ![f.ref] = 0]
    <3>1. [misses EXCEPT ![f.ref] = 0] \in [1..MaxEvents -> Nat]
      BY <2>2, CounterSet
    <3>2. QED
      BY <2>1, <2>2, <2>4, <3>1
  <2>5. CASE misses' = [misses EXCEPT ![f.ref] = @ + 1] /\ UNCHANGED base
    <3>1. f.ref \in 1..MaxEvents => misses[f.ref] + 1 \in Nat
      BY <2>2
    <3>2. [misses EXCEPT ![f.ref] = misses[f.ref] + 1] \in [1..MaxEvents -> Nat]
      BY <2>2, <3>1, CounterSet
    <3>3. QED
      BY <2>2, <2>5, <3>2
  <2>6. QED
    BY <2>3, <2>4, <2>5 DEF ViewArrives
<1>5. faults' \in 0..MaxFaults
  BY <1>1, FaultCounted DEF ClientInv
<1>6. RestInv'
  BY <1>1, <1>4, <1>5, RestKept DEF ClientInv, RestInv
<1>7. QED
  BY <1>2, <1>3, <1>6 DEF ClientInv

LEMMA LeaveRest ==
  ASSUME ServiceInv, ServiceInv', ClientInv, NEW t \in Threads, NEW sid \in leaving, Leave(t, sid)
  PROVE  ClientInv'
<1>1. UNCHANGED <<emitted, pinned>>
  BY OthersLeaveHistory DEF Client
<1>2. UNCHANGED <<log, base, misses, poll, fetching, report, begun, pauses>>
      /\ leaving' \subseteq begun
  BY DEF Leave, ClientInv, RestInv
<1>3. faults' = faults \/ (faults < MaxFaults /\ faults' = faults + 1)
  BY DEF Leave
<1>4. QED
  BY <1>1, <1>2, <1>3, AsideRest DEF ClientInv, RestInv

LEMMA ReportRest ==
  ASSUME ServiceInv, ServiceInv', ClientInv, NEW t \in Threads, Report(t)
  PROVE  ClientInv'
<1>1. UNCHANGED <<emitted, pinned>>
  BY OthersLeaveHistory DEF Client
<1>2. UNCHANGED <<log, base, misses, poll, fetching, begun, leaving, pauses, faults>>
  BY DEF Report
<1>3. report' \in Reports(Len(emitted))
  <2>1. Len(emitted) \in Nat
    BY LenProperties DEF ServiceInv, TypeOK
  <2>2. QED
    BY <2>1 DEF Report, Reports, ClientInv, LogInv
<1>4. QED
  BY <1>1, <1>2, <1>3, AsideRest DEF ClientInv, RestInv

LEMMA FailRest ==
  ASSUME ServiceInv, ServiceInv', ClientInv, ReportFails
  PROVE  ClientInv'
<1>1. /\ UNCHANGED <<emitted, pinned, log, base, misses, poll, fetching, begun, leaving, pauses>>
      /\ faults < MaxFaults /\ faults' = faults + 1 /\ report' = NoReport
  BY DEF ReportFails, serviceVars, bus, registry
<1>2. report' \in Reports(Len(emitted))
  <2>1. Len(emitted) \in Nat
    BY LenProperties DEF ServiceInv, TypeOK
  <2>2. QED
    BY <1>1, <2>1 DEF NoReport, Reports
<1>3. QED
  BY <1>1, <1>2, AsideRest DEF ClientInv, RestInv

LEMMA BeginRest ==
  ASSUME ServiceInv, ServiceInv', ClientInv, NEW sid \in Sessions, Begin(sid)
  PROVE  ClientInv'
<1>1. /\ TypeOK /\ TypeOK' /\ Grown /\ begun \subseteq begun' /\ Len(emitted) \in Nat
      /\ base' = 0 /\ misses' = [i \in 1..MaxEvents |-> 0]
      /\ UNCHANGED <<fetching, report, leaving, pauses, faults>>
  BY UnchangedGrows, LenProperties DEF Begin, serviceVars, bus, registry, ServiceInv, TypeOK
<1>2. RestInv'
  BY <1>1, RestKept DEF ClientInv, RestInv
<1>3. QED
  BY <1>2, BeginKeeps DEF ClientInv

LEMMA PauseRest ==
  ASSUME ServiceInv, ServiceInv', ClientInv, Pause \/ Resume
  PROVE  ClientInv'
<1>1. /\ TypeOK /\ TypeOK' /\ Grown /\ Following
      /\ UNCHANGED <<base, misses, begun, report, leaving, faults>>
      /\ pauses' \in 0..MaxPauses
  BY UnchangedGrows, ClientModelBounds
     DEF Pause, Resume, serviceVars, bus, registry, ServiceInv, ClientInv, RestInv
<1>2. LogInv' /\ PollInv'
  BY PauseKeeps DEF ClientInv
<1>3. log'.sid = log.sid /\ log.sid \in begun /\ log'.visible \subseteq 1..Len(emitted)
  <2>1. LogOf(log, Len(emitted)) /\ log.sid \in begun
    BY <1>1 DEF ClientInv, LogInv
  <2>2. CASE Pause
    BY <2>1, <2>2 DEF Pause, LogOf, LogFields
  <2>3. CASE Resume
    BY <2>1, <2>3 DEF Resume, LogOf, LogFields, NewestOf
  <2>4. QED
    BY <2>1, <2>2, <2>3
<1>4. fetching' \subseteq Fetches(Len(emitted))
  <2>1. UNCHANGED fetching \/ Resolve(log')
    BY DEF Pause, Resume
  <2>2. QED
    BY <1>3, <2>1, ResolveTyped DEF ClientInv, RestInv
<1>5. RestInv'
  BY <1>1, <1>3, <1>4, RestKept DEF ClientInv, RestInv, Following
<1>6. QED
  BY <1>2, <1>5 DEF ClientInv

LEMMA ForgetRest ==
  ASSUME ServiceInv, ServiceInv', ClientInv, Stop \/ Break
  PROVE  ClientInv'
<1>1. /\ TypeOK /\ TypeOK' /\ Grown /\ Following /\ Forget /\ Len(emitted) \in Nat
      /\ UNCHANGED <<emitted, pinned, fetching, begun, report, pauses, faults>>
  BY UnchangedGrows, LenProperties
     DEF Stop, Break, Current, serviceVars, bus, registry, ServiceInv, TypeOK
<1>2. /\ log' = NoLog /\ base' = 0 /\ misses' \in [1..MaxEvents -> Nat]
      /\ leaving' \subseteq begun
  BY <1>1, Forgotten DEF ClientInv
<1>3. LogInv' /\ ~Current'
  BY <1>1, <1>2, LogDropped DEF ClientInv
<1>4. PollInv'
  <2>1. CASE UNCHANGED poll
    BY <1>1, <1>3, <2>1, PollKept DEF ClientInv
  <2>2. CASE poll' = Quiet
    BY <2>2, QuietPoll
  <2>3. QED
    BY <2>1, <2>2 DEF Stop, Break
<1>5. RestInv'
  BY <1>1, <1>2, RestKept DEF ClientInv, RestInv
<1>6. QED
  BY <1>3, <1>4, <1>5 DEF ClientInv

LEMMA PollRest ==
  ASSUME ServiceInv, ServiceInv', ClientInv, Ask \/ Serve \/ Receive \/ Ignore
  PROVE  ClientInv'
<1>1. /\ TypeOK /\ TypeOK' /\ Grown
      /\ UNCHANGED <<emitted, pinned, base, misses, begun, report, leaving, pauses>>
      /\ faults' = faults \/ (faults < MaxFaults /\ faults' = faults + 1)
  BY UnchangedGrows DEF Ask, Serve, Receive, Ignore, serviceVars, bus, registry, ServiceInv
<1>2. LogInv' /\ PollInv'
  <2>1. CASE Ignore
    <3>1. UNCHANGED log /\ poll' = Quiet
      BY <2>1 DEF Ignore
    <3>2. QED
      BY <1>1, <3>1, LogKept, QuietPoll DEF ClientInv
  <2>2. QED
    BY <2>1, AskKeeps, ServeKeeps, ReceiveKeeps DEF ClientInv
<1>3. fetching' \subseteq Fetches(Len(emitted)) /\ (Following => Following')
  <2>1. CASE Receive
    <3>1. Following /\ log' = Ingest(poll.batch, TRUE) /\ Resolve(log')
          /\ poll.batch \in SUBSET (1..Len(emitted))
      BY <2>1 DEF Receive, Current, ClientInv, PollInv, OfSession
    <3>2. LogOf(log', Len(emitted)) /\ log'.sid = log.sid
      BY <1>1, <3>1, IngestIsLog DEF ClientInv
    <3>3. log'.sid \in begun /\ log'.visible \subseteq 1..Len(emitted)
      BY <3>1, <3>2 DEF ClientInv, LogInv, LogOf
    <3>4. QED
      BY <3>1, <3>2, <3>3, ResolveTyped DEF ClientInv, Following
  <2>2. CASE Ask \/ Serve \/ Ignore
    BY <2>2 DEF Ask, Serve, Ignore, ClientInv, RestInv, Following
  <2>3. QED
    BY <2>1, <2>2
<1>4. faults' \in 0..MaxFaults
  BY <1>1, FaultCounted DEF ClientInv
<1>5. RestInv'
  BY <1>1, <1>3, <1>4, RestKept DEF ClientInv, RestInv
<1>6. QED
  BY <1>2, <1>5 DEF ClientInv

LEMMA ReportedRest ==
  ASSUME ServiceInv, ServiceInv', ClientInv, Reported
  PROVE  ClientInv'
<1>1. /\ TypeOK /\ TypeOK' /\ Grown /\ Len(emitted) \in Nat
      /\ UNCHANGED <<emitted, pinned, base, misses, poll, begun, leaving, pauses, faults>>
      /\ report' = NoReport
  BY UnchangedGrows, LenProperties DEF Reported, serviceVars, bus, registry, ServiceInv, TypeOK
<1>2. report' \in Reports(Len(emitted))
  BY <1>1 DEF NoReport, Reports
<1>3. CASE Following /\ log.sid = report.sid
  <2>1. {report.number} \in SUBSET (1..Len(emitted))
    BY <1>1 DEF Reported, ClientInv, RestInv, Reports
  <2>2. log' = Ingest({report.number}, FALSE)
    BY <1>3 DEF Reported
  <2>3. /\ LogOf(log', Len(emitted)) /\ log'.sid = log.sid /\ log'.cursor = log.cursor
        /\ log.got \subseteq log'.got
    BY <1>1, <1>3, <2>1, <2>2, IngestIsLog DEF ClientInv
  <2>4. LogInv' /\ (Current' => Current /\ log'.cursor = log.cursor)
    BY <1>1, <1>3, <2>3, LogEdited DEF ClientInv
  <2>5. fetching' \subseteq Fetches(Len(emitted))
    <3>1. UNCHANGED fetching \/ Resolve(log')
      BY <1>3 DEF Reported
    <3>2. log'.sid \in begun /\ log'.visible \subseteq 1..Len(emitted)
      BY <1>3, <2>3 DEF ClientInv, LogInv, LogOf
    <3>3. QED
      BY <3>1, <3>2, ResolveTyped DEF ClientInv, RestInv
  <2>6. PollInv'
    BY <1>1, <2>4, PollKept DEF ClientInv
  <2>7. RestInv'
    BY <1>1, <1>2, <1>3, <2>3, <2>5, RestKept DEF ClientInv, RestInv, Following
  <2>8. QED
    BY <2>4, <2>6, <2>7 DEF ClientInv
<1>4. CASE ~(Following /\ log.sid = report.sid)
  <2>1. UNCHANGED <<log, fetching>>
    BY <1>4 DEF Reported
  <2>2. QED
    BY <1>1, <1>2, <2>1, AsideRest DEF ClientInv, RestInv
<1>5. QED
  BY <1>3, <1>4

LEMMA ClientStart ==
  ASSUME Init
  PROVE  ClientInv
<1>1. /\ log = NoLog /\ base = 0 /\ misses = [i \in 1..MaxEvents |-> 0] /\ poll = Quiet
      /\ fetching = {} /\ report = NoReport /\ begun = {} /\ leaving = {}
      /\ pauses = 0 /\ faults = 0 /\ emitted = <<>>
  BY DEF Init, ServiceInit
<1>2. Len(emitted) = 0
  BY <1>1
<1>3. ~Following
  BY <1>1 DEF Following, NoLog
<1>4. LogInv /\ PollInv
  BY <1>1, <1>3 DEF LogInv, NeverSkips, PollInv, Quiet
<1>5. report \in Reports(Len(emitted))
  BY <1>1, <1>2 DEF Reports, NoReport
<1>6. RestInv
  BY <1>1, <1>2, <1>5, ClientModelBounds DEF RestInv
<1>7. QED
  BY <1>4, <1>6 DEF ClientInv

LEMMA ClientStep ==
  ASSUME ServiceInv, ClientInv, [Next]_vars
  PROVE  ClientInv'
<1>1. ServiceInv'
  BY ServiceStep
<1>2. ASSUME NEW t \in Threads, Handler(t) PROVE ClientInv'
  BY <1>1, <1>2, HandlerRest
<1>3. ASSUME NEW t \in Threads, Others(t) PROVE ClientInv'
  <2>1. UNCHANGED <<emitted, pinned>> /\ UNCHANGED clientVars
    BY <1>3, OthersLeaveHistory DEF Others
  <2>2. QED
    BY <1>1, <2>1, AsideRest DEF clientVars, ClientInv, RestInv
<1>4. CASE Listeners
  <2>1. UNCHANGED <<emitted, pinned>> /\ UNCHANGED clientVars
    BY <1>4 DEF Listeners, StreamStep, Subscribe, Read, Unsubscribe, registry
  <2>2. QED
    BY <1>1, <2>1, AsideRest DEF clientVars, ClientInv, RestInv
<1>5. CASE UNCHANGED vars
  <2>1. UNCHANGED <<emitted, pinned>> /\ UNCHANGED clientVars
    BY <1>5 DEF vars, serviceVars, bus, registry
  <2>2. QED
    BY <1>1, <2>1, AsideRest DEF clientVars, ClientInv, RestInv
<1>6. ASSUME NEW sid \in Sessions, Begin(sid) PROVE ClientInv'
  BY <1>1, <1>6, BeginRest
<1>7. CASE Pause \/ Resume
  BY <1>1, <1>7, PauseRest
<1>8. CASE Stop \/ Break
  BY <1>1, <1>8, ForgetRest
<1>9. ASSUME NEW t \in Threads, NEW sid \in leaving, Leave(t, sid) PROVE ClientInv'
  BY <1>1, <1>9, LeaveRest
<1>10. CASE Ask \/ Serve \/ Receive \/ Ignore
  BY <1>1, <1>10, PollRest
<1>11. ASSUME NEW f \in fetching, ViewArrives(f) PROVE ClientInv'
  BY <1>1, <1>11, ViewRest
<1>12. ASSUME NEW t \in Threads, Report(t) PROVE ClientInv'
  BY <1>1, <1>12, ReportRest
<1>13. CASE Reported
  BY <1>1, <1>13, ReportedRest
<1>14. CASE ReportFails
  BY <1>1, <1>14, FailRest
<1>15. QED
  BY <1>2, <1>3, <1>4, <1>5, <1>6, <1>7, <1>8, <1>9, <1>10, <1>11, <1>12, <1>13, <1>14
     DEF Next, Client, Polling

LEMMA WindowHolds == Spec => [](ServiceInv /\ ClientInv)
<1>1. Init => ServiceInv /\ ClientInv
  BY ServiceStart, ClientStart
<1>2. ServiceInv /\ ClientInv /\ [Next]_vars => ServiceInv' /\ ClientInv'
  BY ServiceStep, ClientStep
<1>3. QED
  BY <1>1, <1>2, PTL DEF Spec

(* The state of the service and of the window keeps its types.               *)
THEOREM ObserveTypes == Spec => []AllTypesOK
<1>1. ServiceInv /\ ClientInv => AllTypesOK
  <2>1. SUFFICES ASSUME ServiceInv, ClientInv PROVE AllTypesOK
    OBVIOUS
  <2>2. Following =>
          /\ log.sid \in begun
          /\ {log.cursor} \cup log.got \cup log.visible \cup log.buffered \subseteq 1..Len(emitted)
          /\ DOMAIN log.seen \subseteq log.got /\ log.seen \in [DOMAIN log.seen -> Nat]
          /\ {log.dropped, log.accepts} \subseteq Nat /\ log.paused \in BOOLEAN
    BY <2>1 DEF ClientInv, LogInv, LogOf
  <2>3. report.sid \in begun \cup {NoSession} /\ fetching \subseteq [sid : begun, ref : 1..Len(emitted)]
    BY <2>1 DEF ClientInv, RestInv, Reports, Fetches
  <2>4. QED
    BY <2>1, <2>2, <2>3 DEF ServiceInv, ClientInv, LogInv, PollInv, RestInv, ClientTypeOK, AllTypesOK
<1>2. QED
  BY <1>1, WindowHolds, PTL

(* "It never skips a missing event range": the log has accepted every event of *)
(* its session from session_started to the cursor.  The service answers only   *)
(* from a cursor that is still in its ring, the log keeps as many events as the *)
(* ring holds, and the answer to a report does not move the cursor.            *)
THEOREM NothingSkipped == Spec => []NeverSkips
<1>1. ClientInv => NeverSkips
  BY DEF ClientInv, LogInv
<1>2. QED
  BY <1>1, WindowHolds, PTL

-----------------------------------------------------------------------------
(* An event that comes twice is accepted once, as long as few reports run      *)
(* ahead of the cursor.                                                     *)

(* Accepted events that a poll may still bring: they answered reports.  Some    *)
(* that were accepted after them are at or before the cursor already.          *)
Ahead(l) == {i \in l.got : i > l.cursor}
Overtaken(l, i) == {j \in DOMAIN l.seen : l.seen[j] > l.seen[i] /\ j <= l.cursor}

(* A report of the followed session was made and its answer is on its way.      *)
Outstanding == report.number # 0 /\ report.sid = log.sid
AtRisk == {log.cursor} \cup (IF Outstanding THEN {report.number} ELSE {})

(* With 1,000 identifiers and rings of 500: no more than 500 events are         *)
(* accepted past the cursor, or past the event of an unanswered report.         *)
FewAhead ==
  Following => \A c \in AtRisk :
                 Cardinality({i \in log.got : i > c}) + ClientHistory <= SeenLimit

(* A report that was made names an event of its session.                      *)
ReportInv ==
  /\ report.sid = NoSession => report.by = NoThread /\ report.number = 0
  /\ report.sid # NoSession /\ report.number = 0 =>
       /\ report.by \in Threads /\ call[report.by].pc = "append"
       /\ call[report.by].event.sid = report.sid
  /\ report.number # 0 => emitted[report.number].sid = report.sid

CountInv ==
  /\ log.got \subseteq OfSession(log.sid)
  /\ log.accepts = Cardinality(log.got)
  /\ \A j \in DOMAIN log.seen : log.seen[j] < log.accepts

(* What a poll may bring again is remembered.  Only the answer that was under   *)
(* way when its report was accepted can have overtaken it.                    *)
AheadInv ==
  \A i \in Ahead(log) :
    i \in DOMAIN log.seen /\ Cardinality(Overtaken(log, i)) <= ClientHistory
BatchInv ==
  poll.pc = "answered" /\ Current =>
    /\ \A b \in poll.batch : b > log.cursor
    /\ \A i \in Ahead(log) \ poll.batch : Overtaken(log, i) = {}

(* What a report may bring again is remembered.                              *)
OutstandingInv ==
  Outstanding =>
    \/ report.number \notin log.got /\ report.number > log.cursor
    \/ /\ report.number \in DOMAIN log.seen
       /\ report.number <= log.cursor
       /\ \A j \in DOMAIN log.seen :
            log.seen[j] > log.seen[report.number] => j > report.number

LogOnce == CountInv /\ AheadInv /\ BatchInv /\ OutstandingInv
OnceInv == ReportInv /\ (Following => LogOnce)

LEMMA FewerEvents ==
  ASSUME TypeOK, NEW S \in SUBSET (1..Len(emitted)), NEW T \in SUBSET S
  PROVE  /\ IsFiniteSet(T) /\ Cardinality(T) \in Nat /\ Cardinality(S) \in Nat
         /\ Cardinality(T) <= Cardinality(S)
<1>1. T \in SUBSET (1..Len(emitted))
  OBVIOUS
<1>2. IsFiniteSet(S)
  BY EventsFinite
<1>3. QED
  BY <1>1, <1>2, EventsFinite, FS_Subset

(* Accepted events are numbered after all that came before, in their order.     *)
LEMMA NumbersOf ==
  ASSUME TypeOK, LogInv, Following, CountInv, NEW A \in SUBSET (1..Len(emitted)),
         A \cap DOMAIN log.seen = {}, NEW m, m = Numbered(log.seen, A, log.accepts)
  PROVE  /\ DOMAIN m = DOMAIN log.seen \cup A
         /\ \A i \in DOMAIN log.seen : m[i] = log.seen[i] /\ m[i] < log.accepts /\ m[i] \in Nat
         /\ \A i \in A : /\ m[i] \in Nat /\ log.accepts <= m[i]
                         /\ m[i] < log.accepts + Cardinality(A)
         /\ \A i, j \in A : m[j] > m[i] => j > i
<1> DEFINE before(i) == {j \in A : j < i}
<1>1. DOMAIN m = DOMAIN log.seen \cup A
  BY DEF Numbered
<1>2. log.accepts \in Nat /\ log.seen \in [DOMAIN log.seen -> Nat]
  BY DEF LogInv, LogOf
<1>3. \A i \in DOMAIN log.seen : m[i] = log.seen[i] /\ m[i] < log.accepts /\ m[i] \in Nat
  BY <1>1, <1>2 DEF Numbered, CountInv
<1>4. \A i \in A : m[i] = log.accepts + Cardinality(before(i))
  BY DEF Numbered
<1>5. IsFiniteSet(A) /\ Cardinality(A) \in Nat
  BY EventsFinite
<1>6. ASSUME NEW i \in A
      PROVE  Cardinality(before(i)) \in Nat /\ Cardinality(before(i)) < Cardinality(A)
  <2>a. \A k \in A : k \in Nat
    OBVIOUS
  <2>b. before(i) \in SUBSET (A \ {i})
    BY <2>a
  <2>1. before(i) \in SUBSET (A \ {i}) /\ IsFiniteSet(A \ {i})
        /\ Cardinality(A \ {i}) = Cardinality(A) - 1
    BY <1>5, <2>b, FS_RemoveElement
  <2>2. Cardinality(before(i)) <= Cardinality(A \ {i})
    BY <2>1, FS_Subset
  <2>3. Cardinality(before(i)) \in Nat
    BY <2>1, FS_Subset, FS_CardinalityType
  <2>4. QED
    BY <1>5, <2>1, <2>2, <2>3
<1>7. ASSUME NEW i \in A, NEW j \in A, ~(j > i)
      PROVE  Cardinality(before(j)) <= Cardinality(before(i))
  <2>a. \A k \in A : k \in Nat
    OBVIOUS
  <2>1. before(j) \in SUBSET before(i)
    BY <1>7, <2>a
  <2>2. before(i) \in SUBSET (1..Len(emitted))
    OBVIOUS
  <2> HIDE DEF before
  <2>3. QED
    BY <2>1, <2>2, FewerEvents
<1> HIDE DEF before
<1>8. \A i \in A : /\ m[i] \in Nat /\ log.accepts <= m[i]
                   /\ m[i] < log.accepts + Cardinality(A)
  BY <1>2, <1>4, <1>5, <1>6
<1>9. ASSUME NEW i \in A, NEW j \in A, m[j] > m[i] PROVE j > i
  <2>1. ~(Cardinality(before(j)) <= Cardinality(before(i)))
    BY <1>2, <1>4, <1>6, <1>9
  <2>2. QED
    BY <1>7, <2>1
<1>10. QED
  BY <1>1, <1>3, <1>8, <1>9

LEMMA RememberedOf ==
  ASSUME NEW m
  PROVE  /\ DOMAIN Remember(m) \subseteq DOMAIN m
         /\ \A i \in DOMAIN Remember(m) : Remember(m)[i] = m[i]
         /\ \A i \in DOMAIN m : Cardinality({j \in DOMAIN m : m[j] > m[i]}) < SeenLimit
                                => i \in DOMAIN Remember(m)
BY DEF Remember, Restrict

LEMMA IngestNumbers ==
  ASSUME LogInv, Following, NEW S, NEW advance \in BOOLEAN,
         NEW A, A = OwnRevision(NewestOf(S, ClientHistory)) \ DOMAIN log.seen
  PROVE  /\ Ingest(S, advance).seen = Remember(Numbered(log.seen, A, log.accepts))
         /\ Ingest(S, advance).got = log.got \cup A
         /\ Ingest(S, advance).accepts = log.accepts + Cardinality(A)
<1> DEFINE mine == OwnRevision(NewestOf(S, ClientHistory))
           fresh == Remember(Numbered(log.seen, A, log.accepts))
           cursor == IF advance /\ mine # {} THEN Greatest(mine) ELSE log.cursor
           noted == [log EXCEPT !.cursor = cursor, !.seen = fresh, !.got = @ \cup A,
                                !.accepts = @ + Cardinality(A)]
           combined == log.buffered \cup A
           kept == NewestOf(combined, BufferLimit)
<1>1. DOMAIN log = LogFields
  BY DEF LogInv, LogOf
<1>2. Ingest(S, advance) =
         IF log.paused
         THEN [noted EXCEPT !.buffered = kept, !.dropped = @ + Cardinality(combined \ kept)]
         ELSE [noted EXCEPT !.visible = NewestOf(@ \cup A, ClientHistory)]
  BY DEF Ingest
<1> HIDE DEF mine, fresh, cursor, combined, kept
<1>3. /\ DOMAIN noted = LogFields
      /\ noted.seen = fresh /\ noted.got = log.got \cup A
      /\ noted.accepts = log.accepts + Cardinality(A)
  BY <1>1 DEF LogFields
<1> HIDE DEF noted
<1>4. /\ Ingest(S, advance).seen = noted.seen /\ Ingest(S, advance).got = noted.got
      /\ Ingest(S, advance).accepts = noted.accepts
  BY <1>2, <1>3 DEF LogFields
<1>5. QED
  BY <1>3, <1>4 DEF fresh

(* An event ahead of the cursor is still remembered when few are with it and    *)
(* few at or before the cursor were accepted after it.                        *)
LEMMA StaysAhead ==
  ASSUME TypeOK, NEW l, LogOf(l, Len(emitted)),
         NEW m, DOMAIN m \subseteq l.got, l.seen = Remember(m),
         \A j \in DOMAIN m : m[j] \in Nat,
         Cardinality(Ahead(l)) + ClientHistory <= SeenLimit,
         NEW i \in Ahead(l), i \in DOMAIN m,
         NEW L \in SUBSET (1..Len(emitted)), Cardinality(L) <= ClientHistory,
         \A j \in DOMAIN m : m[j] > m[i] /\ j <= l.cursor => j \in L
  PROVE  /\ i \in DOMAIN l.seen
         /\ Overtaken(l, i) \subseteq L
         /\ Cardinality(Overtaken(l, i)) <= ClientHistory
<1> DEFINE after == {j \in DOMAIN m : m[j] > m[i]}
           others == Ahead(l) \ {i}
<1>1. l.got \subseteq 1..Len(emitted) /\ l.cursor \in 1..Len(emitted) /\ Len(emitted) \in Nat
  BY LenProperties DEF LogOf, TypeOK
<1>2. Ahead(l) \in SUBSET (1..Len(emitted)) /\ others \in SUBSET (1..Len(emitted))
  BY <1>1 DEF Ahead
<1>3. /\ IsFiniteSet(Ahead(l)) /\ Cardinality(Ahead(l)) \in Nat
      /\ Cardinality(others) = Cardinality(Ahead(l)) - 1 /\ IsFiniteSet(others)
  BY <1>2, EventsFinite, FS_RemoveElement
<1>4. after \subseteq others \cup L
  <2>1. SUFFICES ASSUME NEW j \in after PROVE j \in others \cup L
    OBVIOUS
  <2>2. j \in Nat /\ j \in l.got /\ l.cursor \in Nat /\ m[j] > m[i] /\ m[i] \in Nat
    BY <1>1
  <2>3. j # i
    BY <2>2
  <2>4. CASE j <= l.cursor
    BY <2>4
  <2>5. CASE j > l.cursor
    BY <2>2, <2>3, <2>5 DEF Ahead
  <2>6. QED
    BY <2>2, <2>4, <2>5
<1>5. IsFiniteSet(L) /\ Cardinality(L) \in Nat
  BY EventsFinite
<1> HIDE DEF others
<1>6. /\ IsFiniteSet(others \cup L)
      /\ Cardinality(others \cup L) <= Cardinality(others) + Cardinality(L)
      /\ Cardinality(others \cup L) \in Nat
  <2>1. IsFiniteSet(others \cup L) /\ IsFiniteSet(others \cap L)
    BY <1>3, <1>5, FS_Union, FS_Intersection
  <2>2. /\ Cardinality(others \cup L)
             = Cardinality(others) + Cardinality(L) - Cardinality(others \cap L)
        /\ Cardinality(others \cap L) \in Nat /\ Cardinality(others) \in Nat
    BY <1>3, <1>5, <2>1, FS_Union, FS_CardinalityType
  <2>3. QED
    BY <1>5, <2>1, <2>2, FS_CardinalityType
<1> HIDE DEF after
<1>7. Cardinality(after) <= Cardinality(others \cup L) /\ Cardinality(after) \in Nat
  BY <1>4, <1>6, FS_Subset, FS_CardinalityType
<1>8. Cardinality(after) < SeenLimit
  <2>1. SeenLimit \in Nat /\ ClientHistory \in Nat
    BY LogBounds
  <2>2. Cardinality(after) <= (Cardinality(Ahead(l)) - 1) + Cardinality(L)
    BY <1>3, <1>5, <1>6, <1>7
  <2>3. QED
    BY <1>3, <1>5, <1>7, <2>1, <2>2
<1>9. i \in DOMAIN l.seen
  BY <1>8, RememberedOf DEF after
<1>10. Overtaken(l, i) \subseteq L
  BY <1>9, RememberedOf DEF Overtaken
<1>11. Cardinality(Overtaken(l, i)) <= Cardinality(L)
  BY <1>10, FewerEvents
<1>12. Cardinality(Overtaken(l, i)) \in Nat /\ ClientHistory \in Nat
  BY <1>10, FewerEvents, LogBounds
<1>13. QED
  BY <1>5, <1>9, <1>10, <1>11, <1>12

(* So is the event of an unanswered report.                                  *)
LEMMA StaysOutstanding ==
  ASSUME TypeOK, NEW l, LogOf(l, Len(emitted)),
         NEW m, DOMAIN m \subseteq l.got, l.seen = Remember(m),
         NEW r \in DOMAIN m, \A j \in DOMAIN m : m[j] > m[r] => j > r,
         Cardinality({j \in l.got : j > r}) + ClientHistory <= SeenLimit
  PROVE  r \in DOMAIN l.seen /\ \A j \in DOMAIN l.seen : l.seen[j] > l.seen[r] => j > r
<1> DEFINE after == {j \in DOMAIN m : m[j] > m[r]}
           later == {j \in l.got : j > r}
<1>1. later \in SUBSET (1..Len(emitted)) /\ after \in SUBSET later
  BY DEF LogOf
<1> HIDE DEF later
<1>2. Cardinality(after) <= Cardinality(later) /\ Cardinality(after) \in Nat
      /\ Cardinality(later) \in Nat
  BY <1>1, FewerEvents
<1> HIDE DEF after
<1>3. Cardinality(after) < SeenLimit
  BY <1>2, LogBounds DEF later
<1>4. r \in DOMAIN l.seen
  BY <1>3, RememberedOf DEF after
<1>5. QED
  BY <1>4, RememberedOf

(* The counters after an ingest.                                             *)
LEMMA Counted ==
  ASSUME TypeOK, LogInv, Following, CountInv, NEW l, NEW A \in SUBSET OfSession(log.sid),
         A \cap log.got = {}, l.sid = log.sid, l.got = log.got \cup A,
         l.accepts = log.accepts + Cardinality(A),
         l.seen = Remember(Numbered(log.seen, A, log.accepts))
  PROVE  /\ l.got \subseteq OfSession(log.sid)
         /\ l.accepts = Cardinality(l.got)
         /\ \A j \in DOMAIN l.seen : l.seen[j] < l.accepts
<1> DEFINE m == Numbered(log.seen, A, log.accepts)
<1>1. A \in SUBSET (1..Len(emitted)) /\ log.got \in SUBSET (1..Len(emitted))
      /\ DOMAIN log.seen \subseteq log.got /\ log.accepts \in Nat
  BY DEF OfSession, LogInv, LogOf
<1>2. IsFiniteSet(A) /\ IsFiniteSet(log.got) /\ Cardinality(A) \in Nat
  BY <1>1, EventsFinite
<1>3. Cardinality(log.got \cup A) = Cardinality(log.got) + Cardinality(A)
  <2>1. log.got \cap A = {}
    OBVIOUS
  <2>2. Cardinality(log.got \cup A)
          = Cardinality(log.got) + Cardinality(A) - Cardinality(log.got \cap A)
    BY <1>2, FS_Union
  <2>3. Cardinality(log.got \cap A) = 0
    BY <2>1, FS_EmptySet
  <2>4. Cardinality(log.got) \in Nat
    BY <1>2, FS_CardinalityType
  <2>5. QED
    BY <1>2, <2>2, <2>3, <2>4
<1>4. l.accepts = Cardinality(l.got)
  BY <1>3 DEF CountInv
<1>5. A \cap DOMAIN log.seen = {}
  BY <1>1
<1>6. /\ DOMAIN m = DOMAIN log.seen \cup A
      /\ \A i \in DOMAIN log.seen : m[i] < log.accepts /\ m[i] \in Nat
      /\ \A i \in A : m[i] < log.accepts + Cardinality(A)
  BY <1>1, <1>5, NumbersOf
<1> HIDE DEF m
<1>7. ASSUME NEW i \in DOMAIN m PROVE m[i] < l.accepts
  <2>1. CASE i \in DOMAIN log.seen
    <3>1. m[i] < log.accepts /\ m[i] \in Nat
      BY <1>6, <2>1
    <3>2. QED
      BY <1>1, <1>2, <3>1
  <2>2. CASE i \in A
    BY <1>6, <2>2
  <2>3. QED
    BY <1>6, <2>1, <2>2
<1>8. \A j \in DOMAIN l.seen : l.seen[j] < l.accepts
  <2>1. l.seen = Remember(m)
    BY DEF m
  <2>2. QED
    BY <1>7, <2>1, RememberedOf
<1>9. l.got \subseteq OfSession(log.sid)
  BY DEF CountInv
<1>10. QED
  BY <1>4, <1>8, <1>9

(* A poll that is received brings every event of its session between the        *)
(* cursor and its last one, so no accepted event but those of the answer can     *)
(* come between.                                                            *)
LEMMA ReceiveOnce ==
  ASSUME ServiceInv, ClientInv, ClientInv', OnceInv, FewAhead', Receive
  PROVE  OnceInv'
<1> DEFINE B == poll.batch
           A == B \ DOMAIN log.seen
           m == Numbered(log.seen, A, log.accepts)
           r == report.number
<1>1. /\ TypeOK /\ UNCHANGED <<emitted, pinned, report, call>> /\ poll.pc = "answered" /\ Current
      /\ Following /\ log' = Ingest(B, TRUE) /\ poll' = Quiet /\ LogInv /\ PollInv
      /\ NewestOf(B, ClientHistory) = OwnRevision(NewestOf(B, ClientHistory))
  BY DEF Receive, serviceVars, bus, registry, ServiceInv, Current, WrongRevision, ClientInv
<1>2. /\ B \in SUBSET OfSession(log.sid) /\ Cardinality(B) <= ClientHistory
      /\ B \in SUBSET (1..Len(emitted)) /\ log.sid # NoSession
      /\ \A b \in B, j \in OfSession(log.sid) : log.cursor < j /\ j <= b => j \in B
  <2>1. B \in SUBSET (1..Len(emitted)) /\ Cardinality(B) <= HistoryLimit
    BY <1>1 DEF PollInv, OfSession
  <2>2. Cardinality(B) \in Nat
    BY <1>1, <2>1, EventsFinite
  <2>3. QED
    BY <1>1, <2>1, <2>2, LogBounds, BusBounds DEF PollInv, Current, Following
<1> HIDE DEF B
<1>3. OwnRevision(NewestOf(B, ClientHistory)) = B
  BY <1>1, <1>2, NewestOfFew, LogBounds
<1>4. /\ LogOf(log', Len(emitted)) /\ log'.sid = log.sid
      /\ log'.cursor = IF B # {} THEN Greatest(B) ELSE log.cursor
  BY <1>1, <1>2, <1>3, IngestIsLog
<1>5. /\ log'.seen = Remember(m) /\ log'.got = log.got \cup A
      /\ log'.accepts = log.accepts + Cardinality(A)
  BY <1>1, <1>3, IngestNumbers
<1>6. /\ Len(emitted) \in Nat /\ log.cursor \in 1..Len(emitted) /\ log'.cursor \in 1..Len(emitted)
      /\ log.got \subseteq 1..Len(emitted) /\ DOMAIN log.seen \subseteq log.got
      /\ log'.got \subseteq 1..Len(emitted)
  BY <1>1, <1>4, LenProperties DEF LogInv, LogOf, TypeOK
<1>7. /\ CountInv /\ AheadInv /\ OutstandingInv /\ ReportInv
      /\ \A b \in B : b > log.cursor
      /\ \A i \in Ahead(log) \ B : Overtaken(log, i) = {}
  BY <1>1 DEF OnceInv, LogOnce, BatchInv, B
<1>8. A \in SUBSET OfSession(log.sid) /\ A \in SUBSET (1..Len(emitted)) /\ A \cap DOMAIN log.seen = {}
      /\ A \subseteq B
  BY <1>2
<1>9. A \cap log.got = {}
  <2>1. SUFFICES ASSUME NEW a \in A, a \in log.got PROVE FALSE
    OBVIOUS
  <2>2. a \in Ahead(log)
    BY <1>7, <1>8, <2>1 DEF Ahead
  <2>3. QED
    BY <1>7, <1>8, <2>2 DEF AheadInv
<1> HIDE DEF A
<1>10. /\ DOMAIN m = DOMAIN log.seen \cup A
       /\ \A i \in DOMAIN log.seen : m[i] = log.seen[i] /\ m[i] < log.accepts /\ m[i] \in Nat
       /\ \A i \in A : /\ m[i] \in Nat /\ log.accepts <= m[i]
                       /\ m[i] < log.accepts + Cardinality(A)
       /\ \A i, j \in A : m[j] > m[i] => j > i
  <2>1. /\ TypeOK /\ LogInv /\ Following /\ CountInv
        /\ A \in SUBSET (1..Len(emitted)) /\ A \cap DOMAIN log.seen = {}
    BY <1>1, <1>7, <1>8
  <2> HIDE DEF B
  <2>2. QED
    BY <2>1, NumbersOf
<1> HIDE DEF m
<1>11. B # {} => log'.cursor \in B /\ \A b \in B : b <= log'.cursor
  BY <1>2, <1>4, <1>6, GreatestIsLast
<1>12. log.cursor <= log'.cursor
  <2>1. CASE B = {}
    BY <1>4, <1>6, <2>1
  <2>2. CASE B # {}
    BY <1>6, <1>7, <1>11, <2>2
  <2>3. QED
    BY <2>1, <2>2
<1>13. CountInv'
  <2>1. /\ log'.got \subseteq OfSession(log.sid)
        /\ log'.accepts = Cardinality(log'.got)
        /\ \A j \in DOMAIN log'.seen : log'.seen[j] < log'.accepts
    BY <1>1, <1>4, <1>5, <1>7, <1>8, <1>9, Counted DEF m
  <2>2. OfSession(log.sid)' = OfSession(log.sid)
    BY <1>1, <1>4 DEF OfSession
  <2>3. QED
    BY <2>1, <2>2 DEF CountInv
<1>14. DOMAIN m \subseteq log'.got /\ \A j \in DOMAIN m : m[j] \in Nat
  BY <1>5, <1>6, <1>10
<1>15. /\ Cardinality(Ahead(log')) + ClientHistory <= SeenLimit
       /\ Outstanding' => Cardinality({i \in log'.got : i > r}) + ClientHistory <= SeenLimit
  <2>1. Following'
    BY <1>1, <1>4 DEF Following
  <2>2. log'.cursor \in AtRisk' /\ (Outstanding' => r \in AtRisk')
    BY <1>1 DEF AtRisk
  <2>3. QED
    BY <2>1, <2>2 DEF FewAhead, Ahead
<1>16. AheadInv'
  <2>1. SUFFICES ASSUME NEW i \in Ahead(log')
                 PROVE  i \in DOMAIN log'.seen /\ Cardinality(Overtaken(log', i)) <= ClientHistory
    BY DEF AheadInv
  <2>2. i \in log'.got /\ i > log'.cursor /\ i \in Nat
    BY <1>6 DEF Ahead
  <2>3. i \notin B
    BY <1>6, <1>11, <2>2
  <2>4. i \in Ahead(log)
    BY <1>5, <1>6, <1>8, <1>12, <2>2, <2>3 DEF Ahead
  <2>5. i \in DOMAIN log.seen /\ Overtaken(log, i) = {}
    BY <1>7, <2>3, <2>4 DEF AheadInv
  <2>6. ASSUME NEW j \in DOMAIN m, m[j] > m[i], j <= log'.cursor PROVE j \in B
    <3>1. CASE j \in A
      BY <1>8, <3>1
    <3>2. CASE j \in DOMAIN log.seen
      <4>1. log.seen[j] > log.seen[i]
        BY <1>10, <2>5, <2>6, <3>2
      <4>2. j > log.cursor
        <5>1. ~(j <= log.cursor)
          BY <2>5, <3>2, <4>1 DEF Overtaken
        <5>2. j \in Nat /\ log.cursor \in Nat
          BY <1>6, <3>2
        <5>3. QED
          BY <5>1, <5>2
      <4>3. B # {}
        BY <1>4, <1>6, <2>6, <3>2, <4>2
      <4>4. j \in OfSession(log.sid)
        BY <1>6, <1>7, <3>2 DEF CountInv
      <4>5. log.cursor < j
        BY <1>6, <3>2, <4>2
      <4>6. QED
        BY <1>2, <1>11, <2>6, <4>3, <4>4, <4>5
    <3>3. QED
      BY <1>10, <2>6, <3>1, <3>2
  <2>7. i \in DOMAIN m
    BY <1>10, <2>5
  <2>8. QED
    BY <1>1, <1>2, <1>4, <1>5, <1>14, <1>15, <2>6, <2>7, StaysAhead
<1>17. BatchInv'
  BY <1>1 DEF BatchInv, Quiet
<1>18. OutstandingInv'
  <2>1. SUFFICES ASSUME Outstanding'
                 PROVE  \/ r \notin log'.got /\ r > log'.cursor
                        \/ /\ r \in DOMAIN log'.seen
                           /\ r <= log'.cursor
                           /\ \A j \in DOMAIN log'.seen : log'.seen[j] > log'.seen[r] => j > r
    BY <1>1 DEF OutstandingInv
  <2>2. Outstanding /\ r \in OfSession(log.sid) /\ r \in Nat
    <3>1. r # 0 /\ report.sid = log.sid
      BY <1>1, <1>4, <2>1 DEF Outstanding
    <3>2. emitted[r].sid = log.sid
      BY <1>7, <3>1 DEF ReportInv
    <3>3. r \in 0..Len(emitted)
      BY DEF ClientInv, RestInv, Reports
    <3>4. QED
      BY <1>6, <3>1, <3>2, <3>3 DEF Outstanding, OfSession
  <2> HIDE DEF r
  <2>3. CASE r \notin log.got /\ r > log.cursor /\ r \notin B
    <3>1. r \notin log'.got
      BY <1>5, <1>8, <2>3
    <3>2. CASE B = {}
      BY <1>4, <2>3, <3>1, <3>2
    <3>3. CASE B # {}
      <4>1. log.cursor < r
        BY <1>6, <2>2, <2>3
      <4>2. ~(r <= log'.cursor)
        BY <1>2, <1>11, <2>2, <2>3, <3>3, <4>1
      <4>3. QED
        BY <1>6, <2>2, <3>1, <4>2
    <3>4. QED
      BY <3>2, <3>3
  <2>4. CASE r \notin log.got /\ r \in B
    <3>1. r \in A /\ r <= log'.cursor
      BY <1>6, <1>11, <2>4 DEF A
    <3>2. ASSUME NEW j \in DOMAIN m, m[j] > m[r] PROVE j > r
      <4>1. CASE j \in A
        BY <1>10, <3>1, <3>2, <4>1
      <4>2. CASE j \in DOMAIN log.seen
        <5>1. m[j] < log.accepts /\ log.accepts <= m[r] /\ m[j] \in Nat /\ m[r] \in Nat
              /\ log.accepts \in Nat
          BY <1>1, <1>10, <3>1, <4>2 DEF LogInv, LogOf
        <5>2. QED
          BY <3>2, <5>1
      <4>3. QED
        BY <1>10, <3>2, <4>1, <4>2
    <3>3. r \in DOMAIN m
      BY <1>10, <3>1
    <3>4. QED
      BY <1>1, <1>4, <1>5, <1>14, <1>15, <2>1, <3>1, <3>2, <3>3, StaysOutstanding
  <2>5. CASE /\ r \in DOMAIN log.seen
             /\ r <= log.cursor
             /\ \A j \in DOMAIN log.seen : log.seen[j] > log.seen[r] => j > r
    <3>1. r <= log'.cursor
      BY <1>6, <1>12, <2>2, <2>5
    <3>2. ASSUME NEW j \in DOMAIN m, m[j] > m[r] PROVE j > r
      <4>1. CASE j \in A
        BY <1>6, <1>7, <1>8, <2>2, <2>5, <4>1
      <4>2. CASE j \in DOMAIN log.seen
        BY <1>10, <2>5, <3>2, <4>2
      <4>3. QED
        BY <1>10, <3>2, <4>1, <4>2
    <3>3. r \in DOMAIN m
      BY <1>10, <2>5
    <3>4. QED
      BY <1>1, <1>4, <1>5, <1>14, <1>15, <2>1, <3>1, <3>2, <3>3, StaysOutstanding
  <2>6. QED
    BY <1>7, <2>2, <2>3, <2>4, <2>5 DEF OutstandingInv, r
<1>19. ReportInv'
  BY <1>1, <1>7 DEF ReportInv
<1>20. QED
  BY <1>13, <1>16, <1>17, <1>18, <1>19 DEF OnceInv, LogOnce

(* The event of a report is past the cursor when it is news, and the newest      *)
(* accepted then.                                                           *)
LEMMA ReportedOnce ==
  ASSUME ServiceInv, ClientInv, ClientInv', OnceInv, FewAhead', Reported,
         Following, log.sid = report.sid
  PROVE  OnceInv'
<1> DEFINE r == report.number
           A == OwnRevision(NewestOf({r}, ClientHistory)) \ DOMAIN log.seen
           m == Numbered(log.seen, A, log.accepts)
<1>1. /\ TypeOK /\ UNCHANGED <<emitted, pinned, poll, call, begun>> /\ LogInv /\ PollInv
      /\ log' = Ingest({r}, FALSE) /\ report' = NoReport /\ r # 0
  BY DEF Reported, serviceVars, bus, registry, ServiceInv, ClientInv
<1>2. r \in 1..Len(emitted) /\ Outstanding /\ r \in OfSession(log.sid)
  <2>1. r \in 1..Len(emitted)
    BY <1>1 DEF ClientInv, RestInv, Reports
  <2>2. QED
    BY <1>1, <2>1 DEF Outstanding, OnceInv, ReportInv, OfSession
<1> HIDE DEF r
<1>3. /\ LogOf(log', Len(emitted)) /\ log'.sid = log.sid /\ log'.cursor = log.cursor
  BY <1>1, <1>2, IngestIsLog
<1>4. /\ log'.seen = Remember(m) /\ log'.got = log.got \cup A
      /\ log'.accepts = log.accepts + Cardinality(A)
  BY <1>1, IngestNumbers
<1>5. /\ Len(emitted) \in Nat /\ log.cursor \in 1..Len(emitted)
      /\ log.got \subseteq 1..Len(emitted) /\ DOMAIN log.seen \subseteq log.got
      /\ log'.got \subseteq 1..Len(emitted)
  BY <1>1, <1>3, LenProperties DEF LogInv, LogOf, TypeOK
<1>6. CountInv /\ AheadInv /\ BatchInv /\ OutstandingInv
  BY DEF OnceInv, LogOnce
<1>7. A \subseteq {r} /\ A \in SUBSET OfSession(log.sid) /\ A \in SUBSET (1..Len(emitted))
      /\ A \cap DOMAIN log.seen = {}
  BY <1>2 DEF OwnRevision, NewestOf
<1>8. \A a \in A : a = r /\ a > log.cursor /\ a \notin log.got
  BY <1>2, <1>6, <1>7 DEF OutstandingInv, r
<1> HIDE DEF A
<1>9. /\ DOMAIN m = DOMAIN log.seen \cup A
      /\ \A i \in DOMAIN log.seen : m[i] = log.seen[i] /\ m[i] < log.accepts /\ m[i] \in Nat
      /\ \A i \in A : /\ m[i] \in Nat /\ log.accepts <= m[i]
                      /\ m[i] < log.accepts + Cardinality(A)
  <2>1. /\ TypeOK /\ LogInv /\ Following /\ CountInv
        /\ A \in SUBSET (1..Len(emitted)) /\ A \cap DOMAIN log.seen = {}
    BY <1>1, <1>6, <1>7
  <2>2. QED
    BY <2>1, NumbersOf
<1>10. CountInv'
  <2>1. A \cap log.got = {}
    BY <1>8
  <2>2. /\ log'.got \subseteq OfSession(log.sid)
        /\ log'.accepts = Cardinality(log'.got)
        /\ \A j \in DOMAIN log'.seen : log'.seen[j] < log'.accepts
    BY <1>1, <1>3, <1>4, <1>6, <1>7, <2>1, Counted
  <2>3. OfSession(log.sid)' = OfSession(log.sid)
    BY <1>1, <1>3 DEF OfSession
  <2>4. QED
    BY <2>2, <2>3 DEF CountInv
<1> HIDE DEF m
<1>11. DOMAIN m \subseteq log'.got /\ \A j \in DOMAIN m : m[j] \in Nat
  BY <1>4, <1>5, <1>9
<1>12. Cardinality(Ahead(log')) + ClientHistory <= SeenLimit
  <2>1. Following'
    BY <1>3 DEF Following
  <2>2. log'.cursor \in AtRisk'
    BY DEF AtRisk
  <2>3. QED
    BY <2>1, <2>2 DEF FewAhead, Ahead
(* What overtakes an event after the report had overtaken it before.          *)
<1>13. ASSUME NEW i \in Ahead(log')
       PROVE  /\ i \in DOMAIN m
              /\ i \in Ahead(log) \/ i \in A
              /\ i \in A => \A j \in DOMAIN m : ~(m[j] > m[i] /\ j <= log'.cursor)
              /\ i \in Ahead(log) => \A j \in DOMAIN m :
                   m[j] > m[i] /\ j <= log'.cursor => j \in Overtaken(log, i)
  <2>1. i \in log'.got /\ i > log.cursor
    BY <1>3 DEF Ahead
  <2>2. i \in Ahead(log) \/ i \in A
    BY <1>4, <2>1 DEF Ahead
  <2>3. i \in DOMAIN m
    BY <1>6, <1>9, <2>2 DEF AheadInv
  <2>4. ASSUME NEW j \in DOMAIN m, m[j] > m[i], j <= log'.cursor
        PROVE  j \in DOMAIN log.seen
    <3>1. ~(j \in A)
      <4>1. j <= log.cursor /\ log.cursor \in Nat
        BY <1>3, <1>5, <2>4
      <4>2. j \in Nat
        BY <1>5, <1>11, <2>4
      <4>3. ~(j > log.cursor)
        BY <4>1, <4>2
      <4>4. QED
        BY <1>8, <4>3
    <3>2. QED
      BY <1>9, <2>4, <3>1
  <2>5. ASSUME i \in A, NEW j \in DOMAIN m, m[j] > m[i], j <= log'.cursor PROVE FALSE
    <3>1. j \in DOMAIN log.seen
      BY <2>4, <2>5
    <3>2. m[j] < log.accepts /\ log.accepts <= m[i] /\ m[j] \in Nat /\ m[i] \in Nat
          /\ log.accepts \in Nat
      BY <1>1, <1>9, <2>5, <3>1 DEF LogInv, LogOf
    <3>3. QED
      BY <2>5, <3>2
  <2>6. ASSUME i \in Ahead(log), NEW j \in DOMAIN m, m[j] > m[i], j <= log'.cursor
        PROVE  j \in Overtaken(log, i)
    <3>1. j \in DOMAIN log.seen /\ i \in DOMAIN log.seen
      BY <1>6, <2>4, <2>6 DEF AheadInv
    <3>2. QED
      BY <1>3, <1>9, <2>6, <3>1 DEF Overtaken
  <2>7. QED
    BY <2>2, <2>3, <2>5, <2>6
<1>14. ASSUME NEW i \in Ahead(log')
       PROVE  /\ i \in DOMAIN log'.seen /\ Cardinality(Overtaken(log', i)) <= ClientHistory
              /\ Overtaken(log', i) \subseteq IF i \in A THEN {} ELSE Overtaken(log, i)
  <2>1. CASE i \in A
    <3> DEFINE none == {j \in 1..Len(emitted) : FALSE}
    <3>1. none = {}
      OBVIOUS
    <3>2. none \in SUBSET (1..Len(emitted)) /\ Cardinality(none) <= ClientHistory
      BY <3>1, FS_EmptySet, LogBounds
    <3>3. \A j \in DOMAIN m : m[j] > m[i] /\ j <= log'.cursor => j \in none
      BY <1>13, <2>1
    <3> HIDE DEF none
    <3>4. /\ i \in DOMAIN log'.seen /\ Overtaken(log', i) \subseteq none
          /\ Cardinality(Overtaken(log', i)) <= ClientHistory
      BY <1>1, <1>3, <1>4, <1>11, <1>12, <1>13, <3>2, <3>3, StaysAhead
    <3>5. QED
      BY <2>1, <3>1, <3>4
  <2>2. CASE i \notin A
    <3>1. i \in Ahead(log)
      BY <1>13, <2>2
    <3>2. Overtaken(log, i) \in SUBSET (1..Len(emitted))
          /\ Cardinality(Overtaken(log, i)) <= ClientHistory
      BY <1>5, <1>6, <3>1 DEF Overtaken, AheadInv
    <3>3. \A j \in DOMAIN m : m[j] > m[i] /\ j <= log'.cursor => j \in Overtaken(log, i)
      BY <1>13, <3>1
    <3>4. /\ i \in DOMAIN log'.seen /\ Overtaken(log', i) \subseteq Overtaken(log, i)
          /\ Cardinality(Overtaken(log', i)) <= ClientHistory
      BY <1>1, <1>3, <1>4, <1>11, <1>12, <1>13, <3>2, <3>3, StaysAhead
    <3>5. QED
      BY <2>2, <3>4
  <2>3. QED
    BY <2>1, <2>2
<1>15. AheadInv'
  BY <1>14 DEF AheadInv
<1>16. BatchInv'
  <2>1. SUFFICES ASSUME poll.pc = "answered", Current
                 PROVE  /\ \A b \in poll.batch : b > log'.cursor
                        /\ \A i \in Ahead(log') \ poll.batch : Overtaken(log', i) = {}
    BY <1>1, <1>3 DEF BatchInv, Current, Following
  <2>2. \A b \in poll.batch : b > log'.cursor
    BY <1>3, <1>6, <2>1 DEF BatchInv
  <2>3. ASSUME NEW i \in Ahead(log') \ poll.batch PROVE Overtaken(log', i) = {}
    <3>1. CASE i \in A
      BY <1>14, <3>1
    <3>2. CASE i \notin A
      <4>1. i \in Ahead(log)
        BY <1>13, <3>2
      <4>2. Overtaken(log, i) = {}
        BY <1>6, <2>1, <2>3, <4>1 DEF BatchInv
      <4>3. QED
        BY <1>14, <2>3, <3>2, <4>2
    <3>3. QED
      BY <3>1, <3>2
  <2>4. QED
    BY <2>2, <2>3
<1>17. OutstandingInv' /\ ReportInv'
  <2>1. report'.number = 0 /\ report'.sid = NoSession /\ report'.by = NoThread
    BY <1>1 DEF NoReport
  <2>2. QED
    BY <2>1 DEF OutstandingInv, Outstanding, ReportInv
<1>18. QED
  BY <1>10, <1>15, <1>16, <1>17 DEF OnceInv, LogOnce

(* Steps that leave what was accepted and the cursor alone.                   *)
LEMMA SameLog ==
  ASSUME TypeOK, TypeOK', Grown, LogInv, Following, LogOnce,
         log'.sid = log.sid, log'.cursor = log.cursor, log'.got = log.got,
         log'.seen = log.seen, log'.accepts = log.accepts,
         poll'.pc # "answered" \/ UNCHANGED poll \/ BatchInv',
         ~Outstanding' \/ UNCHANGED report \/ OutstandingInv'
  PROVE  LogOnce'
<1>1. CountInv'
  <2>1. log.got \subseteq OfSession(log.sid)'
    BY OldEvents DEF LogOnce, CountInv
  <2>2. QED
    BY <2>1 DEF LogOnce, CountInv, OfSession
<1>2. Ahead(log') = Ahead(log) /\ \A i : Overtaken(log', i) = Overtaken(log, i)
  BY DEF Ahead, Overtaken
<1>3. AheadInv'
  BY <1>2 DEF LogOnce, AheadInv
<1>4. BatchInv'
  <2>1. CASE BatchInv'
    BY <2>1
  <2>2. CASE poll'.pc # "answered"
    BY <2>2 DEF BatchInv
  <2>3. CASE UNCHANGED poll
    <3>1. Current' => Current
      BY <2>3 DEF Current, Following
    <3>2. QED
      BY <1>2, <2>3, <3>1 DEF LogOnce, BatchInv
  <2>4. QED
    BY <2>1, <2>2, <2>3
<1>5. OutstandingInv'
  <2>1. CASE OutstandingInv'
    BY <2>1
  <2>2. CASE ~Outstanding'
    BY <2>2 DEF OutstandingInv
  <2>3. CASE UNCHANGED report
    BY <2>3 DEF LogOnce, OutstandingInv, Outstanding
  <2>4. QED
    BY <2>1, <2>2, <2>3
<1>6. QED
  BY <1>1, <1>3, <1>4, <1>5 DEF LogOnce

(* A handler and a request change the call of their own thread.               *)
LEMMA OtherCalls ==
  ASSUME TypeOK, NEW t \in Threads, HandlerStep(t) \/ Request(t),
         NEW u \in Threads, u # t
  PROVE  call'[u] = call[u]
<1>1. \A c : Runs(t, c) => call'[u] = call[u]
  BY DEF Runs, TypeOK
<1>2. CASE HandlerStep(t)
  <2>1. ASSUME NEW s \in Streams, Put(t, s) PROVE call'[u] = call[u]
    BY <1>1, <2>1 DEF Put
  <2>2. CASE Register(t)
    BY <1>1, <2>2 DEF Register
  <2>3. CASE AppendEvent(t) \/ DropOldest(t) \/ PutAgain(t) \/ Label(t) \/ Answer(t) \/ StoreView(t)
    BY <1>1, <2>3 DEF AppendEvent, DropOldest, PutAgain, Label, Answer, StoreView
  <2>4. QED
    BY <1>2, <2>1, <2>2, <2>3 DEF HandlerStep
<1>3. CASE Request(t)
  BY <1>1, <1>3 DEF Request, AskSession, Resync, Complete, Record, Query, Pin
<1>4. QED
  BY <1>2, <1>3

(* A report that has its number keeps it; one without is not forgotten by the    *)
(* thread that appends its event.                                           *)
LEMMA ReportStays ==
  ASSUME TypeOK, ClientInv, Grown, ReportInv, UNCHANGED report,
         report.sid # NoSession /\ report.number = 0 => call'[report.by] = call[report.by]
  PROVE  ReportInv'
<1>1. report.number # 0 => report.number \in 1..Len(emitted)
  BY DEF ClientInv, RestInv, Reports
<1>2. report.number # 0 => emitted'[report.number] = emitted[report.number]
  BY <1>1 DEF Grown
<1>3. QED
  BY <1>2 DEF ReportInv

LEMMA NoReportHolds ==
  ASSUME report' = NoReport
  PROVE  ReportInv' /\ ~Outstanding'
BY DEF NoReport, ReportInv, Outstanding

(* The event of a report is appended after all that the log accepted.          *)
LEMMA HandlerOnce ==
  ASSUME ServiceInv, ServiceInv', ClientInv, ClientInv', OnceInv,
         NEW t \in Threads, Handler(t)
  PROVE  OnceInv'
<1>1. /\ TypeOK /\ TypeOK' /\ Grown /\ HandlerStep(t) /\ UNCHANGED <<log, poll, begun>>
      /\ LogInv /\ report \in Reports(Len(emitted))
  BY HandlerGrows DEF Handler, ServiceInv, ClientInv, RestInv
<1>2. CASE report.by = t /\ call[t].pc = "append" /\ report.number = 0
  <2>1. /\ report' = [report EXCEPT !.number = Len(emitted')]
        /\ report'.number = Len(emitted') /\ report'.sid = report.sid
    BY <1>1, <1>2 DEF Handler, Reports
  <2>2. t # NoThread
    BY NoThreadAssumption
  <2>3. report.sid # NoSession /\ call[t].event.sid = report.sid
    BY <1>2, <2>2 DEF OnceInv, ReportInv
  <2>4. AppendEvent(t)
    BY <1>1, <1>2 DEF HandlerStep, Put, DropOldest, PutAgain, Register, Label, Answer, StoreView
  <2>5. call[t].event \in Event
    BY <1>1, <2>4, Shapes DEF TypeOK, AppendEvent, AppendCalls
  <2>6. /\ Len(emitted) \in Nat /\ Len(emitted') = Len(emitted) + 1
        /\ emitted'[Len(emitted')] = call[t].event
    BY <1>1, <2>4, <2>5, AppendProperties, LenProperties DEF AppendEvent, TypeOK
  <2>7. ReportInv'
    BY <2>1, <2>3, <2>6 DEF ReportInv
  <2>8. ASSUME Following PROVE LogOnce'
    <3>1. log.got \subseteq 1..Len(emitted) /\ log.cursor \in 1..Len(emitted)
      BY <1>1, <2>8 DEF LogInv, LogOf
    <3>2. OutstandingInv'
      BY <1>1, <2>1, <2>6, <3>1 DEF OutstandingInv
    <3>3. LogOnce
      BY <2>8 DEF OnceInv
    <3>4. QED
      BY <1>1, <2>8, <3>2, <3>3, SameLog
  <2>9. QED
    BY <1>1, <2>7, <2>8 DEF OnceInv, Following
<1>3. CASE ~(report.by = t /\ call[t].pc = "append" /\ report.number = 0)
  <2>1. report' = report
    BY <1>3 DEF Handler
  <2>2. report.sid # NoSession /\ report.number = 0 => call'[report.by] = call[report.by]
    BY <1>1, <1>3, OtherCalls DEF OnceInv, ReportInv
  <2>3. ReportInv'
    BY <1>1, <2>1, <2>2, ReportStays DEF OnceInv
  <2>4. Following => LogOnce'
    BY <1>1, <2>1, SameLog DEF OnceInv
  <2>5. QED
    BY <1>1, <2>3, <2>4 DEF OnceInv, Following
<1>4. QED
  BY <1>2, <1>3

(* Requests start in threads that run nothing.                               *)
LEMMA AsideOnce ==
  ASSUME ServiceInv, ServiceInv', ClientInv, ClientInv', OnceInv,
         UNCHANGED <<emitted, pinned, log, report>>,
         poll'.pc # "answered" \/ UNCHANGED poll \/ (Following => BatchInv'),
         \/ UNCHANGED call
         \/ \E t \in Threads : /\ call[t] = Idle
                              /\ \A u \in Threads : u # t => call'[u] = call[u]
  PROVE  OnceInv'
<1>1. TypeOK /\ TypeOK' /\ Grown /\ LogInv
  BY UnchangedGrows DEF ServiceInv, ClientInv
<1>2. report.sid # NoSession /\ report.number = 0 => call'[report.by] = call[report.by]
  <2>1. SUFFICES ASSUME report.sid # NoSession, report.number = 0
                 PROVE  call'[report.by] = call[report.by]
    OBVIOUS
  <2>2. report.by \in Threads /\ call[report.by].pc = "append"
    BY <2>1 DEF OnceInv, ReportInv
  <2>3. QED
    BY <2>2 DEF Idle
<1>3. ReportInv'
  BY <1>1, <1>2, ReportStays DEF OnceInv
<1>4. ASSUME Following PROVE LogOnce'
  <2>1. poll'.pc # "answered" \/ UNCHANGED poll \/ BatchInv'
    BY <1>4
  <2>2. LogOnce
    BY <1>4 DEF OnceInv
  <2>3. QED
    BY <1>1, <1>4, <2>1, <2>2, SameLog
<1>5. QED
  BY <1>3, <1>4 DEF OnceInv, Following

(* The answer to a poll brings all that is ahead: the cursor is in the ring.    *)
LEMMA ServeOnce ==
  ASSUME ServiceInv, ServiceInv', ClientInv, ClientInv', OnceInv, Serve
  PROVE  OnceInv'
<1>1. UNCHANGED <<emitted, pinned, log, report, call, begun>>
  BY DEF Serve, serviceVars, bus, registry
<1>2. ASSUME Following, poll'.pc = "answered" PROVE BatchInv'
  <2>1. SUFFICES ASSUME Current'
                 PROVE  /\ \A b \in poll'.batch : b > log.cursor
                        /\ \A i \in Ahead(log) \ poll'.batch : Overtaken(log, i) = {}
    BY <1>1 DEF BatchInv, Ahead, Overtaken
  <2>2. /\ poll' = Recent(poll.sid, poll.cursor)
        /\ poll.pc = "asked"
    BY <1>2 DEF Serve
  <2>3. /\ poll'.sid = poll.sid /\ poll.cursor \in Retained(poll.sid)
        /\ poll'.batch = {i \in Retained(poll.sid) : i > poll.cursor}
    BY <1>2, <2>2 DEF Recent
  <2>4. log.sid = poll.sid /\ poll.cursor = log.cursor
    BY <1>1, <1>2, <2>1, <2>2, <2>3 DEF Current, ClientInv, PollInv
  <2>5. ASSUME NEW i \in Ahead(log) PROVE i \in poll'.batch
    <3>1. i \in OfSession(poll.sid) /\ i > log.cursor
      BY <1>2, <2>4 DEF Ahead, OnceInv, LogOnce, CountInv
    <3>2. /\ i \in 1..Len(emitted) /\ log.cursor \in 1..Len(emitted) /\ Len(emitted) \in Nat
          /\ log.cursor + HistoryLimit > Len(emitted) /\ HistoryLimit \in Nat
      BY <2>3, <2>4, <3>1, BusBounds, LenProperties
         DEF Retained, History, OfSession, ServiceInv, TypeOK
    <3>3. i \in History
      BY <3>1, <3>2 DEF History
    <3>4. QED
      BY <2>3, <2>4, <3>1, <3>3 DEF Retained
  <2>6. QED
    BY <2>3, <2>4, <2>5
<1>3. QED
  BY <1>1, <1>2, AsideOnce

(* The session is new: no answer to come is about it.                         *)
LEMMA BeginOnce ==
  ASSUME ServiceInv, ServiceInv', ClientInv, ClientInv', OnceInv,
         NEW sid \in Sessions, Begin(sid)
  PROVE  OnceInv'
<1>1. /\ UNCHANGED <<emitted, pinned, poll, report, call>> /\ sid \notin begun
      /\ TypeOK /\ Grown
  BY UnchangedGrows DEF Begin, serviceVars, bus, registry, ServiceInv
<1>2. PICK i \in OfSession(sid) :
        log' = [sid |-> sid, cursor |-> i, seen |-> [j \in {i} |-> 0], got |-> {i}, accepts |-> 1,
                visible |-> {i}, buffered |-> {}, dropped |-> 0, paused |-> FALSE]
  BY DEF Begin
<1>3. /\ log'.sid = sid /\ log'.cursor = i /\ log'.got = {i} /\ log'.accepts = 1
      /\ log'.seen = [j \in {i} |-> 0] /\ i \in Nat
  BY <1>2 DEF OfSession
<1>4. CountInv'
  <2>1. OfSession(sid)' = OfSession(sid)
    BY <1>1 DEF OfSession
  <2>2. Cardinality({i}) = 1
    BY FS_Singleton
  <2>3. QED
    BY <1>3, <2>1, <2>2 DEF CountInv
<1>5. AheadInv' /\ Ahead(log') = {}
  <2>1. Ahead(log') = {}
    BY <1>3 DEF Ahead
  <2>2. QED
    BY <2>1 DEF AheadInv
<1>6. BatchInv'
  <2>1. poll.pc = "answered" => poll.sid # sid
    BY <1>1 DEF ClientInv, PollInv
  <2>2. QED
    BY <1>1, <1>3, <2>1 DEF BatchInv, Current
<1>7. OutstandingInv'
  <2>1. report.sid # sid
    <3>1. sid \in Nat /\ sid # 0
      BY LenProperties DEF Sessions, ServiceInv, TypeOK
    <3>2. report.sid \in begun \cup {NoSession}
      BY DEF ClientInv, RestInv, Reports
    <3>3. QED
      BY <1>1, <3>1, <3>2 DEF NoSession
  <2>2. QED
    BY <1>1, <1>3, <2>1 DEF OutstandingInv, Outstanding
<1>8. ReportInv'
  BY <1>1, ReportStays DEF OnceInv
<1>9. QED
  BY <1>4, <1>5, <1>6, <1>7, <1>8 DEF OnceInv, LogOnce

LEMMA PauseOnce ==
  ASSUME ServiceInv, ServiceInv', ClientInv, ClientInv', OnceInv, Pause \/ Resume
  PROVE  OnceInv'
<1>1. /\ UNCHANGED <<emitted, pinned, poll, report, call>> /\ Following
      /\ TypeOK /\ TypeOK' /\ Grown /\ LogInv
  BY UnchangedGrows DEF Pause, Resume, serviceVars, bus, registry, ServiceInv, ClientInv
<1>2. /\ log'.sid = log.sid /\ log'.cursor = log.cursor /\ log'.got = log.got
      /\ log'.seen = log.seen /\ log'.accepts = log.accepts
  <2>1. DOMAIN log = LogFields
    BY <1>1 DEF LogInv, LogOf
  <2>2. CASE Pause
    BY <2>1, <2>2 DEF Pause, LogFields
  <2>3. CASE Resume
    BY <2>1, <2>3 DEF Resume, LogFields
  <2>4. QED
    BY <2>2, <2>3
<1>3. LogOnce'
  BY <1>1, <1>2, SameLog DEF OnceInv
<1>4. ReportInv'
  BY <1>1, ReportStays DEF OnceInv
<1>5. QED
  BY <1>3, <1>4 DEF OnceInv

LEMMA ForgetOnce ==
  ASSUME ServiceInv, ServiceInv', ClientInv, ClientInv', OnceInv, Stop \/ Break
  PROVE  OnceInv'
<1>1. /\ UNCHANGED <<emitted, pinned, report, call>> /\ log' = NoLog
      /\ TypeOK /\ Grown
  BY UnchangedGrows DEF Stop, Break, Forget, serviceVars, bus, registry, ServiceInv
<1>2. ReportInv'
  BY <1>1, ReportStays DEF OnceInv
<1>3. QED
  BY <1>1, <1>2 DEF OnceInv, Following, NoLog

(* A report starts: its event has no number yet.                             *)
LEMMA ReportOnce ==
  ASSUME ServiceInv, ServiceInv', ClientInv, ClientInv', OnceInv,
         NEW t \in Threads, Report(t)
  PROVE  OnceInv'
<1>1. /\ UNCHANGED <<emitted, pinned, poll, log>> /\ Following /\ log.sid # NoSession
      /\ TypeOK /\ TypeOK' /\ Grown /\ LogInv
      /\ report' = [sid |-> log.sid, by |-> t, number |-> 0]
      /\ call'[t] = Emits(log.sid, "recorded", pinned[log.sid])
  BY UnchangedGrows DEF Report, Record, bus, registry, ServiceInv, ClientInv, Following, Runs, TypeOK
<1>2. ~Outstanding' /\ ReportInv'
  BY <1>1 DEF Outstanding, ReportInv, Emits
<1>3. LogOnce'
  BY <1>1, <1>2, SameLog DEF OnceInv
<1>4. QED
  BY <1>2, <1>3 DEF OnceInv

(* The report is over, and the log did not hear of it.                        *)
LEMMA UnheardOnce ==
  ASSUME ServiceInv, ServiceInv', ClientInv, ClientInv', OnceInv,
         UNCHANGED <<emitted, pinned, poll, log>>, report' = NoReport
  PROVE  OnceInv'
<1>1. TypeOK /\ TypeOK' /\ Grown /\ LogInv
  BY UnchangedGrows DEF ServiceInv, ClientInv
<1>2. ~Outstanding' /\ ReportInv'
  BY NoReportHolds
<1>3. Following => LogOnce'
  BY <1>1, <1>2, SameLog DEF OnceInv
<1>4. QED
  BY <1>2, <1>3 DEF OnceInv, Following

LEMMA OnceStep ==
  ASSUME ServiceInv, ServiceInv', ClientInv, ClientInv', OnceInv, FewAhead', [Next]_vars
  PROVE  OnceInv'
<1>1. ASSUME NEW t \in Threads, Handler(t) PROVE OnceInv'
  BY <1>1, HandlerOnce
<1>2. ASSUME NEW t \in Threads, Others(t) PROVE OnceInv'
  <2>1. UNCHANGED <<emitted, pinned>> /\ UNCHANGED <<log, report, poll>> /\ Request(t)
    BY <1>2, OthersLeaveHistory DEF Others, clientVars
  <2>2. call[t] = Idle
    BY <2>1 DEF Request, AskSession, Resync, Complete, Record, Query, Pin
  <2>3. \A u \in Threads : u # t => call'[u] = call[u]
    BY <2>1, OtherCalls DEF ServiceInv
  <2>4. QED
    BY <2>1, <2>2, <2>3, AsideOnce
<1>3. CASE Listeners
  <2>1. UNCHANGED <<emitted, pinned, log, report, poll, call>>
    BY <1>3 DEF Listeners, clientVars, StreamStep, Subscribe, Read, Unsubscribe, registry
  <2>2. QED
    BY <2>1, AsideOnce
<1>4. CASE UNCHANGED vars
  <2>1. UNCHANGED <<emitted, pinned, log, report, poll, call>>
    BY <1>4 DEF vars, clientVars, serviceVars, bus, registry
  <2>2. QED
    BY <2>1, AsideOnce
<1>5. ASSUME NEW sid \in Sessions, Begin(sid) PROVE OnceInv'
  BY <1>5, BeginOnce
<1>6. CASE Pause \/ Resume
  BY <1>6, PauseOnce
<1>7. CASE Stop \/ Break
  BY <1>7, ForgetOnce
<1>8. ASSUME NEW t \in Threads, NEW sid \in leaving, Leave(t, sid) PROVE OnceInv'
  <2>1. UNCHANGED <<log, report, poll>>
    BY <1>8 DEF Leave
  <2>2. UNCHANGED <<emitted, pinned>>
    BY <1>8 DEF Leave, Complete, bus, registry, serviceVars
  <2>3. CASE UNCHANGED serviceVars
    BY <2>1, <2>2, <2>3, AsideOnce DEF serviceVars
  <2>4. CASE Complete(t, sid)
    <3>1. call[t] = Idle /\ \A u \in Threads : u # t => call'[u] = call[u]
      BY <2>4 DEF Complete, Runs, ServiceInv, TypeOK
    <3>2. QED
      BY <2>1, <2>2, <3>1, AsideOnce
  <2>5. QED
    BY <1>8, <2>3, <2>4 DEF Leave
<1>9. CASE Ask
  <2>1. UNCHANGED <<emitted, pinned, log, report, call>> /\ poll'.pc # "answered"
    BY <1>9 DEF Ask, serviceVars, bus, registry
  <2>2. QED
    BY <2>1, AsideOnce
<1>10. CASE Serve
  BY <1>10, ServeOnce
<1>11. CASE Receive
  BY <1>11, ReceiveOnce
<1>12. CASE Ignore
  <2>1. UNCHANGED <<emitted, pinned, log, report, call>> /\ poll'.pc # "answered"
    BY <1>12 DEF Ignore, Quiet, serviceVars, bus, registry
  <2>2. QED
    BY <2>1, AsideOnce
<1>13. ASSUME NEW f \in fetching, ViewArrives(f) PROVE OnceInv'
  <2>1. UNCHANGED <<emitted, pinned, log, report, poll, call>>
    BY <1>13 DEF ViewArrives, serviceVars, bus, registry
  <2>2. QED
    BY <2>1, AsideOnce
<1>14. ASSUME NEW t \in Threads, Report(t) PROVE OnceInv'
  BY <1>14, ReportOnce
<1>15. CASE Reported /\ Following /\ log.sid = report.sid
  BY <1>15, ReportedOnce
<1>16. CASE ReportFails \/ (Reported /\ ~(Following /\ log.sid = report.sid))
  <2>1. UNCHANGED <<emitted, pinned, poll, log>> /\ report' = NoReport
    BY <1>16 DEF Reported, ReportFails, serviceVars, bus, registry
  <2>2. QED
    BY <2>1, UnheardOnce
<1>17. QED
  BY <1>1, <1>2, <1>3, <1>4, <1>5, <1>6, <1>7, <1>8, <1>9, <1>10, <1>11, <1>12, <1>13, <1>14,
     <1>15, <1>16 DEF Next, Client, Polling

(* An event that arrives both as the answer to a report and with a poll is      *)
(* accepted once, although the log forgets old identifiers: as long as it       *)
(* remembers as many as a poll can bring more than it has accepted past the      *)
(* cursor, it remembers each of those that may come again.                     *)
THEOREM AcceptedOnceOnly == Spec /\ []FewAhead => []AcceptedOnce
<1>1. Init => OnceInv
  BY DEF Init, OnceInv, ReportInv, NoReport, Following, NoLog
<1>2. ServiceInv /\ ClientInv /\ ServiceInv' /\ ClientInv' /\ FewAhead' /\ OnceInv /\ [Next]_vars
        => OnceInv'
  BY OnceStep
<1>3. OnceInv => AcceptedOnce
  BY DEF OnceInv, LogOnce, CountInv, AcceptedOnce
<1>4. QED
  BY <1>1, <1>2, <1>3, WindowHolds, PTL DEF Spec
=============================================================================
