-------------------------- MODULE IndexJobsProofs --------------------------
(* What IndexJobs guarantees for any number of windows, tokens, contents,    *)
(* jobs and retained records.                                               *)
EXTENDS IndexJobs, TLAPS, FiniteSetTheorems, SequenceTheorems

----------------------------------------------------------------------------
(* The inductive invariant.                                                 *)

(* Job ids beyond the counter are unused; a thread at work has a kept        *)
(* running record and the other way round; there is at most one.            *)
JobsInv ==
  /\ \A j \in JobIds : j > started => /\ worker[j] = "none"
                                      /\ j \notin kept
                                      /\ jobState[j] = "none"
  /\ Active = Working
  /\ \A i, j \in Working : i = j

(* Records that are kept and not running are exactly the retained ones.     *)
KeptInv ==
  /\ Len(finished) <= MaxFinished
  /\ kept = Active \cup {finished[n] : n \in DOMAIN finished}
  /\ \A n \in DOMAIN finished : finished[n] \notin Active
  /\ \A m, n \in DOMAIN finished : finished[m] = finished[n] => m = n
  /\ cancelled \subseteq kept

(* A token whose job was started, or is about to be, is no longer in the     *)
(* store, and no two handlers hold one spent token.                         *)
TokenInv ==
  /\ records \subseteq Issued
  /\ \A c \in Clients : token[c] # None => token[c] \in Issued
  /\ \A j \in 1..started : jobToken[j] \in Issued \ records
  /\ \A c \in Clients : pc[c] = "start" =>
       /\ token[c] \in Issued \ records
       /\ \A j \in 1..started : jobToken[j] # token[c]
       /\ \A d \in Clients : pc[d] = "start" /\ token[d] = token[c] => c = d
  /\ TokenStartsOneJob

(* What is uploaded is what was shown, and what was called completed has     *)
(* been verified.                                                           *)
ContentInv ==
  /\ \A c \in Clients : pc[c] = "start" => prep[c] = shown[token[c]]
  /\ OnlyShownIsUploaded
  /\ \A j \in 1..started :
       worker[j] = "ready" \/ jobState[j] = "completed" => jobSnap[j] \in verified
  /\ \A c \in Clients : pc[c] \in {"polling", "completed"} => token[c] \in Issued
  /\ \A c \in Clients : pc[c] = "polling" => /\ job[c] \in 1..started
                                             /\ jobToken[job[c]] = token[c]
  /\ ReportedIsVerified

(* The preview store holds at most its limit, and its cached analysis        *)
(* belongs to one of its records.                                           *)
StoreInv ==
  /\ IsFiniteSet(records) /\ Cardinality(records) <= MaxPreviews
  /\ prepared \in records \cup {None}

IInv == JobsInv /\ KeptInv /\ TokenInv /\ ContentInv /\ StoreInv

----------------------------------------------------------------------------
(* Type correctness.                                                        *)

LEMMA IssuedFinite == IsFiniteSet(Issued) /\ Cardinality(Issued) \in Nat
BY TokenAssumption, FS_Subset, FS_CardinalityType DEF Issued

LEMMA NoneIsNoRevision == None \notin Revisions
BY NoneAssumption DEF Revisions

LEMMA WorkspaceType ==
  ASSUME NEW w \in Workspaces
  PROVE  w.files \in Files /\ w.head \in Commits \cup {None}
BY TreeAssumption DEF Workspaces

LEMMA DraftUpdate ==
  ASSUME NEW d \in Drafts, NEW f \in Files \cup {None},
         NEW r \in Revisions \cup {None}
  PROVE  /\ [d EXCEPT !.disc = f] \in Drafts
         /\ [d EXCEPT !.rev = r] \in Drafts
         /\ [d EXCEPT !.parsed = f] \in Drafts
         /\ d.disc \in Revisions \cup {None}
         /\ Blank \in Drafts
BY DEF Drafts, Blank, Revisions

LEMMA AppendTail ==
  ASSUME NEW S, NEW s \in Seq(S), NEW x \in S
  PROVE  /\ Append(s, x) \in Seq(S)
         /\ Len(Append(s, x)) = Len(s) + 1
         /\ Tail(Append(s, x)) \in Seq(S)
         /\ Head(Append(s, x)) \in S
<1>1. Append(s, x) \in Seq(S) /\ Len(Append(s, x)) = Len(s) + 1
  BY AppendProperties
<1>2. Append(s, x) # <<>>
  BY AppendProperties
<1>3. QED
  BY <1>1, <1>2, HeadTailProperties

(* Every variable keeps its type, whatever the threads, the windows, the     *)
(* clock and the service do.                                                *)
THEOREM TypeCorrect == Spec => []TypeOK
<1>1. Init => TypeOK
  BY JobsAssumption DEF Init, TypeOK, ClientStates, JobStates, WorkerStates,
     Blank, Drafts
<1>2. TypeOK /\ [Next]_vars => TypeOK'
  <2> SUFFICES ASSUME TypeOK, [Next]_vars PROVE TypeOK'
    OBVIOUS
  <2> USE DEF TypeOK, previews, client, store
  <2>1. CASE Change
    BY <2>1 DEF Change
  <2>2. CASE Expire
    BY <2>2 DEF Expire
  <2>3. CASE Restart
    BY <2>3 DEF Restart, ClientStates, Ended, WorkerStates
  <2>4. ASSUME NEW c \in Clients, Ask(c) PROVE TypeOK'
    <3>1. CASE Preview(c)
      BY <3>1 DEF Preview, ClientStates, Handling, Preparing
    <3>2. CASE Confirm(c)
      BY <3>2 DEF Confirm, ClientStates, Handling
    <3>3. CASE CancelJob(c)
      BY <3>3 DEF CancelJob, Outcome, Active, ClientStates, Ended
    <3>4. CASE Again(c)
      BY <3>4, DraftUpdate DEF Again, ClientStates, Blank, Drafts
    <3>5. ASSUME NEW t \in Tokens, Repeat(c, t) PROVE TypeOK'
      BY <3>5 DEF Repeat, ClientStates
    <3>6. QED
      BY <2>4, <3>1, <3>2, <3>3, <3>4, <3>5 DEF Ask
  <2>5. ASSUME NEW c \in Clients, Serve(c) PROVE TypeOK'
    <3> USE DEF ClientStates, Handling, Ended, Preparing
    <3>1. CASE Discover(c)
      <4>1. prep' \in [Clients -> Drafts]
        BY <3>1, WorkspaceType, DraftUpdate DEF Discover
      <4>2. QED
        BY <3>1, <4>1 DEF Discover
    <3>2. CASE Revise(c)
      <4>1. prep' \in [Clients -> Drafts]
        <5>1. CASE workspace.head # None /\ prep' = [prep EXCEPT ![c].rev = workspace.head]
          <6>1. workspace.head \in Revisions \cup {None}
            BY WorkspaceType DEF Revisions
          <6>2. QED
            BY <5>1, <6>1, DraftUpdate
        <5>2. CASE prep' = [prep EXCEPT ![c].rev = prep[c].disc]
          <6>1. prep[c] \in Drafts /\ prep[c].disc \in Revisions \cup {None}
            BY DraftUpdate DEF Drafts, Revisions
          <6>2. QED
            BY <5>2, <6>1, DraftUpdate
        <5>3. QED
          BY <3>2, <5>1, <5>2 DEF Revise
      <4>2. QED
        BY <3>2, <4>1 DEF Revise
    <3>3. CASE Analyse(c)
      <4>1. prep' \in [Clients -> Drafts]
        BY <3>3, WorkspaceType, DraftUpdate DEF Analyse
      <4>2. QED
        BY <3>3, <4>1 DEF Analyse
    <3>4. CASE PrepareFails(c)
      BY <3>4 DEF PrepareFails
    <3>5. ASSUME NEW t \in Tokens, Issue(c, t) PROVE TypeOK'
      <4>1. records' \subseteq Tokens
        BY <3>5 DEF Issue, Pruned
      <4>2. age' \in [Tokens -> Nat]
        BY <3>5, IssuedFinite DEF Issue
      <4>3. prep' \in [Clients -> Drafts] /\ shown' \in [Tokens -> Drafts]
        BY <3>5, DraftUpdate DEF Issue
      <4>4. QED
        BY <3>5, <4>1, <4>2, <4>3 DEF Issue
    <3>6. CASE CheckActive(c)
      BY <3>6 DEF CheckActive
    <3>7. CASE LookUp(c)
      BY <3>7 DEF LookUp, Pruned, Cached
    <3>8. CASE Compare(c)
      <4>1. prep' \in [Clients -> Drafts]
        BY <3>8, NoneAssumption, TokenAssumption DEF Compare
      <4>2. QED
        BY <3>8, <4>1 DEF Compare
    <3>9. CASE Consume(c)
      BY <3>9 DEF Consume, Pruned, Cached
    <3>10. CASE StartJob(c)
      <4>1. /\ started' \in 0..MaxJobs /\ started' \in JobIds
        BY <3>10, JobsAssumption DEF StartJob, JobIds
      <4>2. prep' \in [Clients -> Drafts] /\ jobSnap' \in [JobIds -> Drafts]
        BY <3>10, DraftUpdate DEF StartJob
      <4>3. QED
        BY <3>10, <4>1, <4>2 DEF StartJob, JobStates, WorkerStates
    <3>11. CASE StartRefused(c)
      BY <3>11 DEF StartRefused
    <3>12. CASE PollJob(c)
      BY <3>12 DEF PollJob, Outcome
    <3>13. QED
      BY <2>5, <3>1, <3>2, <3>3, <3>4, <3>5, <3>6, <3>7, <3>8, <3>9, <3>10,
         <3>11, <3>12 DEF Serve
  <2>6. ASSUME NEW j \in JobIds, SyncReturns(j) PROVE TypeOK'
    <3>1. worker' \in [JobIds -> WorkerStates]
      BY <2>6 DEF SyncReturns, WorkerStates, Returned
    <3>2. jobSnap[j] \in Drafts
      OBVIOUS
    <3>3. verified' \subseteq Drafts
      BY <2>6, <3>2 DEF SyncReturns
    <3>4. QED
      BY <2>6, <3>1, <3>3 DEF SyncReturns
  <2>7. ASSUME NEW j \in JobIds, Finish(j) PROVE TypeOK'
    <3>1. StateFor(worker[j]) \in JobStates
      BY DEF StateFor, JobStates
    <3>2. finished' \in Seq(JobIds)
      <4>1. finished' = Append(finished, j) \/ finished' = Tail(Append(finished, j))
        BY <2>7 DEF Finish
      <4>2. QED
        <5>1. /\ Append(finished, j) \in Seq(JobIds)
              /\ Tail(Append(finished, j)) \in Seq(JobIds)
          BY AppendTail
        <5>2. QED
          BY <4>1, <5>1
    <3>3. /\ kept' \subseteq JobIds /\ cancelled' \subseteq JobIds
          /\ worker' \in [JobIds -> WorkerStates]
          /\ jobState' \in [JobIds -> JobStates]
      BY <2>7, <3>1 DEF Finish, WorkerStates
    <3>4. QED
      <4>0. started' \in 0..MaxJobs /\ jobToken' \in [JobIds -> Tokens \cup {None}]
            /\ jobSnap' \in [JobIds -> Drafts]
        BY <2>7 DEF Finish
      <4>1. UNCHANGED <<workspace, previews, horizon, pc, client,
                        started, jobToken, jobSnap, verified>>
        BY <2>7 DEF Finish
      <4>2. QED
        BY <4>0, <4>1, <3>2, <3>3
  <2>8. CASE UNCHANGED vars
    BY <2>8 DEF vars
  <2>9. QED
    BY <2>1, <2>2, <2>3, <2>4, <2>5, <2>6, <2>7, <2>8 DEF Next, Work
<1>3. QED
  BY <1>1, <1>2, PTL DEF Spec

----------------------------------------------------------------------------
(* Which steps touch the job store, and which the preview store.             *)

LEMMA StoreSteps ==
  ASSUME [Next]_vars
  PROVE  \/ UNCHANGED <<store, worker, verified>>
         \/ \E c \in Clients : StartJob(c)
         \/ \E c \in Clients : CancelJob(c)
         \/ \E j \in JobIds : SyncReturns(j)
         \/ \E j \in JobIds : Finish(j)
         \/ Restart
<1>1. CASE UNCHANGED vars
  BY <1>1 DEF vars, store
<1>2. ASSUME NEW c \in Clients, Ask(c)
      PROVE  UNCHANGED <<store, worker, verified>> \/ CancelJob(c)
  BY <1>2 DEF Ask, Preview, Confirm, Again, Repeat
<1>3. ASSUME NEW c \in Clients, Serve(c)
      PROVE  UNCHANGED <<store, worker, verified>> \/ StartJob(c)
  BY <1>3 DEF Serve, Discover, Revise, Analyse, PrepareFails, Issue,
     CheckActive, LookUp, Compare, Consume, StartRefused, PollJob
<1>4. Change \/ Expire => UNCHANGED <<store, worker, verified>>
  BY DEF Change, Expire
<1>5. QED
  BY <1>1, <1>2, <1>3, <1>4 DEF Next, Work

LEMMA PreviewSteps ==
  ASSUME [Next]_vars
  PROVE  \/ UNCHANGED <<previews, horizon>>
         \/ Expire
         \/ \E c \in Clients : \E t \in Tokens : Issue(c, t)
         \/ \E c \in Clients : LookUp(c)
         \/ \E c \in Clients : Consume(c)
         \/ Restart
<1>1. CASE UNCHANGED vars
  BY <1>1 DEF vars, previews
<1>2. ASSUME NEW c \in Clients, Ask(c)
      PROVE  UNCHANGED <<previews, horizon>>
  BY <1>2 DEF Ask, Preview, Confirm, Again, Repeat, CancelJob
<1>3. ASSUME NEW c \in Clients, Serve(c)
      PROVE  \/ UNCHANGED <<previews, horizon>>
             \/ \E t \in Tokens : Issue(c, t)
             \/ LookUp(c) \/ Consume(c)
  BY <1>3 DEF Serve, Discover, Revise, Analyse, PrepareFails, CheckActive,
     Compare, StartJob, StartRefused, PollJob
<1>4. Change => UNCHANGED <<previews, horizon>>
  BY DEF Change
<1>5. ASSUME NEW j \in JobIds, Work(j)
      PROVE  UNCHANGED <<previews, horizon>>
  BY <1>5 DEF Work, SyncReturns, Finish
<1>6. QED
  BY <1>1, <1>2, <1>3, <1>4, <1>5 DEF Next

----------------------------------------------------------------------------
(* Jobs.                                                                    *)

LEMMA WorkingStarted ==
  ASSUME TypeOK, JobsInv, NEW j \in Working
  PROVE  j \in 1..started
BY DEF TypeOK, JobsInv, Working, Returned, JobIds

(* What a retained record is.                                               *)
LEMMA DroppedIsIdle ==
  ASSUME TypeOK, KeptInv, JobsInv, NEW j \in JobIds, worker[j] \in Returned,
         Len(Append(finished, j)) > MaxFinished
  PROVE  /\ finished # <<>>
         /\ Head(Append(finished, j)) = finished[1]
         /\ finished[1] \in JobIds \ Active
         /\ finished[1] # j
<1>1. finished # <<>>
  <2>1. finished = <<>> => Len(Append(finished, j)) = 1
    OBVIOUS
  <2>2. QED
    BY <2>1, FinishedAssumption
<1>2. finished \in Seq(JobIds)
  BY DEF TypeOK
<1>3. Head(Append(finished, j)) = finished[1] /\ 1 \in DOMAIN finished
  BY <1>1, <1>2
<1>4. j \in Active
  BY DEF JobsInv, Working
<1>5. finished[1] \in JobIds
  BY <1>2, <1>3
<1>6. QED
  BY <1>1, <1>3, <1>4, <1>5 DEF KeptInv

LEMMA JobsStep ==
  ASSUME TypeOK, JobsInv, KeptInv, [Next]_vars
  PROVE  JobsInv'
<1>1. CASE UNCHANGED <<store, worker, verified>>
  BY <1>1 DEF JobsInv, Active, Working, store
<1>2. ASSUME NEW c \in Clients, StartJob(c) PROVE JobsInv'
  <2> DEFINE j == started + 1
  <2>1. j \in JobIds /\ j \notin kept /\ worker[j] = "none"
    BY <1>2, JobsAssumption DEF StartJob, TypeOK, JobsInv, JobIds
  <2>2. Active' = {j}
    BY <1>2, <2>1 DEF StartJob, Active, TypeOK
  <2>3. Working' = {j}
    BY <1>2, <2>1 DEF StartJob, Working, TypeOK, JobsInv
  <2>4. \A i \in JobIds : i > started' => /\ worker'[i] = "none"
                                          /\ i \notin kept'
                                          /\ jobState'[i] = "none"
    BY <1>2, <2>1 DEF StartJob, TypeOK, JobsInv, JobIds
  <2>5. QED
    BY <2>2, <2>3, <2>4 DEF JobsInv
<1>3. ASSUME NEW c \in Clients, CancelJob(c) PROVE JobsInv'
  BY <1>3 DEF CancelJob, JobsInv, Active, Working
<1>4. ASSUME NEW j \in JobIds, SyncReturns(j) PROVE JobsInv'
  <2>1. Working' = Working
    BY <1>4 DEF SyncReturns, Working, TypeOK, Returned
  <2>2. Active' = Active /\ UNCHANGED <<started, kept, jobState>>
    BY <1>4 DEF SyncReturns, Active, store
  <2>3. j \in Working
    BY <1>4 DEF SyncReturns, Working
  <2>4. \A i \in JobIds : i # j => worker'[i] = worker[i]
    BY <1>4 DEF SyncReturns, TypeOK
  <2>5. QED
    BY <2>1, <2>2, <2>3, <2>4, WorkingStarted DEF JobsInv, TypeOK, JobIds
<1>5. ASSUME NEW j \in JobIds, Finish(j) PROVE JobsInv'
  <2>1. j \in Working /\ worker[j] \in Returned
    BY <1>5 DEF Finish, Working
  <2>2. Working' = {}
    BY <1>5, <2>1 DEF Finish, Working, TypeOK, JobsInv, Returned
  <2>3. kept' \subseteq kept
    BY <1>5 DEF Finish
  <2>4. jobState'[j] # "running" /\ \A i \in JobIds : i # j => jobState'[i] = jobState[i]
    BY <1>5 DEF Finish, TypeOK, StateFor
  <2>5. Active' = {}
    BY <2>1, <2>3, <2>4 DEF Active, JobsInv, TypeOK
  <2>6. \A i \in JobIds : i # j => worker'[i] = worker[i]
    BY <1>5 DEF Finish, TypeOK
  <2>7. started' = started
    BY <1>5 DEF Finish
  <2>8. QED
    BY <2>1, <2>2, <2>3, <2>4, <2>5, <2>6, <2>7, WorkingStarted
       DEF JobsInv, TypeOK, JobIds
<1>6. CASE Restart
  BY <1>6 DEF Restart, JobsInv, Active, Working, Returned
<1>7. QED
  BY <1>1, <1>2, <1>3, <1>4, <1>5, <1>6, StoreSteps

LEMMA KeptStep ==
  ASSUME TypeOK, JobsInv, KeptInv, [Next]_vars
  PROVE  KeptInv'
<1>1. CASE UNCHANGED <<store, worker, verified>>
  BY <1>1 DEF KeptInv, Active, store
<1>2. ASSUME NEW c \in Clients, StartJob(c) PROVE KeptInv'
  <2> DEFINE j == started + 1
  <2>1. j \in JobIds /\ j \notin kept
    BY <1>2, JobsAssumption DEF StartJob, TypeOK, JobsInv, JobIds
  <2>2. Active = {} /\ Active' = {j}
    BY <1>2, <2>1 DEF StartJob, Active, TypeOK
  <2>3. kept' = kept \cup {j} /\ UNCHANGED <<finished, cancelled>>
    BY <1>2 DEF StartJob
  <2>4. \A n \in DOMAIN finished : finished[n] # j
    BY <2>1 DEF KeptInv
  <2>5. QED
    BY <2>1, <2>2, <2>3, <2>4 DEF KeptInv
<1>3. ASSUME NEW c \in Clients, CancelJob(c) PROVE KeptInv'
  <2>1. UNCHANGED <<kept, jobState, finished>> /\ cancelled' \subseteq cancelled \cup Active
    BY <1>3 DEF CancelJob
  <2>2. Active' = Active /\ Active \subseteq kept
    BY <2>1 DEF Active
  <2>3. QED
    BY <2>1, <2>2 DEF KeptInv
<1>4. ASSUME NEW j \in JobIds, SyncReturns(j) PROVE KeptInv'
  BY <1>4 DEF SyncReturns, KeptInv, Active, store
<1>5. ASSUME NEW j \in JobIds, Finish(j) PROVE KeptInv'
  <2> DEFINE all == Append(finished, j)
  <2>1. j \in Active /\ worker[j] \in Returned
    BY <1>5 DEF Finish, Working, JobsInv
  <2>2. finished \in Seq(JobIds)
    BY DEF TypeOK
  <2>3. /\ all \in Seq(JobIds) /\ Len(all) = Len(finished) + 1
        /\ \A n \in 1..Len(finished) : all[n] = finished[n]
        /\ all[Len(finished) + 1] = j
    BY <2>2, AppendProperties
  <2>4. Active = {j}
    BY <2>1 DEF JobsInv
  <2>5. jobState'[j] # "running" /\ \A i \in JobIds : i # j => jobState'[i] = jobState[i]
    BY <1>5 DEF Finish, TypeOK, StateFor
  <2>6. kept' \subseteq kept /\ Active' = {}
    BY <1>5, <2>4, <2>5 DEF Finish, Active, TypeOK
  <2>7. kept = {all[n] : n \in DOMAIN all}
    BY <2>2, <2>3, <2>4 DEF KeptInv
  <2>8. \A m, n \in DOMAIN all : all[m] = all[n] => m = n
    BY <2>2, <2>3, <2>1 DEF KeptInv
  <2>9. CASE Len(all) > MaxFinished
    <3>1. finished' = Tail(all) /\ kept' = kept \ {Head(all)}
          /\ cancelled' = cancelled \ {Head(all)}
      BY <1>5, <2>9 DEF Finish
    <3>2. /\ finished' \in Seq(JobIds) /\ Len(finished') = Len(finished)
          /\ Head(all) = all[1]
          /\ \A n \in 1..Len(finished') : finished'[n] = all[n + 1]
      BY <3>1, <2>3, HeadTailProperties
    <3>3. {finished'[n] : n \in DOMAIN finished'} = kept'
      <4>1. ASSUME NEW n \in DOMAIN finished' PROVE finished'[n] \in kept'
        <5>1. n \in 1..Len(finished) /\ n + 1 \in DOMAIN all /\ 1 \in DOMAIN all
          BY <3>2, <2>3, <2>2
        <5>2. finished'[n] = all[n + 1] /\ n + 1 # 1
          BY <5>1, <3>2
        <5>3. all[n + 1] \in kept /\ all[n + 1] # all[1]
          BY <5>1, <5>2, <2>7, <2>8
        <5>4. QED
          BY <5>2, <5>3, <3>1, <3>2
      <4>2. ASSUME NEW k \in kept' PROVE \E n \in DOMAIN finished' : k = finished'[n]
        <5>1. PICK m \in DOMAIN all : k = all[m]
          BY <3>1, <2>7
        <5>2. m # 1 /\ m \in 1..(Len(finished) + 1)
          BY <5>1, <3>1, <3>2, <2>3
        <5>3. (m - 1) \in DOMAIN finished' /\ finished'[m - 1] = all[m]
          BY <5>2, <3>2, <2>2
        <5>4. QED
          BY <5>1, <5>3
      <4>3. QED
        BY <4>1, <4>2
    <3>4. \A m, n \in DOMAIN finished' : finished'[m] = finished'[n] => m = n
      <4> SUFFICES ASSUME NEW m \in DOMAIN finished', NEW n \in DOMAIN finished',
                          finished'[m] = finished'[n]
                   PROVE  m = n
        OBVIOUS
      <4>1. /\ m \in 1..Len(finished) /\ n \in 1..Len(finished)
            /\ m + 1 \in DOMAIN all /\ n + 1 \in DOMAIN all
        BY <3>2, <2>3, <2>2
      <4>2. all[m + 1] = all[n + 1]
        BY <4>1, <3>2
      <4>3. m + 1 = n + 1
        BY <4>1, <4>2, <2>8
      <4>4. QED
        BY <4>1, <4>3
    <3>5. Len(finished') <= MaxFinished
      BY <3>2 DEF KeptInv
    <3>6. QED
      BY <3>1, <3>3, <3>4, <3>5, <2>6 DEF KeptInv
  <2>10. CASE ~(Len(all) > MaxFinished)
    <3>1. finished' = all /\ UNCHANGED <<kept, cancelled>>
      BY <1>5, <2>10 DEF Finish
    <3>2. Len(all) <= MaxFinished
      BY <2>10, <2>3, <2>2, FinishedAssumption
    <3>3. QED
      BY <3>1, <3>2, <2>6, <2>7, <2>8 DEF KeptInv
  <2>11. QED
    BY <2>9, <2>10
<1>6. CASE Restart
  <2>1. finished' = <<>> /\ kept' = {} /\ cancelled' = {} /\ Active' = {}
    BY <1>6 DEF Restart, Active
  <2>2. QED
    BY <2>1, FinishedAssumption DEF KeptInv
<1>7. QED
  BY <1>1, <1>2, <1>3, <1>4, <1>5, <1>6, StoreSteps

----------------------------------------------------------------------------
(* How a client gets to where it is.                                        *)

LEMMA ToStart ==
  ASSUME TypeOK, [Next]_vars, NEW c \in Clients, pc'[c] = "start"
  PROVE  \/ pc[c] = "start" /\ token'[c] = token[c] /\ prep'[c] = prep[c]
         \/ Consume(c)
<1>1. CASE UNCHANGED vars
  BY <1>1 DEF vars
<1>2. CASE Change \/ Expire \/ Restart
  BY <1>2 DEF Change, Expire, Restart, client, TypeOK, Handling
<1>3. ASSUME NEW d \in Clients, Ask(d)
      PROVE  pc[c] = "start" /\ token'[c] = token[c] /\ prep'[c] = prep[c]
  BY <1>3 DEF Ask, Preview, Confirm, Again, Repeat, CancelJob, Outcome, client,
     TypeOK
<1>4. ASSUME NEW d \in Clients, Serve(d)
      PROVE  \/ pc[c] = "start" /\ token'[c] = token[c] /\ prep'[c] = prep[c]
             \/ Consume(c)
  <2>1. CASE Consume(d)
    BY <2>1 DEF Consume, client, TypeOK
  <2>2. CASE Discover(d) \/ Revise(d) \/ Analyse(d) \/ PrepareFails(d)
             \/ \E t \in Tokens : Issue(d, t)
    BY <2>2 DEF Discover, Revise, Analyse, PrepareFails, Issue, client, TypeOK
  <2>3. CASE CheckActive(d) \/ LookUp(d) \/ Compare(d)
    BY <2>3 DEF CheckActive, LookUp, Compare, client, TypeOK
  <2>4. CASE StartJob(d) \/ StartRefused(d) \/ PollJob(d)
    BY <2>4 DEF StartJob, StartRefused, PollJob, Outcome, client, TypeOK
  <2>5. QED
    BY <1>4, <2>1, <2>2, <2>3, <2>4 DEF Serve
<1>5. ASSUME NEW j \in JobIds, Work(j)
      PROVE  pc[c] = "start" /\ token'[c] = token[c] /\ prep'[c] = prep[c]
  BY <1>5 DEF Work, SyncReturns, Finish, client
<1>6. QED
  BY <1>1, <1>2, <1>3, <1>4, <1>5 DEF Next

LEMMA ToReport ==
  ASSUME TypeOK, [Next]_vars, NEW c \in Clients,
         pc'[c] \in {"polling", "completed"}
  PROVE  \/ pc[c] = pc'[c] /\ token'[c] = token[c] /\ job'[c] = job[c]
         \/ /\ pc[c] = "polling" /\ token'[c] = token[c] /\ job'[c] = job[c]
            /\ pc'[c] = Outcome(job[c]) /\ UNCHANGED <<jobState, kept>>
         \/ StartJob(c)
<1>1. CASE UNCHANGED vars
  BY <1>1 DEF vars
<1>2. CASE Change \/ Expire \/ Restart
  BY <1>2 DEF Change, Expire, Restart, client, TypeOK
<1>3. ASSUME NEW d \in Clients, Ask(d)
      PROVE  \/ pc[c] = pc'[c] /\ token'[c] = token[c] /\ job'[c] = job[c]
             \/ /\ pc[c] = "polling" /\ token'[c] = token[c] /\ job'[c] = job[c]
                /\ pc'[c] = Outcome(job[c]) /\ UNCHANGED <<jobState, kept>>
  BY <1>3 DEF Ask, Preview, Confirm, Again, Repeat, CancelJob, client, TypeOK
<1>4. ASSUME NEW d \in Clients, Serve(d)
      PROVE  \/ pc[c] = pc'[c] /\ token'[c] = token[c] /\ job'[c] = job[c]
             \/ /\ pc[c] = "polling" /\ token'[c] = token[c] /\ job'[c] = job[c]
                /\ pc'[c] = Outcome(job[c]) /\ UNCHANGED <<jobState, kept>>
             \/ StartJob(c)
  <2>1. CASE Discover(d) \/ Revise(d) \/ Analyse(d) \/ PrepareFails(d)
             \/ \E t \in Tokens : Issue(d, t)
    BY <2>1 DEF Discover, Revise, Analyse, PrepareFails, Issue, client, TypeOK
  <2>2. CASE CheckActive(d) \/ LookUp(d) \/ Compare(d) \/ Consume(d)
    BY <2>2 DEF CheckActive, LookUp, Compare, Consume, client, TypeOK
  <2>3. CASE StartJob(d) \/ StartRefused(d) \/ PollJob(d)
    BY <2>3 DEF StartJob, StartRefused, PollJob, client, store, TypeOK
  <2>4. QED
    BY <1>4, <2>1, <2>2, <2>3 DEF Serve
<1>5. ASSUME NEW j \in JobIds, Work(j)
      PROVE  pc[c] = pc'[c] /\ token'[c] = token[c] /\ job'[c] = job[c]
  BY <1>5 DEF Work, SyncReturns, Finish, client
<1>6. QED
  BY <1>1, <1>2, <1>3, <1>4, <1>5 DEF Next

LEMMA IssuedGrows ==
  ASSUME TypeOK, [Next]_vars
  PROVE  /\ Issued \subseteq Issued'
         /\ \A t \in Issued : shown'[t] = shown[t]
<1>1. ASSUME NEW c \in Clients, NEW t \in Tokens, Issue(c, t)
      PROVE  /\ Issued \subseteq Issued'
             /\ \A u \in Issued : shown'[u] = shown[u]
  <2>1. t \notin Issued /\ \A u \in Issued : u # t
    BY <1>1 DEF Issue
  <2>2. QED
    BY <1>1, <2>1 DEF Issue, Issued, TypeOK
<1>2. CASE UNCHANGED <<age, shown>>
  BY <1>2 DEF Issued
<1>3. QED
  BY <1>1, <1>2, PreviewSteps DEF previews, Expire, LookUp, Consume, Restart

LEMMA TokenOfClient ==
  ASSUME TypeOK, [Next]_vars, NEW c \in Clients
  PROVE  token'[c] = token[c] \/ token'[c] = None \/ token'[c] \in Issued'
<1>1. CASE UNCHANGED vars
  BY <1>1 DEF vars
<1>2. CASE Change \/ Expire \/ Restart
  BY <1>2 DEF Change, Expire, Restart, client
<1>3. ASSUME NEW d \in Clients, Ask(d)
      PROVE  token'[c] = token[c] \/ token'[c] = None \/ token'[c] \in Issued'
  BY <1>3, IssuedGrows
     DEF Ask, Preview, Confirm, Again, Repeat, CancelJob, client, TypeOK
<1>4. ASSUME NEW d \in Clients, NEW t \in Tokens, Issue(d, t)
      PROVE  token'[c] = token[c] \/ token'[c] \in Issued'
  <2>1. t \in Issued'
    BY <1>4, IssuedFinite DEF Issue, Issued, TypeOK
  <2>2. QED
    BY <1>4, <2>1 DEF Issue, TypeOK
<1>5. ASSUME NEW d \in Clients, Serve(d), ~ \E t \in Tokens : Issue(d, t)
      PROVE  token'[c] = token[c]
  BY <1>5 DEF Serve, Discover, Revise, Analyse, PrepareFails, CheckActive,
     LookUp, Compare, Consume, StartJob, StartRefused, PollJob, client
<1>6. ASSUME NEW j \in JobIds, Work(j) PROVE token'[c] = token[c]
  BY <1>6 DEF Work, SyncReturns, Finish, client
<1>7. QED
  BY <1>1, <1>2, <1>3, <1>4, <1>5, <1>6 DEF Next

----------------------------------------------------------------------------
(* Tokens.                                                                  *)

(* A token that was issued and is not in the store does not come back.      *)
LEMMA SpentStaysSpent ==
  ASSUME TypeOK, TokenInv, [Next]_vars
  PROVE  records' \subseteq Issued' /\ (Issued \ records) \cap records' = {}
<1>1. ASSUME NEW c \in Clients, NEW t \in Tokens, Issue(c, t)
      PROVE  records' \subseteq Issued' /\ (Issued \ records) \cap records' = {}
  <2>1. t \notin Issued /\ t \in Issued'
    BY <1>1, IssuedFinite DEF Issue, Issued, TypeOK
  <2>2. records' \subseteq records \cup {t}
    BY <1>1 DEF Issue, Pruned
  <2>3. QED
    BY <2>1, <2>2, IssuedGrows DEF TokenInv
<1>2. CASE records' \subseteq records
  BY <1>2, IssuedGrows DEF TokenInv
<1>3. QED
  BY <1>1, <1>2, PreviewSteps
     DEF previews, Expire, LookUp, Consume, Restart, Pruned

(* Jobs are only added, by a handler in "start", with its token and draft.  *)
LEMMA JobsGrow ==
  ASSUME TypeOK, [Next]_vars
  PROVE  \/ UNCHANGED <<started, jobToken, jobSnap>>
         \/ \E c \in Clients :
              /\ StartJob(c)
              /\ started' = started + 1
              /\ jobToken'[started + 1] = token[c]
              /\ jobSnap'[started + 1] = prep[c]
              /\ \A j \in 1..started : /\ jobToken'[j] = jobToken[j]
                                       /\ jobSnap'[j] = jobSnap[j]
<1>1. ASSUME NEW c \in Clients, StartJob(c)
      PROVE  /\ started' = started + 1
             /\ jobToken'[started + 1] = token[c]
             /\ jobSnap'[started + 1] = prep[c]
             /\ \A j \in 1..started : /\ jobToken'[j] = jobToken[j]
                                      /\ jobSnap'[j] = jobSnap[j]
  <2>1. started + 1 \in JobIds
    BY <1>1, JobsAssumption DEF StartJob, TypeOK, JobIds
  <2>2. QED
    BY <1>1, <2>1, JobsAssumption DEF StartJob, TypeOK, JobIds
<1>2. QED
  BY <1>1, StoreSteps DEF store, CancelJob, SyncReturns, Finish, Restart

LEMMA TokenStep ==
  ASSUME TypeOK, TokenInv, [Next]_vars
  PROVE  TokenInv'
<1>1. records' \subseteq Issued'
  BY SpentStaysSpent
<1>2. \A c \in Clients : token'[c] # None => token'[c] \in Issued'
  BY TokenOfClient, IssuedGrows DEF TokenInv
<1>3. \A t \in Issued \ records : t \in Issued' \ records'
  BY IssuedGrows, SpentStaysSpent
<1>4. CASE UNCHANGED <<started, jobToken, jobSnap>>
  <2>1. \A j \in 1..started' : jobToken'[j] \in Issued' \ records'
    BY <1>3, <1>4 DEF TokenInv
  <2>2. TokenStartsOneJob'
    BY <1>4 DEF TokenInv, TokenStartsOneJob
  <2>3. ASSUME NEW c \in Clients, pc'[c] = "start"
        PROVE  /\ token'[c] \in Issued' \ records'
               /\ \A j \in 1..started' : jobToken'[j] # token'[c]
               /\ \A d \in Clients : pc'[d] = "start" /\ token'[d] = token'[c]
                                       => c = d
    <3>1. CASE pc[c] = "start" /\ token'[c] = token[c] /\ prep'[c] = prep[c]
      <4>1. token[c] \in Issued \ records
        BY <3>1 DEF TokenInv
      <4>2. \A d \in Clients : Consume(d) /\ pc'[d] = "start" => token'[d] # token'[c]
        BY <4>1, <3>1 DEF Consume, client, Pruned, TypeOK
      <4>3. QED
        BY <1>3, <1>4, <3>1, <4>1, <4>2, ToStart DEF TokenInv
    <3>2. CASE Consume(c)
      <4>1. /\ token[c] \in Pruned /\ token' = token
            /\ records' = Pruned \ {token[c]}
            /\ pc' = [pc EXCEPT ![c] = "start"]
        BY <2>3, <3>2 DEF Consume, client, TypeOK
      <4>2. token[c] \in records
        BY <4>1 DEF Pruned
      <4>3. \A d \in Clients : pc'[d] = "start" /\ d # c => pc[d] = "start"
        BY <4>1 DEF TypeOK
      <4>4. \A d \in Clients : pc'[d] = "start" /\ d # c => token[d] # token[c]
        BY <4>2, <4>3 DEF TokenInv
      <4>5. \A j \in 1..started : jobToken[j] # token[c]
        BY <4>2 DEF TokenInv
      <4>6. token[c] \in Issued'
        BY <4>2, IssuedGrows DEF TokenInv
      <4>7. QED
        BY <1>4, <4>1, <4>4, <4>5, <4>6
    <3>3. QED
      BY <2>3, <3>1, <3>2, ToStart
  <2>4. QED
    BY <1>1, <1>2, <2>1, <2>2, <2>3 DEF TokenInv
<1>5. ASSUME NEW c \in Clients, StartJob(c),
             started' = started + 1, jobToken'[started + 1] = token[c],
             \A j \in 1..started : jobToken'[j] = jobToken[j]
      PROVE  TokenInv'
  <2>1. /\ pc[c] = "start" /\ pc' = [pc EXCEPT ![c] = "polling"]
        /\ UNCHANGED <<records, age, token>>
    BY <1>5 DEF StartJob, previews
  <2>2. Issued' = Issued
    BY <2>1 DEF Issued
  <2>3. started \in Nat /\ \A j \in 1..started' : j \in 1..started \/ j = started + 1
    BY <1>5 DEF TypeOK
  <2>4. /\ token[c] \in Issued \ records
        /\ \A j \in 1..started : jobToken[j] # token[c]
        /\ \A d \in Clients : pc[d] = "start" /\ token[d] = token[c] => c = d
    BY <2>1 DEF TokenInv
  <2>5. \A j \in 1..started' : jobToken'[j] \in Issued' \ records'
    BY <1>5, <2>1, <2>2, <2>3, <2>4 DEF TokenInv
  <2>6. TokenStartsOneJob'
    BY <1>5, <2>3, <2>4 DEF TokenInv, TokenStartsOneJob
  <2>7. \A d \in Clients : pc'[d] = "start" => pc[d] = "start" /\ d # c
    BY <2>1 DEF TypeOK
  <2>8. ASSUME NEW d \in Clients, pc'[d] = "start"
        PROVE  /\ token'[d] \in Issued' \ records'
               /\ \A j \in 1..started' : jobToken'[j] # token'[d]
               /\ \A e \in Clients : pc'[e] = "start" /\ token'[e] = token'[d]
                                       => d = e
    BY <1>5, <2>1, <2>2, <2>3, <2>4, <2>7, <2>8 DEF TokenInv
  <2>9. QED
    BY <1>1, <1>2, <2>5, <2>6, <2>8 DEF TokenInv
<1>6. QED
  BY <1>4, <1>5, JobsGrow

----------------------------------------------------------------------------
(* Contents.                                                                *)

LEMMA VerifiedGrows ==
  ASSUME [Next]_vars
  PROVE  verified \subseteq verified'
BY StoreSteps DEF StartJob, CancelJob, SyncReturns, Finish, Restart

LEMMA ContentStep ==
  ASSUME TypeOK, JobsInv, TokenInv, ContentInv, [Next]_vars
  PROVE  ContentInv'
<1>1. \A c \in Clients : pc'[c] = "start" => prep'[c] = shown'[token'[c]]
  <2> SUFFICES ASSUME NEW c \in Clients, pc'[c] = "start"
               PROVE  prep'[c] = shown'[token'[c]]
    OBVIOUS
  <2>1. CASE pc[c] = "start" /\ token'[c] = token[c] /\ prep'[c] = prep[c]
    BY <2>1, IssuedGrows DEF ContentInv, TokenInv
  <2>2. CASE Consume(c)
    BY <2>2 DEF Consume, client, TypeOK
  <2>3. QED
    BY <2>1, <2>2, ToStart
<1>2. ASSUME NEW j \in 1..started', j \notin 1..started
      PROVE  \E c \in Clients :
               /\ StartJob(c) /\ j = started + 1
               /\ jobToken'[j] = token[c] /\ jobSnap'[j] = prep[c]
  <2>1. started \in Nat
    BY DEF TypeOK
  <2>2. QED
    BY <1>2, <2>1, JobsGrow
<1>3. ASSUME NEW j \in 1..started
      PROVE  /\ j \in 1..started'
             /\ jobToken'[j] = jobToken[j] /\ jobSnap'[j] = jobSnap[j]
             /\ shown'[jobToken[j]] = shown[jobToken[j]]
  <2>1. started \in Nat
    BY DEF TypeOK
  <2>2. shown'[jobToken[j]] = shown[jobToken[j]]
    BY IssuedGrows DEF TokenInv
  <2>3. QED
    BY <2>1, <2>2, JobsGrow
<1>4. OnlyShownIsUploaded'
  <2> SUFFICES ASSUME NEW j \in 1..started'
               PROVE  jobSnap'[j] = shown'[jobToken'[j]]
    BY DEF OnlyShownIsUploaded
  <2>1. CASE j \in 1..started
    BY <2>1, <1>3 DEF ContentInv, OnlyShownIsUploaded
  <2>2. CASE j \notin 1..started
    <3>1. PICK c \in Clients : /\ StartJob(c)
                               /\ jobToken'[j] = token[c] /\ jobSnap'[j] = prep[c]
      BY <2>2, <1>2
    <3>2. pc[c] = "start"
      BY <3>1 DEF StartJob
    <3>3. QED
      BY <3>1, <3>2, IssuedGrows DEF ContentInv, TokenInv
  <2>3. QED
    BY <2>1, <2>2
<1>5. ASSUME NEW j \in 1..started',
             worker'[j] = "ready" \/ jobState'[j] = "completed"
      PROVE  jobSnap'[j] \in verified'
  <2>1. started \in 0..MaxJobs /\ started' \in Nat
    BY JobsGrow DEF TypeOK
  <2>2. CASE j \notin 1..started
    <3>1. PICK c \in Clients : StartJob(c) /\ j = started + 1
      BY <2>2, <1>2
    <3>2. j \in JobIds
      BY <3>1, JobsAssumption DEF StartJob, TypeOK, JobIds
    <3>3. worker'[j] = "syncing" /\ jobState'[j] = "running"
      BY <3>1, <3>2 DEF StartJob, TypeOK
    <3>4. QED
      BY <3>3, <1>5
  <2>3. ASSUME j \in 1..started, NEW i \in JobIds, SyncReturns(i)
        PROVE  jobSnap'[j] \in verified'
    <3>1. CASE i = j /\ verified' = verified \cup {jobSnap[j]}
      BY <3>1, <2>3, <1>3
    <3>2. CASE worker'[j] # "ready" \/ i # j
      <4>0. j \in JobIds
        BY <2>1, <2>3, JobsAssumption DEF JobIds
      <4>1. worker'[j] = "ready" => worker[j] = "ready"
        BY <3>2, <4>0, <2>3 DEF SyncReturns, TypeOK
      <4>2. jobState'[j] = jobState[j]
        BY <2>3 DEF SyncReturns, store
      <4>3. QED
        BY <4>1, <4>2, <2>3, <1>3, <1>5, VerifiedGrows DEF ContentInv
    <3>3. i = j /\ worker'[j] = "ready" => verified' = verified \cup {jobSnap[j]}
      BY <2>3 DEF SyncReturns, TypeOK
    <3>4. QED
      BY <3>1, <3>2, <3>3
  <2>4. ASSUME j \in 1..started, NEW i \in JobIds, Finish(i)
        PROVE  jobSnap'[j] \in verified'
    <3>1. j \in JobIds
      BY <2>1, <2>4, JobsAssumption DEF JobIds
    <3>2. worker'[j] = "ready" => worker[j] = "ready"
      BY <2>4, <3>1 DEF Finish, TypeOK
    <3>3. jobState'[j] = "completed" => jobState[j] = "completed" \/ worker[j] = "ready"
      BY <2>4, <3>1 DEF Finish, TypeOK, StateFor
    <3>4. QED
      BY <3>2, <3>3, <2>4, <1>3, <1>5, VerifiedGrows DEF ContentInv
  <2>5. ASSUME j \in 1..started, NEW c \in Clients, StartJob(c)
        PROVE  jobSnap'[j] \in verified'
    <3>1. worker'[j] = worker[j] /\ jobState'[j] = jobState[j]
      BY <2>1, <2>5 DEF StartJob, TypeOK
    <3>2. QED
      BY <3>1, <2>5, <1>3, <1>5, VerifiedGrows DEF ContentInv
  <2>6. CASE j \in 1..started /\ Restart
    <3>1. j \in JobIds
      BY <2>1, <2>6, JobsAssumption DEF JobIds
    <3>2. worker'[j] # "ready" /\ jobState'[j] = jobState[j]
      BY <2>6, <3>1 DEF Restart
    <3>3. QED
      BY <3>2, <2>6, <1>3, <1>5, VerifiedGrows DEF ContentInv
  <2>7. CASE j \in 1..started /\ UNCHANGED <<worker, jobState>>
    BY <2>7, <1>3, <1>5, VerifiedGrows DEF ContentInv
  <2>8. QED
    BY <2>2, <2>3, <2>4, <2>5, <2>6, <2>7, StoreSteps DEF store, CancelJob
<1>6. ASSUME NEW c \in Clients, pc'[c] \in {"polling", "completed"}
      PROVE  /\ token'[c] \in Issued'
             /\ pc'[c] = "polling" => /\ job'[c] \in 1..started'
                                      /\ jobToken'[job'[c]] = token'[c]
             /\ pc'[c] = "completed" => shown'[token'[c]] \in verified'
  <2>1. CASE pc[c] = pc'[c] /\ token'[c] = token[c] /\ job'[c] = job[c]
    BY <2>1, <1>6, <1>3, IssuedGrows, VerifiedGrows
       DEF ContentInv, ReportedIsVerified
  <2>2. CASE /\ pc[c] = "polling" /\ token'[c] = token[c] /\ job'[c] = job[c]
             /\ pc'[c] = Outcome(job[c]) /\ UNCHANGED <<jobState, kept>>
    <3>1. /\ token[c] \in Issued /\ job[c] \in 1..started
          /\ jobToken[job[c]] = token[c]
      BY <2>2 DEF ContentInv
    <3>2. pc'[c] = "completed" => jobState[job[c]] = "completed"
      BY <2>2 DEF Outcome
    <3>3. jobState[job[c]] = "completed" => shown[token[c]] \in verified
      BY <3>1 DEF ContentInv, OnlyShownIsUploaded
    <3>4. QED
      BY <2>2, <3>1, <3>2, <3>3, <1>3, IssuedGrows, VerifiedGrows
  <2>3. CASE StartJob(c)
    <3>1. started + 1 \in JobIds
      BY <2>3, JobsAssumption DEF StartJob, TypeOK, JobIds
    <3>2. /\ pc[c] = "start" /\ pc'[c] = "polling" /\ job'[c] = started + 1
          /\ started' = started + 1 /\ token' = token
          /\ jobToken'[started + 1] = token[c]
      BY <2>3, <3>1 DEF StartJob, TypeOK
    <3>3. started + 1 \in 1..started' /\ token[c] \in Issued
      BY <3>2 DEF TokenInv, TypeOK
    <3>4. QED
      BY <3>2, <3>3, IssuedGrows
  <2>4. QED
    BY <1>6, <2>1, <2>2, <2>3, ToReport
<1>7. QED
  BY <1>1, <1>4, <1>5, <1>6 DEF ContentInv, ReportedIsVerified

----------------------------------------------------------------------------
(* The preview store.                                                       *)

LEMMA PrunedFacts ==
  ASSUME TypeOK, StoreInv
  PROVE  /\ Pruned \subseteq records
         /\ IsFiniteSet(Pruned)
         /\ Cardinality(Pruned) \in Nat /\ Cardinality(Pruned) <= MaxPreviews
         /\ Cached \in Pruned \cup {None}
<1>1. Pruned \subseteq records
  BY DEF Pruned
<1>2. IsFiniteSet(Pruned) /\ Cardinality(Pruned) <= Cardinality(records)
  BY <1>1, FS_Subset DEF StoreInv
<1>3. Cardinality(Pruned) \in Nat /\ Cardinality(records) \in Nat
  BY <1>2, FS_CardinalityType DEF StoreInv
<1>4. QED
  BY <1>1, <1>2, <1>3, PreviewAssumption DEF StoreInv, Cached

LEMMA Shrinks ==
  ASSUME TypeOK, StoreInv, records' \subseteq records
  PROVE  IsFiniteSet(records') /\ Cardinality(records') <= MaxPreviews
<1>1. IsFiniteSet(records') /\ Cardinality(records') <= Cardinality(records)
  BY FS_Subset DEF StoreInv
<1>2. Cardinality(records') \in Nat /\ Cardinality(records) \in Nat
  BY <1>1, FS_CardinalityType DEF StoreInv
<1>3. QED
  BY <1>1, <1>2, PreviewAssumption DEF StoreInv

LEMMA StoreStep ==
  ASSUME TypeOK, StoreInv, [Next]_vars
  PROVE  StoreInv'
<1>1. CASE UNCHANGED <<records, prepared>>
  BY <1>1 DEF StoreInv
<1>2. ASSUME NEW c \in Clients, NEW t \in Tokens, Issue(c, t) PROVE StoreInv'
  <2>1. CASE Cardinality(Pruned) = MaxPreviews
    <3>1. PICK o \in Pruned : records' = (Pruned \ {o}) \cup {t}
      BY <1>2, <2>1 DEF Issue, Oldest
    <3>2. /\ IsFiniteSet(Pruned \ {o})
          /\ Cardinality(Pruned \ {o}) = Cardinality(Pruned) - 1
      BY PrunedFacts, FS_RemoveElement
    <3>3. /\ IsFiniteSet(records')
          /\ Cardinality(records') <= Cardinality(Pruned \ {o}) + 1
      BY <3>1, <3>2, FS_AddElement, PrunedFacts
    <3>4. QED
      BY <1>2, <2>1, <3>1, <3>2, <3>3, PrunedFacts, FS_CardinalityType,
         PreviewAssumption DEF Issue, StoreInv
  <2>2. CASE Cardinality(Pruned) # MaxPreviews
    <3>1. records' = Pruned \cup {t} /\ prepared' = t
      BY <1>2, <2>2 DEF Issue
    <3>2. /\ IsFiniteSet(records')
          /\ Cardinality(records') <= Cardinality(Pruned) + 1
      BY <3>1, FS_AddElement, PrunedFacts
    <3>3. Cardinality(records') \in Nat
      BY <3>2, FS_CardinalityType
    <3>4. QED
      BY <2>2, <3>1, <3>2, <3>3, PrunedFacts, PreviewAssumption DEF StoreInv
  <2>3. QED
    BY <2>1, <2>2
<1>3. ASSUME NEW c \in Clients, LookUp(c) PROVE StoreInv'
  <2>1. records' = Pruned /\ prepared' = Cached
    BY <1>3 DEF LookUp
  <2>2. QED
    BY <2>1, PrunedFacts, Shrinks DEF StoreInv
<1>4. ASSUME NEW c \in Clients, Consume(c) PROVE StoreInv'
  <2>1. /\ records' = Pruned \ {token[c]}
        /\ prepared' = IF Cached = token[c] THEN None ELSE Cached
    BY <1>4 DEF Consume
  <2>2. records' \subseteq records /\ prepared' \in records' \cup {None}
    BY <2>1, PrunedFacts
  <2>3. QED
    BY <2>2, Shrinks DEF StoreInv
<1>5. CASE Restart
  <2>1. records' = {} /\ prepared' = None
    BY <1>5 DEF Restart
  <2>2. QED
    BY <2>1, Shrinks DEF StoreInv
<1>6. QED
  BY <1>1, <1>2, <1>3, <1>4, <1>5, PreviewSteps DEF previews, Expire

----------------------------------------------------------------------------
(* The theorems.                                                            *)

(* The parts of the invariant hold together in every reachable state of the *)
(* previews, the jobs, their threads and the windows.                        *)
THEOREM Inductive == Spec => []IInv
<1>1. Init => IInv
  <2> SUFFICES ASSUME Init PROVE IInv
    OBVIOUS
  <2>1. Active = {} /\ Working = {} /\ Issued = {}
    BY DEF Init, Active, Working, Issued, Returned
  <2>2. JobsInv
    BY <2>1 DEF Init, JobsInv
  <2>3. KeptInv
    BY <2>1, FinishedAssumption DEF Init, KeptInv
  <2>4. TokenInv
    BY <2>1 DEF Init, TokenInv, TokenStartsOneJob
  <2>5. ContentInv
    BY <2>1 DEF Init, ContentInv, OnlyShownIsUploaded, ReportedIsVerified
  <2>6. StoreInv
    BY FS_EmptySet, PreviewAssumption DEF Init, StoreInv
  <2>7. QED
    BY <2>2, <2>3, <2>4, <2>5, <2>6 DEF IInv
<1>2. TypeOK /\ IInv /\ [Next]_vars => IInv'
  BY JobsStep, KeptStep, TokenStep, ContentStep, StoreStep DEF IInv
<1>3. QED
  BY <1>1, <1>2, TypeCorrect, PTL DEF Spec

(* At most one worker thread exists, and it is the one of the only running   *)
(* record, however many confirmations race.                                  *)
THEOREM OneJob == Spec => []OneRunningJob
<1>1. JobsInv => OneRunningJob
  <2> SUFFICES ASSUME JobsInv PROVE Cardinality(Working) <= 1
    BY DEF JobsInv, OneRunningJob
  <2>1. CASE Working = {}
    BY <2>1, FS_EmptySet
  <2>2. CASE Working # {}
    <3>1. PICK j \in Working : TRUE
      BY <2>2
    <3>2. Working = {j}
      BY <3>1 DEF JobsInv
    <3>3. QED
      BY <3>2, FS_Singleton
  <2>3. QED
    BY <2>1, <2>2
<1>2. QED
  BY <1>1, Inductive, PTL DEF IInv

(* No token starts two jobs, however often and by whomever it is confirmed.  *)
THEOREM SingleUse == Spec => []TokenStartsOneJob
<1>1. IInv => TokenStartsOneJob
  BY DEF IInv, TokenInv
<1>2. QED
  BY <1>1, Inductive, PTL

(* Every job uploads what the preview of its token described.               *)
THEOREM ShownOnly == Spec => []OnlyShownIsUploaded
<1>1. IInv => OnlyShownIsUploaded
  BY DEF IInv, ContentInv
<1>2. QED
  BY <1>1, Inductive, PTL

(* A window that reports completion reports the verified snapshot its user   *)
(* confirmed.                                                               *)
THEOREM HonestReport == Spec => []ReportedIsVerified
<1>1. IInv => ReportedIsVerified
  BY DEF IInv, ContentInv
<1>2. QED
  BY <1>1, Inductive, PTL

(* Both stores keep within their limits and consistent with each other.      *)
THEOREM Retention == Spec => []RetentionBounded
<1>1. IInv => RetentionBounded
  BY DEF IInv, KeptInv, StoreInv, RetentionBounded
<1>2. QED
  BY <1>1, Inductive, PTL
=============================================================================
