----------------------------- MODULE Comparison -----------------------------
(***************************************************************************)
(* "Compare Graph Before and After Change" (extension.ts) over Evolution.     *)
(* The window remembers the two revisions in its workspace state, which       *)
(* survives reloads, and drops them when a publication was reported ready.    *)
(* The service goes on with a request whose window has given up waiting.      *)
(***************************************************************************)
EXTENDS Evolution

CONSTANTS MaxCommands   \* comparisons and lens requests of other clients (bound)

ASSUME ComparisonBounds == MaxCommands \in Nat

VARIABLES flow,        \* hydra.compare.pending: the two revisions
          step,        \* what the command is about to do, or waits for
          requests,    \* the thread that serves the window's request
          commands,    \* number of commands of other clients so far
          shared       \* somebody else used the checkpoints, or an answer about a
                       \* confirmed publication was lost (for the properties)

compareVars == <<vars, flow, step, requests, commands, shared>>
window == <<flow, step, requests, commands, shared>>

NoPair == [before |-> NoRevision, after |-> NoRevision]
Pending == flow.before # NoRevision /\ flow.after # NoRevision
Quiet == [at |-> "idle", revision |-> NoRevision]

CompareTypeOK ==
  /\ TypeOK
  /\ flow \in [before : Revisions \cup {NoRevision}, after : Revisions \cup {NoRevision}]
  /\ step \in [at : {"idle", "before", "after", "describe", "review", "publish"},
               revision : Revisions \cup {NoRevision}]
  /\ requests \in Threads \cup {Nobody}
  /\ commands \in 0..MaxCommands
  /\ shared \in BOOLEAN

CompareInit ==
  /\ Init
  /\ flow = NoPair /\ step = Quiet /\ requests = Nobody /\ commands = 0 /\ shared = FALSE

-----------------------------------------------------------------------------
(* runCompareWorkflow.  The health answer must be ready with a revision.      *)

(* Mutation: a service that never verified a revision will do.               *)
HealthyUnverified == sync.status = "ready"

Healthy == sync.status = "ready" /\ sync.revision # NoRevision
NextSlot == IF flow.before = NoRevision THEN "before" ELSE "after"

StartCompare ==
  /\ step = Quiet /\ Healthy
  /\ IF Pending THEN step' = [at |-> "describe", revision |-> NoRevision]
     ELSE /\ NextSlot = "after" => sync.revision # flow.before
          /\ step' = [at |-> NextSlot, revision |-> sync.revision]
  /\ UNCHANGED <<vars, flow, requests, commands, shared>>

(* Every capture is confirmed in a dialog first.                            *)
Capture(t) ==
  /\ step.at \in Slots /\ requests = Nobody
  /\ AskCapture(t, step.at, step.revision)
  /\ requests' = t
  /\ UNCHANGED <<flow, step, commands, shared>>

Cancel ==
  /\ step.at \in Slots \cup {"review"} /\ requests = Nobody
  /\ step' = Quiet
  /\ UNCHANGED <<vars, flow, requests, commands, shared>>

Answer(t) == requests = t /\ call[t].pc = "answered"
Settled(t) ==
  /\ Runs(t, Idle) /\ requests' = Nobody
  /\ UNCHANGED <<local, slots, lock, store, views, refresh, faults, commands, shared>>

Captured(t) ==
  /\ step.at \in Slots /\ Answer(t)
  /\ IF call[t].result = "captured"
     THEN /\ flow' = [flow EXCEPT ![step.at] = step.revision]
          /\ step' = IF step.at = "before" THEN Quiet
                     ELSE [at |-> "describe", revision |-> NoRevision]
     ELSE step' = Quiet /\ UNCHANGED flow
  /\ Settled(t)

(* previewThenConfirm: the preview, the dialog, the confirmed request.        *)
Describe(t) ==
  /\ step.at = "describe" /\ requests = Nobody
  /\ Publish(t, flow.before, flow.after, FALSE)
  /\ requests' = t
  /\ UNCHANGED <<flow, step, commands, shared>>

Described(t) ==
  /\ step.at = "describe" /\ Answer(t)
  /\ step' = IF call[t].result = "preview"
             THEN [at |-> "review", revision |-> NoRevision] ELSE Quiet
  /\ UNCHANGED flow
  /\ Settled(t)

Confirm(t) ==
  /\ step.at = "review" /\ requests = Nobody
  /\ Publish(t, flow.before, flow.after, TRUE)
  /\ step' = [at |-> "publish", revision |-> NoRevision]
  /\ requests' = t
  /\ UNCHANGED <<flow, commands, shared>>

(* Only "ready" ends the comparison; any other answer leaves it pending.      *)
Published(t) ==
  /\ step.at = "publish" /\ Answer(t)
  /\ flow' = IF call[t].result = "ready" THEN NoPair ELSE flow
  /\ step' = Quiet
  /\ Settled(t)

(* The request times out or the window is reloaded: the service is not told.  *)
Abandon ==
  /\ step # Quiet
  /\ Fault
  /\ step' = Quiet /\ requests' = Nobody
  /\ shared' = (shared \/ requests # Nobody)
  /\ UNCHANGED <<local, slots, lock, store, views, refresh, call, flow, commands>>

(* Nobody waits for this answer.                                            *)
Unread(t) ==
  /\ call[t].pc = "answered" /\ requests # t
  /\ Runs(t, Idle)
  /\ UNCHANGED <<local, slots, lock, store, views, refresh, faults, window>>

-----------------------------------------------------------------------------
(* Other clients of the service and of the command line: a checkpoint of the  *)
(* verified revision, a publication of what the slots hold, the lens.         *)
Other(t) ==
  /\ commands < MaxCommands /\ commands' = commands + 1
  /\ \/ /\ \/ \E s \in Slots : sync.revision # NoRevision /\ AskCapture(t, s, sync.revision)
           \/ /\ \A s \in Slots : slots[s] # NoCheckpoint
              /\ Publish(t, slots["before"].revision, slots["after"].revision, TRUE)
        /\ shared' = TRUE
     \/ LensRequest(t) /\ UNCHANGED shared
  /\ UNCHANGED <<flow, step, requests>>

(* The window learns of the crash from the broken connection.                *)
ServiceCrash ==
  /\ Crash
  /\ step' = IF requests = Nobody THEN step ELSE Quiet
  /\ requests' = Nobody
  /\ shared' = (shared \/ requests # Nobody)
  /\ UNCHANGED <<flow, commands>>

WindowStep ==
  \/ StartCompare \/ Cancel
  \/ \E t \in Threads : \/ Capture(t) \/ Captured(t) \/ Describe(t) \/ Described(t)
                        \/ Confirm(t) \/ Published(t)

CompareNext ==
  \/ WindowStep \/ Abandon \/ ServiceCrash
  \/ \E t \in Threads : Unread(t) \/ Other(t) \/ (HandlerStep(t) /\ UNCHANGED window)
  \/ Environment /\ UNCHANGED window

(* Threads are scheduled and HydraDB finishes cards.  The user goes on with a  *)
(* comparison that can go on, and does not cancel it for ever.                *)
CompareFairness ==
  /\ \A t \in Threads : WF_compareVars(HandlerStep(t) /\ UNCHANGED window)
                        /\ SF_compareVars(TakeLock(t) /\ UNCHANGED window)
                        /\ WF_compareVars(Unread(t))
  /\ \A c \in Cards : WF_compareVars(IndexCard(c) /\ UNCHANGED window)
  /\ SF_compareVars(StartCompare)
  /\ SF_compareVars(\E t \in Threads : Capture(t))
  /\ SF_compareVars(\E t \in Threads : Describe(t))
  /\ SF_compareVars(\E t \in Threads : Confirm(t))
  /\ WF_compareVars(\E t \in Threads : Captured(t) \/ Described(t) \/ Published(t))

CompareSpec == CompareInit /\ [][CompareNext]_compareVars /\ CompareFairness

-----------------------------------------------------------------------------
(* A comparison whose two revisions are recorded, and whose delta fits the    *)
(* cards, is published and forgotten, however often HydraDB fails, an upload   *)
(* stops half way or the user cancels: what is left of an attempt never stops  *)
(* the next one.  A pair whose delta does not fit is refused every time, and    *)
(* the window never drops it: it stays pending for ever.                     *)
ComparisonEnds ==
  ([]<>Healthy /\ []~shared)
    => (Pending /\ <<flow.before, flow.after>> \notin Unpublishable ~> ~Pending)
=============================================================================
