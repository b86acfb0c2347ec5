----------------------------- MODULE OwnerLock -----------------------------
(***************************************************************************)
(* One Argus service for all VS Code windows: managedRuntime.ts.            *)
(*                                                                         *)
(* A window that needs the service tries to attach to a running one; if none *)
(* answers, it takes an owner lock, a file opened with "wx", starts the      *)
(* service as a child process and attaches to it.  A window that finds the   *)
(* lock taken waits, and then replaces it if the process named in it is gone.*)
(* Every await lets the other windows, the operating system and this window's *)
(* own exit and dispose handlers run.  Windows close, crash and are reopened; *)
(* services crash, and any file or process call may fail.                   *)
(*                                                                         *)
(* Ports are left out: a window reaches some service that is up, if any.     *)
(***************************************************************************)
EXTENDS Naturals, FiniteSets

CONSTANTS Windows,      \* windows of one VS Code installation
          NoWindow,
          Services,     \* service processes that exist at one time (bound)
          NoService,
          MaxFaults,    \* failing calls, crashes and timeouts of services (bound)
          MaxCrashes,   \* crashes of extension hosts (bound)
          MaxReopens    \* windows opened again (bound)

ASSUME NoWindowAssumption == NoWindow \notin Windows
ASSUME NoServiceAssumption == NoService \notin Services
ASSUME BoundsAssumption == MaxFaults \in Nat /\ MaxCrashes \in Nat /\ MaxReopens \in Nat

(* The lock file: who created it, whether its record was written, and        *)
(* whether the process that created it still runs.                          *)
Locks == [owner : Windows \cup {NoWindow}, written : BOOLEAN, live : BOOLEAN]
NoLock == [owner |-> NoWindow, written |-> FALSE, live |-> FALSE]

(* A service process: the host that has it as a child, NoWindow if that host *)
(* is gone.                                                                 *)
Processes == [host : Windows \cup {NoWindow},
              state : {"off", "starting", "up", "killed"}]
Off == [host |-> NoWindow, state |-> "off"]

Steps == {"idle", "attach", "acquire", "write", "wait", "inspect", "remove",
          "reacquire", "launch", "starting", "final"}

VARIABLES lock,       \* managed-service-owner.json
          svc,        \* service processes
          host,       \* extension host: open, disposed (dispose ran), gone
          pc,         \* where ensureReady stands
          holds,      \* ownerHandle and ownerLockPath are set
          removing,   \* releaseOwnerLock calls that have not removed the file yet
          child,      \* this.child
          session,    \* the service this.session belongs to
          faults, crashes, reopens,
          robbed      \* history: some step removed a live process's lock

hosts == <<host, crashes, reopens>>
vars == <<lock, svc, pc, holds, removing, child, session, faults, robbed, hosts>>

TypeOK ==
  /\ lock \in Locks
  /\ svc \in [Services -> Processes]
  /\ host \in [Windows -> {"open", "disposed", "gone"}]
  /\ pc \in [Windows -> Steps]
  /\ holds \in [Windows -> BOOLEAN]
  /\ removing \in [Windows -> Nat]
  /\ child \in [Windows -> Services \cup {NoService}]
  /\ session \in [Windows -> Services \cup {NoService}]
  /\ faults \in 0..MaxFaults /\ crashes \in 0..MaxCrashes /\ reopens \in 0..MaxReopens
  /\ robbed \in BOOLEAN

Init ==
  /\ lock = NoLock
  /\ svc = [s \in Services |-> Off]
  /\ host = [w \in Windows |-> "open"]
  /\ pc = [w \in Windows |-> "idle"]
  /\ holds = [w \in Windows |-> FALSE]
  /\ removing = [w \in Windows |-> 0]
  /\ child = [w \in Windows |-> NoService]
  /\ session = [w \in Windows |-> NoService]
  /\ faults = 0 /\ crashes = 0 /\ reopens = 0
  /\ robbed = FALSE

----------------------------------------------------------------------------
Running(s) == svc[s].state \in {"starting", "up"}
Up == {s \in Services : svc[s].state = "up"}

Goto(w, step) == pc' = [pc EXCEPT ![w] = step]
Fault == faults < MaxFaults /\ faults' = faults + 1
NoFault == faults' = faults

(* ensureReady with no usable session: connectOrStart begins.                *)
EnsureReady(w) ==
  /\ host[w] = "open" /\ pc[w] = "idle" /\ session[w] = NoService
  /\ Goto(w, "attach")
  /\ UNCHANGED <<lock, svc, holds, removing, child, session, faults, robbed, hosts>>

(* The session expires, or a 401 makes the client drop it.                   *)
SessionLost(w) ==
  /\ session[w] # NoService
  /\ session' = [session EXCEPT ![w] = NoService]
  /\ UNCHANGED <<lock, svc, pc, holds, removing, child, faults, robbed, hosts>>

(* tryAttach before starting anything and in the waiting loop.               *)
Attach(w) ==
  /\ pc[w] \in {"attach", "wait"}
  /\ \E s \in Up : session' = [session EXCEPT ![w] = s]
  /\ Goto(w, "idle")
  /\ UNCHANGED <<lock, svc, holds, removing, child, faults, robbed, hosts>>

(* No answer: acquire the lock, or after twenty attempts try to replace it.  *)
(* A service that is up and does not answer in time is a fault.              *)
NoAnswer(w) ==
  /\ \/ pc[w] = "attach" /\ Goto(w, "acquire")
     \/ pc[w] = "wait" /\ Goto(w, "inspect")
  /\ \/ Up = {} /\ NoFault
     \/ Up # {} /\ Fault
  /\ UNCHANGED <<lock, svc, holds, removing, child, session, robbed, hosts>>

(* A bug: the flag "w" opens an existing file as well.                       *)
AcquireShared(w) ==
  /\ pc[w] \in {"acquire", "reacquire"}
  /\ lock' = [owner |-> w, written |-> FALSE, live |-> TRUE]
  /\ holds' = [holds EXCEPT ![w] = TRUE]
  /\ Goto(w, "write")
  /\ UNCHANGED <<svc, removing, child, session, faults, robbed, hosts>>

(* acquireOwnerLock: fs.open with "wx".                                      *)
Acquire(w) ==
  /\ pc[w] \in {"acquire", "reacquire"}
  /\ lock = NoLock
  /\ lock' = [owner |-> w, written |-> FALSE, live |-> TRUE]
  /\ holds' = [holds EXCEPT ![w] = TRUE]
  /\ Goto(w, "write")
  /\ UNCHANGED <<svc, removing, child, session, faults, robbed, hosts>>

(* acquireOwnerLock: the file exists.  The first time the window waits, the   *)
(* second time connectOrStart throws.                                       *)
Refused(w) ==
  /\ lock # NoLock
  /\ \/ pc[w] = "acquire" /\ Goto(w, "wait")
     \/ pc[w] = "reacquire" /\ Goto(w, "idle")
  /\ UNCHANGED <<lock, svc, holds, removing, child, session, faults, robbed, hosts>>

(* acquireOwnerLock: the record is written through the handle, which dispose  *)
(* or an exit handler may have closed.                                      *)
WriteRecord(w) ==
  /\ pc[w] = "write"
  /\ IF holds[w]
     THEN /\ lock' = IF lock.owner = w THEN [lock EXCEPT !.written = TRUE] ELSE lock
          /\ Goto(w, "launch")
     ELSE lock' = lock /\ Goto(w, "idle")
  /\ UNCHANGED <<svc, holds, removing, child, session, faults, robbed, hosts>>

(* A bug: every complete record counts as current.                           *)
InspectTrusting(w) ==
  /\ pc[w] = "inspect"
  /\ IF lock.written THEN Goto(w, "idle") ELSE Goto(w, "remove")
  /\ UNCHANGED <<lock, svc, holds, removing, child, session, faults, robbed, hosts>>

(* acquireOwnerLock(replaceStale): read the record and ask whether its        *)
(* process is alive.  No file or no complete record counts as stale.         *)
Inspect(w) ==
  /\ pc[w] = "inspect"
  /\ IF lock.written /\ lock.live THEN Goto(w, "idle") ELSE Goto(w, "remove")
  /\ UNCHANGED <<lock, svc, holds, removing, child, session, faults, robbed, hosts>>

(* acquireOwnerLock(replaceStale): fs.rm of whatever file is there by now.    *)
RemoveStale(w) ==
  /\ pc[w] = "remove"
  /\ lock' = NoLock
  /\ robbed' = (robbed \/ lock.live)
  /\ Goto(w, "reacquire")
  /\ UNCHANGED <<svc, holds, removing, child, session, faults, hosts>>

----------------------------------------------------------------------------
(* Lock held: choose a port, verify the executable and spawn the service.     *)
Launch(w) ==
  /\ pc[w] = "launch"
  /\ \E s \in Services :
       /\ svc[s] = Off
       /\ \A v \in Windows : session[v] # s /\ child[v] # s
       /\ svc' = [svc EXCEPT ![s] = [host |-> w, state |-> "starting"]]
       /\ child' = [child EXCEPT ![w] = s]
  /\ Goto(w, "starting")
  /\ UNCHANGED <<lock, holds, removing, session, faults, robbed, hosts>>

(* A file, port, integrity or spawn failure: connectOrStart throws and        *)
(* releases nothing.                                                        *)
Throws(w) ==
  /\ pc[w] \in {"acquire", "write", "inspect", "remove", "reacquire", "launch"}
  /\ Fault /\ Goto(w, "idle")
  /\ UNCHANGED <<lock, svc, holds, removing, child, session, robbed, hosts>>

(* A bug: a start that timed out gives up the lock and forgets the child.     *)
ProbeReleasing(w) ==
  /\ pc[w] = "starting"
  /\ \/ child[w] \in Up /\ Goto(w, "final") /\ NoFault /\ UNCHANGED <<holds, removing>>
     \/ child[w] = NoService /\ Goto(w, "idle") /\ NoFault /\ UNCHANGED <<holds, removing>>
     \/ /\ child[w] # NoService /\ Goto(w, "idle") /\ Fault
        /\ holds' = [holds EXCEPT ![w] = FALSE]
        /\ removing' = [removing EXCEPT ![w] = @ + (IF holds[w] THEN 1 ELSE 0)]
  /\ UNCHANGED <<lock, svc, child, session, robbed, hosts>>

(* waitFor: probeVersion answers, the child is gone, or START_TIMEOUT_MS is    *)
(* over while the child still runs.                                         *)
Probe(w) ==
  /\ pc[w] = "starting"
  /\ \/ child[w] \in Up /\ Goto(w, "final") /\ NoFault
     \/ child[w] = NoService /\ Goto(w, "idle") /\ NoFault
     \/ child[w] # NoService /\ Goto(w, "idle") /\ Fault
  /\ UNCHANGED <<lock, svc, holds, removing, child, session, robbed, hosts>>

(* The closing tryAttach.                                                    *)
Final(w) ==
  /\ pc[w] = "final"
  /\ \/ child[w] \in Up /\ session' = [session EXCEPT ![w] = child[w]] /\ NoFault
     \/ child[w] \notin Up /\ session' = session /\ NoFault
     \/ child[w] \in Up /\ session' = session /\ Fault
  /\ Goto(w, "idle")
  /\ UNCHANGED <<lock, svc, holds, removing, child, robbed, hosts>>

(* releaseOwnerLock up to its await: handle and path are forgotten.           *)
Release(w) ==
  /\ holds' = [holds EXCEPT ![w] = FALSE]
  /\ removing' = [removing EXCEPT ![w] = @ + (IF holds[w] THEN 1 ELSE 0)]

(* A bug: the removal runs although no path was kept.                         *)
RemoveAnyway(w) ==
  /\ removing' = [removing EXCEPT ![w] = @ - 1]
  /\ lock' = NoLock
  /\ robbed' = (robbed \/ (lock.live /\ (lock.owner # w \/ holds[w])))
  /\ UNCHANGED <<svc, pc, holds, child, session, faults, hosts>>

(* releaseOwnerLock after closing the handle: fs.rm of whatever file is there *)
(* by now.                                                                  *)
RemoveReleased(w) ==
  /\ removing[w] > 0
  /\ removing' = [removing EXCEPT ![w] = @ - 1]
  /\ lock' = NoLock
  /\ robbed' = (robbed \/ (lock.live /\ (lock.owner # w \/ holds[w])))
  /\ UNCHANGED <<svc, pc, holds, child, session, faults, hosts>>

----------------------------------------------------------------------------
(* A service starts listening.                                               *)
ServiceListens(s) ==
  /\ svc[s].state = "starting"
  /\ svc' = [svc EXCEPT ![s].state = "up"]
  /\ UNCHANGED <<lock, pc, holds, removing, child, session, faults, robbed, hosts>>

(* A service ends: after a kill, by a crash, or because another service took   *)
(* its port.  The exit handler runs if its host still does.                  *)
ServiceExits(s) ==
  /\ \/ svc[s].state = "killed" /\ NoFault
     \/ svc[s].state = "starting" /\ Up # {} /\ NoFault
     \/ Running(s) /\ Fault
  /\ svc' = [svc EXCEPT ![s] = Off]
  /\ LET w == svc[s].host IN
     IF w = NoWindow THEN UNCHANGED <<session, child, holds, removing>>
     ELSE /\ session' = [session EXCEPT ![w] = NoService]
          /\ child' = [child EXCEPT ![w] = NoService]
          /\ Release(w)
  /\ UNCHANGED <<lock, pc, robbed, hosts>>

(* dispose: kill the child and release the lock; the rest of connectOrStart,   *)
(* if it is under way, goes on.                                             *)
Dispose(w) ==
  /\ host[w] = "open"
  /\ host' = [host EXCEPT ![w] = "disposed"]
  /\ session' = [session EXCEPT ![w] = NoService]
  /\ svc' = [s \in Services |->
               IF s = child[w] /\ Running(s) THEN [svc[s] EXCEPT !.state = "killed"]
               ELSE svc[s]]
  /\ child' = [child EXCEPT ![w] = NoService]
  /\ Release(w)
  /\ UNCHANGED <<lock, pc, faults, robbed, crashes, reopens>>

(* The extension host's process ends.  Its children stay, its lock file too.   *)
Ends(w) ==
  /\ host' = [host EXCEPT ![w] = "gone"]
  /\ pc' = [pc EXCEPT ![w] = "idle"]
  /\ session' = [session EXCEPT ![w] = NoService]
  /\ child' = [child EXCEPT ![w] = NoService]
  /\ holds' = [holds EXCEPT ![w] = FALSE]
  /\ removing' = [removing EXCEPT ![w] = 0]
  /\ svc' = [s \in Services |->
               IF svc[s].host = w THEN [svc[s] EXCEPT !.host = NoWindow] ELSE svc[s]]
  /\ lock' = IF lock.owner = w THEN [lock EXCEPT !.live = FALSE] ELSE lock
  /\ UNCHANGED <<faults, robbed, reopens>>

Closes(w) == host[w] = "disposed" /\ Ends(w) /\ crashes' = crashes

Crashes(w) ==
  /\ host[w] # "gone" /\ crashes < MaxCrashes
  /\ Ends(w) /\ crashes' = crashes + 1

Reopens(w) ==
  /\ host[w] = "gone" /\ reopens < MaxReopens
  /\ host' = [host EXCEPT ![w] = "open"]
  /\ reopens' = reopens + 1
  /\ UNCHANGED <<lock, svc, pc, holds, removing, child, session, faults, robbed, crashes>>

----------------------------------------------------------------------------
(* The awaits of connectOrStart that end by themselves.                      *)
Proceeds(w) ==
  \/ Attach(w) \/ NoAnswer(w) \/ Acquire(w) \/ Refused(w) \/ WriteRecord(w)
  \/ Inspect(w) \/ RemoveStale(w) \/ Launch(w) \/ Probe(w) \/ Final(w)

Next ==
  \/ \E w \in Windows :
       \/ EnsureReady(w) \/ SessionLost(w) \/ Proceeds(w) \/ Throws(w)
       \/ RemoveReleased(w) \/ Dispose(w) \/ Closes(w) \/ Crashes(w) \/ Reopens(w)
  \/ \E s \in Services : ServiceListens(s) \/ ServiceExits(s)

Spec == Init /\ [][Next]_vars

(* Event loops run their callbacks and processes get to run.  Users, crashes   *)
(* and faults owe nothing.                                                  *)
Fairness ==
  /\ \A w \in Windows :
       /\ WF_vars(Proceeds(w))
       /\ WF_vars(RemoveReleased(w))
       /\ WF_vars(SessionLost(w))
  /\ \A s \in Services :
       /\ WF_vars(ServiceListens(s))
       /\ WF_vars(svc[s].state = "killed" /\ ServiceExits(s))

FairSpec == Spec /\ Fairness

----------------------------------------------------------------------------
(* As long as no live process's lock was removed, at most one window believes *)
(* that it owns the service, and the file names that window: opening with     *)
(* "wx" is the only way to a handle.                                        *)
OneOwner ==
  robbed \/ \A w \in Windows : holds[w] => lock.owner = w /\ lock.live

(* As long as no live process's lock was removed, the windows that are open   *)
(* run at most one service between them: a window keeps its lock while its    *)
(* child runs, whatever fails on the way.                                   *)
OneService ==
  robbed \/ \A s, t \in Services :
    /\ Running(s) /\ svc[s].host # NoWindow /\ host[svc[s].host] = "open"
    /\ Running(t) /\ svc[t].host # NoWindow /\ host[svc[t].host] = "open"
    => s = t

(* After any crashes of windows, with a stale lock left behind: if from then   *)
(* on calls and services do not fail, a window that stays open and keeps      *)
(* asking reaches a running service again and again.                         *)
Attached(w) == session[w] \in Up
Asks(w) == pc[w] # "idle" \/ session[w] # NoService
Recovers ==
  \A w \in Windows : <>[](host[w] = "open") /\ []<>Asks(w) => []<>Attached(w)
=============================================================================
