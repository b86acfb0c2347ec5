------------------------ MODULE ManagedRuntimeProofs ------------------------
(* Theorems about the managed runtime: OwnerLock (types, one owner, one        *)
(* service) and then ManagedAccess, with one step per action, and under it one  *)
(* per part of the invariant that the action disturbs.                        *)
EXTENDS OwnerLock, ManagedAccess, TLAPS

(* Who holds the handle, or has let it go and not yet removed the file, is    *)
(* the live process that the file names.                                    *)
LockInv ==
  ~robbed => \A w \in Windows :
    /\ holds[w] => lock.owner = w /\ lock.live /\ removing[w] = 0
    /\ removing[w] > 0 => lock.owner = w /\ lock.live /\ ~holds[w] /\ removing[w] = 1

(* A host that is gone left nothing in memory, this.child is a process of its  *)
(* window, and only dispose kills.                                          *)
HostInv ==
  /\ \A w \in Windows : host[w] = "gone" =>
       /\ pc[w] = "idle" /\ ~holds[w] /\ removing[w] = 0 /\ child[w] = NoService
       /\ \A s \in Services : svc[s].host # w
  /\ \A w \in Windows : child[w] # NoService =>
       svc[child[w]].host = w /\ svc[child[w]].state # "off"
  /\ \A s \in Services : svc[s].state = "killed" /\ svc[s].host # NoWindow =>
       host[svc[s].host] # "open"

(* An open window that is about to start a service, or runs one, holds the    *)
(* lock, and what it runs is this.child.                                    *)
ServiceInv ==
  ~robbed => \A w \in Windows : host[w] = "open" =>
    /\ pc[w] \in {"write", "launch"} => holds[w]
    /\ \A s \in Services : svc[s].host = w /\ Running(s) =>
         holds[w] /\ child[w] = s /\ pc[w] \notin {"write", "launch"}

IInv == TypeOK /\ LockInv /\ HostInv /\ ServiceInv

----------------------------------------------------------------------------
USE NoWindowAssumption, NoServiceAssumption, BoundsAssumption

LEMMA InitInv == Init => IInv
<1> SUFFICES ASSUME Init PROVE IInv
  OBVIOUS
<1>1. TypeOK
  <2>1. lock \in Locks /\ svc \in [Services -> Processes]
    BY DEF Init, Locks, NoLock, Processes, Off
  <2>2. pc \in [Windows -> Steps] /\ host \in [Windows -> {"open", "disposed", "gone"}]
    BY DEF Init, Steps
  <2>3. faults \in 0..MaxFaults /\ crashes \in 0..MaxCrashes /\ reopens \in 0..MaxReopens
    BY DEF Init
  <2>4. /\ holds \in [Windows -> BOOLEAN] /\ removing \in [Windows -> Nat]
        /\ child \in [Windows -> Services \cup {NoService}]
        /\ session \in [Windows -> Services \cup {NoService}]
        /\ robbed \in BOOLEAN
    BY DEF Init
  <2> QED
    BY <2>1, <2>2, <2>3, <2>4 DEF TypeOK
<1>2. LockInv
  BY DEF Init, LockInv
<1>3. HostInv
  BY DEF Init, HostInv, Off
<1>4. ServiceInv
  BY DEF Init, ServiceInv, Running, Off
<1> QED
  BY <1>1, <1>2, <1>3, <1>4 DEF IInv

(* Whatever ends a host leaves the types alone.                              *)
LEMMA EndsType ==
  ASSUME TypeOK, NEW w \in Windows, Ends(w)
  PROVE  /\ lock' \in Locks /\ svc' \in [Services -> Processes]
         /\ host' \in [Windows -> {"open", "disposed", "gone"}]
         /\ pc' \in [Windows -> Steps]
         /\ holds' \in [Windows -> BOOLEAN]
         /\ removing' \in [Windows -> Nat]
         /\ child' \in [Windows -> Services \cup {NoService}]
         /\ session' \in [Windows -> Services \cup {NoService}]
         /\ faults' \in 0..MaxFaults /\ reopens' \in 0..MaxReopens
         /\ robbed' \in BOOLEAN
<1>1. lock' \in Locks
  BY DEF TypeOK, Ends, Locks
<1>2. svc' \in [Services -> Processes]
  <2> SUFFICES ASSUME NEW s \in Services
               PROVE  (IF svc[s].host = w THEN [svc[s] EXCEPT !.host = NoWindow]
                       ELSE svc[s]) \in Processes
    BY DEF Ends
  <2> QED
    BY DEF TypeOK, Processes
<1>3. pc' \in [Windows -> Steps] /\ host' \in [Windows -> {"open", "disposed", "gone"}]
  BY DEF TypeOK, Ends, Steps
<1>4. /\ holds' \in [Windows -> BOOLEAN]
      /\ removing' \in [Windows -> Nat]
      /\ child' \in [Windows -> Services \cup {NoService}]
      /\ session' \in [Windows -> Services \cup {NoService}]
      /\ faults' \in 0..MaxFaults /\ reopens' \in 0..MaxReopens
      /\ robbed' \in BOOLEAN
  BY DEF TypeOK, Ends
<1> QED
  BY <1>1, <1>2, <1>3, <1>4

(* Every step keeps the types.                                               *)
LEMMA TypeStep == TypeOK /\ [Next]_vars => TypeOK'
<1> SUFFICES ASSUME TypeOK, [Next]_vars PROVE TypeOK'
  OBVIOUS
<1>1. ASSUME NEW w \in Windows, EnsureReady(w) PROVE TypeOK'
  BY <1>1 DEF TypeOK, Locks, NoLock, Processes, Off, Steps, EnsureReady, Goto, hosts
<1>2. ASSUME NEW w \in Windows, SessionLost(w) PROVE TypeOK'
  BY <1>2 DEF TypeOK, Locks, NoLock, Processes, Off, Steps, SessionLost, hosts
<1>3. ASSUME NEW w \in Windows, Attach(w) PROVE TypeOK'
  BY <1>3 DEF TypeOK, Locks, NoLock, Processes, Off, Steps, Attach, Goto, Up, hosts
<1>4. ASSUME NEW w \in Windows, NoAnswer(w) PROVE TypeOK'
  BY <1>4 DEF TypeOK, Locks, NoLock, Processes, Off, Steps, NoAnswer, Goto, Fault, NoFault, hosts
<1>5. ASSUME NEW w \in Windows, Acquire(w) PROVE TypeOK'
  BY <1>5 DEF TypeOK, Locks, NoLock, Processes, Off, Steps, Acquire, Goto, hosts
<1>6. ASSUME NEW w \in Windows, Refused(w) PROVE TypeOK'
  BY <1>6 DEF TypeOK, Locks, NoLock, Processes, Off, Steps, Refused, Goto, hosts
<1>7. ASSUME NEW w \in Windows, WriteRecord(w) PROVE TypeOK'
  BY <1>7 DEF TypeOK, Locks, NoLock, Processes, Off, Steps, WriteRecord, Goto, hosts
<1>8. ASSUME NEW w \in Windows, Inspect(w) PROVE TypeOK'
  BY <1>8 DEF TypeOK, Locks, NoLock, Processes, Off, Steps, Inspect, Goto, hosts
<1>9. ASSUME NEW w \in Windows, RemoveStale(w) PROVE TypeOK'
  BY <1>9 DEF TypeOK, Locks, NoLock, Processes, Off, Steps, RemoveStale, Goto, hosts
<1>10. ASSUME NEW w \in Windows, Launch(w) PROVE TypeOK'
  BY <1>10 DEF TypeOK, Locks, NoLock, Processes, Off, Steps, Launch, Goto, hosts
<1>11. ASSUME NEW w \in Windows, Probe(w) PROVE TypeOK'
  BY <1>11 DEF TypeOK, Locks, NoLock, Processes, Off, Steps, Probe, Goto, Fault, NoFault, Up, hosts
<1>12. ASSUME NEW w \in Windows, Final(w) PROVE TypeOK'
  BY <1>12 DEF TypeOK, Locks, NoLock, Processes, Off, Steps, Final, Goto, Fault, NoFault, Up, hosts
<1>13. ASSUME NEW w \in Windows, Throws(w) PROVE TypeOK'
  BY <1>13 DEF TypeOK, Locks, NoLock, Processes, Off, Steps, Throws, Goto, Fault, hosts
<1>14. ASSUME NEW w \in Windows, RemoveReleased(w) PROVE TypeOK'
  BY <1>14 DEF TypeOK, Locks, NoLock, Processes, Off, Steps, RemoveReleased, hosts
<1>15. ASSUME NEW w \in Windows, Dispose(w) PROVE TypeOK'
  BY <1>15 DEF TypeOK, Locks, NoLock, Processes, Off, Steps, Dispose, Release, hosts
<1>16. ASSUME NEW w \in Windows, Closes(w) PROVE TypeOK'
  BY <1>16, EndsType DEF TypeOK, Closes
<1>17. ASSUME NEW w \in Windows, Crashes(w) PROVE TypeOK'
  <2>1. crashes' \in 0..MaxCrashes
    BY <1>17 DEF TypeOK, Crashes
  <2> QED
    BY <1>17, <2>1, EndsType DEF TypeOK, Crashes
<1>18. ASSUME NEW w \in Windows, Reopens(w) PROVE TypeOK'
  BY <1>18 DEF TypeOK, Locks, NoLock, Processes, Off, Steps, Reopens, hosts
<1>19. ASSUME NEW s \in Services, ServiceListens(s) PROVE TypeOK'
  BY <1>19 DEF TypeOK, Locks, NoLock, Processes, Off, Steps, ServiceListens, hosts
<1>20. ASSUME NEW s \in Services, ServiceExits(s) PROVE TypeOK'
  <2>1. faults' \in 0..MaxFaults
    BY <1>20 DEF TypeOK, ServiceExits, Fault, NoFault
  <2>2. svc' \in [Services -> Processes]
    BY <1>20 DEF TypeOK, ServiceExits, Processes, Off
  <2>3. /\ holds' \in [Windows -> BOOLEAN] /\ removing' \in [Windows -> Nat]
        /\ child' \in [Windows -> Services \cup {NoService}]
        /\ session' \in [Windows -> Services \cup {NoService}]
    <3>1. CASE svc[s].host = NoWindow
      BY <1>20, <3>1 DEF TypeOK, ServiceExits
    <3>2. CASE svc[s].host \in Windows
      <4>1. svc[s].host # NoWindow
        BY <3>2
      <4>2. \A v \in Windows : removing[v] + (IF holds[v] THEN 1 ELSE 0) \in Nat
        BY DEF TypeOK
      <4>3. /\ session' = [session EXCEPT ![svc[s].host] = NoService]
            /\ child' = [child EXCEPT ![svc[s].host] = NoService]
            /\ Release(svc[s].host)
        BY <1>20, <4>1 DEF ServiceExits
      <4>4. holds' \in [Windows -> BOOLEAN] /\ removing' \in [Windows -> Nat]
        BY <3>2, <4>2, <4>3 DEF TypeOK, Release
      <4> QED
        BY <4>3, <4>4 DEF TypeOK
    <3> QED
      BY <3>1, <3>2 DEF TypeOK, Processes
  <2> QED
    BY <1>20, <2>1, <2>2, <2>3 DEF TypeOK, ServiceExits, hosts
<1>21. CASE UNCHANGED vars
  BY <1>21 DEF TypeOK, Locks, NoLock, Processes, Off, Steps, vars, hosts
<1> QED
  BY <1>1, <1>2, <1>3, <1>4, <1>5, <1>6, <1>7, <1>8, <1>9, <1>10, <1>11, <1>12, <1>13, <1>14, <1>15, <1>16, <1>17, <1>18, <1>19, <1>20, <1>21 DEF Next, Proceeds

(* Every step keeps the lock's invariant, unless it removes a live lock.     *)
LEMMA LockStep == IInv /\ [Next]_vars => LockInv'
<1> SUFFICES ASSUME IInv, [Next]_vars PROVE LockInv'
  OBVIOUS
<1>1. ASSUME NEW w \in Windows, EnsureReady(w) PROVE LockInv'
  BY <1>1 DEF IInv, TypeOK, Locks, Processes, LockInv, NoLock, EnsureReady, Goto, hosts
<1>2. ASSUME NEW w \in Windows, SessionLost(w) PROVE LockInv'
  BY <1>2 DEF IInv, TypeOK, Locks, Processes, LockInv, NoLock, SessionLost, hosts
<1>3. ASSUME NEW w \in Windows, Attach(w) PROVE LockInv'
  BY <1>3 DEF IInv, TypeOK, Locks, Processes, LockInv, NoLock, Attach, Goto, Up, hosts
<1>4. ASSUME NEW w \in Windows, NoAnswer(w) PROVE LockInv'
  BY <1>4 DEF IInv, TypeOK, Locks, Processes, LockInv, NoLock, NoAnswer, Goto, Fault, NoFault, hosts
<1>5. ASSUME NEW w \in Windows, Acquire(w) PROVE LockInv'
  BY <1>5 DEF IInv, TypeOK, Locks, Processes, LockInv, NoLock, Acquire, Goto, hosts
<1>6. ASSUME NEW w \in Windows, Refused(w) PROVE LockInv'
  BY <1>6 DEF IInv, TypeOK, Locks, Processes, LockInv, NoLock, Refused, Goto, hosts
<1>7. ASSUME NEW w \in Windows, WriteRecord(w) PROVE LockInv'
  BY <1>7 DEF IInv, TypeOK, Locks, Processes, LockInv, NoLock, WriteRecord, Goto, hosts
<1>8. ASSUME NEW w \in Windows, Inspect(w) PROVE LockInv'
  BY <1>8 DEF IInv, TypeOK, Locks, Processes, LockInv, NoLock, Inspect, Goto, hosts
<1>9. ASSUME NEW w \in Windows, RemoveStale(w) PROVE LockInv'
  BY <1>9 DEF IInv, TypeOK, Locks, Processes, LockInv, NoLock, RemoveStale, Goto, hosts
<1>10. ASSUME NEW w \in Windows, Launch(w) PROVE LockInv'
  BY <1>10 DEF IInv, TypeOK, Locks, Processes, LockInv, NoLock, Launch, Goto, hosts
<1>11. ASSUME NEW w \in Windows, Probe(w) PROVE LockInv'
  BY <1>11 DEF IInv, TypeOK, Locks, Processes, LockInv, NoLock, Probe, Goto, Fault, NoFault, Up, hosts
<1>12. ASSUME NEW w \in Windows, Final(w) PROVE LockInv'
  BY <1>12 DEF IInv, TypeOK, Locks, Processes, LockInv, NoLock, Final, Goto, Fault, NoFault, Up, hosts
<1>13. ASSUME NEW w \in Windows, Throws(w) PROVE LockInv'
  BY <1>13 DEF IInv, TypeOK, Locks, Processes, LockInv, NoLock, Throws, Goto, Fault, hosts
<1>14. ASSUME NEW w \in Windows, RemoveReleased(w) PROVE LockInv'
  BY <1>14 DEF IInv, TypeOK, Locks, Processes, LockInv, NoLock, RemoveReleased, hosts
<1>15. ASSUME NEW w \in Windows, Dispose(w) PROVE LockInv'
  BY <1>15 DEF IInv, TypeOK, Locks, Processes, LockInv, NoLock, Dispose, Release, hosts
<1>16. ASSUME NEW w \in Windows, Closes(w) PROVE LockInv'
  BY <1>16 DEF IInv, TypeOK, Locks, Processes, LockInv, NoLock, Closes, Ends, hosts
<1>17. ASSUME NEW w \in Windows, Crashes(w) PROVE LockInv'
  BY <1>17 DEF IInv, TypeOK, Locks, Processes, LockInv, NoLock, Crashes, Ends, hosts
<1>18. ASSUME NEW w \in Windows, Reopens(w) PROVE LockInv'
  BY <1>18 DEF IInv, TypeOK, Locks, Processes, LockInv, NoLock, Reopens, hosts
<1>19. ASSUME NEW s \in Services, ServiceListens(s) PROVE LockInv'
  BY <1>19 DEF IInv, TypeOK, Locks, Processes, LockInv, NoLock, ServiceListens, hosts
<1>20. ASSUME NEW s \in Services, ServiceExits(s) PROVE LockInv'
  BY <1>20 DEF IInv, TypeOK, Locks, Processes, LockInv, NoLock, ServiceExits, Release, Fault, NoFault, Running, Up, hosts
<1>21. CASE UNCHANGED vars
  BY <1>21 DEF IInv, TypeOK, Locks, Processes, LockInv, NoLock, vars, hosts
<1> QED
  BY <1>1, <1>2, <1>3, <1>4, <1>5, <1>6, <1>7, <1>8, <1>9, <1>10, <1>11, <1>12, <1>13, <1>14, <1>15, <1>16, <1>17, <1>18, <1>19, <1>20, <1>21 DEF Next, Proceeds

(* Every step keeps the hosts' invariant.                                    *)
LEMMA HostStep == IInv /\ [Next]_vars => HostInv'
<1> SUFFICES ASSUME IInv, [Next]_vars PROVE HostInv'
  OBVIOUS
<1>1. ASSUME NEW w \in Windows, EnsureReady(w) PROVE HostInv'
  BY <1>1 DEF IInv, TypeOK, Locks, Processes, HostInv, Off, EnsureReady, Goto, hosts
<1>2. ASSUME NEW w \in Windows, SessionLost(w) PROVE HostInv'
  BY <1>2 DEF IInv, TypeOK, Locks, Processes, HostInv, Off, SessionLost, hosts
<1>3. ASSUME NEW w \in Windows, Attach(w) PROVE HostInv'
  BY <1>3 DEF IInv, TypeOK, Locks, Processes, HostInv, Off, Attach, Goto, Up, hosts
<1>4. ASSUME NEW w \in Windows, NoAnswer(w) PROVE HostInv'
  BY <1>4 DEF IInv, TypeOK, Locks, Processes, HostInv, Off, NoAnswer, Goto, Fault, NoFault, hosts
<1>5. ASSUME NEW w \in Windows, Acquire(w) PROVE HostInv'
  BY <1>5 DEF IInv, TypeOK, Locks, Processes, HostInv, Off, Acquire, Goto, hosts
<1>6. ASSUME NEW w \in Windows, Refused(w) PROVE HostInv'
  BY <1>6 DEF IInv, TypeOK, Locks, Processes, HostInv, Off, Refused, Goto, hosts
<1>7. ASSUME NEW w \in Windows, WriteRecord(w) PROVE HostInv'
  BY <1>7 DEF IInv, TypeOK, Locks, Processes, HostInv, Off, WriteRecord, Goto, hosts
<1>8. ASSUME NEW w \in Windows, Inspect(w) PROVE HostInv'
  BY <1>8 DEF IInv, TypeOK, Locks, Processes, HostInv, Off, Inspect, Goto, hosts
<1>9. ASSUME NEW w \in Windows, RemoveStale(w) PROVE HostInv'
  BY <1>9 DEF IInv, TypeOK, Locks, Processes, HostInv, Off, RemoveStale, Goto, hosts
<1>10. ASSUME NEW w \in Windows, Launch(w) PROVE HostInv'
  BY <1>10 DEF IInv, TypeOK, Locks, Processes, HostInv, Off, Launch, Goto, hosts
<1>11. ASSUME NEW w \in Windows, Probe(w) PROVE HostInv'
  BY <1>11 DEF IInv, TypeOK, Locks, Processes, HostInv, Off, Probe, Goto, Fault, NoFault, Up, hosts
<1>12. ASSUME NEW w \in Windows, Final(w) PROVE HostInv'
  BY <1>12 DEF IInv, TypeOK, Locks, Processes, HostInv, Off, Final, Goto, Fault, NoFault, Up, hosts
<1>13. ASSUME NEW w \in Windows, Throws(w) PROVE HostInv'
  BY <1>13 DEF IInv, TypeOK, Locks, Processes, HostInv, Off, Throws, Goto, Fault, hosts
<1>14. ASSUME NEW w \in Windows, RemoveReleased(w) PROVE HostInv'
  BY <1>14 DEF IInv, TypeOK, Locks, Processes, HostInv, Off, RemoveReleased, hosts
<1>15. ASSUME NEW w \in Windows, Dispose(w) PROVE HostInv'
  BY <1>15 DEF IInv, TypeOK, Locks, Processes, HostInv, Off, Dispose, Release, hosts
<1>16. ASSUME NEW w \in Windows, Closes(w) PROVE HostInv'
  BY <1>16 DEF IInv, TypeOK, Locks, Processes, HostInv, Off, Closes, Ends, hosts
<1>17. ASSUME NEW w \in Windows, Crashes(w) PROVE HostInv'
  BY <1>17 DEF IInv, TypeOK, Locks, Processes, HostInv, Off, Crashes, Ends, hosts
<1>18. ASSUME NEW w \in Windows, Reopens(w) PROVE HostInv'
  BY <1>18 DEF IInv, TypeOK, Locks, Processes, HostInv, Off, Reopens, hosts
<1>19. ASSUME NEW s \in Services, ServiceListens(s) PROVE HostInv'
  BY <1>19 DEF IInv, TypeOK, Locks, Processes, HostInv, Off, ServiceListens, hosts
<1>20. ASSUME NEW s \in Services, ServiceExits(s) PROVE HostInv'
  BY <1>20 DEF IInv, TypeOK, Locks, Processes, HostInv, Off, ServiceExits, Release, Fault, NoFault, Running, Up, hosts
<1>21. CASE UNCHANGED vars
  BY <1>21 DEF IInv, TypeOK, Locks, Processes, HostInv, Off, vars, hosts
<1> QED
  BY <1>1, <1>2, <1>3, <1>4, <1>5, <1>6, <1>7, <1>8, <1>9, <1>10, <1>11, <1>12, <1>13, <1>14, <1>15, <1>16, <1>17, <1>18, <1>19, <1>20, <1>21 DEF Next, Proceeds

(* Every step keeps the services' invariant.                                 *)
LEMMA ServiceStep == IInv /\ [Next]_vars => ServiceInv'
<1> SUFFICES ASSUME IInv, [Next]_vars PROVE ServiceInv'
  OBVIOUS
<1>1. ASSUME NEW w \in Windows, EnsureReady(w) PROVE ServiceInv'
  BY <1>1 DEF IInv, TypeOK, Locks, Processes, LockInv, HostInv, ServiceInv, Running, Off, NoLock, EnsureReady, Goto, hosts
<1>2. ASSUME NEW w \in Windows, SessionLost(w) PROVE ServiceInv'
  BY <1>2 DEF IInv, TypeOK, Locks, Processes, LockInv, HostInv, ServiceInv, Running, Off, NoLock, SessionLost, hosts
<1>3. ASSUME NEW w \in Windows, Attach(w) PROVE ServiceInv'
  BY <1>3 DEF IInv, TypeOK, Locks, Processes, LockInv, HostInv, ServiceInv, Running, Off, NoLock, Attach, Goto, Up, hosts
<1>4. ASSUME NEW w \in Windows, NoAnswer(w) PROVE ServiceInv'
  BY <1>4 DEF IInv, TypeOK, Locks, Processes, LockInv, HostInv, ServiceInv, Running, Off, NoLock, NoAnswer, Goto, Fault, NoFault, hosts
<1>5. ASSUME NEW w \in Windows, Acquire(w) PROVE ServiceInv'
  BY <1>5 DEF IInv, TypeOK, Locks, Processes, LockInv, HostInv, ServiceInv, Running, Off, NoLock, Acquire, Goto, hosts
<1>6. ASSUME NEW w \in Windows, Refused(w) PROVE ServiceInv'
  BY <1>6 DEF IInv, TypeOK, Locks, Processes, LockInv, HostInv, ServiceInv, Running, Off, NoLock, Refused, Goto, hosts
<1>7. ASSUME NEW w \in Windows, WriteRecord(w) PROVE ServiceInv'
  BY <1>7 DEF IInv, TypeOK, Locks, Processes, LockInv, HostInv, ServiceInv, Running, Off, NoLock, WriteRecord, Goto, hosts
<1>8. ASSUME NEW w \in Windows, Inspect(w) PROVE ServiceInv'
  BY <1>8 DEF IInv, TypeOK, Locks, Processes, LockInv, HostInv, ServiceInv, Running, Off, NoLock, Inspect, Goto, hosts
<1>9. ASSUME NEW w \in Windows, RemoveStale(w) PROVE ServiceInv'
  BY <1>9 DEF IInv, TypeOK, Locks, Processes, LockInv, HostInv, ServiceInv, Running, Off, NoLock, RemoveStale, Goto, hosts
<1>10. ASSUME NEW w \in Windows, Launch(w) PROVE ServiceInv'
  BY <1>10 DEF IInv, TypeOK, Locks, Processes, LockInv, HostInv, ServiceInv, Running, Off, NoLock, Launch, Goto, hosts
<1>11. ASSUME NEW w \in Windows, Probe(w) PROVE ServiceInv'
  BY <1>11 DEF IInv, TypeOK, Locks, Processes, LockInv, HostInv, ServiceInv, Running, Off, NoLock, Probe, Goto, Fault, NoFault, Up, hosts
<1>12. ASSUME NEW w \in Windows, Final(w) PROVE ServiceInv'
  BY <1>12 DEF IInv, TypeOK, Locks, Processes, LockInv, HostInv, ServiceInv, Running, Off, NoLock, Final, Goto, Fault, NoFault, Up, hosts
<1>13. ASSUME NEW w \in Windows, Throws(w) PROVE ServiceInv'
  BY <1>13 DEF IInv, TypeOK, Locks, Processes, LockInv, HostInv, ServiceInv, Running, Off, NoLock, Throws, Goto, Fault, hosts
<1>14. ASSUME NEW w \in Windows, RemoveReleased(w) PROVE ServiceInv'
  BY <1>14 DEF IInv, TypeOK, Locks, Processes, LockInv, HostInv, ServiceInv, Running, Off, NoLock, RemoveReleased, hosts
<1>15. ASSUME NEW w \in Windows, Dispose(w) PROVE ServiceInv'
  BY <1>15 DEF IInv, TypeOK, Locks, Processes, LockInv, HostInv, ServiceInv, Running, Off, NoLock, Dispose, Release, hosts
<1>16. ASSUME NEW w \in Windows, Closes(w) PROVE ServiceInv'
  BY <1>16 DEF IInv, TypeOK, Locks, Processes, LockInv, HostInv, ServiceInv, Running, Off, NoLock, Closes, Ends, hosts
<1>17. ASSUME NEW w \in Windows, Crashes(w) PROVE ServiceInv'
  BY <1>17 DEF IInv, TypeOK, Locks, Processes, LockInv, HostInv, ServiceInv, Running, Off, NoLock, Crashes, Ends, hosts
<1>18. ASSUME NEW w \in Windows, Reopens(w) PROVE ServiceInv'
  BY <1>18 DEF IInv, TypeOK, Locks, Processes, LockInv, HostInv, ServiceInv, Running, Off, NoLock, Reopens, hosts
<1>19. ASSUME NEW s \in Services, ServiceListens(s) PROVE ServiceInv'
  BY <1>19 DEF IInv, TypeOK, Locks, Processes, LockInv, HostInv, ServiceInv, Running, Off, NoLock, ServiceListens, hosts
<1>20. ASSUME NEW s \in Services, ServiceExits(s) PROVE ServiceInv'
  BY <1>20 DEF IInv, TypeOK, Locks, Processes, LockInv, HostInv, ServiceInv, Running, Off, NoLock, ServiceExits, Release, Fault, NoFault, Running, Up, hosts
<1>21. CASE UNCHANGED vars
  BY <1>21 DEF IInv, TypeOK, Locks, Processes, LockInv, HostInv, ServiceInv, Running, Off, NoLock, vars, hosts
<1> QED
  BY <1>1, <1>2, <1>3, <1>4, <1>5, <1>6, <1>7, <1>8, <1>9, <1>10, <1>11, <1>12, <1>13, <1>14, <1>15, <1>16, <1>17, <1>18, <1>19, <1>20, <1>21 DEF Next, Proceeds

LEMMA Inductive == Spec => []IInv
<1>1. IInv /\ [Next]_vars => IInv'
  BY TypeStep, LockStep, HostStep, ServiceStep DEF IInv
<1> QED
  BY InitInv, <1>1, PTL DEF Spec

----------------------------------------------------------------------------
(* Every variable keeps its type (managedRuntime.ts fields, the lock file).   *)
THEOREM TypeCorrect == Spec => []TypeOK
<1>1. IInv => TypeOK
  BY DEF IInv
<1> QED
  BY Inductive, <1>1, PTL

(* acquireOwnerLock and releaseOwnerLock: without the removal of a live        *)
(* process's lock, at most one window believes that it owns the service.      *)
THEOREM OneHolder == Spec => []OneOwner
<1>1. IInv => OneOwner
  BY DEF IInv, LockInv, OneOwner
<1> QED
  BY Inductive, <1>1, PTL

(* startOwnedService and the exit and dispose handlers: without the removal   *)
(* of a live process's lock, open windows run at most one service.            *)
THEOREM OneChild == Spec => []OneService
<1>1. IInv => OneService
  <2> SUFFICES ASSUME IInv, ~robbed,
                      NEW s \in Services, NEW t \in Services,
                      Running(s), svc[s].host # NoWindow, host[svc[s].host] = "open",
                      Running(t), svc[t].host # NoWindow, host[svc[t].host] = "open"
               PROVE  s = t
    BY DEF OneService
  <2>1. svc[s].host \in Windows /\ svc[t].host \in Windows
    BY DEF IInv, TypeOK, Processes
  <2>2. /\ holds[svc[s].host] /\ child[svc[s].host] = s
        /\ holds[svc[t].host] /\ child[svc[t].host] = t
    BY <2>1 DEF IInv, ServiceInv
  <2>3. svc[s].host = svc[t].host
    BY <2>1, <2>2 DEF IInv, LockInv
  <2> QED
    BY <2>2, <2>3
<1> QED
  BY Inductive, <1>1, PTL

(**************************** ManagedAccess ******************************)

Stages == {"idle", "consent", "code", "load", "other", "own", "issue", "access", "refresh"}
CallStages == {"idle", "status", "answered", "lease", "refused"}
Reasons == {"use", "exchange", "revoke", "expired"}

LEMMA KeyFacts ==
  /\ \A k \in Keys : /\ k[1] \in Kinds /\ k[2] \in Nat /\ k[2] # 0
                     /\ k = <<k[1], k[2]>> /\ Other(k) \in Keys /\ Both(k) \subseteq Keys
  /\ \A n \in Nat : n # 0 => /\ <<"code", n>> \in Keys
                             /\ <<"access", n>> \in Keys /\ <<"refresh", n>> \in Keys
  /\ NoKey \notin Keys
<1>1. ASSUME NEW k \in Keys
      PROVE  /\ k[1] \in Kinds /\ k[2] \in Nat /\ k[2] # 0 /\ k = <<k[1], k[2]>>
             /\ Other(k) \in Keys /\ Both(k) \subseteq Keys
  <2>1. k[1] \in Kinds /\ k[2] \in Nat /\ k[2] # 0 /\ k = <<k[1], k[2]>>
    BY DEF Keys
  <2>2. Other(k) \in Keys
    BY <2>1 DEF Keys, Kinds, Other
  <2>3. QED
    BY <2>1, <2>2 DEF Both
<1>2. \A n \in Nat : n # 0 => /\ <<"code", n>> \in Keys
                              /\ <<"access", n>> \in Keys /\ <<"refresh", n>> \in Keys
  BY DEF Keys, Kinds
<1>3. NoKey \notin Keys
  BY DEF Keys, NoKey
<1>4. QED
  BY <1>1, <1>2, <1>3

LEMMA BothWays ==
  ASSUME NEW k \in Keys, NEW l \in Keys, k \in Both(l)
  PROVE  l \in Both(k)
<1>1. CASE l[1] = "code"
  BY <1>1 DEF Both
<1>2. CASE l[1] = "access"
  <2>1. l = <<"access", l[2]>> /\ (k = l \/ k = <<"refresh", l[2]>>)
    BY <1>2, KeyFacts DEF Both, Other
  <2>2. k[1] # "code" /\ (k # l => Other(k) = l)
    BY <2>1, <1>2 DEF Other
  <2>3. QED
    BY <2>2 DEF Both
<1>3. CASE l[1] = "refresh"
  <2>1. l = <<"refresh", l[2]>> /\ (k = l \/ k = <<"access", l[2]>>)
    BY <1>3, KeyFacts DEF Both, Other
  <2>2. k[1] # "code" /\ (k # l => Other(k) = l)
    BY <2>1, <1>3 DEF Other
  <2>3. QED
    BY <2>2 DEF Both
<1>4. QED
  BY <1>1, <1>2, <1>3, KeyFacts DEF Kinds

(* A sequence one longer.                                                    *)
LEMMA Longer ==
  ASSUME NEW S, NEW s \in Seq(S), NEW e \in S
  PROVE  /\ Append(s, e) \in Seq(S) /\ Len(s) \in Nat
         /\ Len(Append(s, e)) = Len(s) + 1 /\ Append(s, e)[Len(s) + 1] = e
         /\ DOMAIN s = 1..Len(s) /\ DOMAIN Append(s, e) = 1..(Len(s) + 1)
         /\ \A n \in DOMAIN s : Append(s, e)[n] = s[n] /\ n # Len(s) + 1
  OBVIOUS

(* A provider method, and a caller, at another stage.                         *)
LEMMA StageMoves ==
  ASSUME NEW m \in Methods, NEW a \in Stages, NEW w \in Reasons
  PROVE  /\ [m EXCEPT !.at = a] \in Methods
         /\ [m EXCEPT !.at = a].at = a /\ [m EXCEPT !.at = a].key = m.key
         /\ [m EXCEPT !.at = a].purpose = m.purpose
         /\ [m EXCEPT !.purpose = w, !.at = a] \in Methods
         /\ [m EXCEPT !.purpose = w, !.at = a].at = a
         /\ [m EXCEPT !.purpose = w, !.at = a].key = m.key
  BY DEF Methods, Stages, Reasons

LEMMA QuietIsMethod == Quiet \in Methods /\ Quiet.at = "idle" /\ "code" \in Stages
  BY DEF Quiet, Methods, Stages

LEMMA Offers ==
  ASSUME NEW P \in SUBSET Projects
  PROVE  /\ [Quiet EXCEPT !.at = "consent", !.offered = P] \in Methods
         /\ [Quiet EXCEPT !.at = "consent", !.offered = P].at = "consent"
  BY DEF Quiet, Methods

LEMMA Stores ==
  ASSUME NEW k \in Keys
  PROVE  /\ [Quiet EXCEPT !.at = "code", !.key = k] \in Methods
         /\ [Quiet EXCEPT !.at = "code", !.key = k].at = "code"
         /\ [Quiet EXCEPT !.at = "code", !.key = k].key = k
  BY DEF Quiet, Methods

LEMMA Looks ==
  ASSUME NEW k \in Keys, NEW w \in Reasons
  PROVE  /\ [Quiet EXCEPT !.at = "load", !.key = k, !.purpose = w] \in Methods
         /\ [Quiet EXCEPT !.at = "load", !.key = k, !.purpose = w].at = "load"
         /\ [Quiet EXCEPT !.at = "load", !.key = k, !.purpose = w].key = k
  BY DEF Quiet, Methods, Reasons

LEMMA UnaskedIsCall ==
  Unasked \in Calls /\ Unasked.at # "answered" /\ Unasked.asked = 0 /\ Unasked.project \in Projects
  BY DefaultAssumption DEF Unasked, Calls

LEMMA CallMoves ==
  ASSUME NEW c \in Calls, NEW a \in CallStages
  PROVE  /\ [c EXCEPT !.at = a] \in Calls
         /\ [c EXCEPT !.at = a].at = a
         /\ [c EXCEPT !.at = a].asked = c.asked
  BY DEF Calls, CallStages

LEMMA CallAnswers ==
  ASSUME NEW c \in Calls, NEW b \in BOOLEAN
  PROVE  /\ [c EXCEPT !.at = "answered", !.answer = b] \in Calls
         /\ [c EXCEPT !.at = "answered", !.answer = b].asked = c.asked
         /\ [c EXCEPT !.at = "answered", !.answer = b].project = c.project
         /\ [c EXCEPT !.at = "answered", !.answer = b].answer = b
  BY DEF Calls

-----------------------------------------------------------------------------
(* Types.                                                                   *)
OAuthTypes ==
  /\ secrets \subseteq Keys /\ granted \subseteq Keys /\ spent \subseteq Keys
  /\ codes \in Seq([project : Projects, expires : Nat])
  /\ pairs \in Seq([from : Keys, grant : Nat \ {0}, project : Projects, issued : Nat])
  /\ provider \in Methods
CredentialTypes ==
  /\ bound \subseteq Projects /\ changed \in [Projects -> Nat]
  /\ configured \in [Projects -> [until : Nat, answer : BOOLEAN]]
  /\ caller \in [Callers -> Calls] /\ edits \in Nat
ServiceTypes == registered \subseteq Projects /\ clock \in Nat /\ failures \in Nat /\ deaths \in Nat

LEMMA TypesSplit == AccessTypeOK <=> OAuthTypes /\ CredentialTypes /\ ServiceTypes
  BY DEF AccessTypeOK, OAuthTypes, CredentialTypes, ServiceTypes

LEMMA TypesInit == AccessInit => AccessTypeOK
<1> SUFFICES ASSUME AccessInit PROVE AccessTypeOK
  OBVIOUS
<1>1. OAuthTypes
  BY QuietIsMethod DEF AccessInit, OAuthTypes
<1>2. CredentialTypes
  BY UnaskedIsCall DEF AccessInit, CredentialTypes, NoEntry
<1>3. ServiceTypes
  BY DefaultAssumption DEF AccessInit, ServiceTypes
<1>4. QED
  BY <1>1, <1>2, <1>3, TypesSplit

(* The steps, by what they may change.                                       *)
OAuthStep ==
  \/ Authorize \/ Consent \/ Load \/ RemoveRecords \/ Issue \/ WriteRecords \/ RequestFails
  \/ \E k \in granted : \E purpose \in Purposes(k) : Present(k, purpose)
CallerStep ==
  \E t \in Callers : \/ \E p \in Projects : Configured(t, p) \/ Lease(t, p)
                     \/ StatusAnswer(t) \/ Remember(t) \/ LeaseAnswer(t) \/ Forget(t)
OtherStep == Tick \/ \E p \in Projects : AttachProject(p) \/ Edit(p)

LEMMA AccessSteps == AccessNext => OAuthStep \/ CallerStep \/ OtherStep \/ ServiceDies
  BY DEF AccessNext, OAuthStep, CallerStep, OtherStep

-----------------------------------------------------------------------------
(* The records.                                                             *)

(* Every key stored or given away was made, and every pair goes back to a code  *)
(* and replaced something older.                                            *)
Made(k) == IF k[1] = "code" THEN k[2] \in DOMAIN codes ELSE k[2] \in DOMAIN pairs
MadeInv ==
  /\ \A k \in secrets \cup granted : Made(k)
  /\ \A n \in DOMAIN pairs : /\ pairs[n].grant \in DOMAIN codes
                             /\ IF pairs[n].from[1] = "code"
                                THEN pairs[n].from[2] = pairs[n].grant
                                ELSE pairs[n].from[2] < n

(* What was exchanged is stored no more.                                      *)
FromInv == \A n \in DOMAIN pairs : pairs[n].from \notin secrets

(* What a provider method knows at its stage.                                 *)
MethodInv ==
  /\ provider.at = "code" => /\ Len(codes) > 0 /\ provider.key = <<"code", Len(codes)>>
                             /\ \A n \in DOMAIN pairs : pairs[n].grant # Len(codes)
  /\ provider.at \in {"load", "other", "own", "issue"} => provider.key \in Keys /\ Made(provider.key)
  /\ provider.at \in {"other", "own", "issue"} =>
       \A n \in DOMAIN pairs : pairs[n].from # provider.key
  /\ provider.at \in {"other", "own"} => Both(provider.key) \subseteq spent
  /\ provider.at = "other" => provider.key[1] # "code"
  /\ provider.at \in {"access", "refresh"} => Len(pairs) > 0

(* What is stored for one consent belongs together, also between two requests.  *)
Together == \A k, l \in secrets : GrantOf(k) = GrantOf(l) => l \in Both(k)
StageInv ==
  /\ provider.at = "other" =>
       \A k \in secrets : GrantOf(k) = GrantOf(provider.key) => k \in Both(provider.key)
  /\ provider.at = "own" =>
       \A k \in secrets : GrantOf(k) = GrantOf(provider.key) => k = provider.key
  /\ provider.at = "issue" => \A k \in secrets : GrantOf(k) # GrantOf(provider.key)
  /\ provider.at = "access" => \A k \in secrets : GrantOf(k) # pairs[Len(pairs)].grant
  /\ provider.at = "refresh" =>
       /\ <<"access", Len(pairs)>> \in secrets
       /\ \A k \in secrets :
            GrantOf(k) = pairs[Len(pairs)].grant => k = <<"access", Len(pairs)>>

RecordsInv == /\ OAuthTypes /\ MadeInv /\ FromInv /\ MethodInv /\ Together /\ StageInv
              /\ ExchangedOnce /\ GrantedIsKept

LEMMA RecordsInit == AccessInit => RecordsInv
<1> SUFFICES ASSUME AccessInit PROVE RecordsInv
  OBVIOUS
<1>1. OAuthTypes
  BY TypesInit, TypesSplit
<1>2. provider.at = "idle" /\ DOMAIN pairs = {} /\ secrets = {} /\ granted = {}
  BY QuietIsMethod DEF AccessInit
<1>3. QED
  BY <1>1, <1>2 DEF RecordsInv, MadeInv, FromInv, MethodInv, Together, StageInv,
                    ExchangedOnce, GrantedIsKept

LEMMA RecordsStand == RecordsInv /\ UNCHANGED oauth => RecordsInv'
<1> SUFFICES ASSUME RecordsInv, UNCHANGED oauth PROVE RecordsInv'
  OBVIOUS
<1>1. UNCHANGED <<secrets, codes, pairs, granted, spent, provider>>
  BY DEF oauth
<1>2. OAuthTypes' /\ MadeInv' /\ FromInv'
  BY <1>1 DEF RecordsInv, OAuthTypes, MadeInv, FromInv, Made
<1>3. MethodInv'
  BY <1>1 DEF RecordsInv, MethodInv, Made
<1>4. Together' /\ StageInv'
  BY <1>1 DEF RecordsInv, Together, StageInv, GrantOf
<1>5. ExchangedOnce' /\ GrantedIsKept'
  BY <1>1 DEF RecordsInv, ExchangedOnce, GrantedIsKept
<1>6. QED
  BY <1>2, <1>3, <1>4, <1>5 DEF RecordsInv

LEMMA Requests ==
  /\ provider.at = "other" => Removes = {Other(provider.key)} /\ Writes = {}
  /\ provider.at = "own" => Removes = {provider.key} /\ Writes = {}
  /\ provider.at = "code" => Removes = {} /\ Writes = {provider.key}
  /\ provider.at = "access" => Removes = {} /\ Writes = {<<"access", Len(pairs)>>}
  /\ provider.at = "refresh" => Removes = {} /\ Writes = {<<"refresh", Len(pairs)>>}
  /\ provider.at \notin {"other", "own", "code", "access", "refresh"} => Removes = {} /\ Writes = {}
  BY DEF Removes, Writes

(* What the requests write is new, and alone of its consent but for its pair.   *)
LEMMA Written ==
  ASSUME RecordsInv, NEW k \in Writes
  PROVE  /\ k \in Keys /\ Made(k)
         /\ \A n \in DOMAIN pairs : pairs[n].from # k
         /\ \A l \in secrets : GrantOf(k) = GrantOf(l) => l \in Both(k)
         /\ Writes = {k} /\ Removes = {}
<1>0. /\ Len(pairs) \in Nat /\ DOMAIN pairs = 1..Len(pairs)
      /\ Len(codes) \in Nat /\ DOMAIN codes = 1..Len(codes)
  BY DEF RecordsInv, OAuthTypes
<1>1. CASE provider.at = "code"
  <2>1. k = <<"code", Len(codes)>> /\ Len(codes) > 0 /\ Writes = {k} /\ Removes = {}
    BY <1>1, Requests DEF RecordsInv, MethodInv
  <2>2. k \in Keys /\ Made(k) /\ k[1] = "code" /\ k[2] = Len(codes)
    <3>1. k[1] = "code" /\ k[2] = Len(codes) /\ Len(codes) # 0 /\ Len(codes) \in DOMAIN codes
      BY <1>0, <2>1
    <3>2. k \in Keys
      BY <1>0, <2>1, <3>1, KeyFacts
    <3>3. QED
      BY <3>1, <3>2 DEF Made
  <2>3. ASSUME NEW n \in DOMAIN pairs PROVE pairs[n].from # k /\ pairs[n].grant # Len(codes)
    <3>1. pairs[n].grant # Len(codes)
      BY <1>1 DEF RecordsInv, MethodInv
    <3>2. QED
      BY <2>1, <3>1 DEF RecordsInv, MadeInv
  <2>4. ASSUME NEW l \in secrets, GrantOf(k) = GrantOf(l) PROVE l \in Both(k)
    <3>1. l \in Keys /\ Made(l)
      BY DEF RecordsInv, OAuthTypes, MadeInv
    <3>2. l[1] = "code"
      BY <2>2, <2>3, <2>4, <3>1 DEF GrantOf, Made
    <3>3. l = k
      BY <2>2, <2>4, <3>1, <3>2, KeyFacts DEF GrantOf
    <3>4. QED
      BY <2>2, <3>3 DEF Both
  <2>5. QED
    BY <2>1, <2>2, <2>3, <2>4
<1>2. CASE provider.at \in {"access", "refresh"}
  <2>1. /\ k = <<"access", Len(pairs)>> \/ k = <<"refresh", Len(pairs)>>
        /\ Len(pairs) > 0 /\ Writes = {k} /\ Removes = {}
    BY <1>2, Requests DEF RecordsInv, MethodInv
  <2>2. k \in Keys /\ Made(k) /\ k[1] # "code" /\ k[2] = Len(pairs)
    <3>1. k[1] # "code" /\ k[2] = Len(pairs) /\ Len(pairs) # 0 /\ Len(pairs) \in DOMAIN pairs
      BY <1>0, <2>1
    <3>2. k \in Keys
      BY <1>0, <2>1, <3>1, KeyFacts
    <3>3. QED
      BY <3>1, <3>2 DEF Made
  <2>3. ASSUME NEW n \in DOMAIN pairs PROVE pairs[n].from # k
    BY <1>0, <2>1 DEF RecordsInv, MadeInv
  <2>4. ASSUME NEW l \in secrets, GrantOf(k) = GrantOf(l) PROVE l \in Both(k)
    <3>1. GrantOf(k) = pairs[Len(pairs)].grant
      BY <2>2 DEF GrantOf
    <3>2. provider.at = "refresh" /\ l = <<"access", Len(pairs)>>
      BY <1>2, <2>4, <3>1 DEF RecordsInv, StageInv
    <3>3. k = <<"refresh", Len(pairs)>>
      BY <3>2, Requests
    <3>4. QED
      BY <3>2, <3>3 DEF Both, Other
  <2>5. QED
    BY <2>1, <2>2, <2>3, <2>4
<1>3. QED
  BY <1>1, <1>2, Requests

LEMMA Removed ==
  ASSUME RecordsInv
  PROVE  Removes \subseteq spent
  BY Requests DEF RecordsInv, MethodInv, Both

(* A request that takes effect, or does not.                                   *)
LEMMA EffectKeeps ==
  ASSUME RecordsInv, Effect \/ UNCHANGED secrets
  PROVE  /\ secrets' \subseteq Keys /\ \A k \in secrets' : Made(k)
         /\ \A n \in DOMAIN pairs : pairs[n].from \notin secrets'
         /\ \A k, l \in secrets' : GrantOf(k) = GrantOf(l) => l \in Both(k)
         /\ granted \ spent \subseteq secrets'
<1>1. secrets' \subseteq secrets \cup Writes /\ secrets \ spent \subseteq secrets'
  BY Removed DEF Effect
<1>2. secrets' \subseteq Keys /\ \A k \in secrets' : Made(k)
  BY <1>1, Written DEF RecordsInv, OAuthTypes, MadeInv
<1>3. \A n \in DOMAIN pairs : pairs[n].from \notin secrets'
  BY <1>1, Written DEF RecordsInv, FromInv
<1>4. ASSUME NEW k \in secrets', NEW l \in secrets', GrantOf(k) = GrantOf(l) PROVE l \in Both(k)
  <2>1. k \in Keys /\ l \in Keys
    BY <1>2
  <2>2. CASE k \in Writes
    BY <1>1, <1>4, <2>2, Written DEF Both
  <2>3. CASE l \in Writes /\ k \in secrets
    <3>1. k \in Both(l)
      BY <1>4, <2>3, Written
    <3>2. QED
      BY <2>1, <3>1, BothWays
  <2>4. CASE l \in secrets /\ k \in secrets
    BY <1>4, <2>4 DEF RecordsInv, Together
  <2>5. QED
    BY <1>1, <2>2, <2>3, <2>4
<1>5. granted \ spent \subseteq secrets'
  BY <1>1 DEF RecordsInv, GrantedIsKept
<1>6. QED
  BY <1>2, <1>3, <1>4, <1>5

(* A method that ends with nothing but its last request.                       *)
LEMMA MethodOver ==
  ASSUME RecordsInv, Effect \/ UNCHANGED secrets, UNCHANGED <<codes, pairs, spent>>,
         provider' = Quiet,
         granted' \subseteq Keys, \A k \in granted' : Made(k), granted' \ spent \subseteq secrets'
  PROVE  RecordsInv'
<1>1. OAuthTypes'
  BY EffectKeeps, QuietIsMethod DEF RecordsInv, OAuthTypes
<1>2. MadeInv' /\ FromInv' /\ ExchangedOnce' /\ GrantedIsKept'
  BY EffectKeeps DEF RecordsInv, MadeInv, Made, FromInv, ExchangedOnce, GrantedIsKept
<1>3. MethodInv' /\ StageInv'
  BY QuietIsMethod DEF MethodInv, StageInv
<1>4. Together'
  BY EffectKeeps DEF Together, GrantOf
<1>5. QED
  BY <1>1, <1>2, <1>3, <1>4 DEF RecordsInv

LEMMA FailureKeeps == RecordsInv /\ (RequestFails \/ ServiceDies) => RecordsInv'
<1> SUFFICES ASSUME RecordsInv, RequestFails \/ ServiceDies PROVE RecordsInv'
  OBVIOUS
<1>1. /\ Effect \/ UNCHANGED secrets
      /\ UNCHANGED <<codes, pairs, granted, spent>> /\ provider' = Quiet
  BY DEF RequestFails, ServiceDies
<1>2. granted' \subseteq Keys /\ (\A k \in granted' : Made(k)) /\ granted' \ spent \subseteq secrets'
  BY <1>1, EffectKeeps DEF RecordsInv, OAuthTypes, MadeInv
<1>3. QED
  BY <1>1, <1>2, MethodOver

LEMMA RemoveKeeps == RecordsInv /\ RemoveRecords => RecordsInv'
<1> SUFFICES ASSUME RecordsInv, RemoveRecords PROVE RecordsInv'
  OBVIOUS
<1>1. Effect /\ UNCHANGED <<codes, pairs, granted, spent>>
  BY DEF RemoveRecords
<1>2. granted' \subseteq Keys /\ (\A k \in granted' : Made(k)) /\ granted' \ spent \subseteq secrets'
  BY <1>1, EffectKeeps DEF RecordsInv, OAuthTypes, MadeInv
<1>3. CASE provider' = Quiet
  BY <1>1, <1>2, <1>3, MethodOver
<1>4. ASSUME NEW a \in {"own", "issue"}, provider.at \in {"other", "own"},
             provider.at = "other" <=> a = "own", Does(a)
      PROVE  RecordsInv'
  <2>0. provider.key \in Keys /\ Made(provider.key) /\ provider.at # a
    BY <1>4 DEF RecordsInv, MethodInv
  <2>1. provider' \in Methods /\ provider'.at = a /\ provider'.key = provider.key
    <3>1. a \in Stages /\ "use" \in Reasons /\ provider \in Methods
      BY DEF Stages, Reasons, RecordsInv, OAuthTypes
    <3>2. QED
      BY <1>4, <3>1, StageMoves DEF Does
  <2>2. OAuthTypes' /\ MadeInv' /\ FromInv' /\ ExchangedOnce' /\ GrantedIsKept'
    BY <1>1, <1>2, <2>1, EffectKeeps
    DEF RecordsInv, OAuthTypes, MadeInv, Made, FromInv, ExchangedOnce, GrantedIsKept
  <2>3. MethodInv'
    BY <1>1, <1>4, <2>1 DEF RecordsInv, MethodInv, Made
  <2>4. Together'
    BY <1>1, EffectKeeps DEF Together, GrantOf
  <2>5. ASSUME NEW k \in secrets', GrantOf(k) = GrantOf(provider.key)
        PROVE  a = "own" /\ k = provider.key
    <3>1. k \in secrets /\ k \notin Removes
      BY <1>1, <1>4, Requests DEF Effect
    <3>2. CASE a = "own"
      <4>1. k \in Both(provider.key) /\ k # Other(provider.key)
        BY <1>4, <2>5, <3>1, <3>2, Requests DEF RecordsInv, StageInv
      <4>2. QED
        BY <3>2, <4>1 DEF Both
    <3>3. CASE a = "issue"
      <4>1. provider.at = "own"
        BY <1>4, <3>3
      <4>2. QED
        BY <2>5, <3>1, <4>1, Requests DEF RecordsInv, StageInv
    <3>4. QED
      BY <3>2, <3>3
  <2>6. StageInv'
    BY <1>1, <2>1, <2>5 DEF StageInv, GrantOf
  <2>7. QED
    BY <2>2, <2>3, <2>4, <2>6 DEF RecordsInv
<1>5. QED
  BY <1>3, <1>4 DEF RemoveRecords

LEMMA WriteKeeps == RecordsInv /\ WriteRecords => RecordsInv'
<1> SUFFICES ASSUME RecordsInv, WriteRecords PROVE RecordsInv'
  OBVIOUS
<1>1. Effect /\ UNCHANGED <<codes, pairs, spent>>
  BY DEF WriteRecords
<1>2. Writes \subseteq Keys /\ (\A k \in Writes : Made(k)) /\ Writes \subseteq secrets'
  BY <1>1, Written DEF Effect
<1>3. granted \subseteq Keys /\ (\A k \in granted : Made(k)) /\ granted \ spent \subseteq secrets'
  BY <1>1, EffectKeeps DEF RecordsInv, OAuthTypes, MadeInv
<1>4. CASE provider.at = "code" /\ Answered({provider.key})
  <2>1. provider' = Quiet /\ granted' \subseteq granted \cup Writes
    BY <1>4, Requests DEF Answered
  <2>2. QED
    BY <1>1, <1>2, <1>3, <2>1, MethodOver
<1>5. CASE provider.at = "access" /\ Does("refresh") /\ UNCHANGED granted
  <2>1. provider' \in Methods /\ provider'.at = "refresh"
    BY <1>5, StageMoves DEF Does, RecordsInv, OAuthTypes, Stages, Reasons
  <2>2. OAuthTypes' /\ MadeInv' /\ FromInv' /\ ExchangedOnce' /\ GrantedIsKept'
    BY <1>1, <1>3, <1>5, <2>1, EffectKeeps
    DEF RecordsInv, OAuthTypes, MadeInv, Made, FromInv, ExchangedOnce, GrantedIsKept
  <2>3. MethodInv'
    BY <1>1, <1>5, <2>1 DEF RecordsInv, MethodInv
  <2>4. Together'
    BY <1>1, EffectKeeps DEF Together, GrantOf
  <2>5. secrets' = secrets \cup {<<"access", Len(pairs)>>}
    BY <1>1, <1>5, Requests DEF Effect
  <2>6. \A k \in secrets' : GrantOf(k) = pairs[Len(pairs)].grant => k = <<"access", Len(pairs)>>
    BY <1>5, <2>5 DEF RecordsInv, StageInv
  <2>7. StageInv'
    BY <1>1, <2>1, <2>5, <2>6 DEF StageInv, GrantOf
  <2>8. QED
    BY <2>2, <2>3, <2>4, <2>7 DEF RecordsInv
<1>6. CASE /\ provider.at = "refresh"
           /\ Answered({<<"access", Len(pairs)>>, <<"refresh", Len(pairs)>>})
  <2>1. <<"access", Len(pairs)>> \in secrets /\ Writes = {<<"refresh", Len(pairs)>>}
    BY <1>6, Requests DEF RecordsInv, StageInv
  <2>2. <<"access", Len(pairs)>> \in secrets'
    BY <1>1, <1>6, <2>1, Requests DEF Effect
  <2>3. <<"access", Len(pairs)>> \in Keys /\ Made(<<"access", Len(pairs)>>)
    BY <2>1 DEF RecordsInv, OAuthTypes, MadeInv
  <2>4. /\ provider' = Quiet
        /\ granted' \subseteq granted \cup (Writes \cup {<<"access", Len(pairs)>>})
    BY <1>6, <2>1 DEF Answered
  <2>5. QED
    BY <1>1, <1>2, <1>3, <2>2, <2>3, <2>4, MethodOver
<1>7. QED
  BY <1>4, <1>5, <1>6 DEF WriteRecords

(* Steps that only begin, or turn, a method.                                         *)
LEMMA StageKeeps ==
  ASSUME RecordsInv, UNCHANGED <<secrets, codes, pairs, granted>>,
         provider' \in Methods, spent' \subseteq Keys, spent \subseteq spent',
         MethodInv', StageInv'
  PROVE  RecordsInv'
<1>1. OAuthTypes' /\ MadeInv' /\ FromInv'
  BY DEF RecordsInv, OAuthTypes, MadeInv, FromInv, Made
<1>2. Together' /\ ExchangedOnce' /\ GrantedIsKept'
  BY DEF RecordsInv, Together, GrantOf, ExchangedOnce, GrantedIsKept
<1>3. QED
  BY <1>1, <1>2 DEF RecordsInv

LEMMA AuthorizeKeeps == RecordsInv /\ ServiceTypes /\ Authorize => RecordsInv'
<1> SUFFICES ASSUME RecordsInv, ServiceTypes, Authorize PROVE RecordsInv'
  OBVIOUS
<1>1. provider' \in Methods /\ provider'.at = "consent"
  <2>1. registered \in SUBSET Projects
    BY DEF ServiceTypes
  <2>2. QED
    BY <2>1, Offers DEF Authorize
<1>2. MethodInv' /\ StageInv'
  BY <1>1 DEF MethodInv, StageInv
<1>3. QED
  BY <1>1, <1>2, StageKeeps DEF Authorize, RecordsInv, OAuthTypes

LEMMA PresentKeeps ==
  ASSUME RecordsInv, NEW k \in granted, NEW purpose \in Purposes(k), Present(k, purpose)
  PROVE  RecordsInv'
<1>1. k \in Keys /\ Made(k) /\ purpose \in Reasons
  BY DEF RecordsInv, OAuthTypes, MadeInv, Purposes, Reasons, Keys, Kinds
<1>2. provider' \in Methods /\ provider'.at = "load" /\ provider'.key = k
  BY <1>1, Looks DEF Present
<1>3. MethodInv' /\ StageInv'
  BY <1>1, <1>2 DEF MethodInv, StageInv, Present, Made
<1>4. QED
  BY <1>2, <1>3, StageKeeps DEF Present, RecordsInv, OAuthTypes

LEMMA DeleteKeeps ==
  ASSUME RecordsInv, provider.at = "load", provider.key \in secrets,
         NEW purpose \in Reasons, Delete(purpose),
         UNCHANGED <<secrets, codes, pairs, granted>>
  PROVE  RecordsInv'
<1> DEFINE a == IF provider.key[1] = "code" THEN "own" ELSE "other"
<1>1. provider.key \in Keys /\ Made(provider.key)
  BY DEF RecordsInv, MethodInv
<1>2. provider' \in Methods /\ provider'.at = a /\ provider'.key = provider.key
  <2>1. a \in Stages /\ provider \in Methods
    BY DEF Stages, RecordsInv, OAuthTypes
  <2>2. provider' = [provider EXCEPT !.purpose = purpose, !.at = a]
    BY DEF Delete
  <2> HIDE DEF a
  <2>3. QED
    BY <2>1, <2>2, StageMoves
<1>3. spent' = spent \cup Both(provider.key) /\ Both(provider.key) \subseteq Keys
  BY <1>1, KeyFacts DEF Delete
<1>4. MethodInv'
  BY <1>1, <1>2, <1>3 DEF MethodInv, Made, RecordsInv, FromInv
<1>5. \A k \in secrets : GrantOf(k) = GrantOf(provider.key) => k \in Both(provider.key)
  BY DEF RecordsInv, Together
<1>6. StageInv'
  <2>1. CASE provider.key[1] = "code"
    <3>1. \A k \in secrets : GrantOf(k) = GrantOf(provider.key) => k = provider.key
      BY <1>5, <2>1 DEF Both
    <3>2. QED
      BY <1>2, <2>1, <3>1 DEF StageInv, GrantOf
  <2>2. CASE provider.key[1] # "code"
    BY <1>2, <1>5, <2>2 DEF StageInv, GrantOf, Both, Other
  <2>3. QED
    BY <2>1, <2>2
<1>7. QED
  BY <1>2, <1>3, <1>4, <1>6, StageKeeps DEF RecordsInv, OAuthTypes

LEMMA LoadKeeps == RecordsInv /\ Load => RecordsInv'
<1> SUFFICES ASSUME RecordsInv, Load PROVE RecordsInv'
  OBVIOUS
<1>1. CASE Leave
  <2>1. provider' \in Methods /\ MethodInv' /\ StageInv'
    BY <1>1, QuietIsMethod DEF Leave, MethodInv, StageInv
  <2>2. QED
    BY <1>1, <2>1, StageKeeps DEF Load, Leave, RecordsInv, OAuthTypes
<1>2. ASSUME NEW purpose \in Reasons, provider.key \in secrets, Delete(purpose) PROVE RecordsInv'
  BY <1>2, DeleteKeeps DEF Load
<1>3. QED
  BY <1>1, <1>2 DEF Load, Reasons

LEMMA ConsentKeeps == RecordsInv /\ ServiceTypes /\ Consent => RecordsInv'
<1> SUFFICES ASSUME RecordsInv, ServiceTypes, Consent PROVE RecordsInv'
  OBVIOUS
<1>1. CASE provider' = Quiet /\ UNCHANGED codes
  <2>1. provider' \in Methods /\ MethodInv' /\ StageInv'
    BY <1>1, QuietIsMethod DEF MethodInv, StageInv
  <2>2. QED
    BY <1>1, <2>1, StageKeeps DEF Consent, RecordsInv, OAuthTypes
<1>2. ASSUME NEW p \in registered,
             codes' = Append(codes, [project |-> p, expires |-> clock + CodeSeconds]),
             provider' = [Quiet EXCEPT !.at = "code", !.key = <<"code", Len(codes) + 1>>]
      PROVE  RecordsInv'
  <2>0. UNCHANGED <<secrets, pairs, granted, spent>>
    BY DEF Consent
  <2>1. [project |-> p, expires |-> clock + CodeSeconds] \in [project : Projects, expires : Nat]
    BY SecondsAssumption DEF ServiceTypes
  <2>2. /\ codes' \in Seq([project : Projects, expires : Nat]) /\ Len(codes) \in Nat
        /\ Len(codes') = Len(codes) + 1
        /\ DOMAIN codes = 1..Len(codes) /\ DOMAIN codes' = 1..(Len(codes) + 1)
    BY <1>2, <2>1, Longer DEF RecordsInv, OAuthTypes
  <2>3. <<"code", Len(codes) + 1>> \in Keys
    <3>1. Len(codes) + 1 \in Nat /\ Len(codes) + 1 # 0
      BY <2>2
    <3>2. QED
      BY <3>1, KeyFacts
  <2>4. provider' \in Methods /\ provider'.at = "code" /\ provider'.key = <<"code", Len(codes) + 1>>
    BY <1>2, <2>3, Stores
  <2>5. OAuthTypes'
    BY <2>0, <2>2, <2>4 DEF RecordsInv, OAuthTypes
  <2>6. \A k : Made(k) => Made(k)'
    BY <2>0, <2>2 DEF Made
  <2>7. MadeInv'
    <3>1. \A k \in secrets' \cup granted' : Made(k)'
      BY <2>0, <2>6 DEF RecordsInv, MadeInv
    <3>2. ASSUME NEW n \in DOMAIN pairs
          PROVE  /\ pairs[n].grant \in DOMAIN codes'
                 /\ IF pairs[n].from[1] = "code"
                    THEN pairs[n].from[2] = pairs[n].grant
                    ELSE pairs[n].from[2] < n
      BY <2>2 DEF RecordsInv, MadeInv
    <3>3. QED
      BY <2>0, <3>1, <3>2 DEF MadeInv
  <2>8. FromInv' /\ ExchangedOnce' /\ GrantedIsKept' /\ Together'
    BY <2>0 DEF RecordsInv, FromInv, ExchangedOnce, GrantedIsKept, Together, GrantOf
  <2>9. MethodInv' /\ StageInv'
    <3>1. ASSUME NEW n \in DOMAIN pairs PROVE pairs[n].grant # Len(codes) + 1
      BY <2>2 DEF RecordsInv, MadeInv
    <3>2. QED
      BY <2>0, <2>2, <2>4, <3>1 DEF MethodInv, StageInv
  <2>10. QED
    BY <2>5, <2>7, <2>8, <2>9 DEF RecordsInv
<1>3. QED
  BY <1>1, <1>2 DEF Consent

LEMMA IssueKeeps == RecordsInv /\ ServiceTypes /\ Issue => RecordsInv'
<1> SUFFICES ASSUME RecordsInv, ServiceTypes, Issue PROVE RecordsInv'
  OBVIOUS
<1> DEFINE key == provider.key
           g == GrantOf(key)
           N == Len(pairs) + 1
           new == [from |-> key, grant |-> g, project |-> ProjectOf(key), issued |-> clock]
           S == [from : Keys, grant : Nat \ {0}, project : Projects, issued : Nat]
<1>0. UNCHANGED <<secrets, codes, granted, spent>>
  BY DEF Issue
<1>1. CASE provider' = Quiet /\ UNCHANGED pairs
  <2>1. provider' \in Methods /\ MethodInv' /\ StageInv'
    BY <1>1, QuietIsMethod DEF MethodInv, StageInv
  <2>2. QED
    BY <1>0, <1>1, <2>1, StageKeeps DEF RecordsInv, OAuthTypes
<1>2. CASE ProjectOf(key) \in registered /\ pairs' = Append(pairs, new) /\ Does("access")
  <2>0. /\ key \in Keys /\ Made(key) /\ provider.at = "issue"
        /\ \A n \in DOMAIN pairs : pairs[n].from # key
        /\ \A k \in secrets : GrantOf(k) # g
    BY DEF Issue, RecordsInv, MethodInv, StageInv
  <2>1. g \in DOMAIN codes /\ g \in Nat \ {0}
    <3>1. g \in DOMAIN codes
      BY <2>0 DEF GrantOf, Made, RecordsInv, MadeInv
    <3>2. QED
      BY <3>1 DEF RecordsInv, OAuthTypes
  <2>2. new \in S
    BY <1>2, <2>0, <2>1 DEF ServiceTypes
  <2> HIDE DEF new
  <2>3. /\ pairs' \in Seq(S) /\ Len(pairs) \in Nat /\ Len(pairs') = N /\ pairs'[N] = new
        /\ DOMAIN pairs = 1..Len(pairs) /\ DOMAIN pairs' = 1..N
        /\ \A n \in DOMAIN pairs : pairs'[n] = pairs[n] /\ n # N
    BY <1>2, <2>2, Longer DEF RecordsInv, OAuthTypes
  <2>4. new.from = key /\ new.grant = g
    BY DEF new
  <2>5. \A n \in DOMAIN pairs' : n \in DOMAIN pairs \/ n = N
    BY <2>3
  <2>a. N \in DOMAIN pairs' /\ DOMAIN pairs \subseteq DOMAIN pairs'
    BY <2>3
  <2>6. provider' \in Methods /\ provider'.at = "access"
    BY <1>2, StageMoves DEF Does, RecordsInv, OAuthTypes, Stages, Reasons
  <2>7. OAuthTypes'
    BY <1>0, <2>3, <2>6 DEF RecordsInv, OAuthTypes
  <2>8. \A k : Made(k) => Made(k)' /\ GrantOf(k)' = GrantOf(k)
    BY <1>0, <2>3, <2>a DEF Made, GrantOf
  <2> HIDE DEF g, key, N
  <2>9. MadeInv'
    <3>1. \A k \in secrets' \cup granted' : Made(k)'
      BY <1>0, <2>8 DEF RecordsInv, MadeInv
    <3>2. ASSUME NEW n \in DOMAIN pairs
          PROVE  /\ pairs'[n].grant \in DOMAIN codes
                 /\ IF pairs'[n].from[1] = "code"
                    THEN pairs'[n].from[2] = pairs'[n].grant
                    ELSE pairs'[n].from[2] < n
      BY <2>3 DEF RecordsInv, MadeInv
    <3>3. IF key[1] = "code" THEN key[2] = g ELSE key[2] < N
      BY <2>0, <2>3 DEF g, N, GrantOf, Made
    <3>4. QED
      BY <1>0, <2>1, <2>3, <2>4, <2>5, <3>1, <3>2, <3>3 DEF MadeInv
  <2>10. FromInv'
    <3>1. key \notin secrets
      BY <2>0 DEF g
    <3>2. QED
      BY <1>0, <2>3, <2>4, <2>5, <3>1 DEF RecordsInv, FromInv
  <2>11. ExchangedOnce'
    BY <2>0, <2>3, <2>4, <2>5 DEF RecordsInv, ExchangedOnce
  <2>12. GrantedIsKept' /\ Together'
    <3>1. \A k \in secrets : GrantOf(k)' = GrantOf(k)
      BY <2>8 DEF RecordsInv, MadeInv
    <3>2. QED
      BY <1>0, <3>1 DEF RecordsInv, GrantedIsKept, Together
  <2>13. MethodInv'
    BY <2>3, <2>6 DEF MethodInv, N
  <2>14. StageInv'
    <3>1. \A k \in secrets' : GrantOf(k)' # g
      BY <1>0, <2>0, <2>8 DEF RecordsInv, MadeInv
    <3>2. pairs'[Len(pairs')].grant = g
      BY <2>3, <2>4
    <3>3. QED
      BY <2>6, <3>1, <3>2 DEF StageInv
  <2>15. QED
    BY <2>7, <2>9, <2>10, <2>11, <2>12, <2>13, <2>14 DEF RecordsInv
<1>3. QED
  BY <1>1, <1>2 DEF Issue

LEMMA RecordsKept ==
  RecordsInv /\ ServiceTypes /\ [AccessNext]_accessVars => RecordsInv'
<1> SUFFICES ASSUME RecordsInv, ServiceTypes, [AccessNext]_accessVars PROVE RecordsInv'
  OBVIOUS
<1>1. CASE OAuthStep
  BY <1>1, AuthorizeKeeps, ConsentKeeps, LoadKeeps, RemoveKeeps, IssueKeeps, WriteKeeps,
     FailureKeeps, PresentKeeps DEF OAuthStep
<1>2. CASE ServiceDies
  BY <1>2, FailureKeeps
<1>3. CASE CallerStep
  <2>1. UNCHANGED oauth
    BY <1>3 DEF CallerStep, Configured, Lease, StatusAnswer, Remember, LeaseAnswer, Forget
  <2>2. QED
    BY <2>1, RecordsStand
<1>4. CASE OtherStep
  <2>1. UNCHANGED oauth
    BY <1>4 DEF OtherStep, Tick, AttachProject, Edit
  <2>2. QED
    BY <2>1, RecordsStand
<1>5. CASE UNCHANGED accessVars
  BY <1>5, RecordsStand DEF accessVars
<1>6. QED
  BY <1>1, <1>2, <1>3, <1>4, <1>5, AccessSteps

LEMMA OneGenerationLives == RecordsInv => OneGeneration
<1> SUFFICES ASSUME RecordsInv, NEW m \in DOMAIN pairs, Stored(m)
             PROVE  /\ <<"code", pairs[m].grant>> \notin secrets
                    /\ \A n \in DOMAIN pairs :
                         Stored(n) /\ pairs[n].grant = pairs[m].grant => n = m
  BY DEF OneGeneration
<1>1. PICK k \in secrets : k = <<"access", m>> \/ k = <<"refresh", m>>
  BY DEF Stored
<1>2. /\ GrantOf(k) = pairs[m].grant
      /\ Both(k) \subseteq {<<"access", m>>, <<"refresh", m>>}
  BY <1>1 DEF GrantOf, Both, Other
<1>3. <<"code", pairs[m].grant>> \notin secrets
  <2>1. GrantOf(<<"code", pairs[m].grant>>) = pairs[m].grant
    BY DEF GrantOf
  <2>2. <<"code", pairs[m].grant>> \notin Both(k)
    BY <1>2
  <2>3. QED
    BY <1>2, <2>1, <2>2 DEF RecordsInv, Together
<1>4. ASSUME NEW n \in DOMAIN pairs, Stored(n), pairs[n].grant = pairs[m].grant PROVE n = m
  <2>1. PICK l \in secrets : l = <<"access", n>> \/ l = <<"refresh", n>>
    BY <1>4 DEF Stored
  <2>2. GrantOf(l) = pairs[n].grant
    BY <2>1 DEF GrantOf
  <2>3. l \in Both(k)
    BY <1>2, <1>4, <2>2 DEF RecordsInv, Together
  <2>4. QED
    BY <1>2, <2>1, <2>3
<1>5. QED
  BY <1>3, <1>4

-----------------------------------------------------------------------------
(* The remembered answers.                                                  *)

(* A remembered answer runs out CacheSeconds from now at the latest, and an     *)
(* answer to a question asked after the last change of the binding is right.    *)
CacheInv ==
  /\ \A p \in Projects : configured[p].until <= clock + CacheSeconds
  /\ \A t \in Callers :
       /\ caller[t].asked <= clock
       /\ caller[t].at = "answered" /\ caller[t].asked > changed[caller[t].project] =>
            (caller[t].answer <=> caller[t].project \in bound)
AnswersInv == CredentialTypes /\ ServiceTypes /\ CacheInv /\ ConfiguredIsRecent

LEMMA AnswersInit == AccessInit => AnswersInv
<1> SUFFICES ASSUME AccessInit PROVE AnswersInv
  OBVIOUS
<1>1. CredentialTypes /\ ServiceTypes
  BY TypesInit, TypesSplit
<1>2. /\ \A t \in Callers : caller[t] = Unasked
      /\ \A p \in Projects : configured[p].until = 0 /\ changed[p] = 0
      /\ clock = 0
  BY DEF AccessInit, NoEntry
<1>3. CacheInv
  BY <1>2, UnaskedIsCall, SecondsAssumption DEF CacheInv
<1>4. ConfiguredIsRecent
  BY <1>2, SecondsAssumption DEF ConfiguredIsRecent
<1>5. QED
  BY <1>1, <1>3, <1>4 DEF AnswersInv

LEMMA AnswersStand ==
  AnswersInv /\ UNCHANGED <<credentials, clock>> /\ ServiceTypes' => AnswersInv'
<1> SUFFICES ASSUME AnswersInv, UNCHANGED <<credentials, clock>>, ServiceTypes' PROVE AnswersInv'
  OBVIOUS
<1>1. UNCHANGED <<bound, changed, configured, caller, edits, clock>>
  BY DEF credentials
<1>2. CredentialTypes' /\ CacheInv'
  BY <1>1 DEF AnswersInv, CredentialTypes, CacheInv
<1>3. ConfiguredIsRecent'
  BY <1>1 DEF AnswersInv, ConfiguredIsRecent
<1>4. QED
  BY <1>2, <1>3 DEF AnswersInv

(* A step of one caller, and the entry it writes.                              *)
LEMMA CallerMoves ==
  ASSUME AnswersInv, ServiceTypes', UNCHANGED <<bound, changed, edits, clock>>,
         NEW t \in Callers, NEW c \in Calls, Now(t, c),
         c.asked <= clock,
         c.at = "answered" /\ c.asked > changed[c.project] => (c.answer <=> c.project \in bound),
         configured' \in [Projects -> [until : Nat, answer : BOOLEAN]],
         \A p \in Projects : configured'[p].until <= clock + CacheSeconds,
         ConfiguredIsRecent'
  PROVE  AnswersInv'
<1>1. CredentialTypes'
  BY DEF Now, AnswersInv, CredentialTypes
<1>2. \A u \in Callers : caller'[u] = IF u = t THEN c ELSE caller[u]
  BY DEF Now, AnswersInv, CredentialTypes
<1>3. CacheInv'
  BY <1>2 DEF AnswersInv, CacheInv
<1>4. QED
  BY <1>1, <1>3 DEF AnswersInv

LEMMA CallerKeeps ==
  ASSUME AnswersInv, NEW t \in Callers, NEW p \in Projects,
         \/ Configured(t, p) \/ Lease(t, p)
         \/ StatusAnswer(t) \/ Remember(t) \/ LeaseAnswer(t) \/ Forget(t)
  PROVE  AnswersInv'
<1>0. /\ ServiceTypes' /\ UNCHANGED <<bound, changed, edits, clock>>
      /\ caller[t] \in Calls /\ clock \in Nat /\ caller[t].asked \in Nat
      /\ caller[t].asked <= clock /\ caller[t].project \in Projects
      /\ configured \in [Projects -> [until : Nat, answer : BOOLEAN]]
      /\ \A q \in Projects : configured[q].until <= clock + CacheSeconds
  <2>1. UNCHANGED <<bound, changed, edits, clock, registered, deaths>>
    BY DEF Configured, Lease, StatusAnswer, Remember, LeaseAnswer, Forget
  <2>2. failures' \in Nat
    BY DEF Configured, Lease, StatusAnswer, Remember, LeaseAnswer, Forget, Fails,
           AnswersInv, ServiceTypes
  <2>3. ServiceTypes'
    BY <2>1, <2>2 DEF AnswersInv, ServiceTypes
  <2>4. caller[t] \in Calls
    BY DEF AnswersInv, CredentialTypes
  <2>5. QED
    BY <2>1, <2>3, <2>4 DEF AnswersInv, CredentialTypes, ServiceTypes, CacheInv, Calls
<1>1. ASSUME UNCHANGED configured, NEW c \in Calls, Now(t, c), c.asked <= clock,
             c.at = "answered" => (c.answer <=> c.project \in bound)
      PROVE  AnswersInv'
  <2>1. ConfiguredIsRecent'
    BY <1>0, <1>1 DEF AnswersInv, ConfiguredIsRecent
  <2>2. QED
    BY <1>0, <1>1, <2>1, CallerMoves
<1>2. ASSUME NEW a \in {"status", "lease"}, Begins(t, a, p), UNCHANGED configured PROVE AnswersInv'
  <2> DEFINE c == [at |-> a, project |-> p, asked |-> clock, answer |-> FALSE]
  <2>1. c \in Calls /\ c.asked <= clock /\ c.at # "answered"
    BY <1>0 DEF Calls
  <2>2. Now(t, c)
    BY <1>2 DEF Begins
  <2> HIDE DEF c
  <2>3. QED
    BY <1>1, <1>2, <2>1, <2>2
<1>3. CASE Configured(t, p) \/ Lease(t, p)
  BY <1>2, <1>3 DEF Configured, Lease
<1>4. ASSUME Now(t, Unasked), UNCHANGED configured PROVE AnswersInv'
  BY <1>0, <1>1, <1>4, UnaskedIsCall
<1>5. ASSUME Now(t, [caller[t] EXCEPT !.at = "refused"]), UNCHANGED configured PROVE AnswersInv'
  <2> DEFINE c == [caller[t] EXCEPT !.at = "refused"]
  <2>1. c \in Calls /\ c.at = "refused" /\ c.asked = caller[t].asked
    BY <1>0, CallMoves DEF CallStages
  <2> HIDE DEF c
  <2>2. c.asked <= clock /\ c.at # "answered" /\ Now(t, c)
    BY <1>0, <1>5, <2>1 DEF c
  <2>3. QED
    BY <1>1, <1>5, <2>1, <2>2
<1>6. CASE StatusAnswer(t)
  <2>1. ASSUME Now(t, [caller[t] EXCEPT !.at = "answered", !.answer = caller[t].project \in bound])
        PROVE  AnswersInv'
    <3> DEFINE b == caller[t].project \in bound
               c == [caller[t] EXCEPT !.at = "answered", !.answer = b]
    <3>1. b \in BOOLEAN
      OBVIOUS
    <3>2. /\ c \in Calls /\ c.asked = caller[t].asked /\ c.project = caller[t].project
          /\ c.answer = b
      BY <1>0, <3>1, CallAnswers
    <3>3. Now(t, c) /\ UNCHANGED configured
      BY <1>6, <2>1 DEF StatusAnswer
    <3>4. c.asked <= clock /\ (c.answer <=> c.project \in bound)
      BY <1>0, <3>2
    <3> HIDE DEF c, b
    <3>5. QED
      BY <1>1, <3>2, <3>3, <3>4
  <2>2. QED
    BY <1>5, <1>6, <2>1 DEF StatusAnswer
<1>7. CASE LeaseAnswer(t)
  BY <1>4, <1>5, <1>7 DEF LeaseAnswer
<1>8. ASSUME NEW e \in [until : Nat, answer : BOOLEAN], NEW q \in Projects, Now(t, Unasked),
             configured' = [configured EXCEPT ![q] = e], e.until <= clock + CacheSeconds,
             e.until > changed[q] + CacheSeconds => (e.answer <=> q \in bound)
      PROVE  AnswersInv'
  <2>1. /\ configured' \in [Projects -> [until : Nat, answer : BOOLEAN]]
        /\ \A r \in Projects : configured'[r] = IF r = q THEN e ELSE configured[r]
    BY <1>0, <1>8
  <2>2. \A r \in Projects : configured'[r].until <= clock + CacheSeconds
    BY <1>0, <1>8, <2>1
  <2>3. ConfiguredIsRecent'
    BY <1>0, <1>8, <2>1 DEF AnswersInv, ConfiguredIsRecent
  <2>4. Unasked \in Calls /\ Unasked.asked <= clock /\ Unasked.at # "answered"
    BY <1>0, UnaskedIsCall
  <2>5. QED
    BY <1>0, <1>8, <2>1, <2>2, <2>3, <2>4, CallerMoves
<1>9. CASE Remember(t)
  <2> DEFINE e == [until |-> Until(t), answer |-> caller[t].answer]
  <2>1. /\ e \in [until : Nat, answer : BOOLEAN]
        /\ e.until = caller[t].asked + CacheSeconds /\ e.answer = caller[t].answer
    BY <1>0, SecondsAssumption DEF Until, Calls
  <2>2. /\ configured' = [configured EXCEPT ![caller[t].project] = e] /\ Now(t, Unasked)
        /\ caller[t].at = "answered"
    BY <1>9 DEF Remember
  <2> HIDE DEF e
  <2>3. changed[caller[t].project] \in Nat /\ CacheSeconds \in Nat
    BY <1>0, SecondsAssumption DEF AnswersInv, CredentialTypes
  <2>4. e.until <= clock + CacheSeconds
    BY <1>0, <2>1, <2>3
  <2>5. e.until > changed[caller[t].project] + CacheSeconds =>
          (e.answer <=> caller[t].project \in bound)
    <3>1. e.until > changed[caller[t].project] + CacheSeconds =>
            caller[t].asked > changed[caller[t].project]
      BY <1>0, <2>1, <2>3
    <3>2. QED
      BY <2>1, <2>2, <3>1 DEF AnswersInv, CacheInv
  <2>6. QED
    BY <1>0, <1>8, <2>1, <2>2, <2>4, <2>5
<1>10. CASE Forget(t)
  <2>1. /\ NoEntry \in [until : Nat, answer : BOOLEAN] /\ NoEntry.until = 0
    BY DEF NoEntry
  <2>2. changed[caller[t].project] \in Nat /\ CacheSeconds \in Nat
    BY <1>0, SecondsAssumption DEF AnswersInv, CredentialTypes
  <2>3. /\ NoEntry.until <= clock + CacheSeconds
        /\ ~ NoEntry.until > changed[caller[t].project] + CacheSeconds
    BY <1>0, <2>1, <2>2
  <2>4. QED
    BY <1>0, <1>8, <1>10, <2>1, <2>3 DEF Forget
<1>11. QED
  BY <1>3, <1>6, <1>7, <1>9, <1>10

LEMMA AnswersKept == AnswersInv /\ [AccessNext]_accessVars => AnswersInv'
<1> SUFFICES ASSUME AnswersInv, [AccessNext]_accessVars PROVE AnswersInv'
  OBVIOUS
<1>1. CASE OAuthStep
  <2>1. UNCHANGED <<credentials, clock, registered, deaths>> /\ failures' \in Nat
    <3>1. failures \in Nat /\ failures + 1 \in Nat
      BY DEF AnswersInv, ServiceTypes
    <3>2. CASE RequestFails
      BY <3>1, <3>2 DEF RequestFails, Elsewhere, Fails
    <3>3. CASE ~ RequestFails
      BY <1>1, <3>1, <3>3 DEF OAuthStep, Authorize, Consent, Load, RemoveRecords, Issue,
                              WriteRecords, Present, Elsewhere
    <3>4. QED
      BY <3>2, <3>3
  <2>2. ServiceTypes'
    BY <2>1 DEF AnswersInv, ServiceTypes
  <2>3. QED
    BY <2>1, <2>2, AnswersStand
<1>2. CASE CallerStep
  <2>1. PICK t \in Callers : \/ \E p \in Projects : Configured(t, p) \/ Lease(t, p)
                             \/ StatusAnswer(t) \/ Remember(t) \/ LeaseAnswer(t) \/ Forget(t)
    BY <1>2 DEF CallerStep
  <2>2. QED
    BY <2>1, CallerKeeps, DefaultAssumption
<1>3. CASE ServiceDies
  <2>1. ServiceTypes'
    BY <1>3, DefaultAssumption DEF ServiceDies, AnswersInv, ServiceTypes
  <2>2. CredentialTypes'
    BY <1>3, UnaskedIsCall DEF ServiceDies, AnswersInv, CredentialTypes, NoEntry
  <2>3. /\ \A t \in Callers : caller'[t] = Unasked
        /\ \A p \in Projects : configured'[p].until = 0
        /\ clock' \in Nat /\ CacheSeconds \in Nat /\ changed' \in [Projects -> Nat]
    BY <1>3, <2>1, <2>2, SecondsAssumption DEF ServiceDies, NoEntry, ServiceTypes, CredentialTypes
  <2>4. CacheInv'
    BY <2>3, UnaskedIsCall DEF CacheInv
  <2>5. ConfiguredIsRecent'
    BY <2>3 DEF ConfiguredIsRecent
  <2>6. QED
    BY <2>1, <2>2, <2>4, <2>5 DEF AnswersInv
<1>4. CASE \E p \in Projects : AttachProject(p)
  <2>1. UNCHANGED <<credentials, clock>> /\ ServiceTypes'
    BY <1>4 DEF AttachProject, AnswersInv, ServiceTypes
  <2>2. QED
    BY <2>1, AnswersStand
<1>5. CASE Tick
  <2>1. /\ UNCHANGED <<bound, changed, configured, caller, edits>>
        /\ clock \in Nat /\ clock' = clock + 1 /\ CacheSeconds \in Nat
    BY <1>5, SecondsAssumption DEF Tick, credentials, AnswersInv, ServiceTypes
  <2>2. CredentialTypes' /\ ServiceTypes' /\ ConfiguredIsRecent'
    BY <1>5, <2>1 DEF Tick, AnswersInv, CredentialTypes, ServiceTypes, ConfiguredIsRecent
  <2>3. CacheInv'
    <3>1. \A t \in Callers : caller[t].asked \in Nat
      BY DEF AnswersInv, CredentialTypes, Calls
    <3>2. \A p \in Projects : configured[p].until \in Nat
      BY DEF AnswersInv, CredentialTypes
    <3>3. QED
      BY <2>1, <3>1, <3>2 DEF AnswersInv, CacheInv
  <2>4. QED
    BY <2>2, <2>3 DEF AnswersInv
<1>6. ASSUME NEW p \in Projects, Edit(p) PROVE AnswersInv'
  <2>1. /\ UNCHANGED <<configured, caller, registered, clock, failures, deaths>>
        /\ clock \in Nat /\ CacheSeconds \in Nat
        /\ \A q \in Projects : changed'[q] = IF q = p THEN clock ELSE changed[q]
        /\ \A q \in Projects : q # p => (q \in bound' <=> q \in bound)
    BY <1>6, SecondsAssumption DEF Edit, AnswersInv, ServiceTypes, CredentialTypes
  <2>2. CredentialTypes' /\ ServiceTypes'
    BY <1>6, <2>1 DEF Edit, AnswersInv, CredentialTypes, ServiceTypes
  <2>3. ConfiguredIsRecent'
    <3>1. \A q \in Projects : /\ configured[q].until \in Nat
                              /\ configured[q].until <= clock + CacheSeconds
      BY DEF AnswersInv, CredentialTypes, CacheInv
    <3>2. QED
      BY <2>1, <3>1 DEF AnswersInv, ConfiguredIsRecent
  <2>4. CacheInv'
    <3>1. \A t \in Callers : /\ caller[t].asked \in Nat /\ caller[t].project \in Projects
                             /\ caller[t].asked <= clock
      BY DEF AnswersInv, CredentialTypes, Calls, CacheInv
    <3>2. QED
      BY <2>1, <3>1 DEF AnswersInv, CacheInv
  <2>5. QED
    BY <2>2, <2>3, <2>4 DEF AnswersInv
<1>7. CASE UNCHANGED accessVars
  BY <1>7, AnswersStand DEF accessVars, AnswersInv, ServiceTypes
<1>8. QED
  BY <1>1, <1>2, <1>3, <1>4, <1>5, <1>6, <1>7, AccessSteps DEF OtherStep

-----------------------------------------------------------------------------
(* The theorems.                                                            *)
LEMMA Invariant == AccessSpec => [](RecordsInv /\ AnswersInv)
<1>1. AccessInit => RecordsInv /\ AnswersInv
  BY RecordsInit, AnswersInit
<1>2. RecordsInv /\ AnswersInv /\ [AccessNext]_accessVars => RecordsInv' /\ AnswersInv'
  BY RecordsKept, AnswersKept DEF AnswersInv
<1>3. QED
  BY <1>1, <1>2, PTL DEF AccessSpec

(* Records, methods, answers and clocks stay in their types: no method goes on  *)
(* with a key that was never made (mcp_oauth.py, managed.py).                  *)
THEOREM AccessTypes == AccessSpec => []AccessTypeOK
<1>1. RecordsInv /\ AnswersInv => AccessTypeOK
  BY TypesSplit DEF RecordsInv, AnswersInv
<1>2. QED
  BY <1>1, Invariant, PTL

(* mcp_oauth.py removes what is exchanged before it issues the next pair: of    *)
(* one consent the code or one pair is stored, for any number of projects,      *)
(* codes, pairs, failing requests and deaths of the service.                  *)
THEOREM OneLives == AccessSpec => []OneGeneration
  BY OneGenerationLives, Invariant, PTL

(* exchange_authorization_code, exchange_refresh_token: what was exchanged is    *)
(* never exchanged again, also when the answer was lost.                      *)
THEOREM OnlyOnce == AccessSpec => []ExchangedOnce
<1>1. RecordsInv => ExchangedOnce
  BY DEF RecordsInv
<1>2. QED
  BY <1>1, Invariant, PTL

(* _issue_tokens answers after both records are stored, and only an exchange,    *)
(* a revocation or an expiry removes them.                                   *)
THEOREM Kept == AccessSpec => []GrantedIsKept
<1>1. RecordsInv => GrantedIsKept
  BY DEF RecordsInv
<1>2. QED
  BY <1>1, Invariant, PTL

(* ManagedCredentialProvider.configured counts the age of an answer from when    *)
(* it was asked for, so no answer outlives a change of the binding by more      *)
(* than the cache's seconds.                                                 *)
THEOREM Recent == AccessSpec => []ConfiguredIsRecent
<1>1. AnswersInv => ConfiguredIsRecent
  BY DEF AnswersInv
<1>2. QED
  BY <1>1, Invariant, PTL

=============================================================================
