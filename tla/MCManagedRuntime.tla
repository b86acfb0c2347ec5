------------------------- MODULE MCManagedRuntime -------------------------
(* Small instances of OwnerLock and of ManagedAccess: windows that crash and    *)
(* replace the service, or one service that runs, dies and starts again.       *)
EXTENDS OwnerLock, ManagedAccess

(* Threads ask for the credentials of one project only, and only its binding    *)
(* changes.                                                                 *)
OneProjectAsked ==
  bound \cup {Default} = Projects /\ \A t \in Callers : caller[t].project = Default

(* Credentials are asked for, and bindings edited, until a code was made, which *)
(* includes that a consent dialog is open; tokens do not depend on them.        *)
CallersApart ==
  codes = <<>> \/ /\ bound = Projects /\ edits = 0
                  /\ \A t \in Callers : caller[t].at = "idle"
                  /\ \A p \in Projects : configured[p] = NoEntry

RuntimeInit == Init /\ AccessInit /\ bound \cup {Default} = Projects

RuntimeSpec ==
  /\ RuntimeInit
  /\ [][\/ /\ AccessInit /\ bound = Projects
           /\ Next /\ UNCHANGED accessVars
        \/ /\ Init
           /\ AccessNext /\ OneProjectAsked' /\ CallersApart' /\ UNCHANGED vars
       ]_<<vars, accessVars>>
  /\ Fairness
=============================================================================
