------------------------------ MODULE MCResources ------------------------------
(***************************************************************************)
(* Five resources that share no state: the permits of accounts, the routes *)
(* of the built-in proxy, the lease on the system proxy, the maintenance   *)
(* lock and the files of portable backups.  Every behaviour is one of the  *)
(* resource its initial state names, and the others rest.                  *)
(***************************************************************************)
EXTENDS MCSchedulerCapacity, RouteCoordinator, SystemProxyLease, MaintenanceLock,
        PortableReplacement

CONSTANTS
  Subject,   \* the resources a run explores
  c1, c2, c3, t1, t2, u1, u2, x1, x2, b1

VARIABLE subject

resourceVars == <<subject, vars, coordinatorVars, leaseVars, lockVars, replacementVars>>

OnePage         == {r1}
TwoPages        == {r1, r2}
OneContender    == {c1}
ThreeContenders == {c1, c2, c3}

(* The proxies that other programs choose are interchangeable: the first   *)
(* one is u1.                                                              *)
ResourcesInit ==
  /\ Init /\ RouteInit /\ LeaseInit /\ LockInit /\ ReplacementInit
  /\ subject \in Subject
  /\ subject # "route" => status = "disabled"
  /\ settings.server = u1
  /\ subject # "lease" => settings.mode = "automatic"
  /\ subject # "backup" => ~onWindows /\ file = [d \in Destination |-> NoFile]

ResourcesNext ==
  /\ UNCHANGED subject
  /\ \/ /\ subject = "capacity" /\ Next
        /\ UNCHANGED <<coordinatorVars, leaseVars, lockVars, replacementVars>>
     \/ /\ subject = "route" /\ RouteNext
        /\ UNCHANGED <<vars, leaseVars, lockVars, replacementVars>>
     \/ /\ subject = "lease" /\ LeaseNext
        /\ UNCHANGED <<vars, coordinatorVars, lockVars, replacementVars>>
     \/ /\ subject = "lock" /\ LockNext
        /\ UNCHANGED <<vars, coordinatorVars, leaseVars, replacementVars>>
     \/ /\ subject = "backup" /\ ReplacementNext
        /\ UNCHANGED <<vars, coordinatorVars, leaseVars, lockVars>>

ResourcesSpec == ResourcesInit /\ [][ResourcesNext]_resourceVars

(* The fairness of FairLockSpec.                                           *)
ReclaimSpec ==
  /\ ResourcesSpec
  /\ WF_lockVars(subject = "lock" /\ Age)
  /\ \A c \in Contender : WF_lockVars(subject = "lock" /\ (Start(c) \/ Step(c)))

(* The fairness of SchedulerCapacity's FairSpec and of FairLeaseSpec.      *)
WaitingSpec ==
  /\ ResourcesSpec
  /\ \A r \in Request : /\ WF_vars(subject = "capacity" /\ DeadlinePasses(r))
                        /\ WF_vars(subject = "capacity" /\ TimerFires(r))
  /\ WF_leaseVars(Proceeds) /\ WF_leaseVars(MonitorFires)
  /\ WF_leaseVars(subject = "lease" /\ Alive /\ (Starting \/ Started))

(* The fairness of FairRouteSpec and FairReplacementSpec.                  *)
RetirementSpec ==
  /\ ResourcesSpec
  /\ WF_coordinatorVars(subject = "route" /\ Tick)
  /\ \A g \in Generation : /\ WF_coordinatorVars(CheckRetirement(g))
                           /\ WF_coordinatorVars(DisposalEnds(g))
  /\ WF_replacementVars(subject = "backup" /\ UnderLock)
  /\ WF_replacementVars(subject = "backup" /\ launched /\ Idle /\ ProgramEnds)
  /\ WF_replacementVars(subject = "backup" /\ ProgramStarts)
  /\ \A e \in Export : /\ WF_replacementVars(subject = "backup" /\ TakesLock(e))
                       /\ WF_replacementVars(subject = "backup" /\ Discards(e))
=============================================================================
