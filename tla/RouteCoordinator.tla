--------------------------- MODULE RouteCoordinator ---------------------------
(***************************************************************************)
(* The outbound route of Stone+ (src/main/proxy/built-in/                  *)
(* route-coordinator.ts) under the operations of the built-in proxy        *)
(* orchestrator (orchestrator.ts): which route new requests take, and how  *)
(* the generations that requests still use are retired and disposed of.    *)
(***************************************************************************)
EXTENDS Naturals, Sequences, FiniteSets

CONSTANTS
  PageRequest,   \* upstream requests, each made once
  DrainTimeout,  \* retirementDrainTimeoutMs
  FinalTimeout,  \* retirementFinalTimeoutMs
  MaxRoutes,     \* bound: routes published in a run
  MaxQueue,      \* bound: operations the user has waiting
  MaxTime        \* bound of the clock; beyond it every deadline has passed

ASSUME RouteConstants ==
  /\ IsFiniteSet(PageRequest)
  /\ {DrainTimeout, FinalTimeout} \subseteq Nat \ {0}
  /\ DrainTimeout <= FinalTimeout
  /\ {MaxRoutes, MaxQueue, MaxTime} \subseteq Nat

Generation == 1..MaxRoutes

VARIABLES
  now,
  route,           \* kind and generation of the published route
  nextGeneration,
  desiredEnabled, status, hasActivated,
  life,            \* life[g]: the leases and the retirement of generation g
  stage,           \* stage[r]: where request r is
  usedBy,          \* usedBy[r]: the generation r captured, 0 before
  released,        \* released[r]: r has returned its lease
  op,              \* the operation the orchestrator's queue runs
  queue,           \* operationTail: the operations that wait behind it
  activeAccess,    \* the system proxy or TUN of the published route is held
  previous,        \* enableExclusive began with a ready route (previousAccess)
  invalidated,     \* crashEpoch or accessEpoch moved since op captured them
  crashRecoveryPending,
  coreRestart      \* the core service has a restart of a crashed core scheduled

pageVars == <<stage, usedBy, released>>
statusVars  == <<desiredEnabled, status, hasActivated>>
opVars      == <<op, previous, invalidated>>
coreVars    == <<crashRecoveryPending, coreRestart>>
coordinatorVars == <<now, route, nextGeneration, statusVars, life, pageVars, opVars,
                     queue, activeAccess, coreVars>>

NewLife == [inFlight |-> 0, pendingFetches |-> 0, activeBodyReads |-> 0,
            lastActivity |-> 0, retired |-> FALSE, disposal |-> "no",
            deadline |-> 0, timer |-> 0]

Life == [inFlight : Nat, pendingFetches : Nat, activeBodyReads : Nat,
         lastActivity : Nat, retired : BOOLEAN,
         disposal : {"no", "running", "done"}, deadline : Nat, timer : Nat]

RouteTypeOK ==
  /\ now \in Nat
  /\ route \in [kind : {"external", "built-in", "blocked"}, generation : Nat]
  /\ route.kind = "built-in" => route.generation \in Generation
  /\ nextGeneration \in Nat
  /\ desiredEnabled \in BOOLEAN /\ hasActivated \in BOOLEAN
  /\ status \in {"disabled", "starting", "ready", "error", "stopping"}
  /\ life \in [Generation -> Life]
  /\ stage \in [PageRequest -> {"new", "fetching", "paused", "reading", "cancelled", "done"}]
  /\ usedBy \in [PageRequest -> Generation \cup {0}]
  /\ released \in [PageRequest -> BOOLEAN]
  /\ op \in {"none", "enable", "restart", "recording", "disable", "draining",
            "closing", "forcing", "closed"}
  /\ {previous, invalidated} \subseteq BOOLEAN
  /\ queue \in Seq({"enable", "disable", "cleanup", "restart"})
  /\ {activeAccess, crashRecoveryPending, coreRestart} \subseteq BOOLEAN

(* initialize: the stored switch is off, or the repair of what an earlier    *)
(* run left behind fails, which blocks a route that was active then.        *)
RouteInit ==
  /\ now = 0
  /\ \/ /\ route = [kind |-> "external", generation |-> 0]
        /\ nextGeneration = 1
        /\ status \in {"disabled", "error"}
     \/ /\ route = [kind |-> "blocked", generation |-> 1]
        /\ nextGeneration = 2
        /\ status = "error"
  /\ desiredEnabled = FALSE /\ hasActivated = FALSE
  /\ life = [g \in Generation |-> NewLife]
  /\ stage = [r \in PageRequest |-> "new"]
  /\ usedBy = [r \in PageRequest |-> 0]
  /\ released = [r \in PageRequest |-> FALSE]
  /\ op = "none" /\ previous = FALSE /\ invalidated = FALSE
  /\ queue = <<>> /\ activeAccess = FALSE
  /\ crashRecoveryPending = FALSE /\ coreRestart = FALSE

Smaller(a, b) == IF a <= b THEN a ELSE b

Ready        == route.kind = "built-in"
Intercepting == route.kind # "external"

-----------------------------------------------------------------------------
(* The life of a generation.                                               *)

StartDisposal(l) ==
  IF l.disposal # "no" THEN l ELSE [l EXCEPT !.disposal = "running", !.timer = 0]

Scheduled(l) ==
  [l EXCEPT !.timer = now + Smaller(DrainTimeout,
                                    IF l.deadline > now THEN l.deadline - now ELSE 1)]

Retire(l) ==
  IF l.retired THEN l
  ELSE LET r == [l EXCEPT !.retired = TRUE, !.deadline = now + FinalTimeout]
       IN IF l.inFlight = 0 THEN StartDisposal(r) ELSE Scheduled(r)

ReturnLease(l) ==
  LET left == IF l.inFlight > 0 THEN l.inFlight - 1 ELSE 0
      r    == [l EXCEPT !.inFlight = left]
  IN IF l.retired /\ left = 0 THEN StartDisposal(r) ELSE r

ReleasedEachTime(r, l) == ReturnLease(l)

(* The release closure of executeBuiltIn works once.                       *)
Released(r, l) == IF released[r] THEN l ELSE ReturnLease(l)

(* publish: the route is replaced and a built-in predecessor retires.      *)
Publish(kind) ==
  /\ nextGeneration <= MaxRoutes
  /\ route' = [kind |-> kind, generation |-> nextGeneration]
  /\ nextGeneration' = nextGeneration + 1
  /\ life' = [g \in Generation |->
                IF Ready /\ g = route.generation THEN Retire(life[g])
                ELSE IF kind = "built-in" /\ g = nextGeneration
                  THEN [NewLife EXCEPT !.lastActivity = now] ELSE life[g]]

KeepRoute == UNCHANGED <<route, nextGeneration, life>>

-----------------------------------------------------------------------------
(* Requests.                                                               *)

Update(r, l) == life' = [life EXCEPT ![usedBy[r]] = l]

routeVars == <<route, nextGeneration, statusVars, opVars, queue, activeAccess, coreVars>>

(* bind and executeBuiltIn capture the route synchronously.                *)
StartRequest(r) ==
  /\ stage[r] = "new"
  /\ Ready
  /\ stage' = [stage EXCEPT ![r] = "fetching"]
  /\ usedBy' = [usedBy EXCEPT ![r] = route.generation]
  /\ life' = [life EXCEPT ![route.generation].inFlight = @ + 1,
                          ![route.generation].pendingFetches = @ + 1]
  /\ UNCHANGED <<now, released, routeVars>>

Fetched(l) == [l EXCEPT !.pendingFetches = @ - 1, !.lastActivity = now]

(* The headers arrive; a response without a body to track, or a fetch that *)
(* fails, ends the lease at once.                                          *)
Headers(r) ==
  /\ stage[r] = "fetching"
  /\ \/ /\ stage' = [stage EXCEPT ![r] = "paused"]
        /\ Update(r, Fetched(life[usedBy[r]]))
        /\ UNCHANGED released
     \/ /\ stage' = [stage EXCEPT ![r] = "done"]
        /\ Update(r, Released(r, Fetched(life[usedBy[r]])))
        /\ released' = [released EXCEPT ![r] = TRUE]
  /\ UNCHANGED <<now, usedBy, routeVars>>

FetchFails(r) ==
  /\ stage[r] = "fetching"
  /\ stage' = [stage EXCEPT ![r] = "done"]
  /\ Update(r, Released(r, [life[usedBy[r]] EXCEPT !.pendingFetches = @ - 1]))
  /\ released' = [released EXCEPT ![r] = TRUE]
  /\ UNCHANGED <<now, usedBy, routeVars>>

BeginRead(r) ==
  /\ stage[r] = "paused"
  /\ stage' = [stage EXCEPT ![r] = "reading"]
  /\ Update(r, [life[usedBy[r]] EXCEPT !.activeBodyReads = @ + 1, !.lastActivity = now])
  /\ UNCHANGED <<now, usedBy, released, routeVars>>

EndRead(l) == [l EXCEPT !.activeBodyReads = @ - 1, !.lastActivity = now]

Chunk(r) ==
  /\ stage[r] = "reading"
  /\ stage' = [stage EXCEPT ![r] = "paused"]
  /\ Update(r, EndRead(life[usedBy[r]]))
  /\ UNCHANGED <<now, usedBy, released, routeVars>>

(* The last chunk, an error, or the end of a read the client has cancelled *)
(* meanwhile, which returns its lease a second time.                       *)
BodyEnds(r) ==
  /\ stage[r] \in {"reading", "cancelled"}
  /\ stage' = [stage EXCEPT ![r] = "done"]
  /\ Update(r, EndRead(Released(r, life[usedBy[r]])))
  /\ released' = [released EXCEPT ![r] = TRUE]
  /\ UNCHANGED <<now, usedBy, routeVars>>

(* The client cancels the body, possibly while a read is pending.          *)
Cancel(r) ==
  /\ stage[r] \in {"paused", "reading"}
  /\ stage' = [stage EXCEPT ![r] = IF @ = "reading" THEN "cancelled" ELSE "done"]
  /\ Update(r, Released(r, life[usedBy[r]]))
  /\ released' = [released EXCEPT ![r] = TRUE]
  /\ UNCHANGED <<now, usedBy, routeVars>>

-----------------------------------------------------------------------------
(* The timers of retired generations.                                      *)

Passed(t) == now >= t \/ now = MaxTime

CheckRetirementIgnoringWork(g) ==
  LET l == life[g]
  IN /\ l.timer > 0 /\ Passed(l.timer)
     /\ life' = [life EXCEPT ![g] =
          IF \/ l.inFlight = 0
             \/ Passed(l.deadline)
             \/ now - l.lastActivity >= DrainTimeout
            THEN StartDisposal(l) ELSE Scheduled(l)]
     /\ UNCHANGED <<now, pageVars, routeVars>>

CheckRetirementOnce(g) ==
  LET l == life[g]
  IN /\ l.timer > 0 /\ Passed(l.timer)
     /\ life' = [life EXCEPT ![g] =
          IF l.inFlight = 0
            THEN StartDisposal(l) ELSE [l EXCEPT !.timer = 0]]
     /\ UNCHANGED <<now, pageVars, routeVars>>

(* checkRetirement: pending fetches and reads keep the generation until    *)
(* its final deadline, a body nobody reads only for the drain timeout.     *)
CheckRetirement(g) ==
  LET l == life[g]
  IN /\ l.timer > 0 /\ Passed(l.timer)
     /\ life' = [life EXCEPT ![g] =
          IF \/ l.inFlight = 0
             \/ Passed(l.deadline)
             \/ /\ l.pendingFetches = 0 /\ l.activeBodyReads = 0
                /\ now - l.lastActivity >= DrainTimeout
            THEN StartDisposal(l) ELSE Scheduled(l)]
     /\ UNCHANGED <<now, pageVars, routeVars>>

(* The dispose callbacks settle, or the disposal timeout ends the wait.    *)
DisposalEnds(g) ==
  /\ life[g].disposal = "running"
  /\ life' = [life EXCEPT ![g].disposal = "done"]
  /\ UNCHANGED <<now, pageVars, routeVars>>

Tick ==
  /\ now < MaxTime
  /\ now' = now + 1
  /\ UNCHANGED <<life, pageVars, routeVars>>
-----------------------------------------------------------------------------
(* The operations of the orchestrator.  Its queue runs one at a time; an    *)
(* operation that started has generations left to publish its outcome.     *)

restVars == <<now, pageVars>>

Room(n) == nextGeneration + n <= MaxRoutes + 1

MaintenanceError == ~desiredEnabled /\ status = "error" /\ ~Intercepting

(* setEnabled and retry: enqueue.                                          *)
Ask(kind) ==
  /\ op # "closing" /\ op # "forcing" /\ op # "closed"
  /\ Len(queue) < MaxQueue
  /\ queue' = Append(queue, kind)
  /\ UNCHANGED <<statusVars, opVars, activeAccess, coreVars>>
  /\ KeepRoute /\ UNCHANGED restVars

(* The head of the queue, when nothing runs.                               *)
Starts(kind) ==
  /\ op = "none" /\ Room(1)
  /\ queue # <<>> /\ Head(queue) = kind

FailClosedExternal ==
  /\ Publish(IF hasActivated THEN "blocked" ELSE "external")
  /\ status' = "error"
  /\ UNCHANGED <<desiredEnabled, hasActivated>>

(* failClosed: the published route is replaced by one that blocks.         *)
FailClosed ==
  /\ Publish("blocked")
  /\ status' = "error"
  /\ UNCHANGED <<desiredEnabled, hasActivated>>

BeginEnableRetiring ==
  /\ Starts("enable")
  /\ ~MaintenanceError
  /\ op' = "enable"
  /\ queue' = IF crashRecoveryPending THEN Append(Tail(queue), "restart") ELSE Tail(queue)
  /\ previous' = (activeAccess /\ Ready)
  /\ invalidated' = FALSE
  /\ desiredEnabled' = TRUE /\ status' = "starting"
  /\ coreRestart' = FALSE
  /\ UNCHANGED <<hasActivated, activeAccess, crashRecoveryPending, route, nextGeneration>>
  /\ life' = [g \in Generation |-> IF Ready /\ g = route.generation
                                     THEN Retire(life[g]) ELSE life[g]]
  /\ UNCHANGED restVars

(* enableExclusive up to its first await: requestEnable or markStarting.   *)
(* Starting or retrying the core cancels a restart that was scheduled, and *)
(* announces a ready core, which enqueues a recovery that is pending.      *)
BeginEnable ==
  /\ Starts("enable")
  /\ ~MaintenanceError
  /\ op' = "enable"
  /\ queue' = IF crashRecoveryPending THEN Append(Tail(queue), "restart") ELSE Tail(queue)
  /\ previous' = (activeAccess /\ Ready)
  /\ invalidated' = FALSE
  /\ desiredEnabled' = TRUE /\ status' = "starting"
  /\ coreRestart' = FALSE
  /\ UNCHANGED <<hasActivated, activeAccess, crashRecoveryPending>>
  /\ KeepRoute /\ UNCHANGED restVars

(* activateRestartedCore up to its first await: it looks at the stored     *)
(* switch, not at whether a recovery is still pending.                     *)
BeginRestart ==
  /\ Starts("restart")
  /\ queue' = Tail(queue)
  /\ op' = IF desiredEnabled THEN "restart" ELSE "none"
  /\ previous' = FALSE
  /\ invalidated' = FALSE
  /\ UNCHANGED <<statusVars, activeAccess, coreVars>>
  /\ KeepRoute /\ UNCHANGED restVars

(* What a crash enqueued: the access is released, whoever holds it now.    *)
Cleanup ==
  /\ Starts("cleanup")
  /\ queue' = Tail(queue)
  /\ activeAccess' = FALSE
  /\ UNCHANGED <<statusVars, opVars, coreVars>>
  /\ KeepRoute /\ UNCHANGED restVars

(* The crash and access epochs are compared and the route is swapped with  *)
(* no await in between.                                                    *)
Commit ==
  /\ op \in {"enable", "restart"}
  /\ ~invalidated
  /\ Publish("built-in")
  /\ desiredEnabled' = TRUE /\ status' = "ready" /\ hasActivated' = TRUE
  /\ activeAccess' = TRUE
  /\ op' = "recording"
  /\ UNCHANGED <<previous, invalidated, queue, coreVars>>
  /\ UNCHANGED restVars

(* markBuiltInProxyActivated has settled: the recovery counts as done.     *)
Recorded ==
  /\ op = "recording"
  /\ crashRecoveryPending' = FALSE
  /\ op' = "none"
  /\ UNCHANGED <<previous, invalidated, queue, activeAccess, coreRestart, statusVars>>
  /\ KeepRoute /\ UNCHANGED restVars

RestoreReady ==
  /\ desiredEnabled' = TRUE /\ status' = "ready"
  /\ activeAccess' = TRUE
  /\ UNCHANGED hasActivated
  /\ KeepRoute

ReportError ==
  /\ status' = "error"
  /\ activeAccess' = FALSE
  /\ UNCHANGED <<desiredEnabled, hasActivated>>
  /\ KeepRoute

(* An access that cannot be released stays as it is.                       *)
ReleasedOrNot == activeAccess' \in {FALSE, activeAccess}

EnableFailsRestoringAnyRoute ==
  /\ op = "enable"
  /\ \/ previous /\ RestoreReady
     \/ ~previous /\ ~hasActivated /\ ~Intercepting /\ ReportError
     \/ FailClosed /\ IF previous THEN UNCHANGED activeAccess ELSE ReleasedOrNot
  /\ op' = "none"
  /\ UNCHANGED <<previous, invalidated, queue, coreVars>>
  /\ UNCHANGED restVars

(* A failed enable restores the route it began with, or leaves an external *)
(* route that was never replaced, or, when its rollback or the elevation   *)
(* of the TUN fails, blocks.                                               *)
EnableFails ==
  /\ op = "enable"
  /\ \/ previous /\ Ready /\ RestoreReady
     \/ ~previous /\ ~hasActivated /\ ~Intercepting /\ ReportError
     \/ FailClosed /\ IF previous THEN UNCHANGED activeAccess ELSE ReleasedOrNot
  /\ op' = "none"
  /\ UNCHANGED <<previous, invalidated, queue, coreVars>>
  /\ UNCHANGED restVars

(* A restarted core that is no longer healthy leaves the route as it is.   *)
RestartFails ==
  /\ op = "restart"
  /\ \/ FailClosed /\ ReleasedOrNot
     \/ invalidated /\ UNCHANGED <<statusVars, activeAccess>> /\ KeepRoute
  /\ op' = "none"
  /\ UNCHANGED <<previous, invalidated, queue, coreVars>>
  /\ UNCHANGED restVars

(* handleMissingProfile, or settings of a change that failed and cannot be *)
(* restored: the route blocks, that of a switch that was off as well.  If  *)
(* the switch never activated anything, also in an earlier run, the        *)
(* external route stays.                                                   *)
OperationBlocks ==
  /\ Starts("enable")
  /\ ~MaintenanceError
  /\ queue' = Tail(queue)
  /\ \/ FailClosed
     \/ ~hasActivated /\ UNCHANGED statusVars /\ KeepRoute
  /\ UNCHANGED <<opVars, activeAccess, coreVars>>
  /\ UNCHANGED restVars

BeginDisable ==
  /\ Starts("disable")
  /\ queue' = Tail(queue)
  /\ op' = "disable"
  /\ desiredEnabled' = FALSE
  /\ status' = IF Intercepting THEN "stopping" ELSE "disabled"
  /\ UNCHANGED <<hasActivated, activeAccess, previous, invalidated, coreVars>>
  /\ KeepRoute /\ UNCHANGED restVars

(* completeDisable.                                                        *)
Disabled ==
  /\ desiredEnabled' = FALSE /\ status' = "disabled" /\ hasActivated' = FALSE
  /\ IF Intercepting THEN Publish("external") ELSE KeepRoute

DisableFailed ==
  /\ desiredEnabled' = FALSE /\ status' = "error"
  /\ UNCHANGED hasActivated
  /\ KeepRoute

CompleteDisable ==
  /\ op = "disable"
  /\ Disabled
  /\ activeAccess' = FALSE
  /\ op' = "draining"
  /\ UNCHANGED <<previous, invalidated, queue, coreVars>>
  /\ UNCHANGED restVars

DisableFails ==
  /\ op = "disable"
  /\ DisableFailed
  /\ ReleasedOrNot
  /\ op' = "none"
  /\ UNCHANGED <<previous, invalidated, queue, coreVars>>
  /\ UNCHANGED restVars

AllDisposed == \A g \in Generation : life[g].retired => life[g].disposal = "done"

(* drainRetired, then core.stop, which may fail.                           *)
DrainDone ==
  /\ op = "draining"
  /\ AllDisposed
  /\ \/ UNCHANGED statusVars /\ KeepRoute
     \/ DisableFailed
  /\ coreRestart' = FALSE
  /\ op' = "none"
  /\ UNCHANGED <<previous, invalidated, queue, activeAccess, crashRecoveryPending>>
  /\ UNCHANGED restVars

(* repairDisabledExternalMaintenance with nothing left running; an enable  *)
(* goes on after it, and a disable that finds something running is run.    *)
RepairMaintenance ==
  /\ Starts("enable") \/ Starts("disable")
  /\ MaintenanceError
  /\ Disabled
  /\ queue' = IF Head(queue) = "enable" THEN queue ELSE Tail(queue)
  /\ UNCHANGED <<opVars, activeAccess, coreVars>>
  /\ UNCHANGED restVars

(* close once the operations accepted before it are done.                  *)
BeginClose ==
  /\ op = "none" /\ queue = <<>> /\ Room(1)
  /\ op' = "closing"
  /\ UNCHANGED <<previous, invalidated, queue, activeAccess, statusVars, coreVars>>
  /\ KeepRoute /\ UNCHANGED restVars

CloseFails ==
  /\ op = "closing"
  /\ DisableFailed
  /\ op' = "none"
  /\ UNCHANGED <<previous, invalidated, queue, activeAccess, coreVars>>
  /\ UNCHANGED restVars

CloseReleases ==
  /\ op = "closing"
  /\ activeAccess' = FALSE
  /\ IF Intercepting THEN Disabled ELSE UNCHANGED statusVars /\ KeepRoute
  /\ op' = "forcing"
  /\ UNCHANGED <<previous, invalidated, queue, coreVars>>
  /\ UNCHANGED restVars

(* drainRetired({force: true}): the disposal of what is retired starts.    *)
ForceDrain ==
  /\ op = "forcing"
  /\ \E g \in Generation : life[g].retired /\ life[g].disposal = "no"
  /\ life' = [g \in Generation |->
                IF life[g].retired THEN StartDisposal(life[g]) ELSE life[g]]
  /\ UNCHANGED <<now, pageVars, routeVars>>

Closed ==
  /\ op = "forcing"
  /\ AllDisposed
  /\ op' = "closed"
  /\ coreRestart' = FALSE
  /\ UNCHANGED <<previous, invalidated, queue, activeAccess, statusVars, crashRecoveryPending>>
  /\ KeepRoute /\ UNCHANGED restVars

Closing == op \in {"closing", "forcing", "closed"}

(* onCoreEvent('crash') and onTunEvent: what the published route, or a     *)
(* candidate without one, stands on is gone.  The route blocks at once,    *)
(* whatever the operation that runs is doing; releasing the access waits   *)
(* its turn.  The operation learns of it if it has taken its epochs.       *)
Crash ==
  /\ ~Closing
  /\ Ready \/ activeAccess \/ op \in {"enable", "restart"}
  /\ Room(IF op # "none" THEN 2 ELSE 1)
  /\ FailClosed
  /\ invalidated' \in (IF op = "enable" /\ previous THEN {invalidated, TRUE} ELSE {TRUE})
  /\ \/ /\ crashRecoveryPending' = TRUE
        /\ coreRestart' = (coreRestart \/ Ready)
     \/ UNCHANGED <<crashRecoveryPending, coreRestart>>
  /\ queue' = Append(queue, "cleanup")
  /\ UNCHANGED <<op, previous, activeAccess>>
  /\ UNCHANGED restVars

(* Only the candidate of a replacement is gone.                            *)
CandidateCrash ==
  /\ op = "enable" /\ previous /\ Ready
  /\ invalidated' = TRUE
  /\ UNCHANGED <<op, previous, queue, activeAccess, statusVars, coreVars>>
  /\ KeepRoute /\ UNCHANGED restVars

(* The core service has restarted the core and announces it ready.         *)
CoreRestarts ==
  /\ ~Closing
  /\ coreRestart
  /\ coreRestart' = FALSE
  /\ queue' = IF crashRecoveryPending THEN Append(queue, "restart") ELSE queue
  /\ UNCHANGED <<crashRecoveryPending, opVars, activeAccess, statusVars>>
  /\ KeepRoute /\ UNCHANGED restVars

(* The bounded restarts of the core have all failed.                       *)
CoreGivesUp ==
  /\ coreRestart
  /\ coreRestart' = FALSE
  /\ UNCHANGED <<crashRecoveryPending, opVars, queue, activeAccess, statusVars>>
  /\ KeepRoute /\ UNCHANGED restVars
-----------------------------------------------------------------------------
Clock == \/ Tick
         \/ \E g \in Generation : CheckRetirement(g) \/ DisposalEnds(g)

Requests ==
  \E r \in PageRequest : StartRequest(r) \/ Headers(r) \/ FetchFails(r) \/ BeginRead(r)
                       \/ Chunk(r) \/ BodyEnds(r) \/ Cancel(r)

Operations ==
  \/ \E kind \in {"enable", "disable"} : Ask(kind)
  \/ BeginEnable \/ EnableFails \/ OperationBlocks
  \/ Commit \/ Recorded
  \/ BeginRestart \/ RestartFails
  \/ BeginDisable \/ CompleteDisable \/ DisableFails \/ DrainDone
  \/ RepairMaintenance \/ Cleanup
  \/ BeginClose \/ CloseFails \/ CloseReleases \/ ForceDrain \/ Closed

Failures == Crash \/ CandidateCrash \/ CoreRestarts \/ CoreGivesUp

RouteNext == Clock \/ Requests \/ Operations \/ Failures

RouteSpec == RouteInit /\ [][RouteNext]_coordinatorVars

(* Timers fire and a disposal is over after the disposal timeout.  Nothing *)
(* is assumed of requests, operations or the core.                         *)
FairRouteSpec == RouteSpec /\ WF_coordinatorVars(Tick)
                 /\ \A g \in Generation : WF_coordinatorVars(CheckRetirement(g))
                                            /\ WF_coordinatorVars(DisposalEnds(g))
-----------------------------------------------------------------------------
(* What status a user sees agrees with the route that requests take: ready *)
(* only over a built-in route that is wanted, disabled only over the       *)
(* external one, and in transit only while an operation is.  An activation *)
(* is remembered only while a route of the proxy is published: a failed    *)
(* first enable leaves an external route alone, a later one does not.      *)
StatusMatchesRoute ==
  /\ status = "ready" => Ready /\ desiredEnabled
  /\ status = "disabled" => ~Intercepting /\ ~desiredEnabled
  /\ status = "starting" => op = "enable"
  /\ status = "stopping" => op = "disable" /\ Intercepting
  /\ hasActivated => Intercepting

(* Fail-closed: requests go back to the external route only when a disable *)
(* or the end of the program completes, never through a failure.           *)
NoSilentFallback ==
  [][Intercepting /\ ~Intercepting' =>
       op \in {"disable", "closing"} /\ ~desiredEnabled']_coordinatorVars

(* The route that new requests take is not on its way out: an enable that  *)
(* fails restores a generation that was never retired.                     *)
PublishedIsLive ==
  Ready => ~life[route.generation].retired /\ life[route.generation].disposal = "no"

Users(g, phases) == {r \in PageRequest : usedBy[r] = g /\ stage[r] \in phases}

(* A generation counts each request once, from its start to its first      *)
(* release, whether the body ends, fails or is cancelled under a read.     *)
InFlightCounted ==
  \A g \in Generation :
    /\ life[g].inFlight = Cardinality({r \in PageRequest : usedBy[r] = g /\ ~released[r]})
    /\ life[g].pendingFetches = Cardinality(Users(g, {"fetching"}))
    /\ life[g].activeBodyReads = Cardinality(Users(g, {"reading", "cancelled"}))

(* A generation is disposed of under a request that waits for headers or   *)
(* reads only at its final deadline or when the program ends, and under a  *)
(* paused body only after the drain timeout as well.                       *)
WorkKeepsGeneration ==
  [][\A g \in Generation :
       life[g].disposal = "no" /\ life'[g].disposal = "running" =>
         \/ op = "forcing"
         \/ Passed(life[g].deadline)
         \/ /\ Users(g, {"fetching", "reading"})' = {}
            /\ \/ Users(g, {"paused"})' = {}
               \/ now - life[g].lastActivity >= DrainTimeout]_coordinatorVars

(* Every retired generation is disposed of, whatever its requests do.      *)
RetiredIsDisposed ==
  \A g \in Generation : life[g].retired ~> life[g].disposal = "done"

(* When nothing is left to do, a ready route still holds the system access *)
(* it was activated with.                                                  *)
ReadyHoldsAccess ==
  status = "ready" /\ op = "none" /\ queue = <<>> => activeAccess
=============================================================================
