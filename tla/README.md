# Stone+ in TLA+

This directory is a verification development for Stone+, an Electron program
that runs a local gateway in front of pools of language-model accounts, a
built-in outbound proxy, background tasks, and maintenance services for desktop
clients. The modules are translated from the TypeScript under `src/src/main`;
the map in `PROJECT.json` names the lines each definition stands for.

Everything in the main process runs on one JavaScript event loop. Code between
two awaits is atomic, code across an await is not, and timers, promise
continuations, abort listeners and child-process events come in between. The
modules follow that: **one action is one run of the loop, from one await to the
next**. Where the disk, the registry or another process matters, one action is
one call of the file system or one value a command writes, and the process may
die between any two.

## 1. Inventory

| Component | State it keeps | Operations | What makes it hard | What makes it correct |
|---|---|---|---|---|
| Pool scheduler, permits (`gateway/scheduler.ts`) | `inFlightByAccount`, `capacityWaiters`, per-pool counters | select and acquire, release, queue, deadline, abort, `clear` | a release hands its permit on in the same turn; two tiers; hedges; restart in between | permits never exceed the limit, none is lost, nobody waits beside a usable account, first in first out per pool |
| Pool scheduler, health | `health` per account: circuit, cooldown, revision, reset epoch, adaptive limit | `setCooldown`, `recordFailure`, `recordSuccess`, `resetHealth`, `clear` | outcomes of overlapping attempts arrive in any order, around resets | a stale outcome changes nothing, cooldowns only grow, a reset is final |
| Pool scheduler, sticky sessions | assignments, avoidances, two indexes, LRU | touch, move, expire, clear | three maps that must agree | sizes within bounds, indexes exact |
| Pool scheduler, smooth weights | current weight per pool and account | pick, reset | candidates change between picks | fair shares |
| Request loop (`gateway/server.ts`, `GatewayServer.handle`) | per request: tried accounts, five retry budgets, what the client has received | select, attempt, renew, back off, fail over, fall back, answer | each class of failure has its own ladder; several requests fail at once on shared accounts | budgets add up, nothing is retried after output, the last account is spared, every request ends |
| Account status (`ipc/gateway-api.ts`, `store/app-store.ts`) | status of an account, owners of probes, queue of reports, write chain | probe, cancel, report, persist, release an elapsed quota | each writer decides, waits, and writes later | the transient status has an owner, a cancelled probe restores the last stable one, a report revives nothing |
| WebSocket adapter, request replay | session queues, captures | - | order of frames, bounded store | - |
| OAuth refresh gate (`auth/oauth-refresh-gate.ts`) | active count, queue, next admission, backoff per provider | acquire, reserve, run, release, abort | a grant and its use are two turns; aborts in each | slots exact, starts spaced, nobody starves |
| Route coordinator (`proxy/built-in/route-coordinator.ts`) | published route, generations with leases and deadlines | publish, retire, fetch, read, cancel, dispose | requests outlive their route | leases exact, work is not cut, every generation ends |
| Proxy orchestrator (`proxy/built-in/orchestrator.ts`) | operation queue, access, epochs, recovery flag | enable, disable, restart, close | crashes of core and TUN at every await | fail closed, status is the truth |
| System proxy lease (`proxy/built-in/system-proxy-lease.ts`, `lease-recovery.ts`, `platform-adapters.ts`) | lease record, journal on disk, monitor, the settings of the operating system | acquire, verify, monitor, release, recover | the process dies, a command fails, another program chooses a proxy between any two values | what Stone+ changed is journaled, the user's choice comes back, drift is noticed |
| Outbound reload coordinator (`proxy/outbound-reload-coordinator.ts`) | debounce timer, scheduled detector, tail of rechecks | detect, reload, schedule, recheck, settle, close | rechecks wait behind each other while accounts change | only accounts still enabled and cooling are probed, close waits for all |
| Persistent task runner (`tasks/persistent-task-runner.ts`) | task rows, active executions, transition chains, pause waiters | create, resume, pause, cancel, checkpoint, recover, shut down | rows and executions change at different awaits; any write may fail | one execution per task, final rows stay final, what waits goes on |
| Session maintenance lock (`codex/session-maintenance-lock.ts`) | lock directory, owner file | acquire, reclaim, release | several processes, each may die | exclusion, no orphan for ever |
| Session repair and cleanup | session files, index, backups | repair, clean, restart client | partial failure of a series of file writes | - |
| Portable backups (`backup/portable-backup.ts`) | destination, temporary file, rollback copy, journal | export, recover at the start | refused calls and the end of the process between any two changes of the disk | what was reported as written stays, every journal is resolved |
| Store (`store/*.ts`) | in-memory state, SQLite file, write chain | mutate, save, back up, recover | failed writes, crash | acknowledged writes survive |
| IPC and settings transaction | settings, running gateway | apply or roll back | failure of any stage | all or nothing |
| FRP tunnel, agent lifecycle, client instances | child processes, client configuration files | start, stop, install, restore | exits and restarts | - |
| Database and WebDAV backups, updater, browser import, event server | files, downloads, connections | - | network failure | - |
| Codecs, quota clients, parsers, renderer, web views | little or none | - | shape of data | - |

How they interact. The request loop asks the scheduler for a permit and reports
the outcome of each attempt under the runtime generation, health revision and
reset epoch it captured (calls, in both directions on one loop); the scheduler's
state of an account reaches the row of the account as a report that is written
later (callback, then the store's write chain). Credentials come from the
resolver, which sends token refreshes through the gate (promises). Every
upstream request is bound to the generation the route coordinator has published
(shared object, lease per request). The orchestrator owns the coordinator, the
core process, the TUN and the system proxy lease (calls and event callbacks; its
own operations are serialised through a promise tail, and so are the lease's).
The task runner runs bulk checks and exports in the background. The store is
shared by all and serialises its writes. Maintenance runs of several Stone+
processes and CLIs share only the lock directory.

## 2. Plan

The order follows how much of the program depends on a part and how many actors
meet in it.

1. **Permits and wait queue** of the scheduler (`SchedulerCapacity`), shown to
   implement an abstract permit pool (`AccountPermits`). *Done; its
   safety and the implementation are proved.*
2. **Health generations** of the scheduler (`SchedulerHealth`). *Done, its
   safety proved.*
3. **Refresh gate** (`OAuthRefreshGate`). *Done, its safety proved.*
4. **Route coordinator with its orchestrator** (`RouteCoordinator`). *Done, its
   safety proved.*
5. **Maintenance lock** (`MaintenanceLock`). *Done, types proved.*
6. **Persistent task runner** (`PersistentTaskRunner`). *Done, its safety
   proved.*
7. **Request loop** (`RequestFailover`). *Done, its safety proved.*
8. **System proxy lease** with its recovery (`SystemProxyLease`). *Done, its
   safety proved.*
9. **Status of an account** between probes, reports and the store
   (`AccountProbes`). *Done, its safety proved.*
10. **Portable backup replacement** (`PortableReplacement`). *Done, its main
    property proved.*
11. **Sticky sessions** of the scheduler: assignments, avoidances, their two
    indexes and the shared LRU; size bounds and exact indexes. Then its **smooth
    weights**, as an algorithm against its reference.
12. **Outbound reload coordinator** and the **gateway settings transaction**: no
    probe of an account that has changed meanwhile; all or nothing.
13. **Network and system lifecycle** with the **core service**: a resume, a
    sleep and an exit around a rebuild of the route.
14. **FRP tunnel**: overlapping starts and stops of one child process.
15. **Store**: a crash between two writes, and what recovery makes of it.

A new component takes a module and an MC module for its constants. Components
that share no state are explored together as further *subjects* of a composite
MC module: the initial state names the subject, and every behaviour is one of
that subject alone, so a run of the composite checks each of them completely.

Every safety invariant and every action property that a passing run checks is
proved. What is left is safety without a property of its own so far: what the
maintenance lock still promises, since it does not exclude; the exact counts of
permits where requests make second calls, short of the one the known defect
loses; and the safety of each further module.

## 3. Modules and code

**AccountPermits** is what the scheduler promises, with no queue, health or
policy: slots take, return and hand over permits, an account never has more
holders than its configured concurrency, and a stop revokes all.

**SchedulerCapacity** (`scheduler.ts`, `server.ts`). A `Request` is one upstream
attempt of a client request; its slots are the primary call and the hedge.

| State | Code |
|---|---|
| `active` | `PoolScheduler.active` |
| `place`, `waitSet`, `poolWaiting`, `expired` | `capacityWaiters` in insertion order, `CapacityWaiter.accountIds`, `capacityWaiterCountsByPool`, a deadline behind the clock |
| `circuit`, `limit` | `health` as `isAvailable` reads it, the adaptive concurrency |
| `phase`, `lease`, `hedgeOf`, `aborted` | where `GatewayServer.handle` is, its release closures, a hedge that may still start, its abort signal |
| `reqGen`, `generation` | the captured and the current `runtimeGeneration` |

`SelectNow`, `Enqueue` and `Refuse` are the three ends of
`selectAndAcquireWhenAvailable`; `FulfillOne` is `fulfillOneCapacityWaiter`,
which runs inside a release and inside the enqueue. `TryHedge` is the start of
the second call in `fetchWithOptionalHedge`, which an aborted attempt reaches
too. `Release` is `runtimeTrackedRelease` around the scheduler's release. `Stop`
is `stop()` with `clear()`. `Trip`, `CooldownElapses` and `Recover` stand for
every change of health, as this module sees it. Which candidate is taken is left
open: sticky sessions, weights and priorities only choose among them.

**SchedulerHealth** (`scheduler.ts`, `server.ts`) is one account. `health`,
`reason`, `revision`, `epoch` and `perf` are the entries of the five maps;
`att[i]` is what attempt `i` captured when it was selected. `SetCooldown`,
`RecordFailure`, `Succeeds`, `Finishes`, `ResetHealth`, `Hydrate`, `AdmitProbe`
and `Clear` are the operations of the scheduler with the compare-and-set of
revision and epoch; `ExhaustedHeaders`, `FreshHeaders`, `Fails` and `Abandons`
are the places in the request loop that call them. `since` is a history
variable: whether another actor has changed or reset the account since the
attempt was selected. Only properties read it.

**RequestFailover** (`gateway/server.ts`) is the `for` loop of
`GatewayServer.handle` for several client requests at once. `kind[r]` is what
the loop knows of a request before it starts: a compaction, a web session, a
tool result, streaming. `loop[r]` holds the locals of the handler: the accounts
already tried, the five retry counters, the current attempt, and what the client
has received. `cooled`, `disabled` and `barred` are what the scheduler and the
account rows say meanwhile, shared by all requests. `Select`, `NoEligible` and
`TimesOut` are the ends of the selection; `ResponseOverdue`, `ClientLeaves`,
`Beat`, `Output`, `QuotaHeaders` and `Succeeds` what can happen during an
attempt;
`RenewRejected`, `Renewed`, `RetryAdaptive`, `RetryTransient` and `FailOver` the
rungs of the error ladder in the order of the code; `BackoffEnds` and
`CooldownEnds` are timers.

**OAuthRefreshGate** (`oauth-refresh-gate.ts`) is the gate of one provider. The
queue is kept as the set of calls `ahead` of each waiter. `AcquireNow`, `Wait`,
`Reserve`, `DelayEnds`, `Settles` and `Leave` are the turns of `acquire`,
`reserveAdmission`, the delay, the operation and `release`; `StartNow` is the
call that needs none of them to wait. `Abort` is the abort signal in each of
these places.

**RouteCoordinator** (`route-coordinator.ts`, `orchestrator.ts`). `route`,
`nextGeneration` and the status fields are the coordinator's; `life[g]` is a
`BuiltInRouteGeneration`. `phase`, `usedBy` and `released` are the local state
of `executeBuiltIn` and of the tracked body. `op` and `queue` are the operation
the orchestrator's promise tail runs and those behind it; `invalidated` says
that `crashEpoch` or `accessEpoch` has moved since the operation captured them.
An operation is two to four actions, cut at its awaits: `BeginEnable`, `Commit`
or `EnableFails`, `Recorded`. `Crash` is the exit handler of the core and of the
TUN with the cleanup it enqueues. `coreRestart` is all that is kept of the core
service: a restart is scheduled.

**SystemProxyLease** (`system-proxy-lease.ts`, `lease-recovery.ts`,
`platform-adapters.ts`). `settings` is the configuration of the operating
system, `journal` the recovery file, `leaseStatus` and `record` the lease
object; `calls` are the operations in flight, of which the serialised one is
`doing` with `draft` as its locals; `startup` is the recovery at the start of
the program. Each value a command writes is a step of its own, so that the
process can die, a command can fail, and another program can choose a proxy
between any two of them.

**AccountProbes** (`ipc/gateway-api.ts`, `store/app-store.ts`). `account` is the
row, `writes` the store's chain, `owner` and `probe` the bookkeeping of the
checks with what each captured, `cancelled` their abort signals, `reports` the
health states on their way from the gateway with the status `observed` when they
were reported, `release` the timer of an elapsed quota.

**PersistentTaskRunner** (`tasks/persistent-task-runner.ts`). `row` is the task
in the store, `chain` its queue of transitions (each a read and a write that may
be refused, `writing` between them), `exec` the executions by attempt with their
abort `signal`, `activeExec` the entry of the map of active executions,
`effects` the wakes and aborts that callers still owe executions, `registered`
and `program` whether the handler and the process are there. `RecoverTasks` and
`RegisterHandler` bring tasks back after a start, `Interrupt` is the shutdown,
`TaskExit` the end of the process at any point.

**MaintenanceLock** (`session-maintenance-lock.ts`). `lock` is the directory the
path names, with its maker, its owner record and whether it is older than the
age of abandonment; `pc[c]` is the file-system call contender `c` makes next.

**PortableReplacement** (`backup/portable-backup.ts`). `file[d]` is what a
destination holds; `temporary`, `rollback` and `journals` are the three files
each export adds. `progress[e]` is the call export `e` makes next, `flight` who
runs under the lock of the directory; `unvisited` and `unresolved` are the scan
of the journals, which the start of the program and every export begin with, and
`job` and `jobStep` the replacement it cleans up or rolls back. `reported`
remembers the content each destination was last reported to hold and `blind`
that a recovery could not read something it decides by; only properties read
these two.

**MCResources** composes capacity, route, lease, lock and backups, **MCWork**
failover, tasks and the gate, **MCAccountHealth** the two views of the health of
an account. Each adds the variable `subject`, fixed by the initial state, and
lets the actions of the named module happen while the others keep their initial
values.

The definitions whose body is a plausible slip in the code (`EligibleOffByOne`,
`RetryOnceMore`, ...) stand next to the definition they are a variant of.
Nothing uses them; replacing the original by the variant makes the property they
are listed with in `PROJECT.json` fail.

## 4. Runs

| Run | Instance | Shows |
|---|---|---|
| `resources` | capacity: 4 requests, 2 pools that share an account, 1 permit each, queue of 3 and 2 per pool, 1 restart, stable health. Route: 1 request, 4 generations, 2 queued operations. Lease: 2 endpoints, 2 leases, 1 call beside the lease's own, 1 fault, 1 death. Lock: 3 contenders, 2 may die | permits, queue, counters, no idle waiter, first in first out; status and fail-closed under crashes; a takeover is journaled and the user's choice kept; a dead owner's lock is reclaimed |
| `work` | requests: a compaction, a web session, and a plain call beside a tool result, on 2 sources, limits 1. Task: 2 attempts, 2 queued transitions, 1 refused write, 2 starts. Gate: 3 calls, 2 slots, clock to 3 | budgets, nothing after output, no failure takes the last source; one execution, final rows, waiters go on; slots and spacing; every request and every queued refresh ends |
| `capacity_and_lease` | capacity: 3 requests, 2 and 1 permits, hedges, circuits that open and close, 1 restart. Lease: 1 endpoint, 1 lease, 1 fault, 1 death | permits implement `AccountPermits`, one probe of a half-open account, every wait ends; an orphaned takeover ends, drift is noticed |
| `health` | scheduler: 2 attempts, 2 quota windows, 2 retry delays, clock to 3, revision to 4. Store: 2 probes, one of them cancellable, 1 report, 1 refused write or death | cooldowns grow, quota stays quota, resets are final, overtaken outcomes do nothing; a probe's status is owned, a cancellation restores |
| `route_and_backup` | route: 2 requests, 2 generations, clock to 3. Backups: 2 exports to 1 path, 3 refused calls, 1 end of the process | leases, drain deadlines, every generation is disposed of; a reported backup is kept, every journal is resolved |
| `capacity_handoff` | 4 requests, an account that cools | **violation**: a released slot passes a waiter by |
| `capacity_restart` | 4 requests, one of them hedged | **violation**: a permit of the next run is lost |
| `health_carried` | 2 attempts, no adaptive pool | **violation**: a merged quota window makes an overtaken attempt current |
| `route_access` | 1 request, 4 generations, 2 queued operations | **violation**: a crash's cleanup takes the access of a later activation |
| `lock_exclusion` | 2 contenders, none dies | **violation**: two holders |
| `tool_turn` | 1 request, 2 sources | **violation**: a tool result leaves the source that asked for it |
| `telemetry_revives` | 1 check, 1 report | **violation**: a disabled account becomes active again |

**Why the bounds are enough.** In the capacity instances the requests of a pool
compete for two accounts of two tiers, so that two of them queue while a request
of another pool takes one of the accounts away; the queue and the pool limit are
both reached, and a restart separates the permits of two runs. More requests add
waiters that behave like the second. Two attempts are the smallest number in
which one overtakes the other; the revision bound lets both report around a
reset and a restart. Two requests on two sources are enough for the last usable
source to be taken from both sides, and one of them reports quotas in its
headers; each retry limit of 1 is reached and
refused, and the kinds of request separate all the ladders. A task of two
attempts has an old execution that ends after the new one began; the second
start of the program meets the rows and registrations the first left behind. Two
slots and three calls give a waiter behind two owners, who may leave in either
order; that more calls change nothing for slots and spacing is proved. Two
generations are the one that retires and the one that replaces it; four in
`resources` let an activation, a crash of it, its recovery and a disable follow
each other. One fault and one death of the lease can fall between any two values
it writes; a second lease moves the proxy to another endpoint. Two contenders
suffice to race; the third is the survivor of two deaths. Two exports meet in
the queue and on the path; three refusals are enough for a replacement, its
rollback and the recovery to fail once each. `MaxTime = 0` in the route
instances that do not ask about time makes every deadline count as passed, so
that retirement may happen at once. Every constant named `Max...`, and
`Attempts` of the lock, is a cap; each is a guard of the actions that would
exceed it.

**Deadlock** is checked where the system runs for ever: in `capacity_and_lease`,
`capacity_handoff`, `capacity_restart` and `lock_exclusion`. It is not where the
instance may run out: requests, refreshes, tasks, exports and probes are made
once, and the clock, the revisions and the generations are bounded.

**What the violations mean.** Each contradicts a sentence of the repository,
quoted in `PROJECT.json`.

- *Hand-off.* `accountIds` of a waiter is the set of accounts that were
  available and saturated when it queued. An account that was cooling then and
  recovers is not among them: newcomers may use it, and its releases skip the
  waiter, which can time out.
- *Restart.* A stop aborts the primary call; the error path of
  `fetchWithOptionalHedge` then starts the hedge, which takes a permit of the
  cleared scheduler under the new run. Its release is dropped, because the
  request belongs to the old run. The account stays short of a permit until the
  next stop.
- *Carried revision.* `applyExhaustedQuotaHeaders` hands the attempt the
  revision of any applied transition, a merge on behalf of an overtaken attempt
  included; its failure is then penalised once more.
- *Access.* The core's and the TUN's exit handlers enqueue the release of
  whatever access is held when their turn comes.
- *Lock.* A contender that has found a stale or vanished lock renames whatever
  the path names at that moment, a fresh lock included.
- *Tool turn.* Two of the retries leave the failed account out whenever another
  one is usable and do not ask whether the request continues a tool call; only
  the last test of the ladder does.
- *Telemetry.* A health report compares the account's status when it is made;
  its write comes later in the store's chain and is unconditional, so a check
  that disables the account in between is undone.

## 5. Fairness

- *Permits*: the clock reaches a waiter's deadline and Node runs its timer.
  Nothing is assumed of releases, clients or health, so `WaitEnds` says that the
  timer alone ends every wait.
- *Requests*: an attempt, a renewal or a pause concludes, with success or an
  error, because every upstream call has a timeout. It can always conclude, and
  concluding leads back to the choice or to the end, so weak fairness of
  `Concludes` is written as `[]<>~UnderWay(r)`, which TLC checks much faster. A
  selection that is possible again and again is made (strong fairness: another
  request may use the slot in between). Clients need not leave and need not
  read, and no quota header need come.
- *Task*: reads, writes and continuations settle, a handler that was told to
  abort ends, and the program starts again after its end. A handler that was not
  aborted may run for ever, and nobody need resume or cancel.
- *Gate*: the clock moves, promise continuations and timers run, and a token
  request settles. The last is what the code relies on: the callers give the
  request a timeout. Aborts and new calls are not assumed.
- *Route*: timers fire, and a disposal ends, which the code forces by racing it
  with `disposalTimeoutMs`. Requests may hang for ever and operations may never
  come: `RetiredIsDisposed` rests on the deadlines alone.
- *Lease*: the serialised operation goes on, the monitor's timer fires, and the
  program starts again after its death.
- *Lock*: file-system calls return, a directory ages, and a contender that is
  alive asks again. The age passes only for a maker that has died: a live one
  writes its owner file at once, the age is fifteen minutes.
- *Backups*: file-system calls return, a program that is idle ends some day and
  starts again. A journal an export leaves behind is resolved by the next start
  only, which is why the end is part of the assumption.

`health` and the violating runs check safety and assume none.

## 6. Proofs

All theorems hold for every value of the constants that satisfies the named
assumptions of the modules (`CapacityConstants`, `FiniteRequests`,
`HealthConstants`, `ProbeConstants`, `GateConstants`, `RouteConstants`,
`LeaseConstants`, `FailoverConstants`, `TaskConstants`, `LockConstants`,
`ReplacementConstants`), which give the constants their types, make the requests
finite and the limits positive. Four theorems of the scheduler have a hypothesis
of their own, named below with the behaviour of the code that makes it
necessary.

**SchedulerCapacityProofs.** `TypeCorrect` and `PermitsBounded`
(`NeverOversubscribed`). The inductive invariant adds to the two that no request
captured a generation that is still to come: without it a stop could turn the
permits of a later run into permits of the current one. The argument counts
holders: a release removes one holder and one permit, a hand-off moves one, a
selection adds one where the eligibility test left room, and a stop leaves no
holder of the new generation. `FulfillOne` is treated by one lemma for its two
callers.

`QueueIsAccounted` (`QueueAccounted`) is shown with `QueueInv`: places lie
between one and the number of waiters and no two are equal, so by cardinality
they have no gaps; the removal of a waiter closes the gap it leaves, whichever
of the hand-off, the deadline, the abort and the stop removes it.
`PermitsImplemented` (`ImplementsPermits`) takes every action of the scheduler
to one of `AccountPermits` or to a step that leaves its variables alone; a
hand-off is a release and a grant at once, which is why the pool has an action
for it. `OneProbe` (`SingleProbe`) needs only `QueueInv`, step by step.

The others rest on two more invariants. `CurrentInv` says that the count of an
account is exactly the number of its holders, and that no call of an earlier run
of the gateway still acts. `IdleIsFree` (`IdleMeansFree`) follows, where no
request makes a second call (`Hedged = {}`): the second call of a request that a
stop aborted takes a permit of the next run which nobody returns, as
`capacity_restart` shows. `WellInv` says that a waiter listens to every member
it has, and that all of them are saturated; `NoWaiterStaysIdle`
(`NoWaiterIdles`) and `FirstComeFirstServed` (`ServedInOrder`) follow, where no
circuit changes (`Flapping = {}`): a waiter does not listen to an account that
was cooling when it queued, so one that recovers passes it by, as
`capacity_handoff` shows. `ReleaseWakesEveryMember` says that under the same
hypothesis the claim this run refutes does hold. The order holds between
requests that can use the same accounts (`SameMembers`): a later one rightly
passes an earlier one that cannot use the free account. `Resources.cfg`
satisfies these hypotheses where it checks the properties.

**AccountHealthProofs.** Of the scheduler's health: `HealthTypeCorrect`,
`CooldownsGrow` (`CooldownNeverShortened`), `ResetsAreFinal` (`ResetIsFinal`),
`QuotaReasonStays` (`QuotaReasonSticks`) and `OvertakenIsIgnored`
(`StaleOutcomesIgnored`). `HealthInv` says that an attempt which was under way
at a reset has captured an earlier epoch than the current one; so every report
of it fails the epoch compare. `OvertakenInv` says that an attempt another actor
has overtaken is behind in its epoch or its revision. That the backoff is a
duration needs that a power of two is a positive natural number, which
`PowerOfTwo` derives from the definition of the power.

Of the status in the store: `ProbesTypeCorrect`, `CheckingHasOwner`
(`CheckingIsOwned`) and `CancellationRestores` (`CancelRestores`). `ProbeInv`
says, as long as no write was refused and the process did not die, that each
queued write of a probe fits the point that probe is at and that a probe has one
such write at most (`QueueOf`), and that the owner of an account that is being
checked, or is about to be, remembers the status it had before the chain
(`Calm`).

**BuiltInProxyProofs.** Of the route: `RouteTypeCorrect`, `LeasesCounted`
(`InFlightCounted`), `PublishedRouteIsLive` (`PublishedIsLive`), `StatusIsTrue`
(`StatusMatchesRoute`), `NeverFallsBack` (`NoSilentFallback`) and `WorkIsKept`
(`WorkKeepsGeneration`). `LeaseInv` joins the counters of a generation with the
requests that use it, by cardinality, and says that only retired generations
end; `StatusInv` adds what the status promises of the route. The two are nearly
independent, so an action is treated once for what it does to requests and once
for what it does to operations.

Of the system proxy: `LeaseTypeCorrect`, `EveryTakeoverJournaled`
(`TakeoverIsJournaled`) and `TheChoiceIsKept` (`ChoiceKept`). `TakeoverInv` says
that the record in memory is the one on disk whenever there is one
(`RecordJournaled`), that the settings point only at the endpoint the journal
names (`MarksJournaled`), and that the user's choice is either in place or in
the original the journal remembers, for the server alone (`ServerKept`) and for
all values (`AllKept`, which follows a takeover and a restoration value by
value). It holds between any two commands of the adapter, so a death at any of
them keeps it.

**OAuthRefreshGateProofs.** `GateTypeCorrect`, `SlotsExactAndUsed` (`SlotsKept`:
slots are exact, and nobody waits beside a free one), `StartsSpaced`
(`AdmissionsSpaced`) and `BurstsStartFresh`. The conjunction is almost
inductive: the spacing also needs that every reserved start lies an interval
before `nextAdmissionAt` (`ReservationsCounted`), because a new reservation is
compared with that variable only. Slots and waiters are related by cardinality:
a release grants as many waiters as it leaves slots free, or all of them.

**RequestFailoverProofs.** `FailoverTypeCorrect`, `PermitsOnlyInAttempts`,
`NothingAfterOutputProved` (`NothingAfterOutput`), `LastSourceIsSpared`
(`LastSourceSpared`) and `BudgetsAddUp` (`AttemptsBounded`).
`LastSourceIsSpared` has two cases: a failure gives its permit up and cools a
source only beside another usable one, and exhausted-quota headers cool the
source of an attempt that keeps its permit. The invariant ties
the permit to the step of the loop (`PermitMatchesStep`) and says that a request
bound to its account by what it has sent is inside an attempt or at its end
(`BoundInAttempt`); every rung of the ladder that starts another attempt tests
for that binding first. `BudgetInv` charges every attempt after the first to one
budget, those of the recovery paths included, and shows that none of them is
exceeded.

**PersistentTaskRunnerProofs.** `OneExecutionAtATime` (`OneExecution`),
`FinalOutcomesStay` (`FinalStaysFinal`), `RunningIsExecuted`
(`RunningHasExecution`) and `ShutdownLeavesNone` (`ShutdownStops`). `TaskInv`
describes what the chain can still do: each queued or half-done transition that
starts an execution stands alone (`StartsAlone`), the creation comes before all
others (`CreatesFirst`), a live execution belongs to the attempt of the row or
has been aborted (`ExecutionSound`), and no transition under way holds a copy of
a row that is final by now (`FinalUntouched`). `WorkInv` adds the account of who
still has something to do: a write under way still fits the row it read
(`WriteSound`), an execution that ends has left an outcome unless the store
refused both or the program stops (`EndsWithOutcome`), a running row has an
execution in the map (`RunningExecutes`), only a shutdown interrupts
(`InterruptsWhenStopping`), and once it has looked, nothing but the execution it
waits for is alive or can start (`StopsFor`).

**MaintenanceLockProofs.** `LockTypeCorrect`.

**PortableReplacementProofs.** `ReplacementTypeCorrect` and `BackupsAreKept`
(`BackupKept`). The invariant relates the disk to the calls in flight: what each
export has done so far (`FlightInv`, `StageInv`), what the recovery has
(`JobInv`), that a path has at most one journal as long as nothing was misread
(`WayInv`), and the core: the last reported content is in the file, or in a
rollback copy that a journal or a running replacement still refers to
(`CopyInv`). Each refused call and each end of the process has to lead back into
these forms.

## 7. What is only model-checked

Every liveness property (`WaitEnds`, `RequestEnds`, `NoneStaysPaused`,
`LateHandlerResumes`, `CallSettles`, `RetiredIsDisposed`, `OrphansAreReclaimed`,
`OrphanedTakeoverEnds`, `DriftIsNoticed`, `JournalsEnd`): the prover handles
neither fairness nor `ENABLED`. The properties of the violating runs are refuted,
not proved; for two of them section 6 says under which hypothesis they hold.
No module declares a recursive operator.

## 8. Abstractions, and what is not modelled

- *Capacity.* The models, providers and exclusions of a request are its two sets
  of members. The waiting time is whether the deadline has passed.
- *Health.* One account that stays configured; model-local cooldowns, the
  blocking of an account by its own row and the measurements of fitness are left
  out, so selection is allowed more often than in the code. `perf` keeps the
  adaptive limit and the success streak, which is raised after `StreakLength`
  successes instead of 8.
- *Requests.* One permit per source; the deadline of a request is a flag.
  `QuotaHeaders` is `applyExhaustedQuotaHeaders`, which cools a source without
  looking for another one, also when the attempt then succeeds: the last usable
  source can go that way, by design, and `LastSourceSpared` says that no failure
  takes it. `Metered` names the sources that send such headers, in the run the
  relay only; the deferred cooldown of a 429 of the web transport is left out
  because that attempt fails as `rateLimit`. Left
  out are hedges and `recordSuccess`, which the two modules above hold, accounts
  with cooldowns disabled, histories that only their account can read, and the
  paths of one provider with a protocol of its own.
- *Task.* One task with its attempts; the runner keeps no state across tasks.
- *Route.* Rebuild and warm, the direct loopback ports and the closing of the
  coordinator itself; the drift event of the system proxy, which guards its
  cleanup by lease. Whether an earlier run activated the switch, which decides
  if an enabling without a profile blocks, is left open (`OperationBlocks` does
  either). The stored switch is taken to agree with the coordinator's; the one
  case in which it does not is that enabling, after which the stored switch
  stays on and a restart of the core would follow it. A crash is ignored
  while the program closes, as in the code, and a failed close leaves the
  program running.
- *Lease.* The Windows adapter; its two connection blobs are one value and the
  scalars another (`blob`, `mode`). Commands in progress die with the process. A
  change another program makes between the capture and the first write is lost,
  as is the difference between two equal values. Other programs never choose
  Stone+'s own endpoint. A recovery that meets an active lease turns it into an
  error.
- *Probes.* One account; no change of credentials in `saveAccount`, no
  model-local cooldowns, no expired status; the deferred flush of active
  reports writes latency, last use and quota but no status, and is left out; the
  automatic refresh is a free start, and one of the probes can be cancelled.
  Known of the code and excluded from the properties: a neutral failure writes
  back a status older than a cooldown of the gateway; the status to restore is
  read before the write that marks the probe; a death or a refused write leaves
  the transient status behind.
- *Lock.* The recursive removal of a directory is one step; the two formats of
  the owner file are one; removing what was moved aside does not touch the path.
  A process identifier is never reused.
- *Backups.* The content of a file is one value; other programs leave the four
  names alone. Known of the code and excluded from the properties: an unreadable
  journal, or directory of them, lets an export pass; a backup that cannot be
  read is taken for a torn one (`blind`); after a crash between the removal of a
  copy and that of its journal, a path whose original was no backup stays
  blocked.
- *Not modelled.* The codecs, the store's files, and the components section 1
  lists without a module; `PROJECT.json` gives the reason for each. Most of the
  repository's lines are codecs, parsers, page automation and the renderer,
  which are about the shape of data or belong to third parties: the modules
  cover the parts with state that several actors share, which are a small share
  of the lines. The others are planned.
