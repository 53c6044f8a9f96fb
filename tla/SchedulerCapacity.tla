-------------------------- MODULE SchedulerCapacity --------------------------
(***************************************************************************)
(* Permits, hedges and the capacity wait queue of the gateway's            *)
(* PoolScheduler (src/main/gateway/scheduler.ts), driven by the requests   *)
(* of GatewayServer (src/main/gateway/server.ts).                          *)
(*                                                                         *)
(* Every action is one synchronous run of the JavaScript event loop.  A    *)
(* Request is one upstream attempt of a client request: it owns a primary  *)
(* slot and, when its pool hedges, a second slot of the same account.      *)
(***************************************************************************)
EXTENDS Naturals, FiniteSets

CONSTANTS
  Account, Pool, Request,
  PoolOf,           \* PoolOf[r]: the pool r schedules in
  Verified,         \* Verified[r]: members whose capabilities are declared
  Unknown,          \* Unknown[r]: members without capability metadata
  Hedged,           \* requests whose pool allows a second upstream call
  AdaptivePool,     \* pools that run the autobalanced strategy
  Flapping,         \* accounts whose circuit changes during the run
  MaxConcurrency,   \* MaxConcurrency[a]: configured concurrency of account a
  MaxPending,       \* maxPendingAcquisitions
  MaxPendingPerPool,\* maxPendingAcquisitionsPerPool
  MaxGeneration,    \* bound: how often the gateway is stopped and restarted
  None

ASSUME CapacityConstants ==
  /\ PoolOf \in [Request -> Pool]
  /\ Verified \in [Request -> SUBSET Account]
  /\ Unknown \in [Request -> SUBSET Account]
  /\ MaxConcurrency \in [Account -> Nat \ {0}]
  /\ {MaxPending, MaxPendingPerPool} \subseteq Nat \ {0}
  /\ MaxGeneration \in Nat
  /\ None \notin Account

ASSUME FiniteRequests == IsFiniteSet(Request)

Slot == Request \X {"primary", "hedge"}

VARIABLES
  active,       \* active[a]: permits the scheduler counts as taken
  circuit,      \* circuit[a]: health as isAvailable sees it
  limit,        \* limit[a]: effective adaptive concurrency of account a
  place,        \* place[r]: position of r in capacityWaiters, 0 outside it
  waitSet,      \* waitSet[r]: the accountIds waiter r listens to
  poolWaiting,  \* capacityWaiterCountsByPool
  expired,      \* expired[r]: waiter r's deadline is behind the clock
  phase,        \* where request r is
  hedgeOf,      \* hedgeOf[r]: the account r may still start a second call on
  lease,        \* lease[s]: the account slot s holds an unreleased permit of
  aborted,      \* aborted[r]: the abort signal of r has fired
  reqGen,       \* reqGen[r]: runtimeGeneration captured when r arrived
  generation    \* runtimeGeneration of the server

queueVars   == <<place, waitSet, poolWaiting, expired>>
healthVars  == <<circuit, limit>>
requestVars == <<aborted, reqGen>>
vars == <<active, queueVars, healthVars, requestVars, phase, hedgeOf, lease,
          generation>>

Phase == {"idle", "routing", "waiting", "attempt"}

TypeOK ==
  /\ active \in [Account -> Nat]
  /\ circuit \in [Account -> {"closed", "open", "half-open"}]
  /\ limit \in [Account -> Nat]
  /\ \A a \in Account : limit[a] \in 1..MaxConcurrency[a]
  /\ place \in [Request -> Nat]
  /\ waitSet \in [Request -> SUBSET Account]
  /\ poolWaiting \in [Pool -> Nat]
  /\ expired \in [Request -> BOOLEAN]
  /\ phase \in [Request -> Phase]
  /\ hedgeOf \in [Request -> Account \cup {None}]
  /\ lease \in [Slot -> Account \cup {None}]
  /\ aborted \in [Request -> BOOLEAN]
  /\ reqGen \in [Request -> Nat]
  /\ generation \in Nat

Init ==
  /\ active = [a \in Account |-> 0]
  /\ circuit = [a \in Account |-> "closed"]
  /\ limit = MaxConcurrency
  /\ place = [r \in Request |-> 0]
  /\ waitSet = [r \in Request |-> {}]
  /\ poolWaiting = [p \in Pool |-> 0]
  /\ expired = [r \in Request |-> FALSE]
  /\ phase = [r \in Request |-> "idle"]
  /\ hedgeOf = [r \in Request |-> None]
  /\ lease = [s \in Slot |-> None]
  /\ aborted = [r \in Request |-> FALSE]
  /\ reqGen = [r \in Request |-> 0]
  /\ generation = 0

-----------------------------------------------------------------------------
(* Selection, over a permit count act that may be ahead of the variable.   *)

AvailableTwoProbes(act, a) == circuit[a] # "open"

Available(act, a) ==
  /\ circuit[a] # "open"
  /\ ~(circuit[a] = "half-open" /\ act[a] > 0)

ConcurrencyLimit(r, a) ==
  IF PoolOf[r] \in AdaptivePool THEN limit[a] ELSE MaxConcurrency[a]

EligibleOffByOne(act, r, a) ==
  Available(act, a) /\ act[a] <= ConcurrencyLimit(r, a)

Eligible(act, r, a) == Available(act, a) /\ act[a] < ConcurrencyLimit(r, a)

(* The verified tier hides the unknown one while any of it can run.        *)
Candidates(act, r) ==
  LET runnable(S) == {a \in S : Eligible(act, r, a)}
  IN IF runnable(Verified[r]) # {} THEN runnable(Verified[r])
                                   ELSE runnable(Unknown[r])

CapacityBlockedOneTier(act, r) ==
  LET M == IF Verified[r] # {} THEN Verified[r] ELSE Unknown[r]
  IN {a \in M : Available(act, a) /\ act[a] >= ConcurrencyLimit(r, a)}

(* The accounts a request may wait for: members of either tier that only   *)
(* lack capacity.                                                          *)
CapacityBlocked(act, r) ==
  {a \in Verified[r] \cup Unknown[r] :
     Available(act, a) /\ act[a] >= ConcurrencyLimit(r, a)}

-----------------------------------------------------------------------------
(* The wait queue.                                                         *)

(* The places once the waiters of gone have left.                          *)
PlaceAfter(pl, gone) ==
  [r \in Request |->
     IF r \in gone THEN 0
     ELSE Cardinality({v \in Request : pl[v] \in 1..pl[r] /\ v \notin gone})]

CountAfterOnce(n, gone) ==
  [p \in Pool |-> IF n[p] > 0 /\ \E r \in gone : PoolOf[r] = p
                    THEN n[p] - 1 ELSE n[p]]

CountAfter(n, gone) ==
  [p \in Pool |->
     LET k == Cardinality({r \in Request : r \in gone /\ PoolOf[r] = p})
     IN IF n[p] >= k THEN n[p] - k ELSE 0]

(* removeCapacityWaiter for every waiter of gone: pl and n are the places  *)
(* and the per-pool counts the removal starts from.                        *)
Dequeue(pl, n, gone) ==
  /\ place' = PlaceAfter(pl, gone)
  /\ poolWaiting' = CountAfter(n, gone)
  /\ expired' = [r \in Request |-> expired[r] /\ r \notin gone]

NewestFirst(w, S, pl) == \A v \in S : pl[w] >= pl[v]

(* capacityWaiters is iterated in insertion order.                         *)
First(w, S, pl) == \A v \in S : pl[w] <= pl[v]

(* An attempt of a hedged pool may start a second call on its account.     *)
Attempt(r, a) ==
  hedgeOf' = [hedgeOf EXCEPT ![r] = IF r \in Hedged THEN a ELSE None]

(* fulfillOneCapacityWaiter for the accounts woken, in some order, until   *)
(* one waiter is served.  Waiters that are passed over are rejected or     *)
(* refresh the accounts they listen to.  The arguments are the state the   *)
(* caller has built up so far; a served waiter may get any candidate, not  *)
(* only the account that woke it.                                          *)
FulfillOne(act, pl, n, ws, ls, ph, woken) ==
  LET wakes(a)    == {r \in Request : pl[r] > 0 /\ a \in ws[r]}
      servable(a) == {r \in wakes(a) : ~expired[r] /\ Candidates(act, r) # {}}
      rejected(S) == {r \in S : expired[r] \/ CapacityBlocked(act, r) = {}}
      Leave(S, out) ==
        /\ Dequeue(pl, n, out)
        /\ waitSet' = [r \in Request |->
                         IF r \in out THEN {}
                         ELSE IF r \in S THEN CapacityBlocked(act, r) ELSE ws[r]]
  IN \/ LET passed == UNION {wakes(a) : a \in woken}
        IN /\ \A a \in woken : servable(a) = {}
           /\ Leave(passed, rejected(passed))
           /\ phase' = [r \in Request |-> IF r \in rejected(passed) THEN "idle" ELSE ph[r]]
           /\ active' = act
           /\ lease' = ls
           /\ UNCHANGED hedgeOf
     \/ \E a \in woken, before \in SUBSET {c \in woken : servable(c) = {}} :
          \E w \in servable(a) :
            LET passed == {r \in wakes(a) : pl[r] < pl[w]} \cup
                          UNION {wakes(c) : c \in before}
            IN /\ First(w, servable(a), pl)
               /\ Leave(passed, rejected(passed) \cup {w})
               /\ phase' = [r \in Request |-> IF r = w THEN "attempt"
                                              ELSE IF r \in rejected(passed) THEN "idle"
                                              ELSE ph[r]]
               /\ \E b \in Candidates(act, w) :
                    /\ active' = [act EXCEPT ![b] = @ + 1]
                    /\ lease' = [ls EXCEPT ![<<w, "primary">>] = b]
                    /\ Attempt(w, b)

-----------------------------------------------------------------------------
(* Client requests.                                                        *)

(* handle() captures the runtime generation before it routes.              *)
Arrive(r) ==
  /\ phase[r] = "idle"
  /\ \A k \in {"primary", "hedge"} : lease[<<r, k>>] = None
  /\ hedgeOf[r] = None
  /\ phase' = [phase EXCEPT ![r] = "routing"]
  /\ aborted' = [aborted EXCEPT ![r] = FALSE]
  /\ reqGen' = [reqGen EXCEPT ![r] = generation]
  /\ UNCHANGED <<active, queueVars, healthVars, hedgeOf, lease, generation>>

(* selectAndAcquireWhenAvailable, when an account can run at once.         *)
SelectNow(r) ==
  /\ phase[r] = "routing"
  /\ ~aborted[r]
  /\ \E a \in Candidates(active, r) :
       /\ active' = [active EXCEPT ![a] = @ + 1]
       /\ lease' = [lease EXCEPT ![<<r, "primary">>] = a]
       /\ Attempt(r, a)
  /\ phase' = [phase EXCEPT ![r] = "attempt"]
  /\ UNCHANGED <<queueVars, healthVars, requestVars, generation>>

Waiting == {r \in Request : place[r] > 0}

QueueFull(r) ==
  \/ Cardinality(Waiting) >= MaxPending
  \/ poolWaiting[PoolOf[r]] >= MaxPendingPerPool

(* The same call when every member is saturated, cooling or excluded and   *)
(* no wait is possible.                                                    *)
Refuse(r) ==
  /\ phase[r] = "routing"
  /\ \/ aborted[r]
     \/ /\ Candidates(active, r) = {}
        /\ CapacityBlocked(active, r) = {} \/ QueueFull(r)
  /\ phase' = [phase EXCEPT ![r] = "idle"]
  /\ UNCHANGED <<active, queueVars, healthVars, requestVars, hedgeOf, lease,
                 generation>>

(* enqueueCapacityWaiter, with its closing handoff check.                  *)
Enqueue(r) ==
  /\ phase[r] = "routing"
  /\ ~aborted[r]
  /\ Candidates(active, r) = {}
  /\ ~QueueFull(r)
  /\ LET blocked == CapacityBlocked(active, r)
     IN /\ blocked # {}
        /\ FulfillOne(active, [place EXCEPT ![r] = Cardinality(Waiting) + 1],
                      [poolWaiting EXCEPT ![PoolOf[r]] = @ + 1],
                      [waitSet EXCEPT ![r] = blocked], lease,
                      [phase EXCEPT ![r] = "waiting"], blocked)
  /\ UNCHANGED <<healthVars, requestVars, generation>>

DeadlinePasses(r) ==
  /\ phase[r] = "waiting"
  /\ expired' = [expired EXCEPT ![r] = TRUE]
  /\ UNCHANGED <<active, place, waitSet, poolWaiting, healthVars, requestVars,
                 phase, hedgeOf, lease, generation>>

(* rejectCapacityWaiter                                                    *)
Reject(r) ==
  /\ phase[r] = "waiting"
  /\ Dequeue(place, poolWaiting, {r})
  /\ waitSet' = [waitSet EXCEPT ![r] = {}]
  /\ phase' = [phase EXCEPT ![r] = "idle"]

TimerFiresOnCapacity(r) ==
  /\ expired[r]
  /\ \E a \in waitSet[r] : Eligible(active, r, a)
  /\ Reject(r)
  /\ UNCHANGED <<active, healthVars, requestVars, hedgeOf, lease, generation>>

TimerFires(r) ==
  /\ expired[r]
  /\ Reject(r)
  /\ UNCHANGED <<active, healthVars, requestVars, hedgeOf, lease,
                 generation>>

(* The client disconnects or the attempt deadline aborts the signal; the   *)
(* abort listener of a waiter runs in the same event.                      *)
Abort(r) ==
  /\ phase[r] # "idle"
  /\ ~aborted[r]
  /\ aborted' = [aborted EXCEPT ![r] = TRUE]
  /\ IF phase[r] = "waiting" THEN Reject(r) ELSE UNCHANGED <<queueVars, phase>>
  /\ UNCHANGED <<active, healthVars, hedgeOf, lease, reqGen, generation>>

(* fetchWithOptionalHedge: the hedge delay is over or the primary call has *)
(* failed.  An aborted attempt gets here too, because the abort fails its  *)
(* primary call, and by then it may have returned its own permit.          *)
TryHedge(r) ==
  /\ hedgeOf[r] # None
  /\ IF Eligible(active, r, hedgeOf[r])
       THEN /\ active' = [active EXCEPT ![hedgeOf[r]] = @ + 1]
            /\ lease' = [lease EXCEPT ![<<r, "hedge">>] = hedgeOf[r]]
       ELSE UNCHANGED <<active, lease>>
  /\ hedgeOf' = [hedgeOf EXCEPT ![r] = None]
  /\ UNCHANGED <<queueVars, healthVars, requestVars, phase, generation>>

(* The primary call answers before the hedge delay.                        *)
PrimaryAnswers(r) ==
  /\ hedgeOf[r] # None
  /\ ~aborted[r]
  /\ hedgeOf' = [hedgeOf EXCEPT ![r] = None]
  /\ UNCHANGED <<active, queueVars, healthVars, requestVars, phase, lease,
                 generation>>

ReturnsPermitUnlessAborted(r) == reqGen[r] = generation /\ ~aborted[r]

ReturnsPermit(r) == reqGen[r] = generation

ReturnedTwice(act, a) == [act EXCEPT ![a] = IF @ > 1 THEN @ - 2 ELSE 0]

Returned(act, a) == [act EXCEPT ![a] = IF @ > 0 THEN @ - 1 ELSE 0]

(* runtimeTrackedRelease around the scheduler's release: a permit of an    *)
(* earlier gateway run is dropped, not returned.                           *)
Release(r, k) ==
  LET a  == lease[<<r, k>>]
      ls == [lease EXCEPT ![<<r, k>>] = None]
      ph == IF k = "primary" THEN [phase EXCEPT ![r] = "idle"] ELSE phase
  IN /\ a # None
     /\ hedgeOf[r] = None \/ aborted[r]
     /\ IF ReturnsPermit(r)
          THEN FulfillOne(Returned(active, a), place, poolWaiting, waitSet,
                          ls, ph, {a})
          ELSE /\ lease' = ls
               /\ phase' = ph
               /\ UNCHANGED <<active, queueVars, hedgeOf>>
     /\ UNCHANGED <<healthVars, requestVars, generation>>

-----------------------------------------------------------------------------
(* Health transitions, from any attempt, quota poll or reset; their own    *)
(* rules are in SchedulerHealth.  None of them touches the wait queue.     *)

LoweredLimit(a) == 1..limit[a]

Trip(a) ==
  /\ a \in Flapping
  /\ circuit' = [circuit EXCEPT ![a] = "open"]
  /\ \E l \in LoweredLimit(a) : limit' = [limit EXCEPT ![a] = l]
  /\ UNCHANGED <<active, queueVars, requestVars, phase, hedgeOf, lease, generation>>

CooldownElapses(a) ==
  /\ circuit[a] = "open"
  /\ circuit' = [circuit EXCEPT ![a] = "half-open"]
  /\ UNCHANGED <<active, queueVars, limit, requestVars, phase, hedgeOf, lease, generation>>

Recover(a) ==
  /\ a \in Flapping
  /\ circuit' = [circuit EXCEPT ![a] = "closed"]
  /\ \E l \in limit[a]..MaxConcurrency[a] : limit' = [limit EXCEPT ![a] = l]
  /\ UNCHANGED <<active, queueVars, requestVars, phase, hedgeOf, lease, generation>>

(* GatewayServer.stop and the scheduler's clear().  The connections are    *)
(* closed, so every unfinished request is aborted; its asynchronous tail   *)
(* may still run afterwards.                                               *)
Stop ==
  /\ generation < MaxGeneration
  /\ generation' = generation + 1
  /\ active' = [a \in Account |-> 0]
  /\ circuit' = [a \in Account |-> "closed"]
  /\ limit' = MaxConcurrency
  /\ place' = [r \in Request |-> 0]
  /\ waitSet' = [r \in Request |-> {}]
  /\ poolWaiting' = [p \in Pool |-> 0]
  /\ expired' = [r \in Request |-> FALSE]
  /\ phase' = [r \in Request |-> IF phase[r] = "waiting" THEN "idle" ELSE phase[r]]
  /\ aborted' = [r \in Request |-> TRUE]
  /\ UNCHANGED <<hedgeOf, lease, reqGen>>

Next ==
  \/ \E r \in Request :
       \/ Arrive(r) \/ SelectNow(r) \/ Refuse(r) \/ Enqueue(r)
       \/ DeadlinePasses(r) \/ TimerFires(r) \/ Abort(r)
       \/ TryHedge(r) \/ PrimaryAnswers(r)
       \/ \E k \in {"primary", "hedge"} : Release(r, k)
  \/ \E a \in Account : Trip(a) \/ CooldownElapses(a) \/ Recover(a)
  \/ Stop

Spec == Init /\ [][Next]_vars

(* The clock moves and Node runs the timer of a waiter.                    *)
TimerFairness ==
  \A r \in Request : WF_vars(DeadlinePasses(r)) /\ WF_vars(TimerFires(r))

FairSpec == Spec /\ TimerFairness

-----------------------------------------------------------------------------
Members(r) == Verified[r] \cup Unknown[r]

(* The slots that hold a permit granted by the current gateway run.        *)
Holders(a) == {s \in Slot : lease[s] = a /\ reqGen[s[1]] = generation}

(* Every permit of the current run is counted, and the count never passes  *)
(* the configured concurrency: acquireAccountSlot, releaseAccountSlot and  *)
(* the generation guard of runtimeTrackedRelease.                          *)
NeverOversubscribed ==
  \A a \in Account : /\ Cardinality(Holders(a)) <= active[a]
                     /\ active[a] <= MaxConcurrency[a]

(* Nothing is counted for an account nobody uses: once no attempt holds a  *)
(* permit the account's in-flight count is zero again.                     *)
IdleMeansFree ==
  (\A s \in Slot : lease[s] = None) => \A a \in Account : active[a] = 0

(* The per-pool counters that bound the queue agree with the queue, the    *)
(* bounds hold, and exactly the waiting requests are in it, once each.     *)
QueueAccounted ==
  /\ Waiting = {r \in Request : phase[r] = "waiting"}
  /\ {place[r] : r \in Waiting} = 1..Cardinality(Waiting)
  /\ Cardinality(Waiting) <= MaxPending
  /\ \A p \in Pool :
       /\ poolWaiting[p] = Cardinality({r \in Waiting : PoolOf[r] = p})
       /\ poolWaiting[p] <= MaxPendingPerPool

(* A request waits only while none of its members can run it.              *)
NoWaiterIdles == \A r \in Waiting : Candidates(active, r) = {}

(* Within a pool the queue is FIFO: a waiter is not served while an        *)
(* earlier one of the same pool stays in the queue.                        *)
ServedInOrder ==
  [][\A r, v \in Waiting :
       (/\ PoolOf[r] = PoolOf[v]
        /\ place[r] < place[v]
        /\ phase'[v] = "attempt")
       => phase'[r] # "waiting"]_vars

(* A half-open account carries one probe: it is never given a permit while *)
(* it serves another call, a hedge or a handed-over permit included.       *)
SingleProbe ==
  [][\A a \in Account :
       (circuit[a] = "half-open" /\ circuit'[a] = "half-open")
       => active'[a] <= IF active[a] = 0 THEN 1 ELSE active[a]]_vars

(* A waiter wakes when any available member of either tier releases a      *)
(* slot: after the release no waiter that could use the slot stays behind. *)
ReleaseWakesMembers ==
  [][\A s \in Slot, a \in Account, r \in Request :
       (/\ lease[s] = a
        /\ lease'[s] = None
        /\ reqGen[s[1]] = generation
        /\ a \in Members(r)
        /\ phase'[r] = "waiting")
       => ~(Eligible(active, r, a))']_vars

(* No request is stranded in the queue: the deadline timer, a permit or an *)
(* abort ends every wait.                                                  *)
WaitEnds == \A r \in Request : phase[r] = "waiting" ~> phase[r] # "waiting"

-----------------------------------------------------------------------------
(* The permits the scheduler promises.                                     *)
Permits == INSTANCE AccountPermits
             WITH holders <- [a \in Account |-> Holders(a)]

(* Every step of the scheduler grants, returns, hands over or revokes      *)
(* permits the way AccountPermits allows.                                  *)
ImplementsPermits == Permits!Spec
=============================================================================
