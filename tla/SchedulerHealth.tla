--------------------------- MODULE SchedulerHealth ---------------------------
(***************************************************************************)
(* The runtime health of one account in PoolScheduler                      *)
(* (src/main/gateway/scheduler.ts): circuit, cooldown, adaptive limit and  *)
(* the two generation counters by which upstream attempts compare-and-set  *)
(* it.  Attempts run concurrently and report in any order (server.ts).     *)
(***************************************************************************)
EXTENDS Naturals, FiniteSets

CONSTANTS
  Attempt,        \* upstream attempts on the account
  Adaptive,       \* attempts whose pool is autobalanced
  MaxConcurrency, \* configured concurrency
  BaseDelay, MaxDelay, \* backoff of recordFailure
  RetryAfter,     \* retry-after values of failures
  QuotaWindow,    \* times until reset in exhausted response headers
  StreakLength,   \* successes in a row that raise the adaptive limit (8)
  MaxTime, MaxRevision, MaxDynamic \* bounds of the clock and the counters

ASSUME HealthConstants ==
  /\ Adaptive \subseteq Attempt
  /\ {MaxConcurrency, StreakLength, BaseDelay, MaxDelay} \subseteq Nat \ {0}
  /\ RetryAfter \subseteq Nat
  /\ QuotaWindow \subseteq Nat \ {0}
  /\ {MaxTime, MaxRevision, MaxDynamic} \subseteq Nat

VARIABLES
  now,
  health,     \* entry of the health map, NoHealth when there is none
  reason,     \* entry of healthReasons
  revision,   \* getHealthRevision
  epoch,      \* getResetEpoch
  perf,       \* entry of the performance map: adaptive limit and streak
  att,        \* att[i]: what attempt i captured at selection
  active,     \* attempts the scheduler counts as in flight
  since       \* history: what befell the account since i was selected

stateVars == <<health, reason, revision, epoch>>
vars == <<now, stateVars, perf, att, active, since>>

NoHealth == [state |-> "none", failures |-> 0, until |-> 0]
NoPerf   == [known |-> FALSE, dynamic |-> 0, streak |-> 0]
Idle     == [phase |-> "idle", rev |-> 0, epoch |-> 0, exhausted |-> 0]

Health == [state : {"none", "open", "half-open"}, failures : Nat, until : Nat]
Perf   == [known : BOOLEAN, dynamic : Nat, streak : Nat]

(* exhausted: when the quota window of the last response headers resets.   *)
Captured == [phase : {"idle", "running", "reported"}, rev : Nat, epoch : Nat,
             exhausted : Nat]

TypeOK ==
  /\ now \in Nat
  /\ health \in Health
  /\ reason \in {"none", "quota", "failure"}
  /\ (health.state = "none") <=> (reason = "none")
  /\ revision \in Nat /\ epoch \in Nat
  /\ perf \in Perf
  /\ att \in [Attempt -> Captured]
  /\ active \in SUBSET Attempt
  /\ \A i \in active : att[i].phase = "running"
  /\ since \in [Attempt -> {"nothing", "change", "carried", "reset"}]

Init ==
  /\ now = 0
  /\ health = NoHealth
  /\ reason = "none"
  /\ revision = 0 /\ epoch = 0
  /\ perf = NoPerf
  /\ att = [i \in Attempt |-> Idle]
  /\ active = {}
  /\ since = [i \in Attempt |-> "nothing"]

Larger(a, b)  == IF a >= b THEN a ELSE b
Smaller(a, b) == IF a <= b THEN a ELSE b

-----------------------------------------------------------------------------
(* Every read moves an open circuit past its cooldown to half-open.        *)
AsRead ==
  IF health.state = "open" /\ health.until <= now
    THEN [health EXCEPT !.state = "half-open"] ELSE health

Opened(failures, until) ==
  [state |-> "open", failures |-> failures, until |-> until]

Backoff(failures) ==
  Smaller(MaxDelay, BaseDelay * 2 ^ Smaller(20, failures - 1))

(* Another actor's change overtakes the attempts that are under way.       *)
Overtakes(others, what) ==
  since' = [j \in Attempt |->
              IF j \in others /\ att[j].phase # "idle" /\ since[j] # "reset"
                THEN what ELSE since[j]]

(* The merged quota window is the last change: its attempt carries the new *)
(* revision on, although others have overtaken it before.                  *)
Merges(i) ==
  since' = [j \in Attempt |->
              IF att[j].phase = "idle" \/ since[j] = "reset" THEN since[j]
              ELSE IF j # i THEN "change"
              ELSE IF since[i] = "change" THEN "carried" ELSE since[i]]

(* The outcome is not applied: the caller only reads the health.           *)
Ignored ==
  /\ health' = AsRead
  /\ UNCHANGED <<reason, revision, perf, since>>

MergeQuotaCooldownAlways(i, until) ==
  /\ health' = Opened(health.failures, until)
  /\ reason' = "quota"
  /\ revision' = revision + 1
  /\ Merges(i)
  /\ UNCHANGED perf

(* mergeQuotaCooldown: a later end extends the circuit, nothing else.      *)
MergeQuotaCooldown(i, until) ==
  IF until <= health.until THEN Ignored
  ELSE /\ health' = Opened(health.failures, until)
       /\ reason' = "quota"
       /\ revision' = revision + 1
       /\ Merges(i)
       /\ UNCHANGED perf

SetCooldownAnyEpoch(i, until) ==
  IF att[i].rev # revision THEN MergeQuotaCooldown(i, until)
  ELSE /\ health' = Opened(health.failures, Larger(until, health.until))
       /\ reason' = "quota"
       /\ revision' = revision + 1
       /\ Overtakes(Attempt \ {i}, "change")
       /\ UNCHANGED perf

(* setCooldown with the generation of attempt i.                           *)
SetCooldown(i, until) ==
  IF att[i].epoch # epoch THEN Ignored
  ELSE IF att[i].rev # revision THEN MergeQuotaCooldown(i, until)
  ELSE /\ health' = Opened(health.failures, Larger(until, health.until))
       /\ reason' = "quota"
       /\ revision' = revision + 1
       /\ Overtakes(Attempt \ {i}, "change")
       /\ UNCHANGED perf

ReasonOfLatest(why) == why

(* A quota window that is still running keeps its reason.                  *)
ReasonAfter(why) ==
  IF reason = "quota" /\ health.until > now THEN "quota" ELSE why

(* The adaptive limit is halved, and starts from the configured one.       *)
Halved ==
  LET from == IF perf.dynamic = 0 THEN MaxConcurrency ELSE perf.dynamic
  IN [known |-> TRUE, dynamic |-> Larger(1, from \div 2), streak |-> 0]

(* recordFailure with the generation of attempt i.                         *)
RecordFailure(i, why, retryAfter) ==
  LET until(failures) == now + Larger(Backoff(failures), retryAfter)
      failures        == health.failures + 1
  IN IF att[i].epoch # epoch THEN Ignored
     ELSE IF att[i].rev # revision
       THEN IF why = "quota" THEN MergeQuotaCooldown(i, until(Larger(1, health.failures)))
                             ELSE Ignored
     ELSE /\ health' = Opened(failures, Larger(until(failures), health.until))
          /\ reason' = ReasonAfter(why)
          /\ revision' = revision + 1
          /\ perf' = Halved
          /\ Overtakes(Attempt \ {i}, "change")

SupersededByEpochOnly(i) == att[i].epoch # epoch

Superseded(i) == att[i].rev # revision \/ att[i].epoch # epoch

(* One more success: observeOutcome.                                       *)
Observed ==
  LET streak == perf.streak + 1
  IN [known   |-> TRUE,
      dynamic |-> IF perf.dynamic > 0 /\ streak >= StreakLength
                    THEN perf.dynamic + 1 ELSE perf.dynamic,
      streak  |-> IF streak >= StreakLength THEN 0 ELSE streak]

-----------------------------------------------------------------------------
Limit(i) ==
  IF i \in Adaptive /\ perf.dynamic > 0
    THEN Smaller(MaxConcurrency, perf.dynamic) ELSE MaxConcurrency

(* The scheduler picks the account and hands out its generation.           *)
Select(i) ==
  /\ att[i].phase = "idle"
  /\ revision < MaxRevision /\ perf.dynamic < MaxDynamic
  /\ AsRead.until <= now
  /\ AsRead.state = "half-open" => active = {}
  /\ Cardinality(active) < Limit(i)
  /\ health' = AsRead
  /\ att' = [att EXCEPT ![i] = [phase |-> "running", rev |-> revision,
                                epoch |-> epoch, exhausted |-> 0]]
  /\ active' = active \cup {i}
  /\ since' = [since EXCEPT ![i] = "nothing"]
  /\ UNCHANGED <<now, reason, revision, epoch, perf>>

(* applyExhaustedQuotaHeaders for a response whose quota window resets     *)
(* after wait.  The attempt carries the revision of its own transition on. *)
ExhaustedHeaders(i, wait) ==
  /\ att[i].phase = "running"
  /\ revision < MaxRevision
  /\ SetCooldown(i, now + wait)
  /\ att' = [att EXCEPT ![i].exhausted = now + wait,
                        ![i].rev = IF revision' = revision THEN @ ELSE revision']
  /\ UNCHANGED <<now, epoch, active>>

(* A further response of the attempt, whose headers leave quota.           *)
FreshHeaders(i) ==
  /\ att[i].phase = "running"
  /\ att[i].exhausted > 0
  /\ att' = [att EXCEPT ![i].exhausted = 0]
  /\ UNCHANGED <<now, stateVars, perf, active, since>>

(* The attempt failed for a reason that is the account's.                  *)
Fails(i, why, retryAfter) ==
  /\ att[i].phase = "running"
  /\ RecordFailure(i, why, retryAfter)
  /\ att' = [att EXCEPT ![i] = Idle]
  /\ active' = active \ {i}
  /\ UNCHANGED <<now, epoch>>

(* reportAccountSuccess with recordSuccess; the permit goes back, the      *)
(* performance sample follows when the response has been written.          *)
Succeeds(i) ==
  /\ att[i].phase = "running"
  /\ active' = active \ {i}
  /\ IF att[i].exhausted > now \/ Superseded(i)
       THEN /\ att' = [att EXCEPT ![i] = Idle]
            /\ health' = IF att[i].exhausted > now THEN health ELSE AsRead
            /\ UNCHANGED <<reason, revision, since>>
       ELSE /\ health' = NoHealth
            /\ reason' = "none"
            /\ IF health.state = "none"
                 THEN UNCHANGED <<revision, since>>
                 ELSE /\ revision' = revision + 1
                      /\ Overtakes(Attempt \ {i}, "change")
            /\ att' = [att EXCEPT ![i].phase = "reported", ![i].rev = revision']
  /\ UNCHANGED <<now, epoch, perf>>

(* finishRequestLog: recordPerformance with the reported revision.         *)
Finishes(i) ==
  /\ att[i].phase = "reported"
  /\ perf' = IF Superseded(i) THEN perf ELSE Observed
  /\ att' = [att EXCEPT ![i] = Idle]
  /\ UNCHANGED <<now, stateVars, active, since>>

(* The client leaves, or the failure is the request's and not the account's. *)
Abandons(i) ==
  /\ att[i].phase # "idle"
  /\ att' = [att EXCEPT ![i] = Idle]
  /\ active' = active \ {i}
  /\ UNCHANGED <<now, stateVars, perf, since>>

(* resetHealth, with or without clearPerformance.                          *)
ResetHealth ==
  /\ revision < MaxRevision
  /\ health' = NoHealth
  /\ reason' = "none"
  /\ perf' \in {perf, NoPerf}
  /\ epoch' = epoch + 1
  /\ revision' = revision + 1
  /\ Overtakes(Attempt, "reset")
  /\ UNCHANGED <<now, att, active>>

(* hydrate, on a configuration update or a start, for an account that      *)
(* stays configured: its row recovered after the last failure.             *)
HydrateRecovered ==
  /\ health.state # "none"
  /\ health' = NoHealth
  /\ reason' = "none"
  /\ revision' = revision + 1
  /\ Overtakes(Attempt, "change")

(* hydrate when the row still carries a cooldown the scheduler has         *)
(* forgotten; the revision does not move.                                  *)
HydrateOpened ==
  /\ health.state = "none"
  /\ \E why \in {"quota", "failure"}, wait \in QuotaWindow :
       /\ health' = Opened(IF why = "quota" THEN 0 ELSE 1, now + wait)
       /\ reason' = why
  /\ UNCHANGED <<revision, since>>

(* Live health wins over the row.                                          *)
HydrateKept == UNCHANGED <<health, reason, revision, since>>

(* hydratePerformance follows: logged samples, if there are none yet.      *)
Rehydrated == {perf, [perf EXCEPT !.known = TRUE]}

Hydrate ==
  /\ revision < MaxRevision
  /\ HydrateRecovered \/ HydrateOpened \/ HydrateKept
  /\ perf' \in Rehydrated
  /\ UNCHANGED <<now, epoch, att, active>>

(* isAvailable meets a quota observation without a reset time that has     *)
(* aged: it synthesizes a half-open circuit, without a new revision.       *)
AdmitProbe ==
  /\ health.state = "none"
  /\ health' = [state |-> "half-open", failures |-> 0, until |-> 0]
  /\ reason' = "quota"
  /\ UNCHANGED <<now, revision, epoch, perf, att, active, since>>

(* clear() of a stopping gateway.  Attempts under way lose their permits   *)
(* but may still report; accounts the scheduler knows get a new revision.  *)
Clear ==
  LET known == active # {} \/ health.state # "none" \/ perf.known \/ revision > 0
  IN /\ known
     /\ revision < MaxRevision
     /\ health' = NoHealth
     /\ reason' = "none"
     /\ perf' = NoPerf
     /\ revision' = revision + 1
     /\ active' = {}
     /\ Overtakes(Attempt, "change")
     /\ UNCHANGED <<now, epoch, att>>

Tick ==
  /\ now < MaxTime
  /\ now' = now + 1
  /\ UNCHANGED <<stateVars, perf, att, active, since>>

Next ==
  \/ \E i \in Attempt :
       \/ Select(i)
       \/ \E wait \in QuotaWindow : ExhaustedHeaders(i, wait)
       \/ FreshHeaders(i)
       \/ \E why \in {"quota", "failure"}, retryAfter \in RetryAfter :
            Fails(i, why, retryAfter)
       \/ Succeeds(i) \/ Finishes(i) \/ Abandons(i)
  \/ ResetHealth \/ Hydrate \/ AdmitProbe \/ Clear \/ Tick

Spec == Init /\ [][Next]_vars

-----------------------------------------------------------------------------
Moves(i) == att'[i] # att[i]

(* A failure, a quota observation or a success that is reported late never *)
(* shortens a cooldown: only closing the circuit removes it.  Comment of   *)
(* recordFailure: a generic transport failure must never shorten an        *)
(* already observed quota window.                                          *)
CooldownNeverShortened ==
  [][(health.state # "none" /\ health'.state # "none")
       => health'.until >= health.until]_vars

(* While a quota window runs its reason stays quota, so the recovery paths *)
(* that treat quota and failure differently keep seeing it.                *)
QuotaReasonSticks ==
  [][(reason = "quota" /\ health.until > now /\ health'.state # "none")
       => reason' = "quota"]_vars

(* An explicit reset is final: whatever attempts selected before it report *)
(* afterwards, they change neither the circuit nor the performance.        *)
ResetIsFinal ==
  [][\A i \in Attempt :
       (Moves(i) /\ since[i] = "reset")
       => health' \in {health, AsRead} /\ UNCHANGED <<reason, revision, perf>>]_vars

(* An attempt that another actor has overtaken neither adds a failure      *)
(* penalty nor closes the circuit nor changes the performance, unless a    *)
(* quota window it reported was merged in between.                         *)
StaleOutcomesIgnored ==
  [][\A i \in Attempt :
       (Moves(i) /\ since[i] \in {"change", "reset"})
       => /\ health'.failures <= health.failures
          /\ health.state # "none" => health'.state # "none"
          /\ perf' = perf]_vars

(* The same without the exception.  Comment of setCooldown: a later reset  *)
(* time may extend the circuit without replaying failure/adaptive          *)
(* penalties from the stale attempt.                                       *)
MergeReplaysNothing ==
  [][\A i \in Attempt :
       (Moves(i) /\ since[i] # "nothing")
       => /\ health'.failures <= health.failures
          /\ health.state # "none" => health'.state # "none"
          /\ perf' = perf]_vars
=============================================================================
