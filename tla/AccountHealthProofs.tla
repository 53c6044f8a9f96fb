------------------------- MODULE AccountHealthProofs -------------------------
(***************************************************************************)
(* What holds of an account's health for any number of attempts, any       *)
(* delays and any number of resets: types, cooldowns that only grow and    *)
(* keep their reason, the finality of an explicit reset, and that outcomes *)
(* of overtaken attempts are ignored.  And what holds of its status in the *)
(* store for any number of probes and reports: an account that is being    *)
(* checked has an owner, and a cancelled check gives back what it found.   *)
(***************************************************************************)
EXTENDS SchedulerHealth, AccountProbes, FiniteSetTheorems, SequenceTheorems, TLAPS

(* A power of two counts the subsets of an interval: the delays of the     *)
(* exponential backoff are natural numbers.                                *)
LEMMA PowerOfTwo ==
  ASSUME NEW k \in Nat
  PROVE  2 ^ k \in Nat
<1>1. IsFiniteSet(1..k) /\ Cardinality(1..k) = k
  BY FS_Interval
<1>2. IsFiniteSet(SUBSET (1..k)) /\ Cardinality(SUBSET (1..k)) = 2 ^ k
  BY <1>1, FS_SUBSET
<1>3. QED
  BY <1>2, FS_CardinalityType

(* An attempt that was under way when the account was reset has captured   *)
(* an earlier reset epoch: without this, ResetIsFinal is not inductive.    *)
HealthInv ==
  /\ TypeOK
  /\ \A i \in Attempt :
       /\ att[i].epoch <= epoch
       /\ (att[i].phase # "idle" /\ since[i] = "reset") => att[i].epoch < epoch

(* The backoff of recordFailure is a duration.                             *)
LEMMA BackoffType ==
  ASSUME NEW failures \in Nat \ {0}
  PROVE  Backoff(failures) \in Nat
<1> DEFINE p == 2 ^ Smaller(20, failures - 1)
<1>1. Smaller(20, failures - 1) \in Nat
  BY DEF Smaller
<1>2. p \in Nat
  BY <1>1, PowerOfTwo
<1>3. Backoff(failures) = Smaller(MaxDelay, BaseDelay * p)
  BY DEF Backoff
<1> HIDE DEF p
<1>4. BaseDelay * p \in Nat /\ MaxDelay \in Nat
  BY <1>2, HealthConstants
<1>5. QED
  BY <1>3, <1>4 DEF Smaller

(* What every report to the scheduler guarantees: well-typed health, no    *)
(* attempt marked as reset, and a cooldown that only grows.                *)
Reported ==
  /\ health' \in Health
  /\ reason' \in {"none", "quota", "failure"}
  /\ (health'.state = "none") <=> (reason' = "none")
  /\ revision' \in Nat
  /\ perf' \in Perf
  /\ since' \in [Attempt -> {"nothing", "change", "carried", "reset"}]
  /\ \A j \in Attempt : since'[j] = "reset" => since[j] = "reset"
  /\ (health.state # "none" /\ health'.state # "none")
       => health'.until >= health.until

(* Reading the health keeps its type, its cooldown and whether it exists.  *)
LEMMA AsReadType ==
  ASSUME TypeOK
  PROVE  /\ AsRead \in Health
         /\ AsRead.until = health.until
         /\ (AsRead.state = "none") <=> (health.state = "none")
  BY DEF TypeOK, AsRead, Health

(* An outcome that is not applied reports nothing.                         *)
LEMMA IgnoredReported ==
  ASSUME TypeOK, Ignored
  PROVE  Reported
<1>1. health' = AsRead /\ UNCHANGED <<reason, revision, perf, since>>
  BY DEF Ignored
<1>2. health'.until >= health.until
  BY <1>1, AsReadType DEF TypeOK, Health
<1>3. QED
  BY <1>1, <1>2, AsReadType DEF Reported, TypeOK

(* An attempt's own transition marks the others as overtaken, never as     *)
(* reset.                                                                  *)
LEMMA OvertakesType ==
  ASSUME TypeOK, NEW others, Overtakes(others, "change")
  PROVE  /\ since' \in [Attempt -> {"nothing", "change", "carried", "reset"}]
         /\ \A j \in Attempt : since'[j] = "reset" => since[j] = "reset"
  BY DEF TypeOK, Overtakes

LEMMA MergesType ==
  ASSUME TypeOK, NEW i \in Attempt, Merges(i)
  PROVE  /\ since' \in [Attempt -> {"nothing", "change", "carried", "reset"}]
         /\ \A j \in Attempt : since'[j] = "reset" => since[j] = "reset"
  BY DEF TypeOK, Merges

(* Opening the circuit until a time no earlier than the old cooldown.      *)
LEMMA OpenedReported ==
  ASSUME TypeOK, NEW i \in Attempt, NEW failures \in Nat, NEW until \in Nat,
         until >= health.until,
         health' = Opened(failures, until),
         reason' \in {"quota", "failure"},
         revision' = revision + 1, perf' \in Perf,
         Overtakes(Attempt \ {i}, "change") \/ Merges(i)
  PROVE  Reported
<1>1. /\ health' \in Health
      /\ health'.state = "open"
      /\ health'.until = until
  BY DEF Opened, Health
<1>2. revision' \in Nat
  BY DEF TypeOK
<1>3. /\ since' \in [Attempt -> {"nothing", "change", "carried", "reset"}]
      /\ \A j \in Attempt : since'[j] = "reset" => since[j] = "reset"
  BY OvertakesType, MergesType
<1>4. QED
  BY <1>1, <1>2, <1>3 DEF Reported

(* mergeQuotaCooldown extends, or does nothing.                            *)
LEMMA MergeReported ==
  ASSUME TypeOK, NEW i \in Attempt, NEW until \in Nat, MergeQuotaCooldown(i, until)
  PROVE  Reported
<1>0. health.failures \in Nat /\ health.until \in Nat
  BY DEF TypeOK, Health
<1>1. CASE until <= health.until
  BY <1>1, IgnoredReported DEF MergeQuotaCooldown
<1>2. CASE ~(until <= health.until)
  <2>1. until >= health.until
    BY <1>0, <1>2
  <2>2. /\ health' = Opened(health.failures, until)
        /\ reason' = "quota"
        /\ revision' = revision + 1
        /\ Merges(i)
        /\ perf' = perf
    BY <1>2 DEF MergeQuotaCooldown
  <2>3. perf' \in Perf
    BY <2>2 DEF TypeOK
  <2>4. QED
    BY <1>0, <2>1, <2>2, <2>3, OpenedReported
<1>3. QED
  BY <1>1, <1>2

(* setCooldown.                                                            *)
LEMMA SetCooldownReported ==
  ASSUME TypeOK, NEW i \in Attempt, NEW until \in Nat, SetCooldown(i, until)
  PROVE  Reported
<1>1. CASE att[i].epoch # epoch
  BY <1>1, IgnoredReported DEF SetCooldown
<1>2. CASE att[i].epoch = epoch /\ att[i].rev # revision
  BY <1>2, MergeReported DEF SetCooldown
<1>3. CASE att[i].epoch = epoch /\ att[i].rev = revision
  <2>1. health.failures \in Nat /\ health.until \in Nat
    BY DEF TypeOK, Health
  <2>2. Larger(until, health.until) \in Nat /\ Larger(until, health.until) >= health.until
    BY <2>1 DEF Larger
  <2>3. /\ health' = Opened(health.failures, Larger(until, health.until))
        /\ reason' = "quota"
        /\ revision' = revision + 1
        /\ Overtakes(Attempt \ {i}, "change")
        /\ perf' = perf
    BY <1>3 DEF SetCooldown
  <2>4. perf' \in Perf
    BY <2>3 DEF TypeOK
  <2>5. QED
    BY <2>1, <2>2, <2>3, <2>4, OpenedReported
<1>4. QED
  BY <1>1, <1>2, <1>3

(* recordFailure.                                                          *)
LEMMA RecordFailureReported ==
  ASSUME TypeOK, NEW i \in Attempt, NEW why \in {"quota", "failure"},
         NEW retryAfter \in Nat, RecordFailure(i, why, retryAfter)
  PROVE  Reported
<1> DEFINE until(n) == now + Larger(Backoff(n), retryAfter)
           failures == health.failures + 1
<1>0. /\ health.failures \in Nat
      /\ health.until \in Nat
      /\ now \in Nat
  BY DEF TypeOK, Health
<1>1. ASSUME NEW n \in Nat \ {0} PROVE until(n) \in Nat
  <2>1. Backoff(n) \in Nat
    BY BackoffType
  <2>2. QED
    BY <1>0, <2>1 DEF Larger
<1>2. CASE att[i].epoch # epoch
  BY <1>2, IgnoredReported DEF RecordFailure
<1>3. CASE att[i].epoch = epoch /\ att[i].rev # revision /\ why # "quota"
  BY <1>3, IgnoredReported DEF RecordFailure
<1>4. CASE att[i].epoch = epoch /\ att[i].rev # revision /\ why = "quota"
  <2>1. MergeQuotaCooldown(i, until(Larger(1, health.failures)))
    BY <1>4 DEF RecordFailure
  <2>2. Larger(1, health.failures) \in Nat \ {0}
    BY <1>0 DEF Larger
  <2>3. until(Larger(1, health.failures)) \in Nat
    BY <1>1, <2>2
  <2> HIDE DEF until
  <2>4. QED
    BY <2>1, <2>3, MergeReported
<1>5. CASE att[i].epoch = epoch /\ att[i].rev = revision
  <2>1. /\ health' = Opened(failures, Larger(until(failures), health.until))
        /\ reason' = ReasonAfter(why)
        /\ revision' = revision + 1
        /\ perf' = Halved
        /\ Overtakes(Attempt \ {i}, "change")
    BY <1>5 DEF RecordFailure
  <2>2. failures \in Nat \ {0}
    BY <1>0
  <2>3. until(failures) \in Nat
    BY <1>1, <2>2
  <2> HIDE DEF until, failures
  <2>4. /\ Larger(until(failures), health.until) \in Nat
        /\ Larger(until(failures), health.until) >= health.until
    BY <1>0, <2>3 DEF Larger
  <2>5. reason' \in {"quota", "failure"}
    BY <2>1 DEF ReasonAfter
  <2>6. perf' \in Perf
    BY <2>1, HealthConstants DEF Halved, Perf, Larger, TypeOK
  <2>7. QED
    BY <2>1, <2>2, <2>4, <2>5, <2>6, OpenedReported
<1>6. QED
  BY <1>2, <1>3, <1>4, <1>5

-----------------------------------------------------------------------------
(* The step conditions of CooldownNeverShortened and ResetIsFinal.         *)
NotShortened ==
  (health.state # "none" /\ health'.state # "none")
    => health'.until >= health.until

Final ==
  \A i \in Attempt :
    (Moves(i) /\ since[i] = "reset")
    => health' \in {health, AsRead} /\ UNCHANGED <<reason, revision, perf>>

(* A fresh scheduler satisfies the invariant.                              *)
LEMMA InitHealthInv == Init => HealthInv
  BY HealthConstants
     DEF Init, HealthInv, TypeOK, NoHealth, NoPerf, Idle, Health, Perf, Captured

(* An attempt that reports may forget or keep its capture; the others keep *)
(* theirs, and no report marks an attempt as reset.                        *)
LEMMA ReportKeepsEpochs ==
  ASSUME HealthInv, NEW i \in Attempt, NEW c \in Captured,
         c.epoch <= epoch, c.phase # "idle" => att[i].phase # "idle" /\ c.epoch = att[i].epoch,
         att' = [att EXCEPT ![i] = c], epoch' = epoch,
         \A j \in Attempt : since'[j] = "reset" => since[j] = "reset"
  PROVE  \A j \in Attempt :
           /\ att'[j].epoch <= epoch'
           /\ (att'[j].phase # "idle" /\ since'[j] = "reset") => att'[j].epoch < epoch'
<1> SUFFICES ASSUME NEW j \in Attempt
             PROVE  /\ att'[j].epoch <= epoch'
                    /\ (att'[j].phase # "idle" /\ since'[j] = "reset") => att'[j].epoch < epoch'
  OBVIOUS
<1>1. att'[j] = IF j = i THEN c ELSE att[j]
  BY DEF HealthInv, TypeOK
<1>2. QED
  BY <1>1 DEF HealthInv

(* Every step keeps the invariant, never shortens a cooldown and respects  *)
(* an explicit reset.                                                      *)
LEMMA StepHealthInv ==
  HealthInv /\ [Next]_vars => HealthInv' /\ NotShortened /\ Final
<1> SUFFICES ASSUME HealthInv, [Next]_vars
             PROVE  HealthInv' /\ NotShortened /\ Final
  OBVIOUS
<1>typ. TypeOK
  BY DEF HealthInv
<1>hlt. /\ health \in Health /\ health.until \in Nat /\ health.until >= health.until
        /\ NoHealth \in Health /\ NoPerf \in Perf /\ Idle \in Captured
  BY <1>typ DEF TypeOK, Health, NoHealth, NoPerf, Perf, Idle, Captured
<1>1. ASSUME NEW i \in Attempt, Select(i)
      PROVE  HealthInv' /\ NotShortened /\ Final
  <2> DEFINE c == [phase |-> "running", rev |-> revision, epoch |-> epoch, exhausted |-> 0]
  <2>1. /\ health' = AsRead
        /\ att' = [att EXCEPT ![i] = c]
        /\ active' = active \cup {i}
        /\ since' = [since EXCEPT ![i] = "nothing"]
        /\ UNCHANGED <<now, reason, revision, epoch, perf>>
    BY <1>1 DEF Select
  <2>2. c \in Captured
    BY <1>typ DEF TypeOK, Captured
  <2>3. TypeOK'
    <3>1. /\ health' \in Health
          /\ (health'.state = "none") <=> (reason' = "none")
      BY <1>typ, <2>1, AsReadType DEF TypeOK
    <3>2. /\ att' \in [Attempt -> Captured]
          /\ active' \in SUBSET Attempt
          /\ \A j \in active' : att'[j].phase = "running"
      BY <1>typ, <2>1, <2>2 DEF TypeOK
    <3>3. since' \in [Attempt -> {"nothing", "change", "carried", "reset"}]
      BY <1>typ, <2>1 DEF TypeOK
    <3>4. QED
      BY <1>typ, <2>1, <3>1, <3>2, <3>3 DEF TypeOK
  <2>4. \A j \in Attempt :
          /\ att'[j].epoch <= epoch'
          /\ (att'[j].phase # "idle" /\ since'[j] = "reset") => att'[j].epoch < epoch'
    BY <2>1 DEF HealthInv, TypeOK
  <2>5. NotShortened
    BY <1>typ, <1>hlt, <2>1, AsReadType DEF NotShortened
  <2>6. Final
    BY <2>1 DEF Final
  <2>7. QED
    BY <2>3, <2>4, <2>5, <2>6 DEF HealthInv
<1>2. ASSUME NEW i \in Attempt, NEW wait \in QuotaWindow, ExhaustedHeaders(i, wait)
      PROVE  HealthInv' /\ NotShortened /\ Final
  <2> DEFINE c == [att[i] EXCEPT !.exhausted = now + wait,
                                 !.rev = IF revision' = revision THEN @ ELSE revision']
  <2>1. /\ att[i].phase = "running"
        /\ SetCooldown(i, now + wait)
        /\ att' = [att EXCEPT ![i] = c]
        /\ UNCHANGED <<now, epoch, active>>
    BY <1>2 DEF ExhaustedHeaders
  <2>2. now + wait \in Nat
    BY <1>typ, HealthConstants DEF TypeOK
  <2>3. Reported
    BY <1>typ, <2>1, <2>2, SetCooldownReported
  <2>4. att[i] \in Captured
    BY <1>typ DEF TypeOK
  <2>5. c \in Captured /\ c.phase = att[i].phase /\ c.epoch = att[i].epoch
    BY <1>typ, <2>2, <2>3, <2>4 DEF Reported, TypeOK, Captured
  <2> HIDE DEF c
  <2>6. TypeOK'
    BY <1>typ, <2>1, <2>3, <2>5 DEF TypeOK, Reported
  <2>7. c.epoch <= epoch
    BY <2>5 DEF HealthInv
  <2>8. \A j \in Attempt :
          /\ att'[j].epoch <= epoch'
          /\ (att'[j].phase # "idle" /\ since'[j] = "reset") => att'[j].epoch < epoch'
    BY <2>1, <2>3, <2>5, <2>7, ReportKeepsEpochs DEF Reported
  <2>9. ASSUME NEW j \in Attempt, Moves(j), since[j] = "reset"
        PROVE  health' \in {health, AsRead} /\ UNCHANGED <<reason, revision, perf>>
    <3>1. j = i
      BY <1>typ, <2>1, <2>9 DEF Moves, TypeOK
    <3>2. att[i].epoch # epoch
      BY <1>typ, <2>1, <2>9, <3>1 DEF HealthInv, TypeOK, Captured
    <3>3. QED
      BY <2>1, <3>2 DEF SetCooldown, Ignored
  <2>10. QED
    BY <2>3, <2>6, <2>8, <2>9 DEF HealthInv, NotShortened, Final, Reported
<1>3. ASSUME NEW i \in Attempt, FreshHeaders(i)
      PROVE  HealthInv' /\ NotShortened /\ Final
  <2> DEFINE c == [att[i] EXCEPT !.exhausted = 0]
  <2>1. /\ att' = [att EXCEPT ![i] = c]
        /\ UNCHANGED <<now, stateVars, perf, active, since>>
    BY <1>3 DEF FreshHeaders
  <2>2. c \in Captured /\ c.phase = att[i].phase /\ c.epoch = att[i].epoch
    <3>1. att[i] \in Captured
      BY <1>typ DEF TypeOK
    <3>2. QED
      BY <3>1 DEF Captured
  <2> HIDE DEF c
  <2>3. TypeOK'
    BY <1>typ, <2>1, <2>2 DEF TypeOK, stateVars
  <2>4. \A j \in Attempt :
          /\ att'[j].epoch <= epoch'
          /\ (att'[j].phase # "idle" /\ since'[j] = "reset") => att'[j].epoch < epoch'
    BY <1>typ, <2>1, <2>2 DEF HealthInv, TypeOK, stateVars
  <2>5. QED
    BY <1>hlt, <2>1, <2>3, <2>4 DEF HealthInv, NotShortened, Final, stateVars
<1>4. ASSUME NEW i \in Attempt, NEW why \in {"quota", "failure"},
             NEW retryAfter \in RetryAfter, Fails(i, why, retryAfter)
      PROVE  HealthInv' /\ NotShortened /\ Final
  <2>1. /\ att[i].phase = "running"
        /\ RecordFailure(i, why, retryAfter)
        /\ att' = [att EXCEPT ![i] = Idle]
        /\ active' = active \ {i}
        /\ UNCHANGED <<now, epoch>>
    BY <1>4 DEF Fails
  <2>2. Reported
    BY <1>typ, <2>1, RecordFailureReported, HealthConstants
  <2>3. TypeOK'
    BY <1>typ, <1>hlt, <2>1, <2>2 DEF TypeOK, Reported
  <2>4. Idle.epoch <= epoch /\ Idle.phase = "idle"
    BY <1>typ DEF Idle, TypeOK
  <2>5. \A j \in Attempt :
          /\ att'[j].epoch <= epoch'
          /\ (att'[j].phase # "idle" /\ since'[j] = "reset") => att'[j].epoch < epoch'
    BY <1>hlt, <2>1, <2>2, <2>4, ReportKeepsEpochs DEF Reported
  <2>6. ASSUME NEW j \in Attempt, Moves(j), since[j] = "reset"
        PROVE  health' \in {health, AsRead} /\ UNCHANGED <<reason, revision, perf>>
    <3>1. j = i
      BY <1>typ, <2>1, <2>6 DEF Moves, TypeOK
    <3>2. att[i].epoch # epoch
      BY <1>typ, <2>1, <2>6, <3>1 DEF HealthInv, TypeOK, Captured
    <3>3. QED
      BY <2>1, <3>2 DEF RecordFailure, Ignored
  <2>7. QED
    BY <2>2, <2>3, <2>5, <2>6 DEF HealthInv, NotShortened, Final, Reported
<1>5. ASSUME NEW i \in Attempt, Succeeds(i)
      PROVE  HealthInv' /\ NotShortened /\ Final
  <2>1. /\ att[i].phase = "running"
        /\ active' = active \ {i}
        /\ UNCHANGED <<now, epoch, perf>>
    BY <1>5 DEF Succeeds
  <2>2. CASE att[i].exhausted > now \/ Superseded(i)
    <3>1. /\ att' = [att EXCEPT ![i] = Idle]
          /\ health' \in {health, AsRead}
          /\ UNCHANGED <<reason, revision, since>>
      BY <1>5, <2>2 DEF Succeeds
    <3>2. TypeOK'
      BY <1>typ, <1>hlt, <2>1, <3>1, AsReadType DEF TypeOK
    <3>3. Idle.epoch <= epoch /\ Idle.phase = "idle"
      BY <1>typ DEF Idle, TypeOK
    <3>4. \A j \in Attempt :
            /\ att'[j].epoch <= epoch'
            /\ (att'[j].phase # "idle" /\ since'[j] = "reset") => att'[j].epoch < epoch'
      BY <1>hlt, <2>1, <3>1, <3>3, ReportKeepsEpochs
    <3>5. NotShortened
      BY <1>typ, <1>hlt, <3>1, AsReadType DEF NotShortened
    <3>6. QED
      BY <2>1, <3>1, <3>2, <3>4, <3>5 DEF HealthInv, Final
  <2>3. CASE ~(att[i].exhausted > now \/ Superseded(i))
    <3> DEFINE c == [att[i] EXCEPT !.phase = "reported", !.rev = revision']
    <3>1. /\ health' = NoHealth
          /\ reason' = "none"
          /\ \/ UNCHANGED <<revision, since>>
             \/ revision' = revision + 1 /\ Overtakes(Attempt \ {i}, "change")
          /\ att' = [att EXCEPT ![i] = c]
      BY <1>5, <2>3 DEF Succeeds
    <3>2. /\ revision' \in Nat
          /\ since' \in [Attempt -> {"nothing", "change", "carried", "reset"}]
          /\ \A j \in Attempt : since'[j] = "reset" => since[j] = "reset"
      BY <1>typ, <3>1, OvertakesType DEF TypeOK
    <3>3. c \in Captured /\ c.epoch = att[i].epoch /\ c.phase = "reported"
      <4>1. att[i] \in Captured
        BY <1>typ DEF TypeOK
      <4>2. QED
        BY <3>2, <4>1 DEF Captured
    <3> HIDE DEF c
    <3>4. \A j \in active' : att'[j].phase = "running"
      BY <1>typ, <2>1, <3>1 DEF TypeOK
    <3>5. TypeOK'
      BY <1>typ, <1>hlt, <2>1, <3>1, <3>2, <3>3, <3>4 DEF TypeOK, NoHealth
    <3>6. c.epoch <= epoch
      BY <3>3 DEF HealthInv
    <3>7. \A j \in Attempt :
            /\ att'[j].epoch <= epoch'
            /\ (att'[j].phase # "idle" /\ since'[j] = "reset") => att'[j].epoch < epoch'
      BY <2>1, <3>1, <3>2, <3>3, <3>6, ReportKeepsEpochs
    <3>8. ASSUME NEW j \in Attempt, Moves(j), since[j] = "reset"
          PROVE  FALSE
      <4>1. j = i
        BY <1>typ, <3>1, <3>8 DEF Moves, TypeOK
      <4>2. QED
        BY <1>typ, <2>1, <2>3, <3>8, <4>1 DEF HealthInv, TypeOK, Captured, Superseded
    <3>9. QED
      BY <3>1, <3>5, <3>7, <3>8 DEF HealthInv, NotShortened, Final, NoHealth
  <2>4. QED
    BY <2>2, <2>3
<1>6. ASSUME NEW i \in Attempt, Finishes(i)
      PROVE  HealthInv' /\ NotShortened /\ Final
  <2>1. /\ att[i].phase = "reported"
        /\ perf' = IF Superseded(i) THEN perf ELSE Observed
        /\ att' = [att EXCEPT ![i] = Idle]
        /\ UNCHANGED <<now, stateVars, active, since>>
    BY <1>6 DEF Finishes
  <2>2. perf' \in Perf
    BY <1>typ, <2>1 DEF TypeOK, Observed, Perf
  <2>3. TypeOK'
    BY <1>typ, <1>hlt, <2>1, <2>2 DEF TypeOK, stateVars
  <2>4. Idle.epoch <= epoch /\ Idle.phase = "idle"
    BY <1>typ DEF Idle, TypeOK
  <2>5. \A j \in Attempt :
          /\ att'[j].epoch <= epoch'
          /\ (att'[j].phase # "idle" /\ since'[j] = "reset") => att'[j].epoch < epoch'
    BY <1>hlt, <2>1, <2>4, ReportKeepsEpochs DEF stateVars
  <2>6. ASSUME NEW j \in Attempt, Moves(j), since[j] = "reset"
        PROVE  perf' = perf
    <3>1. j = i
      BY <1>typ, <2>1, <2>6 DEF Moves, TypeOK
    <3>2. Superseded(i)
      BY <1>typ, <2>1, <2>6, <3>1 DEF HealthInv, TypeOK, Captured, Superseded
    <3>3. QED
      BY <2>1, <3>2
  <2>7. QED
    BY <1>hlt, <2>1, <2>3, <2>5, <2>6 DEF HealthInv, NotShortened, Final, stateVars
<1>7. ASSUME NEW i \in Attempt, Abandons(i)
      PROVE  HealthInv' /\ NotShortened /\ Final
  <2>1. /\ att' = [att EXCEPT ![i] = Idle]
        /\ active' = active \ {i}
        /\ UNCHANGED <<now, stateVars, perf, since>>
    BY <1>7 DEF Abandons
  <2>2. TypeOK'
    BY <1>typ, <1>hlt, <2>1 DEF TypeOK, stateVars
  <2>3. Idle.epoch <= epoch /\ Idle.phase = "idle"
    BY <1>typ DEF Idle, TypeOK
  <2>4. \A j \in Attempt :
          /\ att'[j].epoch <= epoch'
          /\ (att'[j].phase # "idle" /\ since'[j] = "reset") => att'[j].epoch < epoch'
    BY <1>hlt, <2>1, <2>3, ReportKeepsEpochs DEF stateVars
  <2>5. QED
    BY <1>hlt, <2>1, <2>2, <2>4 DEF HealthInv, NotShortened, Final, stateVars
<1>8. ASSUME ResetHealth
      PROVE  HealthInv' /\ NotShortened /\ Final
  <2>1. /\ health' = NoHealth
        /\ reason' = "none"
        /\ perf' \in {perf, NoPerf}
        /\ epoch' = epoch + 1
        /\ revision' = revision + 1
        /\ Overtakes(Attempt, "reset")
        /\ UNCHANGED <<now, att, active>>
    BY <1>8 DEF ResetHealth
  <2>2. TypeOK'
    BY <1>typ, <1>hlt, <2>1 DEF TypeOK, Overtakes, NoHealth
  <2>3. \A j \in Attempt :
          /\ att'[j].epoch <= epoch'
          /\ (att'[j].phase # "idle" /\ since'[j] = "reset") => att'[j].epoch < epoch'
    BY <1>typ, <2>1 DEF HealthInv, TypeOK, Captured
  <2>4. QED
    BY <2>1, <2>2, <2>3 DEF HealthInv, NotShortened, Final, Moves, NoHealth
<1>9. ASSUME HydrateRecovered \/ Clear, epoch' = epoch, att' = att, now' = now,
             perf' \in Rehydrated \cup {NoPerf}, active' \in {active, {}}
      PROVE  HealthInv' /\ NotShortened /\ Final
  <2>1. /\ health' = NoHealth
        /\ reason' = "none"
        /\ revision' = revision + 1
        /\ Overtakes(Attempt, "change")
    BY <1>9 DEF HydrateRecovered, Clear
  <2>2. perf' \in Perf
    <3>1. NoPerf \in Perf
      BY DEF NoPerf, Perf
    <3>2. CASE perf' \in Rehydrated
      BY <1>typ, <3>2 DEF TypeOK, Perf, Rehydrated
    <3>3. QED
      BY <1>9, <3>1, <3>2
  <2>3. TypeOK'
    BY <1>typ, <1>hlt, <1>9, <2>1, <2>2, OvertakesType DEF TypeOK, NoHealth
  <2>4. \A j \in Attempt :
          /\ att'[j].epoch <= epoch'
          /\ (att'[j].phase # "idle" /\ since'[j] = "reset") => att'[j].epoch < epoch'
    BY <1>typ, <1>9, <2>1, OvertakesType DEF HealthInv
  <2>5. QED
    BY <1>9, <2>1, <2>3, <2>4 DEF HealthInv, NotShortened, Final, Moves, NoHealth
<1>10. ASSUME Hydrate \/ AdmitProbe, ~HydrateRecovered
       PROVE  HealthInv' /\ NotShortened /\ Final
  <2>1. /\ UNCHANGED <<now, epoch, att, active, revision, since>>
        /\ perf' \in Rehydrated
    BY <1>10 DEF Hydrate, AdmitProbe, HydrateOpened, HydrateKept, Rehydrated
  <2>2. perf' \in Perf
    BY <1>typ, <2>1 DEF TypeOK, Perf, Rehydrated
  <2>3. \/ UNCHANGED <<health, reason>>
        \/ /\ health.state = "none"
           /\ health' \in Health /\ health'.state # "none"
           /\ reason' \in {"quota", "failure"}
    <3>1. CASE HydrateOpened
      <4>1. PICK why \in {"quota", "failure"}, wait \in QuotaWindow :
              /\ health' = Opened(IF why = "quota" THEN 0 ELSE 1, now + wait)
              /\ reason' = why
        BY <3>1 DEF HydrateOpened
      <4>2. now + wait \in Nat
        BY <1>typ, HealthConstants DEF TypeOK
      <4>3. QED
        BY <3>1, <4>1, <4>2 DEF HydrateOpened, Opened, Health
    <3>2. QED
      BY <1>10, <3>1 DEF Hydrate, HydrateKept, AdmitProbe, Health
  <2>4. TypeOK'
    BY <1>typ, <1>hlt, <2>1, <2>2, <2>3 DEF TypeOK
  <2>5. QED
    BY <1>hlt, <2>1, <2>3, <2>4 DEF HealthInv, NotShortened, Final, Moves
<1>11. CASE Tick \/ UNCHANGED vars
  <2>1. UNCHANGED <<stateVars, perf, att, active, since>> /\ now' \in Nat
    BY <1>typ, <1>11 DEF Tick, vars, TypeOK
  <2>2. TypeOK'
    BY <1>typ, <2>1 DEF TypeOK, stateVars
  <2>3. QED
    BY <1>hlt, <2>1, <2>2 DEF HealthInv, NotShortened, Final, Moves, stateVars
<1>12. Hydrate /\ HydrateRecovered => HealthInv' /\ NotShortened /\ Final
  BY <1>9 DEF Hydrate
<1>13. Clear => HealthInv' /\ NotShortened /\ Final
  BY <1>9 DEF Clear
<1>14. AdmitProbe => ~HydrateRecovered
  BY DEF AdmitProbe, HydrateRecovered
<1>15. (Hydrate \/ AdmitProbe) => HealthInv' /\ NotShortened /\ Final
  BY <1>10, <1>12, <1>14
<1>16. QED
  BY <1>1, <1>2, <1>3, <1>4, <1>5, <1>6, <1>7, <1>8, <1>11, <1>13, <1>15 DEF Next

-----------------------------------------------------------------------------
(* Health, performance and captured generations are well typed in every    *)
(* state; a reason is recorded exactly while the account has health.       *)
THEOREM HealthTypeCorrect == Spec => []TypeOK
<1>1. HealthInv => TypeOK
  BY DEF HealthInv
<1>2. HealthInv /\ [Next]_vars => HealthInv'
  BY StepHealthInv
<1>3. QED
  BY <1>1, <1>2, InitHealthInv, PTL DEF Spec

(* No report of any attempt shortens a cooldown, whatever the delays, the  *)
(* order of the reports and the resets in between.                         *)
THEOREM CooldownsGrow == Spec => CooldownNeverShortened
<1>1. HealthInv /\ [Next]_vars => HealthInv' /\ NotShortened
  BY StepHealthInv
<1>2. NotShortened =>
        [(health.state # "none" /\ health'.state # "none")
           => health'.until >= health.until]_vars
  BY DEF NotShortened
<1>3. QED
  BY <1>1, <1>2, InitHealthInv, PTL DEF Spec, CooldownNeverShortened

(* No attempt selected before an explicit reset changes the account after  *)
(* it, for any number of attempts and resets.                              *)
THEOREM ResetsAreFinal == Spec => ResetIsFinal
<1>1. HealthInv /\ [Next]_vars => HealthInv' /\ Final
  BY StepHealthInv
<1>2. Final =>
        [\A i \in Attempt :
           (Moves(i) /\ since[i] = "reset")
           => health' \in {health, AsRead} /\ UNCHANGED <<reason, revision, perf>>]_vars
  BY DEF Final
<1>3. QED
  BY <1>1, <1>2, InitHealthInv, PTL DEF Spec, ResetIsFinal
-----------------------------------------------------------------------------
(* What a report does, by the generation its attempt carries.              *)

MergedInto(i) ==
  /\ att[i].epoch = epoch /\ att[i].rev # revision
  /\ health'.state = "open" /\ health'.failures = health.failures
  /\ reason' = "quota" /\ revision' = revision + 1 /\ perf' = perf
  /\ Merges(i)

AppliedFor(i) ==
  /\ att[i].epoch = epoch /\ att[i].rev = revision
  /\ health'.state = "open"
  /\ reason = "quota" /\ health.until > now => reason' = "quota"
  /\ revision' = revision + 1
  /\ Overtakes(Attempt \ {i}, "change")

LEMMA MergeOutcome ==
  ASSUME NEW i \in Attempt, NEW until, MergeQuotaCooldown(i, until),
         att[i].epoch = epoch, att[i].rev # revision
  PROVE  Ignored \/ MergedInto(i)
  BY DEF MergeQuotaCooldown, MergedInto, Opened

LEMMA SetCooldownOutcome ==
  ASSUME NEW i \in Attempt, NEW until, SetCooldown(i, until)
  PROVE  Ignored \/ MergedInto(i) \/ AppliedFor(i)
<1>1. CASE att[i].epoch # epoch
  BY <1>1 DEF SetCooldown
<1>2. CASE att[i].epoch = epoch /\ att[i].rev # revision
  BY <1>2, MergeOutcome DEF SetCooldown
<1>3. CASE att[i].epoch = epoch /\ att[i].rev = revision
  BY <1>3 DEF SetCooldown, AppliedFor, Opened
<1>4. QED
  BY <1>1, <1>2, <1>3

LEMMA RecordFailureOutcome ==
  ASSUME NEW i \in Attempt, NEW why, NEW retryAfter, RecordFailure(i, why, retryAfter)
  PROVE  Ignored \/ MergedInto(i) \/ AppliedFor(i)
<1>1. CASE att[i].epoch # epoch
  BY <1>1 DEF RecordFailure
<1>2. CASE att[i].epoch = epoch /\ att[i].rev # revision
  <2>1. Ignored \/ \E until : MergeQuotaCooldown(i, until)
    BY <1>2 DEF RecordFailure
  <2>2. QED
    BY <1>2, <2>1, MergeOutcome
<1>3. CASE att[i].epoch = epoch /\ att[i].rev = revision
  BY <1>3 DEF RecordFailure, AppliedFor, Opened, ReasonAfter
<1>4. QED
  BY <1>1, <1>2, <1>3
-----------------------------------------------------------------------------
(* An attempt that has been overtaken carries an old generation.           *)

Behind(r, e, c) == c.rev < r \/ c.epoch < e

OvertakenInv ==
  /\ HealthInv
  /\ \A i \in Attempt :
       /\ att[i].rev <= revision
       /\ (att[i].phase # "idle" /\ since[i] \in {"change", "reset"}) => Behind(revision, epoch, att[i])

QuotaKept ==
  (reason = "quota" /\ health.until > now /\ health'.state # "none") => reason' = "quota"

StaleIgnored ==
  \A i \in Attempt :
    (Moves(i) /\ since[i] \in {"change", "reset"})
    => /\ health'.failures <= health.failures
       /\ health.state # "none" => health'.state # "none"
       /\ perf' = perf

LEMMA InitOvertakenInv == Init => OvertakenInv
  BY InitHealthInv DEF Init, OvertakenInv, Idle

(* A report of attempt i, which keeps what it captured except that its own *)
(* transition carries its revision on, or which it ends with.              *)
LEMMA ReportOvertakes ==
  ASSUME OvertakenInv, NEW i \in Attempt, att[i].phase # "idle",
         Ignored \/ MergedInto(i) \/ AppliedFor(i),
         UNCHANGED epoch, NEW c \in Captured, att' = [att EXCEPT ![i] = c],
         c.phase = "idle" \/ c.epoch = att[i].epoch,
         c.rev \in {0, revision'} \/ (c.rev = att[i].rev /\ revision' = revision),
         c.phase # "idle" => c.rev = IF revision' = revision THEN att[i].rev ELSE revision'
  PROVE  /\ \A j \in Attempt :
              /\ att'[j].rev <= revision'
              /\ (att'[j].phase # "idle" /\ since'[j] \in {"change", "reset"})
                   => Behind(revision', epoch', att'[j])
         /\ QuotaKept /\ StaleIgnored
<1>1. /\ TypeOK /\ att \in [Attempt -> Captured] /\ revision \in Nat /\ epoch \in Nat
      /\ health \in Health /\ health.failures \in Nat /\ c.rev \in Nat /\ c.epoch \in Nat
      /\ \A j \in Attempt : /\ att'[j] = IF j = i THEN c ELSE att[j]
                            /\ att[j].rev \in Nat /\ att[j].epoch \in Nat
                            /\ att[j].rev <= revision /\ att[j].epoch <= epoch
                            /\ (att[j].phase # "idle" /\ since[j] \in {"change", "reset"})
                                 => Behind(revision, epoch, att[j])
  BY DEF OvertakenInv, HealthInv, TypeOK, Health, Captured
<1>2. \A j \in Attempt : Moves(j) => j = i
  BY <1>1 DEF Moves
<1>3. CASE Ignored
  <2>1. health' = AsRead /\ UNCHANGED <<reason, revision, perf, since>>
    BY <1>3 DEF Ignored
  <2>2. AsRead.failures = health.failures /\ (health.state # "none" => AsRead.state # "none")
        /\ (reason = "quota" => health.state # "none")
    BY <1>1 DEF AsRead, Health, TypeOK
  <2>3. QuotaKept /\ StaleIgnored
    BY <1>1, <2>1, <2>2 DEF QuotaKept, StaleIgnored
  <2>4. c.phase # "idle" => c.rev = att[i].rev
    BY <2>1
  <2>5. c.rev <= revision
    BY <1>1, <2>1
  <2>6. QED
    BY <1>1, <2>1, <2>3, <2>4, <2>5 DEF Behind
<1>4. CASE MergedInto(i)
  <2>1. /\ att[i].epoch = epoch /\ health'.state = "open" /\ health'.failures = health.failures
        /\ reason' = "quota" /\ revision' = revision + 1 /\ perf' = perf
        /\ since' = [j \in Attempt |->
                       IF att[j].phase = "idle" \/ since[j] = "reset" THEN since[j]
                       ELSE IF j # i THEN "change"
                       ELSE IF since[i] = "change" THEN "carried" ELSE since[i]]
    BY <1>4 DEF MergedInto, Merges
  <2>2. QuotaKept /\ StaleIgnored
    BY <1>1, <2>1 DEF QuotaKept, StaleIgnored
  <2>3. QED
    <3>1. ASSUME NEW j \in Attempt, j # i
          PROVE  /\ att'[j].rev <= revision'
                 /\ (att'[j].phase # "idle" /\ since'[j] \in {"change", "reset"})
                      => Behind(revision', epoch', att'[j])
      BY <1>1, <2>1, <3>1 DEF Behind
    <3>2. att'[i].rev <= revision' /\ att'[i].phase = c.phase
      BY <1>1, <2>1
    <3>3. ASSUME c.phase # "idle" PROVE since'[i] \notin {"change", "reset"}
      <4>1. since[i] # "reset"
        BY <2>1 DEF OvertakenInv, HealthInv, TypeOK, Captured
      <4>2. since'[i] = IF since[i] = "change" THEN "carried" ELSE since[i]
        BY <2>1, <4>1
      <4>3. QED
        BY <4>1, <4>2
    <3>4. QED
      BY <2>2, <3>1, <3>2, <3>3
<1>5. CASE AppliedFor(i)
  <2>1. /\ att[i].epoch = epoch /\ att[i].rev = revision /\ health'.state = "open"
        /\ reason = "quota" /\ health.until > now => reason' = "quota"
        /\ revision' = revision + 1
        /\ since' = [j \in Attempt |->
                       IF j \in Attempt \ {i} /\ att[j].phase # "idle" /\ since[j] # "reset"
                         THEN "change" ELSE since[j]]
    BY <1>5 DEF AppliedFor, Overtakes
  <2>2. since[i] \notin {"change", "reset"} /\ since'[i] = since[i]
    BY <1>1, <2>1 DEF Behind
  <2>3. QuotaKept /\ StaleIgnored
    BY <1>2, <2>1, <2>2 DEF QuotaKept, StaleIgnored
  <2>4. ASSUME NEW j \in Attempt, j # i
        PROVE  /\ att'[j].rev <= revision'
               /\ (att'[j].phase # "idle" /\ since'[j] \in {"change", "reset"})
                    => Behind(revision', epoch', att'[j])
    BY <1>1, <2>1, <2>4 DEF Behind
  <2>5. att'[i].rev <= revision'
    BY <1>1, <2>1
  <2>6. QED
    BY <2>2, <2>3, <2>4, <2>5
<1>6. QED
  BY <1>3, <1>4, <1>5

(* Whatever else changes the account moves the revision or is no report.   *)
LEMMA OthersOvertake ==
  ASSUME OvertakenInv, UNCHANGED att,
         \/ UNCHANGED <<revision, epoch, since>>
         \/ revision' = revision + 1 /\ epoch' \in {epoch, epoch + 1}
  PROVE  /\ \A j \in Attempt :
              /\ att'[j].rev <= revision'
              /\ (att'[j].phase # "idle" /\ since'[j] \in {"change", "reset"})
                   => Behind(revision', epoch', att'[j])
         /\ StaleIgnored
<1>1. /\ revision \in Nat /\ epoch \in Nat
      /\ \A j \in Attempt : /\ att[j].rev \in Nat /\ att[j].epoch \in Nat
                            /\ att[j].rev <= revision
                            /\ (att[j].phase # "idle" /\ since[j] \in {"change", "reset"})
                                 => Behind(revision, epoch, att[j])
  BY DEF OvertakenInv, HealthInv, TypeOK, Captured
<1>2. StaleIgnored
  BY DEF StaleIgnored, Moves
<1>3. CASE UNCHANGED <<revision, epoch, since>>
  BY <1>1, <1>2, <1>3
<1>4. CASE revision' = revision + 1 /\ epoch' \in {epoch, epoch + 1}
  <2>1. \A j \in Attempt : att'[j].rev < revision'
    BY <1>1, <1>4
  <2>2. QED
    BY <1>1, <1>2, <1>4, <2>1 DEF Behind
<1>5. QED
  BY <1>3, <1>4

LEMMA StepOvertakenInv ==
  OvertakenInv /\ [Next]_vars => OvertakenInv' /\ QuotaKept /\ StaleIgnored
<1> SUFFICES ASSUME OvertakenInv, [Next]_vars
             PROVE  OvertakenInv' /\ QuotaKept /\ StaleIgnored
  OBVIOUS
<1> DEFINE Goal == /\ \A j \in Attempt :
                        /\ att'[j].rev <= revision'
                        /\ (att'[j].phase # "idle" /\ since'[j] \in {"change", "reset"})
                             => Behind(revision', epoch', att'[j])
                   /\ QuotaKept /\ StaleIgnored
<1>1. /\ HealthInv /\ TypeOK /\ att \in [Attempt -> Captured] /\ revision \in Nat /\ epoch \in Nat
      /\ health \in Health /\ health.failures \in Nat /\ now \in Nat
      /\ reason = "quota" => health.state # "none"
      /\ \A j \in Attempt : /\ att[j].rev \in Nat /\ att[j].epoch \in Nat
                            /\ att[j].rev <= revision /\ att[j].epoch <= epoch
                            /\ (att[j].phase # "idle" /\ since[j] \in {"change", "reset"})
                                 => Behind(revision, epoch, att[j])
  BY DEF OvertakenInv, HealthInv, TypeOK, Health, Captured
<1>2. /\ AsRead.failures = health.failures
      /\ health.state # "none" => AsRead.state # "none"
      /\ Idle \in Captured /\ Idle.rev = 0 /\ Idle.phase = "idle"
      /\ NoHealth.state = "none"
  BY <1>1 DEF AsRead, Health, Idle, Captured, NoHealth
<1>3. ASSUME NEW i \in Attempt, Select(i) PROVE Goal
  <2> DEFINE c == [phase |-> "running", rev |-> revision, epoch |-> epoch, exhausted |-> 0]
  <2>1. /\ health' = AsRead /\ att' = [att EXCEPT ![i] = c]
        /\ since' = [since EXCEPT ![i] = "nothing"]
        /\ UNCHANGED <<reason, revision, epoch, perf>>
    BY <1>3 DEF Select
  <2>2. c.rev = revision
    OBVIOUS
  <2> HIDE DEF c
  <2>3. QuotaKept /\ StaleIgnored
    BY <1>1, <1>2, <2>1 DEF QuotaKept, StaleIgnored
  <2>4. \A j \in Attempt : /\ since'[j] = IF j = i THEN "nothing" ELSE since[j]
                           /\ att'[j] = IF j = i THEN c ELSE att[j]
    BY <1>1, <2>1 DEF TypeOK
  <2>5. QED
    BY <1>1, <2>1, <2>2, <2>3, <2>4
<1>4. ASSUME NEW i \in Attempt, NEW wait \in QuotaWindow, ExhaustedHeaders(i, wait) PROVE Goal
  <2> DEFINE c == [att[i] EXCEPT !.exhausted = now + wait,
                                 !.rev = IF revision' = revision THEN @ ELSE revision']
  <2>1. /\ att[i].phase = "running" /\ SetCooldown(i, now + wait)
        /\ att' = [att EXCEPT ![i] = c] /\ UNCHANGED epoch
    BY <1>4 DEF ExhaustedHeaders
  <2>2. Ignored \/ MergedInto(i) \/ AppliedFor(i)
    BY <2>1, SetCooldownOutcome
  <2>3. revision' \in Nat /\ now + wait \in Nat /\ att[i] \in Captured
    BY <1>1, <2>2, HealthConstants DEF Ignored, MergedInto, AppliedFor
  <2>4. c \in Captured /\ c.epoch = att[i].epoch
        /\ c.rev = IF revision' = revision THEN att[i].rev ELSE revision'
    BY <2>3 DEF Captured
  <2> HIDE DEF c
  <2>5. att[i].phase # "idle"
    BY <2>1
  <2>6. c.rev \in {0, revision'} \/ (c.rev = att[i].rev /\ revision' = revision)
    BY <2>4
  <2>7. QED
    BY <2>1, <2>2, <2>4, <2>5, <2>6, ReportOvertakes
<1>5. ASSUME NEW i \in Attempt, NEW why \in {"quota", "failure"}, NEW retryAfter \in RetryAfter,
             Fails(i, why, retryAfter)
      PROVE  Goal
  <2>1. /\ att[i].phase # "idle" /\ RecordFailure(i, why, retryAfter)
        /\ att' = [att EXCEPT ![i] = Idle] /\ UNCHANGED epoch
    BY <1>5 DEF Fails
  <2>2. Ignored \/ MergedInto(i) \/ AppliedFor(i)
    BY <2>1, RecordFailureOutcome
  <2>3. QED
    BY <1>2, <2>1, <2>2, ReportOvertakes
<1>6. ASSUME NEW i \in Attempt, FreshHeaders(i) PROVE Goal
  <2> DEFINE c == [att[i] EXCEPT !.exhausted = 0]
  <2>1. /\ att' = [att EXCEPT ![i] = c] /\ UNCHANGED <<stateVars, perf, since>>
    BY <1>6 DEF FreshHeaders
  <2>2. c.phase = att[i].phase /\ c.epoch = att[i].epoch /\ c.rev = att[i].rev
    BY <1>1 DEF Captured
  <2> HIDE DEF c
  <2>3. \A j \in Attempt : /\ att'[j].phase = att[j].phase /\ att'[j].epoch = att[j].epoch
                           /\ att'[j].rev = att[j].rev
    BY <1>1, <2>1, <2>2
  <2>4. QED
    BY <1>1, <2>1, <2>3 DEF stateVars, QuotaKept, StaleIgnored, Behind
<1>7. ASSUME NEW i \in Attempt, Succeeds(i) PROVE Goal
  <2>1. att[i].phase = "running" /\ UNCHANGED <<epoch, perf>>
    BY <1>7 DEF Succeeds
  <2>2. CASE att[i].exhausted > now \/ Superseded(i)
    <3>1. /\ att' = [att EXCEPT ![i] = Idle] /\ health' \in {health, AsRead}
          /\ UNCHANGED <<reason, revision, since>>
      BY <1>7, <2>2 DEF Succeeds
    <3>2. \A j \in Attempt : att'[j] = IF j = i THEN Idle ELSE att[j]
      BY <1>1, <3>1
    <3>3. QuotaKept /\ StaleIgnored
      BY <1>1, <1>2, <2>1, <3>1 DEF QuotaKept, StaleIgnored
    <3>4. QED
      BY <1>1, <1>2, <2>1, <3>1, <3>2, <3>3
  <2>3. CASE ~(att[i].exhausted > now \/ Superseded(i))
    <3> DEFINE c == [att[i] EXCEPT !.phase = "reported", !.rev = revision']
    <3>1. /\ health' = NoHealth /\ reason' = "none" /\ att' = [att EXCEPT ![i] = c]
          /\ \/ UNCHANGED <<revision, since>>
             \/ revision' = revision + 1 /\ Overtakes(Attempt \ {i}, "change")
      BY <1>7, <2>3 DEF Succeeds
    <3>2. c.rev = revision' /\ c.epoch = att[i].epoch
      BY <1>1 DEF Captured
    <3> HIDE DEF c
    <3>3. att[i].rev = revision /\ att[i].epoch = epoch
      BY <2>3 DEF Superseded
    <3>4. since[i] \notin {"change", "reset"} /\ since'[i] = since[i]
      BY <1>1, <2>1, <3>1, <3>3 DEF Behind, Overtakes
    <3>5. \A j \in Attempt : att'[j] = IF j = i THEN c ELSE att[j]
      BY <1>1, <3>1
    <3>6. \A j \in Attempt : Moves(j) => j = i
      BY <3>5 DEF Moves
    <3>7. QuotaKept /\ StaleIgnored
      BY <1>2, <3>1, <3>4, <3>6 DEF QuotaKept, StaleIgnored
    <3>8. ASSUME NEW j \in Attempt, j # i
          PROVE  /\ att'[j].rev <= revision'
                 /\ (att'[j].phase # "idle" /\ since'[j] \in {"change", "reset"})
                      => Behind(revision', epoch', att'[j])
      <4>1. att'[j] = att[j]
        BY <3>5, <3>8
      <4>2. CASE revision' = revision + 1
        BY <1>1, <2>1, <4>1, <4>2 DEF Behind
      <4>3. CASE UNCHANGED <<revision, since>>
        BY <1>1, <2>1, <4>1, <4>3
      <4>4. QED
        BY <3>1, <4>2, <4>3
    <3>9. att'[i].rev <= revision'
      <4>1. revision' \in Nat /\ att'[i] = c
        BY <1>1, <3>1, <3>5
      <4>2. QED
        BY <3>2, <4>1
    <3>10. QED
      BY <3>4, <3>7, <3>8, <3>9
  <2>4. QED
    BY <2>2, <2>3
<1>8. ASSUME NEW i \in Attempt, Finishes(i) \/ Abandons(i) PROVE Goal
  <2>1. /\ att' = [att EXCEPT ![i] = Idle] /\ att[i].phase # "idle"
        /\ UNCHANGED <<health, reason, revision, epoch, since>>
        /\ Superseded(i) => perf' = perf \/ Finishes(i)
    BY <1>8 DEF Finishes, Abandons, stateVars
  <2>2. \A j \in Attempt : att'[j] = IF j = i THEN Idle ELSE att[j]
    BY <1>1, <2>1
  <2>3. since[i] \in {"change", "reset"} => Superseded(i)
    BY <1>1, <2>1 DEF Superseded, Behind
  <2>4. since[i] \in {"change", "reset"} => perf' = perf
    BY <1>8, <2>3 DEF Finishes, Abandons
  <2>5. QuotaKept /\ StaleIgnored
    BY <1>1, <2>1, <2>2, <2>4 DEF QuotaKept, StaleIgnored, Moves
  <2>6. QED
    BY <1>1, <1>2, <2>1, <2>2, <2>5
<1>9. ASSUME \/ ResetHealth \/ Hydrate \/ AdmitProbe \/ Clear \/ Tick \/ UNCHANGED vars
      PROVE  Goal
  <2>1. /\ att' = att
        /\ \/ UNCHANGED <<revision, epoch, since>>
           \/ revision' = revision + 1 /\ epoch' \in {epoch, epoch + 1}
    BY <1>9 DEF ResetHealth, Hydrate, HydrateRecovered, HydrateOpened, HydrateKept, AdmitProbe,
       Clear, Tick, vars, stateVars
  <2>2. QuotaKept
    BY <1>1, <1>2, <1>9 DEF ResetHealth, Hydrate, HydrateRecovered, HydrateOpened, HydrateKept,
       AdmitProbe, Clear, Tick, vars, stateVars, QuotaKept
  <2>3. QED
    BY <2>1, <2>2, OthersOvertake
<1> HIDE DEF Goal
<1>10. Goal
  BY <1>3, <1>4, <1>5, <1>6, <1>7, <1>8, <1>9 DEF Next
<1>11. QED
  BY <1>1, <1>10, StepHealthInv DEF OvertakenInv, Goal, Behind
-----------------------------------------------------------------------------
(* While a quota window runs it stays the reason, whatever the attempts    *)
(* report and however the row is hydrated (ReasonAfter in recordFailure,   *)
(* the merge in setCooldown).                                              *)
THEOREM QuotaReasonStays == Spec => QuotaReasonSticks
<1>1. OvertakenInv /\ [Next]_vars => OvertakenInv' /\ QuotaKept
  BY StepOvertakenInv
<1>2. QuotaKept =>
        [(reason = "quota" /\ health.until > now /\ health'.state # "none")
           => reason' = "quota"]_vars
  BY DEF QuotaKept
<1>3. QED
  BY <1>1, <1>2, InitOvertakenInv, PTL DEF Spec, QuotaReasonSticks

(* An attempt that a change or a reset of another actor has overtaken, and *)
(* that merged no quota window since, adds no failure, does not close the  *)
(* circuit and does not touch the performance, for any number of attempts  *)
(* in any order (the compare of revision and reset epoch in setCooldown,   *)
(* recordFailure, recordSuccess and recordPerformance).                    *)
THEOREM OvertakenIsIgnored == Spec => StaleOutcomesIgnored
<1>1. OvertakenInv /\ [Next]_vars => OvertakenInv' /\ StaleIgnored
  BY StepOvertakenInv
<1>2. StaleIgnored =>
        [\A i \in Attempt :
           (Moves(i) /\ since[i] \in {"change", "reset"})
           => /\ health'.failures <= health.failures
              /\ health.state # "none" => health'.state # "none"
              /\ perf' = perf]_vars
  BY DEF StaleIgnored
<1>3. QED
  BY <1>1, <1>2, InitOvertakenInv, PTL DEF Spec, StaleOutcomesIgnored
-----------------------------------------------------------------------------
(* The queue of writes to the store: a probe has at most one write there,  *)
(* and it waits for it.                                                    *)

PendingStage(kind) ==
  CASE kind = "mark"  -> "marking"
    [] kind = "store" -> "storing"
    [] kind = "fail"  -> "failing"
    [] OTHER          -> "restoring"

WriteSound(pr, w) ==
  /\ (w.by = NoProbe) <=> (w.kind \in {"report", "release"})
  /\ w.by # NoProbe => pr[w.by].at = PendingStage(w.kind)
  /\ w.kind # "mark" => w.to # "checking"
  /\ w.kind = "restore" => w.to = pr[w.by].previous

QueueOf(pr, ws) ==
  /\ \A k \in 1..Len(ws) : WriteSound(pr, ws[k])
  /\ \A k, l \in 1..Len(ws) : k # l /\ ws[k].by = ws[l].by => ws[k].by = NoProbe

(* A probe owns an account that is being checked or is about to be, and    *)
(* knows the status it had before.                                         *)
Calm ==
  /\ QueueOf(probe, writes)
  /\ \A p \in Probe : probe[p].previous # "checking"
  /\ account = "checking" =>
       /\ owner # NoProbe
       /\ \/ probe[owner].at \in {"marking", "request", "storing", "failing", "restoring"}
          \/ probe[owner].at = "stored" /\ cancelled[owner]
  /\ (~raced /\ owner # NoProbe /\ (account = "checking" \/ probe[owner].at = "marking"))
       => probe[owner].previous = stable

ProbeInv ==
  /\ ProbeTypeOK
  /\ account # "checking" => stable = account
  /\ strikes = 0 => Calm

LEMMA InitProbeInv == ProbeInit => ProbeInv
<1> SUFFICES ASSUME ProbeInit PROVE ProbeInv
  OBVIOUS
<1>1. ProbeTypeOK
  <2>1. account \in AccountStatus /\ stable \in AccountStatus
    BY DEF ProbeInit, AccountStatus
  <2>2. writes \in Seq(Write) /\ reports \in Seq([to : GatewayHealth, stored : BOOLEAN])
    BY EmptySeq DEF ProbeInit
  <2>3. probe \in [Probe -> [at : Stage, previous : AccountStatus]]
    BY <2>1 DEF ProbeInit, Stage
  <2>4. reported \in 0..MaxReports /\ strikes \in 0..MaxStrikes
    BY ProbeConstants DEF ProbeInit
  <2>5. QED
    BY <2>1, <2>2, <2>3, <2>4 DEF ProbeInit, ProbeTypeOK
<1>2. QueueOf(probe, writes)
  BY DEF ProbeInit, QueueOf
<1>3. QED
  BY <1>1, <1>2 DEF ProbeInit, ProbeInv, Calm, GatewayHealth

(* A write is appended behind the others.                                  *)
LEMMA AppendQueue ==
  ASSUME NEW ws \in Seq(Write), NEW pr, NEW qr, NEW w \in Write, QueueOf(pr, ws),
         WriteSound(qr, w),
         \A k \in 1..Len(ws) : ws[k].by # NoProbe => /\ qr[ws[k].by].at = pr[ws[k].by].at
                                                     /\ qr[ws[k].by].previous = pr[ws[k].by].previous,
         w.by # NoProbe => \A k \in 1..Len(ws) : ws[k].by # w.by
  PROVE  QueueOf(qr, Append(ws, w))
<1> DEFINE s == Append(ws, w)
<1>1. /\ Len(ws) \in Nat /\ Len(s) = Len(ws) + 1
      /\ \A k \in 1..Len(s) : s[k] = IF k <= Len(ws) THEN ws[k] ELSE w
      /\ \A k \in 1..Len(s) : k <= Len(ws) => k \in 1..Len(ws)
  OBVIOUS
<1> HIDE DEF s
<1>2. ASSUME NEW k \in 1..Len(s) PROVE WriteSound(qr, s[k])
  <2>1. CASE k <= Len(ws)
    <3>1. s[k] = ws[k] /\ WriteSound(pr, ws[k]) /\ k \in 1..Len(ws) /\ ws[k] \in Write
      BY <1>1, <2>1 DEF QueueOf
    <3>2. QED
      BY <3>1 DEF WriteSound, Write
  <2>2. CASE ~(k <= Len(ws))
    BY <1>1, <2>2
  <2>3. QED
    BY <2>1, <2>2
<1>3. ASSUME NEW k \in 1..Len(s), NEW l \in 1..Len(s), k # l, s[k].by = s[l].by
      PROVE  s[k].by = NoProbe
  <2>1. CASE k <= Len(ws) /\ l <= Len(ws)
    BY <1>1, <1>3, <2>1 DEF QueueOf
  <2>2. CASE ~(k <= Len(ws)) /\ l <= Len(ws)
    BY <1>1, <1>3, <2>2
  <2>3. CASE k <= Len(ws) /\ ~(l <= Len(ws))
    BY <1>1, <1>3, <2>3
  <2>4. ~(k <= Len(ws)) /\ ~(l <= Len(ws)) => k = l
    BY <1>1
  <2>5. QED
    BY <1>3, <2>1, <2>2, <2>3, <2>4
<1>4. QED
  BY <1>2, <1>3 DEF QueueOf, s

(* The head of the queue has run, and its probe goes on.                   *)
LEMMA TailQueue ==
  ASSUME NEW ws \in Seq(Write), ws # <<>>, NEW pr, NEW qr, QueueOf(pr, ws),
         \A p \in Probe : p # Head(ws).by => qr[p] = pr[p]
  PROVE  QueueOf(qr, Tail(ws))
<1> DEFINE s == Tail(ws)
<1>1. /\ Len(ws) \in Nat /\ Len(ws) > 0 /\ Len(s) = Len(ws) - 1 /\ Head(ws) = ws[1]
      /\ \A k \in 1..Len(s) : s[k] = ws[k + 1] /\ k + 1 \in 1..Len(ws) /\ k + 1 # 1
      /\ 1 \in 1..Len(ws)
  OBVIOUS
<1>2. \A k \in 1..Len(ws) : ws[k] \in Write
  OBVIOUS
<1> HIDE DEF s
<1>3. ASSUME NEW k \in 1..Len(s) PROVE WriteSound(qr, s[k])
  <2>1. s[k] = ws[k + 1] /\ WriteSound(pr, ws[k + 1]) /\ ws[k + 1] \in Write
    BY <1>1, <1>2 DEF QueueOf
  <2>2. s[k].by # NoProbe => s[k].by # ws[1].by
    BY <1>1, <2>1 DEF QueueOf
  <2>3. QED
    BY <1>1, <2>1, <2>2 DEF WriteSound, Write
<1>4. ASSUME NEW k \in 1..Len(s), NEW l \in 1..Len(s), k # l, s[k].by = s[l].by
      PROVE  s[k].by = NoProbe
  <2>1. k + 1 # l + 1
    BY <1>1, <1>4
  <2>2. QED
    BY <1>1, <1>4, <2>1 DEF QueueOf
<1>5. QED
  BY <1>3, <1>4 DEF QueueOf, s

(* A probe that waits for no write has none in the queue.                  *)
LEMMA NoWriteOf ==
  ASSUME NEW ws \in Seq(Write), NEW pr, QueueOf(pr, ws), NEW p \in Probe,
         pr[p].at \notin {"marking", "storing", "failing", "restoring"}
  PROVE  \A k \in 1..Len(ws) : ws[k].by # p
<1>1. p # NoProbe
  BY ProbeConstants
<1>2. \A k \in 1..Len(ws) : PendingStage(ws[k].kind) \in {"marking", "storing", "failing", "restoring"}
  BY DEF PendingStage
<1>3. QED
  BY <1>1, <1>2 DEF QueueOf, WriteSound
-----------------------------------------------------------------------------
(* Types.                                                                  *)

LEMMA StoredType ==
  ASSUME NEW T, NEW s \in Seq([to : T, stored : BOOLEAN])
  PROVE  [s EXCEPT ![1].stored = TRUE] \in Seq([to : T, stored : BOOLEAN])
<1> DEFINE R == [to : T, stored : BOOLEAN]
           e == [s EXCEPT ![1].stored = TRUE]
<1>1. Len(s) \in Nat /\ s \in [1..Len(s) -> R]
  BY LenProperties
<1>2. e = [k \in 1..Len(s) |-> IF k = 1 THEN [s[1] EXCEPT !.stored = TRUE] ELSE s[k]]
  BY <1>1
<1>3. \A k \in 1..Len(s) : s[k] \in R
  BY <1>1
<1>4. \A r \in R : [r EXCEPT !.stored = TRUE] \in R
  OBVIOUS
<1> HIDE DEF R, e
<1>5. e \in [1..Len(s) -> R]
  BY <1>2, <1>3, <1>4
<1>6. e \in Seq(R)
  BY <1>1, <1>5, SeqDef
<1>7. QED
  BY <1>6 DEF R, e

LEMMA EnqueueType ==
  ASSUME ProbeTypeOK, NEW p \in Probe \cup {NoProbe}, NEW kind \in WriteKind,
         NEW status \in AccountStatus, Enqueue(p, kind, status)
  PROVE  writes' \in Seq(Write)
<1>1. [by |-> p, kind |-> kind, to |-> status] \in Write
  BY DEF Write
<1>2. QED
  BY <1>1 DEF Enqueue, ProbeTypeOK

LEMMA GoesType ==
  ASSUME ProbeTypeOK, NEW p \in Probe, NEW stage \in Stage, Goes(p, stage)
  PROVE  /\ probe' \in [Probe -> [at : Stage, previous : AccountStatus]]
         /\ probe'[p].at = stage /\ probe'[p].previous = probe[p].previous
         /\ \A q \in Probe : q # p => probe'[q] = probe[q]
<1>1. /\ probe \in [Probe -> [at : Stage, previous : AccountStatus]]
      /\ probe' = [probe EXCEPT ![p] = [probe[p] EXCEPT !.at = stage]]
      /\ probe[p] \in [at : Stage, previous : AccountStatus]
  BY DEF ProbeTypeOK, Goes
<1>2. /\ [probe[p] EXCEPT !.at = stage] \in [at : Stage, previous : AccountStatus]
      /\ [probe[p] EXCEPT !.at = stage].at = stage
      /\ [probe[p] EXCEPT !.at = stage].previous = probe[p].previous
  BY <1>1
<1>3. QED
  BY <1>1, <1>2

LEMMA EndsType ==
  ASSUME ProbeTypeOK, NEW p \in Probe, Ends(p)
  PROVE  /\ probe' \in [Probe -> [at : Stage, previous : AccountStatus]]
         /\ probe'[p].at = "done" /\ probe'[p].previous = probe[p].previous
         /\ \A q \in Probe : q # p => probe'[q] = probe[q]
         /\ owner' \in Probe \cup {NoProbe}
         /\ owner' = IF owner = p THEN NoProbe ELSE owner
         /\ writes' \in Seq(Write) /\ writes' = writes
<1>1. "done" \in Stage
  BY DEF Stage
<1>2. QED
  BY <1>1, GoesType DEF Ends, ProbeTypeOK

LEMMA ContinuesType ==
  ASSUME ProbeTypeOK, NEW p \in Probe, NEW kind \in WriteKind, NEW status \in AccountStatus,
         NEW stage \in Stage, Continues(p, kind, status, stage)
  PROVE  /\ probe' \in [Probe -> [at : Stage, previous : AccountStatus]]
         /\ probe'[p].at = stage /\ probe'[p].previous = probe[p].previous
         /\ \A q \in Probe : q # p => probe'[q] = probe[q]
         /\ owner' = owner /\ writes' \in Seq(Write)
         /\ writes' = Append(writes, [by |-> p, kind |-> kind, to |-> status])
<1>1. writes' \in Seq(Write)
  BY EnqueueType DEF Continues
<1>2. QED
  BY <1>1, GoesType DEF Continues, Enqueue

(* A probe that has an answer or a refusal ends, or waits for a write.     *)
EndsOrWaits(p) ==
  \/ Ends(p)
  \/ \E status \in AccountStatus :
       \/ Continues(p, "store", status, "storing")
       \/ Continues(p, "fail", status, "failing")
       \/ Continues(p, "restore", status, "restoring")

LEMMA EndsOrWaitsType ==
  ASSUME ProbeTypeOK, NEW p \in Probe, EndsOrWaits(p)
  PROVE  /\ probe' \in [Probe -> [at : Stage, previous : AccountStatus]]
         /\ owner' \in Probe \cup {NoProbe} /\ writes' \in Seq(Write)
<1>1. /\ {"storing", "failing", "restoring"} \subseteq Stage
      /\ {"store", "fail", "restore"} \subseteq WriteKind
      /\ owner \in Probe \cup {NoProbe}
  BY DEF Stage, WriteKind, ProbeTypeOK
<1>2. QED
  BY <1>1, EndsType, ContinuesType DEF EndsOrWaits

LEMMA ProbesEndOrWait ==
  ASSUME ProbeTypeOK, NEW p \in Probe, Answer(p) \/ Stored(p) \/ Written(p)
  PROVE  EndsOrWaits(p) /\ UNCHANGED <<account, cancelled, elsewhere, strikes, history>>
<1>1. probe[p].previous \in AccountStatus /\ {"active", "disabled", "cooldown"} \subseteq AccountStatus
  BY DEF ProbeTypeOK, AccountStatus, GatewayHealth
<1>2. GivesUp(p) => EndsOrWaits(p)
  BY <1>1 DEF GivesUp, EndsOrWaits
<1>3. CASE Answer(p)
  <2>1. UNCHANGED <<account, cancelled, elsewhere, strikes, history>>
    BY <1>3 DEF Answer
  <2>2. \/ GivesUp(p) \/ Ends(p) \/ Continues(p, "store", "active", "storing")
        \/ \E status \in {"disabled", "cooldown", probe[p].previous} :
             Continues(p, "fail", status, "failing")
    BY <1>3 DEF Answer
  <2>3. QED
    BY <1>1, <1>2, <2>1, <2>2 DEF EndsOrWaits
<1>4. CASE Stored(p)
  BY <1>1, <1>2, <1>4 DEF Stored, EndsOrWaits
<1>5. CASE Written(p)
  BY <1>5 DEF Written, EndsOrWaits
<1>6. QED
  BY <1>3, <1>4, <1>5

(* The head of the queue runs, or its write is refused.                    *)
LEMMA RunWriteType ==
  ASSUME ProbeTypeOK, NEW works \in BOOLEAN, RunWrite(works)
  PROVE  /\ account' \in AccountStatus /\ stable' \in AccountStatus /\ raced' \in BOOLEAN
         /\ writes' \in Seq(Write)
         /\ probe' \in [Probe -> [at : Stage, previous : AccountStatus]]
         /\ reports' \in Seq([to : GatewayHealth, stored : BOOLEAN])
         /\ release' \in {"idle", "request", "writing", "written"}
         /\ UNCHANGED <<owner, cancelled, observed, reported>>
<1> DEFINE w == Head(writes)
<1>1. /\ writes \in Seq(Write) /\ writes # <<>> /\ writes' = Tail(writes)
      /\ account' = IF works /\ Current(w) THEN w.to ELSE account
      /\ stable' = IF account' = "checking" THEN stable ELSE account'
      /\ raced' = (raced \/ (w.by = NoProbe /\ Marking))
      /\ release' = IF w.kind = "release" THEN "written" ELSE release
      /\ UNCHANGED <<owner, cancelled, observed, reported>>
  BY DEF RunWrite, ProbeTypeOK
<1>2. w \in Write /\ writes' \in Seq(Write)
  BY <1>1
<1>3. account' \in AccountStatus /\ stable' \in AccountStatus /\ raced' \in BOOLEAN
  BY <1>1, <1>2 DEF ProbeTypeOK, Write
<1>4. probe' \in [Probe -> [at : Stage, previous : AccountStatus]]
  <2>1. AfterWrite(w.kind, works) \in Stage
    BY DEF AfterWrite, Stage
  <2>2. CASE w.by # NoProbe
    <3>1. Goes(w.by, AfterWrite(w.kind, works)) /\ w.by \in Probe
      BY <1>2, <2>2 DEF RunWrite, Write
    <3>2. QED
      BY <2>1, <3>1, GoesType
  <2>3. CASE w.by = NoProbe
    BY <2>3 DEF RunWrite, ProbeTypeOK
  <2>4. QED
    BY <2>2, <2>3
<1>5. reports' \in Seq([to : GatewayHealth, stored : BOOLEAN])
  <2>1. reports \in Seq([to : GatewayHealth, stored : BOOLEAN])
    BY DEF ProbeTypeOK
  <2>2. reports' = [reports EXCEPT ![1].stored = TRUE] \/ reports' = reports
    BY DEF RunWrite
  <2>3. QED
    BY <2>1, <2>2, StoredType
<1>6. QED
  BY <1>1, <1>2, <1>3, <1>4, <1>5 DEF ProbeTypeOK

LEMMA StepProbeType ==
  ASSUME ProbeTypeOK, [ProbeNext]_probeVars
  PROVE  ProbeTypeOK'
<1>1. ASSUME NEW p \in Probe, StartProbe(p) PROVE ProbeTypeOK'
  <2>1. /\ probe' = [probe EXCEPT ![p] = [at |-> "marking", previous |-> PreviousState]]
        /\ owner' = p /\ Enqueue(p, "mark", "checking")
        /\ UNCHANGED <<account, cancelled, elsewhere, strikes, history>>
    BY <1>1 DEF StartProbe
  <2>2. PreviousState \in AccountStatus
    BY DEF PreviousState, ProbeTypeOK
  <2>3. probe' \in [Probe -> [at : Stage, previous : AccountStatus]]
    BY <2>1, <2>2 DEF ProbeTypeOK, Stage
  <2>4. writes' \in Seq(Write)
    BY <2>1, EnqueueType DEF WriteKind, AccountStatus
  <2>5. QED
    BY <2>1, <2>3, <2>4 DEF ProbeTypeOK, elsewhere, history
<1>2. ASSUME NEW p \in Probe, CancelProbe(p) PROVE ProbeTypeOK'
  BY <1>2 DEF CancelProbe, ProbeTypeOK, elsewhere, history
<1>3. ASSUME NEW p \in Probe, Answer(p) \/ Stored(p) \/ Written(p) PROVE ProbeTypeOK'
  <2>1. UNCHANGED <<account, cancelled, elsewhere, strikes, history>> /\ EndsOrWaits(p)
    BY <1>3, ProbesEndOrWait
  <2>2. QED
    BY <2>1, EndsOrWaitsType DEF ProbeTypeOK, elsewhere, history
<1>4. ASSUME NEW s \in GatewayHealth, Report(s) PROVE ProbeTypeOK'
  <2>1. /\ reported < MaxReports /\ reported' = reported + 1
        /\ UNCHANGED <<account, owner, probe, cancelled, release, strikes, history>>
        /\ observed' \in {s, Unobserved}
        /\ reports' = reports \/ reports' = Append(reports, [to |-> s, stored |-> FALSE])
        /\ writes' = writes \/ Enqueue(NoProbe, "report", s)
    BY <1>4 DEF Report
  <2>2. reported' \in 0..MaxReports
    BY <2>1, ProbeConstants DEF ProbeTypeOK
  <2>3. writes' \in Seq(Write)
    BY <2>1, EnqueueType DEF WriteKind, AccountStatus, ProbeTypeOK
  <2> DEFINE R == [to : GatewayHealth, stored : BOOLEAN]
             e == [to |-> s, stored |-> FALSE]
  <2>4. e \in R /\ reports \in Seq(R)
    BY DEF ProbeTypeOK
  <2>5. reports' = reports \/ reports' = Append(reports, e)
    BY <2>1
  <2> HIDE DEF R, e
  <2>6. reports' \in Seq(R)
    BY <2>4, <2>5
  <2>7. QED
    BY <2>1, <2>2, <2>3, <2>6 DEF ProbeTypeOK, history, R
<1>5. ASSUME Persisted PROVE ProbeTypeOK'
  <2>1. /\ reports # <<>> /\ reports' = Tail(reports)
        /\ reports \in Seq([to : GatewayHealth, stored : BOOLEAN])
        /\ \/ reports' = <<>> /\ writes' = writes
           \/ reports' # <<>> /\ Enqueue(NoProbe, "report", Head(reports').to)
        /\ UNCHANGED <<account, owner, probe, cancelled, observed, release, reported, strikes, history>>
    BY <1>5 DEF Persisted, ProbeTypeOK
  <2> DEFINE R == [to : GatewayHealth, stored : BOOLEAN]
  <2>a. \A r \in R : r.to \in AccountStatus
    BY DEF AccountStatus
  <2>b. reports \in Seq(R)
    BY <2>1
  <2> HIDE DEF R
  <2>c. reports' \in Seq(R) /\ (reports' # <<>> => Head(reports') \in R)
    BY <2>1, <2>b
  <2>2. reports' \in Seq([to : GatewayHealth, stored : BOOLEAN])
    BY <2>c DEF R
  <2>3. reports' # <<>> => Head(reports').to \in AccountStatus
    BY <2>a, <2>c
  <2>4. writes' \in Seq(Write)
    BY <2>1, <2>3, EnqueueType DEF WriteKind, ProbeTypeOK
  <2>5. QED
    BY <2>1, <2>2, <2>4 DEF ProbeTypeOK, history
<1>6. ASSUME ReleaseQuota PROVE ProbeTypeOK'
  <2>1. /\ writes' = writes \/ Enqueue(NoProbe, "release", "active")
        /\ release' \in {"idle", "request", "writing", "written"}
        /\ UNCHANGED <<account, owner, probe, cancelled, reports, observed, reported, strikes, history>>
    BY <1>6 DEF ReleaseQuota
  <2>2. writes' \in Seq(Write)
    BY <2>1, EnqueueType DEF WriteKind, AccountStatus, GatewayHealth, ProbeTypeOK
  <2>3. QED
    BY <2>1, <2>2 DEF ProbeTypeOK, history
<1>7. ASSUME WriteRuns \/ WriteRefused PROVE ProbeTypeOK'
  <2>1. \E works \in BOOLEAN : RunWrite(works)
    BY <1>7 DEF WriteRuns, WriteRefused
  <2>2. strikes' \in 0..MaxStrikes
    <3>1. strikes' = strikes \/ (strikes < MaxStrikes /\ strikes' = strikes + 1)
      BY <1>7 DEF WriteRuns, WriteRefused
    <3>2. strikes \in 0..MaxStrikes /\ MaxStrikes \in Nat
      BY ProbeConstants DEF ProbeTypeOK
    <3>3. QED
      BY <3>1, <3>2
  <2>3. QED
    BY <2>1, <2>2, RunWriteType DEF ProbeTypeOK
<1>8. ASSUME ApplicationDies PROVE ProbeTypeOK'
  <2>1. probe' \in [Probe -> [at : Stage, previous : AccountStatus]]
    BY <1>8 DEF ApplicationDies, ProbeTypeOK, Stage
  <2>2. strikes' \in 0..MaxStrikes
    <3>1. strikes < MaxStrikes /\ strikes' = strikes + 1
      BY <1>8 DEF ApplicationDies
    <3>2. strikes \in 0..MaxStrikes /\ MaxStrikes \in Nat
      BY ProbeConstants DEF ProbeTypeOK
    <3>3. QED
      BY <3>1, <3>2
  <2>3. writes' \in Seq(Write) /\ reports' \in Seq([to : GatewayHealth, stored : BOOLEAN])
    BY <1>8, EmptySeq DEF ApplicationDies
  <2>4. QED
    BY <1>8, <2>1, <2>2, <2>3 DEF ApplicationDies, ProbeTypeOK, history
<1>9. CASE UNCHANGED probeVars
  BY <1>9 DEF probeVars, ProbeTypeOK
<1>10. QED
  BY <1>1, <1>2, <1>3, <1>4, <1>5, <1>6, <1>7, <1>8, <1>9 DEF ProbeNext, ProbeContinues
-----------------------------------------------------------------------------
(* Steps without a strike.                                                 *)

(* A probe that goes on with a write, or ends.                             *)
LEMMA ProbeGoesOn ==
  ASSUME ProbeTypeOK, Calm, NEW p \in Probe, Answer(p) \/ Stored(p) \/ Written(p)
  PROVE  Calm'
<1>1. UNCHANGED <<account, cancelled, strikes, stable, raced>>
  BY ProbesEndOrWait DEF history
<1>2. /\ writes \in Seq(Write) /\ p # NoProbe /\ owner \in Probe \cup {NoProbe}
      /\ probe \in [Probe -> [at : Stage, previous : AccountStatus]]
      /\ probe[p].previous \in AccountStatus
  BY ProbeConstants DEF ProbeTypeOK
<1>3. probe[p].at \in {"request", "stored", "refused", "written"}
  BY DEF Answer, Stored, Written
<1>4. \A k \in 1..Len(writes) : writes[k].by # p
  BY <1>2, <1>3, NoWriteOf DEF Calm
<1>5. ASSUME Ends(p), owner = p => account # "checking"
      PROVE  Calm'
  <2>1. /\ probe'[p].at = "done" /\ probe'[p].previous = probe[p].previous
        /\ \A q \in Probe : q # p => probe'[q] = probe[q]
        /\ owner' = IF owner = p THEN NoProbe ELSE owner
        /\ writes' = writes
    BY <1>5, EndsType
  <2>2. QueueOf(probe', writes')
    <3>1. \A k \in 1..Len(writes) : writes[k] \in Write
      BY <1>2
    <3>2. \A k \in 1..Len(writes) : WriteSound(probe', writes[k])
      BY <1>4, <2>1, <3>1 DEF Calm, QueueOf, WriteSound, Write
    <3>3. QED
      BY <2>1, <3>2 DEF Calm, QueueOf
  <2>3. \A q \in Probe : probe'[q].previous # "checking"
    BY <2>1 DEF Calm
  <2>4. QED
    BY <1>1, <1>2, <1>5, <2>1, <2>2, <2>3 DEF Calm
<1>6. ASSUME NEW kind \in {"store", "fail", "restore"}, NEW status \in AccountStatus,
             Continues(p, kind, status, PendingStage(kind)),
             status # "checking", kind = "restore" => status = probe[p].previous
      PROVE  Calm'
  <2> DEFINE stage == PendingStage(kind)
             w == [by |-> p, kind |-> kind, to |-> status]
  <2>1. stage \in {"storing", "failing", "restoring"} /\ stage \in Stage /\ kind \in WriteKind
    BY DEF PendingStage, Stage, WriteKind
  <2>2. /\ probe'[p].at = stage /\ probe'[p].previous = probe[p].previous
        /\ \A q \in Probe : q # p => probe'[q] = probe[q]
        /\ owner' = owner /\ writes' = Append(writes, w)
    BY <1>6, <2>1, ContinuesType
  <2>3. w \in Write /\ w.by = p
    BY <2>1 DEF Write
  <2>4. WriteSound(probe', w)
    BY <1>2, <1>6, <2>2 DEF WriteSound
  <2>5. \A k \in 1..Len(writes) : writes[k] \in Write
    BY <1>2
  <2>6. \A k \in 1..Len(writes) : writes[k].by # NoProbe => probe'[writes[k].by] = probe[writes[k].by]
    BY <1>4, <2>2, <2>5 DEF Write
  <2> HIDE DEF w, stage
  <2>7. QueueOf(probe', writes')
    BY <1>2, <1>4, <2>2, <2>3, <2>4, <2>6, AppendQueue DEF Calm
  <2>8. QED
    BY <1>1, <1>2, <2>1, <2>2, <2>7 DEF Calm
<1>7. ASSUME GivesUp(p) PROVE Calm'
  <2>1. CASE owner = p /\ account = "checking"
    <3>1. Continues(p, "restore", probe[p].previous, PendingStage("restore"))
      BY <1>7, <2>1 DEF GivesUp, PendingStage
    <3>2. probe[p].previous # "checking"
      BY DEF Calm
    <3>3. QED
      BY <1>2, <1>6, <3>1, <3>2
  <2>2. CASE ~(owner = p /\ account = "checking")
    BY <1>5, <1>7, <2>2 DEF GivesUp
  <2>3. QED
    BY <2>1, <2>2
<1>8. ASSUME NEW status \in {"active", "disabled", "cooldown", probe[p].previous},
             Continues(p, "store", "active", "storing") \/ Continues(p, "fail", status, "failing")
      PROVE  Calm'
  <2>1. status # "checking" /\ status \in AccountStatus /\ "active" \in AccountStatus
    BY <1>2 DEF Calm, AccountStatus, GatewayHealth
  <2>2. PendingStage("store") = "storing" /\ PendingStage("fail") = "failing"
    BY DEF PendingStage
  <2>3. CASE Continues(p, "store", "active", "storing")
    BY <1>6, <2>1, <2>2, <2>3
  <2>4. CASE Continues(p, "fail", status, "failing")
    BY <1>6, <2>1, <2>2, <2>4
  <2>5. QED
    BY <1>8, <2>3, <2>4
<1>9. CASE Answer(p)
  <2>1. \/ GivesUp(p)
        \/ owner # p /\ Ends(p)
        \/ Continues(p, "store", "active", "storing")
        \/ \E status \in {"disabled", "cooldown", probe[p].previous} :
             Continues(p, "fail", status, "failing")
    BY <1>9 DEF Answer
  <2>2. QED
    BY <1>5, <1>7, <1>8, <2>1
<1>10. CASE Stored(p)
  <2>1. \/ GivesUp(p)
        \/ ~cancelled[p] /\ (probe[p].at = "stored" \/ owner # p) /\ Ends(p)
        \/ Continues(p, "fail", probe[p].previous, "failing")
    BY <1>10 DEF Stored
  <2>2. ~cancelled[p] /\ (probe[p].at = "stored" \/ owner # p) => (owner = p => account # "checking")
    BY DEF Calm
  <2>3. QED
    BY <1>5, <1>7, <1>8, <2>1, <2>2
<1>11. CASE Written(p)
  <2>1. Ends(p) /\ probe[p].at = "written"
    BY <1>11 DEF Written
  <2>2. QED
    BY <1>5, <2>1 DEF Calm
<1>12. QED
  BY <1>9, <1>10, <1>11

LEMMA ProbeStarts ==
  ASSUME ProbeInv, Calm, NEW p \in Probe, StartProbe(p)
  PROVE  Calm'
<1> DEFINE w == [by |-> p, kind |-> "mark", to |-> "checking"]
<1>1. /\ probe[p].at = "new"
      /\ probe' = [probe EXCEPT ![p] = [at |-> "marking", previous |-> PreviousState]]
      /\ owner' = p /\ writes' = Append(writes, w)
      /\ UNCHANGED <<account, cancelled, stable, raced>>
  BY DEF StartProbe, Enqueue, history
<1>2. /\ writes \in Seq(Write) /\ p # NoProbe /\ owner \in Probe \cup {NoProbe}
      /\ account # "checking" => stable = account
      /\ \A q \in Probe : /\ probe'[q].at = IF q = p THEN "marking" ELSE probe[q].at
                          /\ probe'[q].previous = IF q = p THEN PreviousState ELSE probe[q].previous
  BY <1>1, ProbeConstants DEF ProbeInv, ProbeTypeOK
<1>3. PreviousState # "checking" /\ (~raced => PreviousState = stable)
  BY <1>2 DEF Calm, PreviousState
<1>4. \A k \in 1..Len(writes) : writes[k].by # p /\ writes[k] \in Write
  BY <1>1, <1>2, NoWriteOf DEF Calm
<1>5. w \in Write /\ w.by = p /\ WriteSound(probe', w)
  BY <1>2 DEF Write, WriteKind, AccountStatus, WriteSound, PendingStage
<1>6. \A k \in 1..Len(writes) : writes[k].by # NoProbe =>
        /\ probe'[writes[k].by].at = probe[writes[k].by].at
        /\ probe'[writes[k].by].previous = probe[writes[k].by].previous
  BY <1>2, <1>4 DEF Write
<1> HIDE DEF w
<1>7. QueueOf(probe', writes')
  BY <1>1, <1>2, <1>4, <1>5, <1>6, AppendQueue DEF Calm
<1>8. QED
  BY <1>1, <1>2, <1>3, <1>7 DEF Calm

(* A report or the release of a quota goes behind the writes of probes.    *)
LEMMA OthersEnqueue ==
  ASSUME ProbeTypeOK, Calm, NEW kind \in {"report", "release"}, NEW status \in GatewayHealth,
         writes' = writes \/ Enqueue(NoProbe, kind, status),
         UNCHANGED <<account, owner, probe, cancelled, stable, raced>>
  PROVE  Calm'
<1> DEFINE w == [by |-> NoProbe, kind |-> kind, to |-> status]
<1>1. w \in Write /\ w.by = NoProbe /\ WriteSound(probe, w)
  BY DEF Write, WriteKind, AccountStatus, GatewayHealth, WriteSound
<1>2. writes' = writes \/ writes' = Append(writes, w)
  BY DEF Enqueue
<1>3. writes \in Seq(Write)
  BY DEF ProbeTypeOK
<1> HIDE DEF w
<1>4. QueueOf(probe, writes')
  BY <1>1, <1>2, <1>3, AppendQueue DEF Calm
<1>5. QED
  BY <1>4 DEF Calm
-----------------------------------------------------------------------------
(* The head of the queue runs.                                             *)
LEMMA RunCalm ==
  ASSUME ProbeInv, Calm, RunWrite(TRUE)
  PROVE  Calm' /\ (Restoring /\ ~raced => account' = stable)
<1> DEFINE w == Head(writes)
<1>1. /\ writes \in Seq(Write) /\ writes # <<>> /\ writes' = Tail(writes)
      /\ account' = IF Current(w) THEN w.to ELSE account
      /\ stable' = IF account' = "checking" THEN stable ELSE account'
      /\ raced' = (raced \/ (w.by = NoProbe /\ Marking))
      /\ UNCHANGED <<owner, cancelled>>
      /\ probe \in [Probe -> [at : Stage, previous : AccountStatus]]
      /\ owner \in Probe \cup {NoProbe} /\ NoProbe \notin Probe
      /\ account # "checking" => stable = account
  BY ProbeConstants DEF RunWrite, ProbeInv, ProbeTypeOK
<1>2. w \in Write /\ WriteSound(probe, w)
  <2>1. w = writes[1] /\ 1 \in 1..Len(writes) /\ writes[1] \in Write
    BY <1>1
  <2>2. QED
    BY <2>1 DEF Calm, QueueOf
<1>3. /\ \A p \in Probe : p # w.by => probe'[p] = probe[p]
      /\ w.by # NoProbe => probe'[w.by].at = AfterWrite(w.kind, TRUE)
      /\ \A p \in Probe : probe'[p].previous = probe[p].previous
  <2>1. AfterWrite(w.kind, TRUE) \in Stage
    BY DEF AfterWrite, Stage
  <2>2. CASE w.by # NoProbe
    <3>1. Goes(w.by, AfterWrite(w.kind, TRUE)) /\ w.by \in Probe
      BY <1>2, <2>2 DEF RunWrite, Write
    <3>2. QED
      BY <2>1, <2>2, <3>1, GoesType DEF ProbeInv
  <2>3. CASE w.by = NoProbe
    BY <2>3 DEF RunWrite
  <2>4. QED
    BY <2>2, <2>3
<1>4. /\ (w.by = NoProbe) <=> (w.kind \in {"report", "release"})
      /\ w.kind \in WriteKind /\ w.by \in Probe \cup {NoProbe}
      /\ w.by # NoProbe => probe[w.by].at = PendingStage(w.kind)
      /\ w.kind # "mark" => w.to # "checking"
      /\ w.kind = "restore" => w.to = probe[w.by].previous
  BY <1>2 DEF WriteSound, Write
<1> HIDE DEF w
<1>5. QueueOf(probe', writes')
  <2>1. QueueOf(probe, writes)
    BY DEF Calm
  <2>2. \A p \in Probe : p # Head(writes).by => probe'[p] = probe[p]
    BY <1>3 DEF w
  <2>3. QED
    BY <1>1, <2>1, <2>2, TailQueue
<1>6. \A p \in Probe : probe'[p].previous # "checking"
  BY <1>3 DEF Calm
<1>7. \/ w.kind = "mark" /\ probe[w.by].at = "marking" /\ probe'[w.by].at = "request" /\ w.by \in Probe
         /\ (Current(w) <=> owner = w.by /\ ~cancelled[w.by])
      \/ w.kind = "store" /\ probe'[w.by].at = "stored" /\ w.by \in Probe /\ w.to # "checking"
         /\ (Current(w) <=> owner = w.by /\ ~cancelled[w.by])
      \/ w.kind = "fail" /\ probe'[w.by].at = "written" /\ w.by \in Probe /\ w.to # "checking"
         /\ (Current(w) <=> owner = w.by)
      \/ w.kind = "restore" /\ probe'[w.by].at = "written" /\ w.by \in Probe /\ w.to # "checking"
         /\ (Current(w) <=> owner = w.by /\ account = "checking")
      \/ w.by = NoProbe /\ w.to # "checking" /\ Current(w)
  BY <1>3, <1>4 DEF WriteKind, Current, AfterWrite, PendingStage
<1>8. ASSUME account' = "checking"
      PROVE  /\ owner # NoProbe
             /\ \/ probe'[owner].at \in {"marking", "request", "storing", "failing", "restoring"}
                \/ probe'[owner].at = "stored" /\ cancelled[owner]
  <2>1. CASE Current(w)
    <3>1. w.kind = "mark" /\ owner = w.by /\ w.by \in Probe /\ probe'[w.by].at = "request"
      BY <1>1, <1>7, <1>8, <2>1
    <3>2. QED
      BY <1>1, <3>1
  <2>2. CASE ~Current(w)
    <3>1. account = "checking" /\ owner \in Probe
      BY <1>1, <1>8, <2>2 DEF Calm
    <3>2. \/ probe[owner].at \in {"marking", "request", "storing", "failing", "restoring"}
          \/ probe[owner].at = "stored" /\ cancelled[owner]
      BY <3>1 DEF Calm
    <3>3. CASE owner # w.by
      <4>1. probe'[owner] = probe[owner]
        BY <1>3, <3>1, <3>3
      <4>2. QED
        BY <1>1, <3>1, <3>2, <4>1
    <3>4. CASE owner = w.by
      BY <1>1, <1>7, <2>2, <3>1, <3>4
    <3>5. QED
      BY <3>3, <3>4
  <2>3. QED
    BY <2>1, <2>2
<1>9. ASSUME ~raced', owner # NoProbe, account' = "checking" \/ probe'[owner].at = "marking"
      PROVE  probe'[owner].previous = stable'
  <2>1. owner \in Probe /\ ~raced /\ ~(w.by = NoProbe /\ Marking)
    BY <1>1, <1>9
  <2>2. account = "checking" \/ probe[owner].at = "marking" => probe[owner].previous = stable
    BY <1>9, <2>1 DEF Calm
  <2>3. probe'[owner].previous = probe[owner].previous
    BY <1>3, <2>1
  <2>4. CASE account' = "checking"
    <3>1. stable' = stable
      BY <1>1, <2>4
    <3>2. account = "checking" \/ probe[owner].at = "marking"
      BY <1>1, <1>7, <2>4
    <3>3. QED
      BY <2>2, <2>3, <3>1, <3>2
  <2>5. CASE account' # "checking"
    <3>1. probe'[owner].at = "marking"
      BY <1>9, <2>5
    <3>2. owner # w.by
      BY <1>1, <1>7, <2>1, <3>1
    <3>3. probe[owner].at = "marking"
      BY <1>3, <2>1, <3>1, <3>2
    <3>4. Marking
      BY <2>1, <3>3 DEF Marking
    <3>5. ~Current(w)
      BY <1>7, <2>1, <3>2, <3>4
    <3>6. account' = account /\ stable' = account /\ stable = account
      BY <1>1, <2>5, <3>5
    <3>7. QED
      BY <2>2, <2>3, <3>3, <3>6
  <2>6. QED
    BY <2>4, <2>5
<1>10. Calm'
  <2>1. owner' = owner /\ cancelled' = cancelled
    BY <1>1
  <2>2. QED
    BY <1>5, <1>6, <1>8, <1>9, <2>1 DEF Calm
<1>11. ASSUME Restoring, ~raced PROVE account' = stable
  <2>1. w.kind = "restore" /\ Current(w)
    BY <1>11 DEF Restoring, w
  <2>2. account = "checking" /\ owner = w.by /\ w.to = probe[w.by].previous
    BY <1>4, <1>7, <2>1
  <2>3. probe[owner].previous = stable
    BY <1>11, <2>2 DEF Calm
  <2>4. QED
    BY <1>1, <2>1, <2>2, <2>3
<1>12. QED
  BY <1>10, <1>11

(* Every step: a queue becomes shorter only where its head runs, is        *)
(* refused, or is lost with the process.                                   *)
LEMMA LongerIsNoTail ==
  ASSUME NEW s \in Seq(Write), s # <<>>, NEW w
  PROVE  s # Tail(s) /\ Append(s, w) # Tail(s)
<1> DEFINE t == Tail(s)
           a == Append(s, w)
<1>1. Len(s) \in Nat /\ Len(s) > 0 /\ Len(t) = Len(s) - 1 /\ Len(a) = Len(s) + 1
  OBVIOUS
<1> HIDE DEF t, a
<1>2. Len(s) # Len(t) /\ Len(a) # Len(t)
  BY <1>1
<1>3. s # t /\ a # t
  BY <1>2
<1>4. QED
  BY <1>3 DEF t, a

(* What a step does to an account while nothing has failed.                *)
Restores == Restoring /\ writes' = Tail(writes) /\ strikes' = 0 /\ ~raced => account' = stable

LEMMA StepProbeInv ==
  ASSUME ProbeInv, [ProbeNext]_probeVars
  PROVE  ProbeInv' /\ Restores
<1>1. ProbeTypeOK'
  BY StepProbeType DEF ProbeInv
<1>2. account # "checking" => stable = account
  BY DEF ProbeInv
<1>3. \/ UNCHANGED <<account, stable>>
      \/ stable' = IF account' = "checking" THEN stable ELSE account'
  BY DEF ProbeNext, ProbeContinues, StartProbe, CancelProbe, Answer, Stored, Written, Report,
         Persisted, ReleaseQuota, WriteRuns, WriteRefused, RunWrite, ApplicationDies,
         probeVars, history
<1>4. account' # "checking" => stable' = account'
  BY <1>2, <1>3
<1>5. strikes \in Nat /\ writes \in Seq(Write)
  <2>1. strikes \in 0..MaxStrikes /\ MaxStrikes \in Nat
    BY ProbeConstants DEF ProbeInv, ProbeTypeOK
  <2>2. QED
    BY <2>1 DEF ProbeInv, ProbeTypeOK
<1>6. ASSUME strikes = 0 => Calm', strikes' = strikes,
             writes' = writes \/ \E w \in Write : writes' = Append(writes, w)
      PROVE  ProbeInv' /\ Restores
  <2>1. ~(Restoring /\ writes' = Tail(writes))
    BY <1>5, <1>6, LongerIsNoTail DEF Restoring
  <2>2. QED
    BY <1>1, <1>4, <1>6, <2>1 DEF ProbeInv, Restores
<1>7. ASSUME NEW p \in Probe, StartProbe(p) PROVE ProbeInv' /\ Restores
  <2>1. [by |-> p, kind |-> "mark", to |-> "checking"] \in Write
    BY DEF Write, WriteKind, AccountStatus
  <2>2. strikes' = strikes /\ \E w \in Write : writes' = Append(writes, w)
    BY <1>7, <2>1 DEF StartProbe, Enqueue
  <2>3. strikes = 0 => Calm'
    BY <1>7, ProbeStarts DEF ProbeInv
  <2>4. QED
    BY <1>6, <2>2, <2>3
<1>8. ASSUME NEW p \in Probe, CancelProbe(p) PROVE ProbeInv' /\ Restores
  <2>1. UNCHANGED <<account, writes, owner, probe, strikes, stable, raced>>
        /\ cancelled' = [cancelled EXCEPT ![p] = TRUE] /\ cancelled \in [Probe -> BOOLEAN]
    BY <1>8 DEF CancelProbe, history, ProbeInv, ProbeTypeOK
  <2>2. \A q \in Probe : cancelled[q] => cancelled'[q]
    BY <2>1
  <2>3. owner \in Probe \cup {NoProbe}
    BY DEF ProbeInv, ProbeTypeOK
  <2>4. strikes = 0 => Calm'
    BY <2>1, <2>2, <2>3 DEF ProbeInv, Calm
  <2>5. QED
    BY <1>6, <2>1, <2>4
<1>9. ASSUME NEW p \in Probe, Answer(p) \/ Stored(p) \/ Written(p) PROVE ProbeInv' /\ Restores
  <2>1. EndsOrWaits(p) /\ strikes' = strikes
    BY <1>9, ProbesEndOrWait DEF ProbeInv
  <2>2. writes' = writes \/ \E w \in Write : writes' = Append(writes, w)
    <3>1. \A kind \in {"store", "fail", "restore"}, status \in AccountStatus :
            [by |-> p, kind |-> kind, to |-> status] \in Write
      BY DEF Write, WriteKind
    <3>2. QED
      BY <2>1, <3>1 DEF EndsOrWaits, Ends, Continues, Enqueue
  <2>3. strikes = 0 => Calm'
    BY <1>9, ProbeGoesOn DEF ProbeInv
  <2>4. QED
    BY <1>6, <2>1, <2>2, <2>3
<1>10. ASSUME NEW kind \in {"report", "release"}, NEW status \in GatewayHealth,
              writes' = writes \/ Enqueue(NoProbe, kind, status),
              UNCHANGED <<account, owner, probe, cancelled, strikes, stable, raced>>
       PROVE  ProbeInv' /\ Restores
  <2>1. [by |-> NoProbe, kind |-> kind, to |-> status] \in Write
    BY DEF Write, WriteKind, AccountStatus
  <2>2. writes' = writes \/ \E w \in Write : writes' = Append(writes, w)
    BY <1>10, <2>1 DEF Enqueue
  <2>3. strikes = 0 => Calm'
    BY <1>10, OthersEnqueue DEF ProbeInv
  <2>4. QED
    BY <1>6, <1>10, <2>2, <2>3
<1>11. ASSUME NEW s \in GatewayHealth, Report(s) PROVE ProbeInv' /\ Restores
  <2>1. /\ writes' = writes \/ Enqueue(NoProbe, "report", s)
        /\ UNCHANGED <<account, owner, probe, cancelled, strikes, stable, raced>>
    BY <1>11 DEF Report, history
  <2>2. QED
    BY <1>10, <2>1
<1>12. ASSUME Persisted PROVE ProbeInv' /\ Restores
  <2>1. /\ reports # <<>> /\ reports' = Tail(reports)
        /\ writes' = writes \/ (reports' # <<>> /\ Enqueue(NoProbe, "report", Head(reports').to))
        /\ UNCHANGED <<account, owner, probe, cancelled, strikes, stable, raced>>
    BY <1>12 DEF Persisted, history
  <2> DEFINE R == [to : GatewayHealth, stored : BOOLEAN]
  <2>2. reports' \in Seq(R) /\ \A r \in R : r.to \in GatewayHealth
    BY <1>1 DEF ProbeTypeOK
  <2> HIDE DEF R
  <2>3. reports' # <<>> => Head(reports') \in R
    BY <2>2
  <2>4. writes' = writes \/ \E s \in GatewayHealth : Enqueue(NoProbe, "report", s)
    BY <2>1, <2>2, <2>3
  <2>5. QED
    BY <1>10, <2>1, <2>4 DEF GatewayHealth
<1>13. ASSUME ReleaseQuota PROVE ProbeInv' /\ Restores
  <2>1. /\ writes' = writes \/ Enqueue(NoProbe, "release", "active")
        /\ UNCHANGED <<account, owner, probe, cancelled, strikes, stable, raced>>
    BY <1>13 DEF ReleaseQuota, history
  <2>2. "active" \in GatewayHealth
    BY DEF GatewayHealth
  <2>3. QED
    BY <1>10, <2>1, <2>2
<1>14. ASSUME WriteRuns PROVE ProbeInv' /\ Restores
  <2>1. RunWrite(TRUE) /\ strikes' = strikes
    BY <1>14 DEF WriteRuns
  <2>2. strikes = 0 => Calm' /\ (Restoring /\ ~raced => account' = stable)
    BY <2>1, RunCalm DEF ProbeInv
  <2>3. QED
    BY <1>1, <1>4, <2>1, <2>2 DEF ProbeInv, Restores
<1>15. ASSUME WriteRefused \/ ApplicationDies PROVE ProbeInv' /\ Restores
  <2>1. strikes' = strikes + 1
    BY <1>15 DEF WriteRefused, ApplicationDies
  <2>2. strikes' # 0
    BY <1>5, <2>1
  <2>3. QED
    BY <1>1, <1>4, <2>2 DEF ProbeInv, Restores
<1>16. CASE UNCHANGED probeVars
  <2>1. UNCHANGED <<account, writes, owner, probe, cancelled, strikes, stable, raced>>
    BY <1>16 DEF probeVars
  <2>2. strikes = 0 => Calm'
    BY <2>1 DEF ProbeInv, Calm
  <2>3. QED
    BY <1>6, <2>1, <2>2
<1>17. QED
  BY <1>7, <1>8, <1>9, <1>11, <1>12, <1>13, <1>14, <1>15, <1>16 DEF ProbeNext, ProbeContinues

LEMMA ProbeInvariance == ProbeSpec => []ProbeInv
<1>1. ProbeInit => ProbeInv
  BY InitProbeInv
<1>2. ProbeInv /\ [ProbeNext]_probeVars => ProbeInv'
  BY StepProbeInv
<1>3. QED
  BY <1>1, <1>2, PTL DEF ProbeSpec

(* The writers of an account's status, typed: the queue of the store holds *)
(* writes, the chain of persisted states states of the gateway.            *)
THEOREM ProbesTypeCorrect == ProbeSpec => []ProbeTypeOK
<1>1. ProbeInv => ProbeTypeOK
  BY DEF ProbeInv
<1>2. QED
  BY <1>1, ProbeInvariance, PTL

(* probeAndPersistAccount: an account that is being checked has an owner   *)
(* among the probes that still has to write, whatever overtakes, cancels   *)
(* or outruns it, unless the disk refuses a write or the process dies.     *)
THEOREM CheckingHasOwner == ProbeSpec => []CheckingIsOwned
<1>1. ProbeInv => CheckingIsOwned
  BY DEF ProbeInv, Calm, CheckingIsOwned
<1>2. QED
  BY <1>1, ProbeInvariance, PTL

(* The write that restores an account after its probe was cancelled gives  *)
(* it the last status other than checking, however long the chain of       *)
(* probes that took over from each other, if no other writer got between   *)
(* the reading of the status and the marking.                              *)
THEOREM CancellationRestores == ProbeSpec => CancelRestores
<1>1. ProbeInv /\ [ProbeNext]_probeVars => [Restores]_probeVars
  BY StepProbeInv
<1>2. [][Restores]_probeVars => CancelRestores
  BY PTL DEF CancelRestores, Restores
<1>3. ProbeSpec => [][Restores]_probeVars
  BY <1>1, ProbeInvariance, PTL DEF ProbeSpec
<1>4. QED
  BY <1>2, <1>3
=============================================================================
