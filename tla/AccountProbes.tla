------------------------------ MODULE AccountProbes ------------------------------
(***************************************************************************)
(* Who writes the status of an account (src/main/ipc/gateway-api.ts): the  *)
(* probes that a user, a bulk task or an automatic refresh starts, the     *)
(* health states that the gateway reports while it serves requests, and    *)
(* the release of an elapsed quota cooldown.  All of them go through the   *)
(* write queue of the store, and each decides and waits on its own.        *)
(***************************************************************************)
EXTENDS Naturals, Sequences

CONSTANTS
  Probe,        \* calls of probeAndPersistAccount for the account
  Cancellable,  \* probes of a bulk check, which have a signal
  NoProbe,
  Unobserved,   \* no health state is known from the gateway
  MaxReports,   \* bound: health states the gateway reports
  MaxStrikes    \* bound: refused writes and deaths of the process

ASSUME ProbeConstants ==
  /\ Cancellable \subseteq Probe /\ NoProbe \notin Probe
  /\ {MaxReports, MaxStrikes} \subseteq Nat

(* A cooldown may have either reason, a failure or the quota.              *)
GatewayHealth == {"active", "cooldown", "disabled"}
AccountStatus == GatewayHealth \cup {"checking"}

VARIABLES
  account,     \* the status in the store
  writes,      \* writeChain: writes that wait
  owner,       \* accountProbeOwners
  probe,       \* probe[p]: where probe p is, and its previousState
  cancelled,   \* cancelled[p]: the signal of p has fired
  reports,     \* accountStatePersistenceFlights: states being persisted, in order
  observed,    \* latestObservedAccountStates
  release,     \* the quota probe: idle, waiting for its answer or for its write
  reported,    \* health states the gateway has reported
  strikes,     \* refused writes and deaths of the process
  stable,      \* history: the last status other than checking
  raced        \* history: a status was written after a probe read the previous
               \* one and before it marked the account

probeVars == <<account, writes, owner, probe, cancelled, reports, observed, release,
               reported, strikes, stable, raced>>
history   == <<stable, raced>>
elsewhere == <<reports, observed, release, reported>>

Stage == {"new", "marking", "request", "storing", "stored", "refused", "failing", "restoring",
          "written", "done"}

WriteKind == {"mark", "store", "fail", "restore", "report", "release"}
Write == [by : Probe \cup {NoProbe}, kind : WriteKind, to : AccountStatus]

ProbeTypeOK ==
  /\ account \in AccountStatus /\ stable \in AccountStatus /\ raced \in BOOLEAN
  /\ writes \in Seq(Write)
  /\ owner \in Probe \cup {NoProbe}
  /\ probe \in [Probe -> [at : Stage, previous : AccountStatus]]
  /\ cancelled \in [Probe -> BOOLEAN]
  /\ reports \in Seq([to : GatewayHealth, stored : BOOLEAN])
  /\ observed \in GatewayHealth \cup {Unobserved}
  /\ release \in {"idle", "request", "writing", "written"}
  /\ reported \in 0..MaxReports /\ strikes \in 0..MaxStrikes

ProbeInit ==
  /\ account \in GatewayHealth /\ stable = account /\ raced = FALSE
  /\ writes = <<>> /\ owner = NoProbe
  /\ probe = [p \in Probe |-> [at |-> "new", previous |-> account]]
  /\ cancelled = [p \in Probe |-> FALSE]
  /\ reports = <<>> /\ observed = Unobserved /\ release = "idle"
  /\ reported = 0 /\ strikes = 0

Enqueue(p, kind, status) == writes' = Append(writes, [by |-> p, kind |-> kind, to |-> status])

Goes(p, stage) == probe' = [probe EXCEPT ![p].at = stage]

(* The finally block.                                                      *)
Ends(p) ==
  /\ Goes(p, "done")
  /\ owner' = IF owner = p THEN NoProbe ELSE owner
  /\ UNCHANGED writes

Continues(p, kind, status, stage) ==
  Enqueue(p, kind, status) /\ Goes(p, stage) /\ UNCHANGED owner
-----------------------------------------------------------------------------
PreviousRead == account

(* A probe that meets another one takes over the state it found, unless    *)
(* that one has decided already.                                           *)
PreviousState ==
  IF owner # NoProbe /\ account = "checking" THEN probe[owner].previous ELSE account

StartProbe(p) ==
  /\ probe[p].at = "new"
  /\ probe' = [probe EXCEPT ![p] = [at |-> "marking", previous |-> PreviousState]]
  /\ owner' = p
  /\ Enqueue(p, "mark", "checking")
  /\ UNCHANGED <<account, cancelled, elsewhere, strikes, history>>

CancelProbe(p) ==
  /\ p \in Cancellable /\ probe[p].at \notin {"new", "done"} /\ ~cancelled[p]
  /\ cancelled' = [cancelled EXCEPT ![p] = TRUE]
  /\ UNCHANGED <<account, writes, owner, probe, elsewhere, strikes, history>>

GivesUpAtOnce(p) == Ends(p)

(* The catch block of a probe whose signal has fired.                      *)
GivesUp(p) ==
  IF owner = p /\ account = "checking"
    THEN Continues(p, "restore", probe[p].previous, "restoring")
    ELSE Ends(p)

(* Its outcome: accepted, refused in one of the ways that cool the account *)
(* down or disable it, or a failure that says nothing about the account.   *)
Answer(p) ==
  /\ probe[p].at = "request"
  /\ \/ cancelled[p] /\ GivesUp(p)
     \/ ~cancelled[p] /\ owner # p /\ Ends(p)
     \/ ~cancelled[p] /\ owner = p /\ Continues(p, "store", "active", "storing")
     \/ /\ ~cancelled[p] /\ owner = p
        /\ \E status \in {"disabled", "cooldown", probe[p].previous} :
             Continues(p, "fail", status, "failing")
  /\ UNCHANGED <<account, cancelled, elsewhere, strikes, history>>

(* The write of an accepted answer has run, or was refused by the disk.    *)
Stored(p) ==
  /\ probe[p].at \in {"stored", "refused"}
  /\ \/ cancelled[p] /\ GivesUp(p)
     \/ ~cancelled[p] /\ (probe[p].at = "stored" \/ owner # p) /\ Ends(p)
     \/ /\ ~cancelled[p] /\ probe[p].at = "refused" /\ owner = p
        /\ Continues(p, "fail", probe[p].previous, "failing")
  /\ UNCHANGED <<account, cancelled, elsewhere, strikes, history>>

Written(p) ==
  /\ probe[p].at = "written"
  /\ Ends(p)
  /\ UNCHANGED <<account, cancelled, elsewhere, strikes, history>>
-----------------------------------------------------------------------------
(* unsubscribeAccountState: a state that may matter for routing is         *)
(* persisted behind the ones before it.  That of an account that was and   *)
(* is active matters for its circuit, its failures or its models, or waits *)
(* for the flush of states that do not.                                    *)
Report(s) ==
  LET before == IF observed = Unobserved THEN account ELSE observed IN
  /\ reported < MaxReports
  /\ reported' = reported + 1
  /\ IF account = "disabled"
       THEN observed' = Unobserved /\ UNCHANGED <<reports, writes>>
       ELSE /\ observed' = s
            /\ \/ s = "active" /\ before = "active" /\ UNCHANGED <<reports, writes>>
               \/ /\ reports' = Append(reports, [to |-> s, stored |-> FALSE])
                  /\ IF reports = <<>> THEN Enqueue(NoProbe, "report", s) ELSE UNCHANGED writes
  /\ UNCHANGED <<account, owner, probe, cancelled, release, strikes, history>>

(* persistAccountState ends after its notifications, and the next begins.  *)
Persisted ==
  /\ reports # <<>> /\ Head(reports).stored
  /\ reports' = Tail(reports)
  /\ IF reports' = <<>> THEN UNCHANGED writes ELSE Enqueue(NoProbe, "report", Head(reports').to)
  /\ UNCHANGED <<account, owner, probe, cancelled, observed, release, reported, strikes, history>>

(* probeQuotaCooldownAccount                                               *)
ReleaseQuota ==
  /\ \/ release = "idle" /\ account = "cooldown" /\ release' = "request" /\ UNCHANGED writes
     \/ release = "request" /\ release' = "writing" /\ Enqueue(NoProbe, "release", "active")
     \/ release = "written" /\ release' = "idle" /\ UNCHANGED writes
  /\ UNCHANGED <<account, owner, probe, cancelled, reports, observed, reported, strikes, history>>
-----------------------------------------------------------------------------
(* updateAccounts: the head of the queue runs; its predicate is evaluated  *)
(* then.  The caller goes on later.                                        *)
Current(w) ==
  CASE w.kind \in {"mark", "store"} -> owner = w.by /\ ~cancelled[w.by]
    [] w.kind = "fail"              -> owner = w.by
    [] w.kind = "restore"           -> owner = w.by /\ account = "checking"
    [] OTHER                        -> TRUE

(* A refused marking write leaves the probe before its try block.          *)
AfterWrite(kind, works) ==
  CASE kind = "mark"  -> IF works THEN "request" ELSE "done"
    [] kind = "store" -> IF works THEN "stored" ELSE "refused"
    [] OTHER          -> "written"

Marking == \E p \in Probe : probe[p].at = "marking"

RunWrite(works) ==
  LET w == Head(writes) IN
  /\ writes # <<>>
  /\ writes' = Tail(writes)
  /\ account' = IF works /\ Current(w) THEN w.to ELSE account
  /\ IF w.by # NoProbe THEN Goes(w.by, AfterWrite(w.kind, works)) ELSE UNCHANGED probe
  /\ reports' = IF w.kind = "report" THEN [reports EXCEPT ![1].stored = TRUE] ELSE reports
  /\ release' = IF w.kind = "release" THEN "written" ELSE release
  /\ stable' = IF account' = "checking" THEN stable ELSE account'
  /\ raced' = (raced \/ (w.by = NoProbe /\ Marking))
  /\ UNCHANGED <<owner, cancelled, observed, reported>>

WriteRuns    == RunWrite(TRUE) /\ UNCHANGED strikes

WriteRefused ==
  /\ strikes < MaxStrikes /\ strikes' = strikes + 1
  /\ RunWrite(FALSE) /\ Current(Head(writes))

(* The process dies and starts again: the store keeps what it has.         *)
ApplicationDies ==
  /\ strikes < MaxStrikes /\ strikes' = strikes + 1
  /\ writes' = <<>> /\ owner' = NoProbe
  /\ probe' = [p \in Probe |-> IF probe[p].at = "new" THEN probe[p]
                               ELSE [probe[p] EXCEPT !.at = "done"]]
  /\ cancelled' = [p \in Probe |-> FALSE]
  /\ reports' = <<>> /\ observed' = Unobserved /\ release' = "idle"
  /\ UNCHANGED <<account, reported, history>>
-----------------------------------------------------------------------------
ProbeContinues == \E p \in Probe : Answer(p) \/ Stored(p) \/ Written(p)

ProbeNext ==
  \/ \E p \in Probe : StartProbe(p) \/ CancelProbe(p)
  \/ ProbeContinues
  \/ \E s \in GatewayHealth : Report(s)
  \/ Persisted \/ ReleaseQuota
  \/ WriteRuns \/ WriteRefused \/ ApplicationDies

ProbeSpec == ProbeInit /\ [][ProbeNext]_probeVars
-----------------------------------------------------------------------------
(* An account is not left in the transient status of a probe, unless a     *)
(* write is refused or the process dies: whatever overtakes, cancels or    *)
(* outruns the probe, a probe that owns the account has still to write.    *)
CheckingIsOwned ==
  account = "checking" /\ strikes = 0 =>
    /\ owner # NoProbe
    /\ \/ probe[owner].at \in {"marking", "request", "storing", "failing", "restoring"}
       \/ probe[owner].at = "stored" /\ cancelled[owner]

(* Comment of probeAndPersistAccount: keep the last stable state from      *)
(* before the whole probe chain, so that cancelling cannot restore the     *)
(* transient state.  A cancelled chain gives the account back the status   *)
(* it had last, if nothing was written while a probe was about to mark it. *)
Restoring == writes # <<>> /\ Head(writes).kind = "restore" /\ Current(Head(writes))
CancelRestores == [][Restoring /\ writes' = Tail(writes) /\ strikes' = 0 /\ ~raced => account' = stable]_probeVars

(* Comment of the subscription to health states: runtime health telemetry  *)
(* must never revive a disabled account.                                   *)
TelemetryRevivesNothing ==
  [][writes # <<>> /\ Head(writes).kind = "report" /\ account = "disabled"
       => account' = account]_probeVars
=================================================================================
