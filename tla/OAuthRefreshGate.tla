-------------------------- MODULE OAuthRefreshGate --------------------------
(***************************************************************************)
(* The gate in front of one OAuth token endpoint                           *)
(* (src/main/auth/oauth-refresh-gate.ts).  Refreshes of many accounts      *)
(* share a provider: at most MaxActive run at once, admissions are spaced, *)
(* and repeated transient failures defer the following ones.               *)
(***************************************************************************)
EXTENDS Naturals, FiniteSets

CONSTANTS
  Request,          \* calls of runOAuthRefreshRequest, each made once
  MaxActive,        \* MAX_CONCURRENT_REFRESHES
  Interval,         \* MIN_ADMISSION_INTERVAL_MS
  FailureThreshold, \* transient failures that start a deferral (3)
  BaseDefer, MaxDefer,
  MaxTime           \* bound of the clock

ASSUME GateConstants ==
  /\ IsFiniteSet(Request)
  /\ {MaxActive, Interval, FailureThreshold, BaseDefer, MaxDefer} \subseteq Nat \ {0}
  /\ MaxTime \in Nat

VARIABLES
  now,
  phase,             \* where call r is
  ahead,             \* ahead[r]: the waiters in front of r in state.queue
  admission,         \* admission[r]: the time reserved for r's operation
  aborted,           \* aborted[r]: r's signal has fired
  active,            \* state.active
  nextAdmissionAt,   \* state.nextAdmissionAt
  transientFailures, \* state.transientFailures
  deferUntil         \* state.deferUntil

gateVars  == <<active, nextAdmissionAt, transientFailures, deferUntil>>
vars == <<now, phase, ahead, admission, aborted, gateVars>>

Phase == {"new", "queued", "granted", "delayed", "running", "leaving", "done"}

TypeOK ==
  /\ now \in Nat
  /\ phase \in [Request -> Phase]
  /\ ahead \in [Request -> SUBSET Request]
  /\ admission \in [Request -> Nat]
  /\ aborted \in [Request -> BOOLEAN]
  /\ active \in Nat
  /\ nextAdmissionAt \in Nat /\ transientFailures \in Nat /\ deferUntil \in Nat

Init ==
  /\ now = 0
  /\ phase = [r \in Request |-> "new"]
  /\ ahead = [r \in Request |-> {}]
  /\ admission = [r \in Request |-> 0]
  /\ aborted = [r \in Request |-> FALSE]
  /\ active = 0
  /\ nextAdmissionAt = 0 /\ transientFailures = 0 /\ deferUntil = 0

Larger(a, b)  == IF a >= b THEN a ELSE b
Smaller(a, b) == IF a <= b THEN a ELSE b

(* state.queue: the listener of an aborted waiter takes it out at once.    *)
Queue == {r \in Request : phase[r] = "queued"}

(* The calls that hold one of the gate's slots.                            *)
Owners == {r \in Request : phase[r] \in {"granted", "delayed", "running", "leaving"}}

(* Owners whose operation has a reserved start.                            *)
Admitted == {r \in Request : phase[r] \in {"delayed", "running"}}

-----------------------------------------------------------------------------
(* The fast path of runOAuthRefreshRequest starts the operation at once.   *)
StartNow(r) ==
  /\ phase[r] = "new" /\ ~aborted[r]
  /\ active < MaxActive
  /\ Queue = {}
  /\ Larger(nextAdmissionAt, deferUntil) <= now
  /\ active' = active + 1
  /\ admission' = [admission EXCEPT ![r] = now]
  /\ nextAdmissionAt' = now + Interval
  /\ phase' = [phase EXCEPT ![r] = "running"]
  /\ UNCHANGED <<now, ahead, aborted, transientFailures, deferUntil>>

(* acquire while the endpoint is deferred but a slot is free.              *)
AcquireNow(r) ==
  /\ phase[r] = "new" /\ ~aborted[r]
  /\ active < MaxActive
  /\ Queue = {}
  /\ Larger(nextAdmissionAt, deferUntil) > now
  /\ active' = active + 1
  /\ phase' = [phase EXCEPT ![r] = "granted"]
  /\ UNCHANGED <<now, ahead, admission, aborted, nextAdmissionAt,
                 transientFailures, deferUntil>>

(* acquire when every slot is taken or others wait already.                *)
Wait(r) ==
  /\ phase[r] = "new" /\ ~aborted[r]
  /\ active >= MaxActive \/ Queue # {}
  /\ ahead' = [ahead EXCEPT ![r] = Queue]
  /\ phase' = [phase EXCEPT ![r] = "queued"]
  /\ UNCHANGED <<now, admission, aborted, gateVars>>

AdmissionIgnoringOthers == Larger(now, deferUntil)

AdmissionTime == Larger(now, Larger(nextAdmissionAt, deferUntil))

(* reserveAdmission, in the continuation of acquire.                       *)
Reserve(r) ==
  /\ phase[r] = "granted"
  /\ IF aborted[r]
       THEN /\ phase' = [phase EXCEPT ![r] = "leaving"]
            /\ UNCHANGED <<admission, nextAdmissionAt>>
       ELSE /\ admission' = [admission EXCEPT ![r] = AdmissionTime]
            /\ nextAdmissionAt' = AdmissionTime + Interval
            /\ phase' = [phase EXCEPT ![r] = IF AdmissionTime > now THEN "delayed"
                                                                    ELSE "running"]
  /\ UNCHANGED <<now, ahead, aborted, active, transientFailures, deferUntil>>

(* The timer of abortableDelay.  Beyond the bound of the clock every timer *)
(* has fired.                                                              *)
DelayEnds(r) ==
  /\ phase[r] = "delayed"
  /\ admission[r] <= now \/ now = MaxTime
  /\ phase' = [phase EXCEPT ![r] = "running"]
  /\ UNCHANGED <<now, ahead, admission, aborted, gateVars>>

(* recordTransientFailure                                                  *)
RecordTransientFailure ==
  LET failures == transientFailures + 1
      delay == Smaller(MaxDefer, BaseDefer * 2 ^ Smaller(4, failures - FailureThreshold))
  IN /\ transientFailures' = failures
     /\ deferUntil' = IF failures < FailureThreshold THEN deferUntil
                      ELSE Larger(deferUntil, now + delay)

(* recordHealthyEndpoint                                                   *)
RecordHealthyEndpoint ==
  /\ transientFailures' = 0
  /\ deferUntil' = 0

(* The token request settles: a usable answer, a 429, a 5xx or an error.   *)
(* An error that follows an abort is the caller's, not the endpoint's.     *)
Settles(r) ==
  /\ phase[r] = "running"
  /\ \/ RecordHealthyEndpoint
     \/ RecordTransientFailure
     \/ aborted[r] /\ UNCHANGED <<transientFailures, deferUntil>>
  /\ phase' = [phase EXCEPT ![r] = "leaving"]
  /\ UNCHANGED <<now, ahead, admission, aborted, active, nextAdmissionAt>>

(* The waiters of G are the first ones of the queue.                       *)
Grants(G) ==
  \A g \in G : ahead[g] \subseteq G

FreeSlotsMiscounted == MaxActive - active

FreeSlots == MaxActive - (active - 1)

ResetWhenUnused(left) ==
  IF left = 0 THEN /\ nextAdmissionAt' = 0
                   /\ transientFailures' = 0
                   /\ deferUntil' = 0
              ELSE UNCHANGED <<nextAdmissionAt, transientFailures, deferUntil>>

(* The calls of gone are off the queue, or done.  A call that is done      *)
(* leaves nothing behind.                                                  *)
Unqueued(gone) == [q \in Request |-> IF q \in gone THEN {} ELSE ahead[q] \ gone]

Forgotten(r) ==
  /\ admission' = [admission EXCEPT ![r] = 0]
  /\ aborted' = [aborted EXCEPT ![r] = FALSE]

LeaveUnlessAborted(r) ==
  /\ phase[r] = "leaving"
  /\ \E G \in SUBSET Queue :
       /\ Cardinality(G) = IF aborted[r] THEN 0 ELSE Smaller(FreeSlots, Cardinality(Queue))
       /\ Grants(G)
       /\ active' = (active - 1) + Cardinality(G)
       /\ phase' = [q \in Request |-> IF q = r THEN "done"
                                      ELSE IF q \in G THEN "granted" ELSE phase[q]]
       /\ ahead' = Unqueued(G)
       /\ ResetWhenUnused((active - 1) + Cardinality(G))
  /\ Forgotten(r)
  /\ UNCHANGED now

(* release: the slot goes to the first waiters, and the last call of a     *)
(* burst forgets the pacing and the failures.                              *)
Leave(r) ==
  /\ phase[r] = "leaving"
  /\ \E G \in SUBSET Queue :
       /\ Cardinality(G) = Smaller(FreeSlots, Cardinality(Queue))
       /\ Grants(G)
       /\ active' = (active - 1) + Cardinality(G)
       /\ phase' = [q \in Request |-> IF q = r THEN "done"
                                      ELSE IF q \in G THEN "granted" ELSE phase[q]]
       /\ ahead' = Unqueued(G)
       /\ ResetWhenUnused((active - 1) + Cardinality(G))
  /\ Forgotten(r)
  /\ UNCHANGED now

(* The caller aborts: a waiter leaves the queue, a delayed call leaves the *)
(* gate, a granted or running one still has to settle.                     *)
Abort(r) ==
  /\ phase[r] \in {"queued", "granted", "delayed", "running"}
  /\ ~aborted[r]
  /\ aborted' = [aborted EXCEPT ![r] = phase[r] # "queued"]
  /\ phase' = [phase EXCEPT ![r] = CASE @ = "queued"  -> "done"
                                     [] @ = "delayed" -> "leaving"
                                     [] OTHER         -> @]
  /\ ahead' = IF phase[r] = "queued" THEN Unqueued({r}) ELSE ahead
  /\ UNCHANGED <<now, admission, gateVars>>

Tick ==
  /\ now < MaxTime
  /\ now' = now + 1
  /\ UNCHANGED <<phase, ahead, admission, aborted, gateVars>>

Next ==
  \/ \E r \in Request :
       \/ StartNow(r) \/ AcquireNow(r) \/ Wait(r) \/ Reserve(r) \/ DelayEnds(r)
       \/ Settles(r) \/ Leave(r) \/ Abort(r)
  \/ Tick

Spec == Init /\ [][Next]_vars

(* Promise continuations and timers run, and the token request settles:    *)
(* the callers pass it a fetch with a timeout.                             *)
GateFairness ==
  /\ WF_vars(Tick)
  /\ \A r \in Request : WF_vars(Reserve(r) \/ DelayEnds(r) \/ Settles(r) \/ Leave(r))

FairSpec == Spec /\ GateFairness

-----------------------------------------------------------------------------
(* MAX_CONCURRENT_REFRESHES bounds the calls inside the gate, and every    *)
(* one of them is counted exactly once, aborted ones included: a slot is   *)
(* neither lost nor granted twice.                                         *)
SlotsAccounted ==
  /\ active = Cardinality(Owners)
  /\ active <= MaxActive

(* A call waits only while every slot is taken: an abort or a failure      *)
(* between a grant and its use never strands the waiters behind it.        *)
NoIdleSlot == Queue # {} => active = MaxActive

(* Both: whatever is granted, aborted, failed or released, every slot is   *)
(* owned by one call, and none is idle while a call waits.                 *)
SlotsKept == SlotsAccounted /\ NoIdleSlot

(* Reserving before yielding: no two operations in flight have reserved    *)
(* starts closer than the admission interval.                              *)
AdmissionsSpaced ==
  \A r, q \in Admitted :
    r # q => admission[r] + Interval <= admission[q] \/ admission[q] + Interval <= admission[r]

(* A new batch does not inherit the backoff of an earlier burst.           *)
UnusedMeansFresh ==
  (Owners = {}) => /\ nextAdmissionAt = 0
                   /\ transientFailures = 0
                   /\ deferUntil = 0

(* Every call that waits is settled or refused in the end.                 *)
CallSettles == \A r \in Request : phase[r] = "queued" ~> phase[r] = "done"
=============================================================================
