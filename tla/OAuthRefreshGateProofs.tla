----------------------- MODULE OAuthRefreshGateProofs -----------------------
(***************************************************************************)
(* What the refresh gate guarantees for any number of calls, any limit and *)
(* any pacing: exact slots, no idle slot, spaced admissions, fresh bursts. *)
(***************************************************************************)
EXTENDS OAuthRefreshGate, FiniteSetTheorems, TLAPS

(* A power of two counts the subsets of an interval: the delays of the     *)
(* exponential backoff are natural numbers.                                *)
LEMMA PowerOfTwo ==
  ASSUME NEW k \in Nat
  PROVE  2 ^ k \in Nat
<1>1. IsFiniteSet(1..k) /\ Cardinality(1..k) = k
  BY FS_Interval
<1>2. IsFiniteSet(SUBSET (1..k)) /\ Cardinality(SUBSET (1..k)) = 2 ^ k
  BY <1>1, FS_SUBSET
<1>3. QED
  BY <1>2, FS_CardinalityType

(* Every reserved start lies an interval before the next admission.  The   *)
(* spacing is not inductive without it: a new reservation is only compared *)
(* with nextAdmissionAt.                                                   *)
ReservationsCounted ==
  \A r \in Admitted : admission[r] + Interval <= nextAdmissionAt

GateInv ==
  /\ TypeOK
  /\ SlotsAccounted
  /\ NoIdleSlot
  /\ UnusedMeansFresh
  /\ AdmissionsSpaced
  /\ ReservationsCounted

(* The owners and the waiters are finite sets of calls.                    *)
LEMMA CallsFinite ==
  /\ IsFiniteSet(Owners) /\ Cardinality(Owners) \in Nat
  /\ IsFiniteSet(Queue) /\ Cardinality(Queue) \in Nat
<1>1. Owners \in SUBSET Request /\ Queue \in SUBSET Request
  BY DEF Owners, Queue
<1>2. QED
  BY <1>1, GateConstants, FS_Subset, FS_CardinalityType

LEMMA LargerSmaller ==
  ASSUME NEW a \in Nat, NEW b \in Nat
  PROVE  /\ Larger(a, b) \in Nat /\ Larger(a, b) >= a /\ Larger(a, b) >= b
         /\ Smaller(a, b) \in Nat /\ Smaller(a, b) <= a /\ Smaller(a, b) <= b
         /\ Smaller(a, b) \in {a, b}
  BY DEF Larger, Smaller

(* A reservation is never in the past and never before nextAdmissionAt.    *)
LEMMA AdmissionTimeBound ==
  ASSUME TypeOK
  PROVE  /\ AdmissionTime \in Nat
         /\ AdmissionTime >= nextAdmissionAt
<1>1. now \in Nat /\ nextAdmissionAt \in Nat /\ deferUntil \in Nat
  BY DEF TypeOK
<1>2. /\ Larger(nextAdmissionAt, deferUntil) \in Nat
      /\ Larger(nextAdmissionAt, deferUntil) >= nextAdmissionAt
  BY <1>1, LargerSmaller
<1>3. /\ Larger(now, Larger(nextAdmissionAt, deferUntil)) \in Nat
      /\ Larger(now, Larger(nextAdmissionAt, deferUntil)) >= Larger(nextAdmissionAt, deferUntil)
  BY <1>1, <1>2, LargerSmaller
<1>4. QED
  BY <1>1, <1>2, <1>3 DEF AdmissionTime

(* The pacing survives a step that admits nobody.                          *)
LEMMA NobodyAdmitted ==
  ASSUME AdmissionsSpaced, ReservationsCounted,
         Admitted' \subseteq Admitted,
         \A r \in Admitted' : admission'[r] = admission[r],
         UNCHANGED nextAdmissionAt
  PROVE  AdmissionsSpaced' /\ ReservationsCounted'
  BY DEF AdmissionsSpaced, ReservationsCounted

(* The pacing survives an admission at a time t that nextAdmissionAt       *)
(* allows.                                                                 *)
LEMMA OneAdmitted ==
  ASSUME TypeOK, AdmissionsSpaced, ReservationsCounted,
         NEW r \in Request, NEW t \in Nat, t >= nextAdmissionAt,
         r \notin Admitted,
         Admitted' \subseteq Admitted \cup {r},
         admission' = [admission EXCEPT ![r] = t],
         nextAdmissionAt' = t + Interval
  PROVE  AdmissionsSpaced' /\ ReservationsCounted'
<1>1. /\ admission \in [Request -> Nat]
      /\ nextAdmissionAt \in Nat
      /\ Interval \in Nat
  BY GateConstants DEF TypeOK
<1>2. Admitted \subseteq Request /\ Admitted' \subseteq Request
  BY DEF Admitted
<1>3. admission'[r] = t /\ \A q \in Admitted : admission'[q] = admission[q]
  BY <1>1, <1>2
<1>4. \A q \in Admitted : admission'[q] + Interval <= admission'[r]
  BY <1>1, <1>2, <1>3 DEF ReservationsCounted
<1>5. AdmissionsSpaced'
  <2> SUFFICES ASSUME NEW p \in Admitted', NEW q \in Admitted', p # q
               PROVE  \/ admission'[p] + Interval <= admission'[q]
                      \/ admission'[q] + Interval <= admission'[p]
    BY DEF AdmissionsSpaced
  <2>1. CASE p = r
    BY <1>4, <2>1
  <2>2. CASE q = r
    BY <1>4, <2>2
  <2>3. CASE p # r /\ q # r
    BY <1>3, <2>3 DEF AdmissionsSpaced
  <2>4. QED
    BY <2>1, <2>2, <2>3
<1>6. ReservationsCounted'
  <2> SUFFICES ASSUME NEW q \in Admitted'
               PROVE  admission'[q] + Interval <= nextAdmissionAt'
    BY DEF ReservationsCounted
  <2>1. CASE q = r
    BY <1>1, <1>3, <2>1
  <2>2. CASE q # r
    <3>1. q \in Admitted /\ q \in Request
      BY <1>2, <2>2
    <3>2. admission[q] \in Nat /\ admission[q] + Interval <= nextAdmissionAt
      BY <1>1, <3>1 DEF ReservationsCounted
    <3>3. QED
      BY <1>1, <1>3, <3>1, <3>2
  <2>3. QED
    BY <2>1, <2>2
<1>7. QED
  BY <1>5, <1>6

-----------------------------------------------------------------------------
(* One lemma per action.                                                   *)

LEMMA StartNowInv ==
  ASSUME GateInv, NEW r \in Request, StartNow(r)
  PROVE  GateInv'
<1> USE DEF GateInv
<1>1. /\ phase[r] = "new"
      /\ active < MaxActive
      /\ Queue = {}
      /\ Larger(nextAdmissionAt, deferUntil) <= now
      /\ active' = active + 1
      /\ admission' = [admission EXCEPT ![r] = now]
      /\ nextAdmissionAt' = now + Interval
      /\ phase' = [phase EXCEPT ![r] = "running"]
      /\ UNCHANGED <<now, ahead, aborted, transientFailures, deferUntil>>
  BY DEF StartNow
<1>2. TypeOK'
  BY <1>1, GateConstants DEF TypeOK, Phase
<1>3. Owners' = Owners \cup {r} /\ r \notin Owners /\ r \notin Admitted
  BY <1>1 DEF Owners, Admitted, TypeOK
<1>4. SlotsAccounted'
  <2>1. Cardinality(Owners \cup {r}) = Cardinality(Owners) + 1
    BY <1>3, CallsFinite, FS_AddElement
  <2>2. active \in Nat /\ MaxActive \in Nat
    BY GateConstants DEF TypeOK
  <2>3. QED
    BY <1>1, <1>3, <2>1, <2>2 DEF SlotsAccounted
<1>5. NoIdleSlot'
  <2>1. Queue' = {}
    BY <1>1 DEF Queue, TypeOK
  <2>2. QED
    BY <2>1 DEF NoIdleSlot
<1>6. UnusedMeansFresh'
  BY <1>3 DEF UnusedMeansFresh
<1>7. AdmissionsSpaced' /\ ReservationsCounted'
  <2>1. now \in Nat /\ nextAdmissionAt \in Nat /\ deferUntil \in Nat
    BY DEF TypeOK
  <2>2. now >= nextAdmissionAt
    BY <1>1, <2>1 DEF Larger
  <2>3. Admitted' \subseteq Admitted \cup {r}
    BY <1>1 DEF Admitted, TypeOK
  <2>4. QED
    BY <1>1, <1>3, <2>1, <2>2, <2>3, OneAdmitted
<1>8. QED
  BY <1>2, <1>4, <1>5, <1>6, <1>7

LEMMA AcquireNowInv ==
  ASSUME GateInv, NEW r \in Request, AcquireNow(r)
  PROVE  GateInv'
<1> USE DEF GateInv
<1>1. /\ phase[r] = "new"
      /\ active < MaxActive
      /\ Queue = {}
      /\ active' = active + 1
      /\ phase' = [phase EXCEPT ![r] = "granted"]
      /\ UNCHANGED <<now, ahead, admission, aborted, nextAdmissionAt,
                     transientFailures, deferUntil>>
  BY DEF AcquireNow
<1>2. TypeOK'
  BY <1>1 DEF TypeOK, Phase
<1>3. Owners' = Owners \cup {r} /\ r \notin Owners
  BY <1>1 DEF Owners, TypeOK
<1>4. SlotsAccounted'
  <2>1. Cardinality(Owners \cup {r}) = Cardinality(Owners) + 1
    BY <1>3, CallsFinite, FS_AddElement
  <2>2. active \in Nat /\ MaxActive \in Nat
    BY GateConstants DEF TypeOK
  <2>3. QED
    BY <1>1, <1>3, <2>1, <2>2 DEF SlotsAccounted
<1>5. NoIdleSlot'
  <2>1. Queue' = {}
    BY <1>1 DEF Queue, TypeOK
  <2>2. QED
    BY <2>1 DEF NoIdleSlot
<1>6. UnusedMeansFresh'
  BY <1>3 DEF UnusedMeansFresh
<1>7. AdmissionsSpaced' /\ ReservationsCounted'
  <2>1. Admitted' \subseteq Admitted
    BY <1>1 DEF Admitted, TypeOK
  <2>2. QED
    BY <1>1, <2>1, NobodyAdmitted
<1>8. QED
  BY <1>2, <1>4, <1>5, <1>6, <1>7

LEMMA WaitInv ==
  ASSUME GateInv, NEW r \in Request, Wait(r)
  PROVE  GateInv'
<1> USE DEF GateInv
<1>1. /\ phase[r] = "new"
      /\ active >= MaxActive \/ Queue # {}
      /\ ahead' = [ahead EXCEPT ![r] = Queue]
      /\ phase' = [phase EXCEPT ![r] = "queued"]
      /\ UNCHANGED <<now, admission, aborted, active, nextAdmissionAt,
                     transientFailures, deferUntil>>
  BY DEF Wait, gateVars
<1>2. TypeOK'
  <2>1. Queue \in SUBSET Request
    BY DEF Queue
  <2>2. QED
    BY <1>1, <2>1 DEF TypeOK, Phase
<1>3. Owners' = Owners
  BY <1>1 DEF Owners, TypeOK
<1>4. SlotsAccounted'
  BY <1>1, <1>3 DEF SlotsAccounted
<1>5. active = MaxActive
  BY <1>1, GateConstants DEF TypeOK, SlotsAccounted, NoIdleSlot
<1>6. NoIdleSlot'
  BY <1>1, <1>5 DEF NoIdleSlot
<1>7. UnusedMeansFresh'
  BY <1>1, <1>3 DEF UnusedMeansFresh
<1>8. AdmissionsSpaced' /\ ReservationsCounted'
  <2>1. Admitted' \subseteq Admitted
    BY <1>1 DEF Admitted, TypeOK
  <2>2. QED
    BY <1>1, <2>1, NobodyAdmitted
<1>9. QED
  BY <1>2, <1>4, <1>6, <1>7, <1>8

LEMMA ReserveInv ==
  ASSUME GateInv, NEW r \in Request, Reserve(r)
  PROVE  GateInv'
<1> USE DEF GateInv
<1>1. /\ phase[r] = "granted"
      /\ phase' \in [Request -> Phase]
      /\ \A q \in Request \ {r} : phase'[q] = phase[q]
      /\ phase'[r] \in {"leaving", "delayed", "running"}
      /\ UNCHANGED <<now, ahead, aborted, active, transientFailures, deferUntil>>
  BY DEF Reserve, TypeOK, Phase
<1>2. \/ /\ phase'[r] = "leaving"
         /\ UNCHANGED <<admission, nextAdmissionAt>>
      \/ /\ admission' = [admission EXCEPT ![r] = AdmissionTime]
         /\ nextAdmissionAt' = AdmissionTime + Interval
  BY DEF Reserve, TypeOK
<1>3. TypeOK'
  BY <1>1, <1>2, AdmissionTimeBound, GateConstants DEF TypeOK
<1>4. Owners' = Owners /\ Queue' = Queue /\ r \in Owners
  BY <1>1 DEF Owners, Queue
<1>5. SlotsAccounted' /\ NoIdleSlot'
  BY <1>1, <1>4 DEF SlotsAccounted, NoIdleSlot
<1>6. UnusedMeansFresh'
  BY <1>4 DEF UnusedMeansFresh
<1>7. AdmissionsSpaced' /\ ReservationsCounted'
  <2>1. CASE phase'[r] = "leaving" /\ UNCHANGED <<admission, nextAdmissionAt>>
    <3>1. Admitted' \subseteq Admitted
      BY <1>1, <2>1 DEF Admitted
    <3>2. QED
      BY <2>1, <3>1, NobodyAdmitted
  <2>2. CASE /\ admission' = [admission EXCEPT ![r] = AdmissionTime]
             /\ nextAdmissionAt' = AdmissionTime + Interval
    <3>1. r \notin Admitted /\ Admitted' \subseteq Admitted \cup {r}
      BY <1>1 DEF Admitted
    <3>2. QED
      BY <2>2, <3>1, AdmissionTimeBound, OneAdmitted
  <2>3. QED
    BY <1>2, <2>1, <2>2
<1>8. QED
  BY <1>3, <1>5, <1>6, <1>7

LEMMA DelayEndsInv ==
  ASSUME GateInv, NEW r \in Request, DelayEnds(r)
  PROVE  GateInv'
<1> USE DEF GateInv
<1>1. /\ phase[r] = "delayed"
      /\ phase' = [phase EXCEPT ![r] = "running"]
      /\ UNCHANGED <<now, ahead, admission, aborted, active, nextAdmissionAt,
                     transientFailures, deferUntil>>
  BY DEF DelayEnds, gateVars
<1>2. TypeOK'
  BY <1>1 DEF TypeOK, Phase
<1>3. Owners' = Owners /\ Queue' = Queue /\ Admitted' \subseteq Admitted
  BY <1>1 DEF Owners, Queue, Admitted, TypeOK
<1>4. SlotsAccounted' /\ NoIdleSlot' /\ UnusedMeansFresh'
  BY <1>1, <1>3 DEF SlotsAccounted, NoIdleSlot, UnusedMeansFresh
<1>5. AdmissionsSpaced' /\ ReservationsCounted'
  BY <1>1, <1>3, NobodyAdmitted
<1>6. QED
  BY <1>2, <1>4, <1>5

(* The backoff is a duration, so the deferral stays a time.                *)
LEMMA DeferType ==
  ASSUME TypeOK, RecordTransientFailure
  PROVE  transientFailures' \in Nat /\ deferUntil' \in Nat
<1> DEFINE failures == transientFailures + 1
           k == Smaller(4, failures - FailureThreshold)
           delay == Smaller(MaxDefer, BaseDefer * 2 ^ k)
<1>1. /\ transientFailures' = failures
      /\ deferUntil' = IF failures < FailureThreshold THEN deferUntil
                       ELSE Larger(deferUntil, now + delay)
  BY DEF RecordTransientFailure
<1>2. /\ failures \in Nat /\ deferUntil \in Nat /\ now \in Nat
      /\ {FailureThreshold, MaxDefer, BaseDefer} \subseteq Nat
  BY GateConstants DEF TypeOK
<1>3. CASE failures < FailureThreshold
  BY <1>1, <1>2, <1>3
<1>4. CASE ~(failures < FailureThreshold)
  <2>1. k \in Nat
    BY <1>2, <1>4 DEF Smaller
  <2> HIDE DEF k
  <2>2. 2 ^ k \in Nat
    BY <2>1, PowerOfTwo
  <2> DEFINE p == 2 ^ k
  <2>3. BaseDefer * p \in Nat
    <3> HIDE DEF p
    <3>1. p \in Nat
      BY <2>2 DEF p
    <3>2. QED
      BY <1>2, <3>1
  <2>4. delay \in Nat
    BY <1>2, <2>3, LargerSmaller
  <2> HIDE DEF delay
  <2>5. now + delay \in Nat
    BY <1>2, <2>4
  <2>6. Larger(deferUntil, now + delay) \in Nat
    BY <1>2, <2>5, LargerSmaller
  <2>7. QED
    BY <1>1, <1>2, <1>4, <2>6
<1>5. QED
  BY <1>3, <1>4

LEMMA SettlesInv ==
  ASSUME GateInv, NEW r \in Request, Settles(r)
  PROVE  GateInv'
<1> USE DEF GateInv
<1>1. /\ phase[r] = "running"
      /\ phase' = [phase EXCEPT ![r] = "leaving"]
      /\ UNCHANGED <<now, ahead, admission, aborted, active, nextAdmissionAt>>
  BY DEF Settles
<1>2. transientFailures' \in Nat /\ deferUntil' \in Nat
  <2>1. CASE RecordHealthyEndpoint
    BY <2>1 DEF RecordHealthyEndpoint
  <2>2. CASE RecordTransientFailure
    BY <2>2, DeferType
  <2>3. CASE UNCHANGED <<transientFailures, deferUntil>>
    BY <2>3 DEF TypeOK
  <2>4. QED
    BY <2>1, <2>2, <2>3 DEF Settles
<1>3. TypeOK'
  BY <1>1, <1>2 DEF TypeOK, Phase
<1>4. Owners' = Owners /\ Queue' = Queue /\ Admitted' \subseteq Admitted /\ r \in Owners
  BY <1>1 DEF Owners, Queue, Admitted, TypeOK
<1>5. SlotsAccounted' /\ NoIdleSlot'
  BY <1>1, <1>4 DEF SlotsAccounted, NoIdleSlot
<1>6. UnusedMeansFresh'
  BY <1>4 DEF UnusedMeansFresh
<1>7. AdmissionsSpaced' /\ ReservationsCounted'
  BY <1>1, <1>4, NobodyAdmitted
<1>8. QED
  BY <1>3, <1>5, <1>6, <1>7

(* release: as many waiters as there are free slots take over, and the     *)
(* slots are counted before and after.                                     *)
LEMMA LeaveInv ==
  ASSUME GateInv, NEW r \in Request, Leave(r)
  PROVE  GateInv'
<1> USE DEF GateInv
<1>1. PICK G \in SUBSET Queue :
        /\ Cardinality(G) = Smaller(FreeSlots, Cardinality(Queue))
        /\ active' = (active - 1) + Cardinality(G)
        /\ phase' = [q \in Request |-> IF q = r THEN "done"
                                       ELSE IF q \in G THEN "granted" ELSE phase[q]]
        /\ ahead' = Unqueued(G)
        /\ ResetWhenUnused((active - 1) + Cardinality(G))
  BY DEF Leave
<1>2. /\ phase[r] = "leaving"
      /\ admission' = [admission EXCEPT ![r] = 0]
      /\ aborted' = [aborted EXCEPT ![r] = FALSE]
      /\ now' = now
  BY DEF Leave, Forgotten
<1> DEFINE g == Cardinality(G)
<1>3. /\ G \subseteq Request
      /\ IsFiniteSet(G) /\ g \in Nat
      /\ g = Cardinality(Queue) => G = Queue
  <2>1. G \subseteq Request
    BY DEF Queue
  <2>2. QED
    BY <2>1, CallsFinite, FS_Subset, FS_CardinalityType
<1>4. r \in Owners /\ r \notin G
  BY <1>2 DEF Owners, Queue
<1>5. /\ active \in Nat /\ MaxActive \in Nat /\ active = Cardinality(Owners)
      /\ active >= 1 /\ active <= MaxActive
  <2>1. active \in Nat /\ MaxActive \in Nat /\ active = Cardinality(Owners) /\ active <= MaxActive
    BY GateConstants DEF TypeOK, SlotsAccounted
  <2>2. Cardinality(Owners) # 0
    BY <1>4, CallsFinite, FS_EmptySet
  <2>3. QED
    BY <2>1, <2>2
<1>6. FreeSlots \in Nat /\ FreeSlots = MaxActive - (active - 1)
  BY <1>5 DEF FreeSlots
<1>7. g <= FreeSlots /\ g \in {FreeSlots, Cardinality(Queue)}
  BY <1>1, <1>6, CallsFinite, LargerSmaller
<1>8. Owners' = (Owners \ {r}) \cup G
  BY <1>1, <1>2 DEF Owners, Queue, TypeOK
<1>9. Cardinality(Owners') = (active - 1) + g
  <2>1. IsFiniteSet(Owners \ {r}) /\ Cardinality(Owners \ {r}) = active - 1
    BY <1>4, <1>5, CallsFinite, FS_RemoveElement
  <2>2. (Owners \ {r}) \cap G = {}
    BY DEF Owners, Queue
  <2>3. Cardinality((Owners \ {r}) \cup G)
          = Cardinality(Owners \ {r}) + Cardinality(G) - Cardinality((Owners \ {r}) \cap G)
    BY <1>3, <2>1, FS_Union
  <2>4. Cardinality((Owners \ {r}) \cap G) = 0
    BY <2>2, FS_EmptySet
  <2>5. QED
    BY <1>3, <1>5, <1>8, <2>1, <2>3, <2>4
<1>10. active' \in Nat /\ active' = Cardinality(Owners') /\ active' <= MaxActive
  BY <1>1, <1>3, <1>5, <1>6, <1>7, <1>9
<1>11. \/ /\ active' = 0
          /\ nextAdmissionAt' = 0 /\ transientFailures' = 0 /\ deferUntil' = 0
       \/ /\ active' # 0
          /\ UNCHANGED <<nextAdmissionAt, transientFailures, deferUntil>>
  BY <1>1 DEF ResetWhenUnused
<1>12. TypeOK'
  <2>1. phase' \in [Request -> Phase]
    BY <1>1 DEF TypeOK, Phase
  <2>2. ahead' \in [Request -> SUBSET Request]
    BY <1>1 DEF TypeOK, Unqueued
  <2>3. admission' \in [Request -> Nat] /\ aborted' \in [Request -> BOOLEAN] /\ now' \in Nat
    BY <1>2 DEF TypeOK
  <2>4. nextAdmissionAt' \in Nat /\ transientFailures' \in Nat /\ deferUntil' \in Nat
    BY <1>11 DEF TypeOK
  <2>5. QED
    BY <1>10, <2>1, <2>2, <2>3, <2>4 DEF TypeOK
<1>13. SlotsAccounted'
  BY <1>10 DEF SlotsAccounted
<1>14. NoIdleSlot'
  <2>1. Queue' = Queue \ G
    BY <1>1, <1>2 DEF Queue, TypeOK
  <2>2. CASE g = Cardinality(Queue)
    BY <1>3, <2>1, <2>2 DEF NoIdleSlot
  <2>3. CASE g = FreeSlots
    BY <1>1, <1>5, <1>6, <2>3 DEF NoIdleSlot
  <2>4. QED
    BY <1>7, <2>2, <2>3
<1>15. UnusedMeansFresh'
  <2> SUFFICES ASSUME Owners' = {}
               PROVE  nextAdmissionAt' = 0 /\ transientFailures' = 0 /\ deferUntil' = 0
    BY DEF UnusedMeansFresh
  <2>1. Cardinality(Owners') = 0
    BY FS_EmptySet
  <2>2. QED
    BY <1>10, <1>11, <2>1
<1>16. AdmissionsSpaced' /\ ReservationsCounted'
  <2>1. Admitted' \subseteq Admitted /\ r \notin Admitted'
    BY <1>1, <1>2 DEF Admitted, TypeOK
  <2>2. \A q \in Admitted' : admission'[q] = admission[q]
    BY <1>2, <2>1 DEF TypeOK, Admitted
  <2>3. CASE active' = 0
    <3>1. IsFiniteSet(Owners')
      BY <1>3, <1>8, CallsFinite, FS_RemoveElement, FS_Union
    <3>2. Owners' = {}
      BY <1>10, <2>3, <3>1, FS_EmptySet
    <3>3. Admitted' = {}
      BY <3>2 DEF Owners, Admitted
    <3>4. QED
      BY <3>3 DEF AdmissionsSpaced, ReservationsCounted
  <2>4. CASE UNCHANGED nextAdmissionAt
    BY <2>1, <2>2, <2>4, NobodyAdmitted
  <2>5. QED
    BY <1>11, <2>3, <2>4
<1>17. QED
  BY <1>12, <1>13, <1>14, <1>15, <1>16

LEMMA AbortInv ==
  ASSUME GateInv, NEW r \in Request, Abort(r)
  PROVE  GateInv'
<1> USE DEF GateInv
<1>1. /\ phase[r] \in {"queued", "granted", "delayed", "running"}
      /\ \A q \in Request \ {r} : phase'[q] = phase[q]
      /\ phase' \in [Request -> Phase]
      /\ phase[r] = "queued" => phase'[r] = "done"
      /\ phase[r] = "delayed" => phase'[r] = "leaving"
      /\ phase[r] \in {"granted", "running"} => phase'[r] = phase[r]
      /\ aborted' \in [Request -> BOOLEAN]
      /\ UNCHANGED <<now, admission, active, nextAdmissionAt, transientFailures, deferUntil>>
  BY DEF Abort, gateVars, TypeOK, Phase
<1>2. ahead' \in [Request -> SUBSET Request]
  BY DEF Abort, Unqueued, TypeOK
<1>3. TypeOK'
  BY <1>1, <1>2 DEF TypeOK
<1>4. Owners' = Owners /\ Queue' \subseteq Queue /\ Admitted' \subseteq Admitted
  BY <1>1 DEF Owners, Queue, Admitted
<1>5. SlotsAccounted' /\ NoIdleSlot' /\ UnusedMeansFresh'
  BY <1>1, <1>4 DEF SlotsAccounted, NoIdleSlot, UnusedMeansFresh
<1>6. AdmissionsSpaced' /\ ReservationsCounted'
  BY <1>1, <1>4, NobodyAdmitted
<1>7. QED
  BY <1>3, <1>5, <1>6

(* Time passes.                                                            *)
LEMMA TickInv ==
  ASSUME GateInv, Tick
  PROVE  GateInv'
  BY DEF GateInv, Tick, gateVars, TypeOK, SlotsAccounted, NoIdleSlot, UnusedMeansFresh,
         AdmissionsSpaced, ReservationsCounted, Owners, Queue, Admitted

-----------------------------------------------------------------------------
LEMMA InitInv ==
  ASSUME Init
  PROVE  GateInv
<1>1. TypeOK
  BY DEF Init, TypeOK, Phase
<1>2. Owners = {} /\ Queue = {} /\ Admitted = {}
  BY DEF Init, Owners, Queue, Admitted
<1>3. SlotsAccounted
  BY <1>2, FS_EmptySet, GateConstants DEF Init, SlotsAccounted
<1>4. QED
  BY <1>1, <1>2, <1>3
     DEF Init, GateInv, NoIdleSlot, UnusedMeansFresh, AdmissionsSpaced, ReservationsCounted

LEMMA StepInv ==
  ASSUME GateInv, [Next]_vars
  PROVE  GateInv'
<1>1. ASSUME NEW r \in Request, StartNow(r) PROVE GateInv'
  BY <1>1, StartNowInv
<1>2. ASSUME NEW r \in Request, AcquireNow(r) PROVE GateInv'
  BY <1>2, AcquireNowInv
<1>3. ASSUME NEW r \in Request, Wait(r) PROVE GateInv'
  BY <1>3, WaitInv
<1>4. ASSUME NEW r \in Request, Reserve(r) PROVE GateInv'
  BY <1>4, ReserveInv
<1>5. ASSUME NEW r \in Request, DelayEnds(r) PROVE GateInv'
  BY <1>5, DelayEndsInv
<1>6. ASSUME NEW r \in Request, Settles(r) PROVE GateInv'
  BY <1>6, SettlesInv
<1>7. ASSUME NEW r \in Request, Leave(r) PROVE GateInv'
  BY <1>7, LeaveInv
<1>8. ASSUME NEW r \in Request, Abort(r) PROVE GateInv'
  BY <1>8, AbortInv
<1>9. CASE Tick
  BY <1>9, TickInv
<1>10. CASE UNCHANGED vars
  BY <1>10 DEF vars, gateVars, GateInv, TypeOK, SlotsAccounted, NoIdleSlot, UnusedMeansFresh,
               AdmissionsSpaced, ReservationsCounted, Owners, Queue, Admitted
<1>11. QED
  BY <1>1, <1>2, <1>3, <1>4, <1>5, <1>6, <1>7, <1>8, <1>9, <1>10 DEF Next

LEMMA GateInvariant == Spec => []GateInv
<1>1. Init => GateInv
  BY InitInv
<1>2. GateInv /\ [Next]_vars => GateInv'
  BY StepInv
<1>3. QED
  BY <1>1, <1>2, PTL DEF Spec

(* Every slot of the gate is counted once, aborted calls included, and at  *)
(* most MAX_CONCURRENT_REFRESHES calls hold one.                           *)
THEOREM SlotsExact == Spec => []SlotsAccounted
<1>1. GateInv => SlotsAccounted
  BY DEF GateInv
<1>2. QED
  BY <1>1, GateInvariant, PTL

(* No refresh waits beside a free slot, whatever its neighbours abort.     *)
THEOREM NobodyWaitsForNothing == Spec => []NoIdleSlot
<1>1. GateInv => NoIdleSlot
  BY DEF GateInv
<1>2. QED
  BY <1>1, GateInvariant, PTL

(* Both facts about slots, of any number of calls that wait, fail and abort. *)
THEOREM SlotsExactAndUsed == Spec => []SlotsKept
<1>1. GateInv => SlotsKept
  BY DEF GateInv, SlotsKept
<1>2. QED
  BY <1>1, GateInvariant, PTL

(* Reservations in flight are an admission interval apart.                 *)
THEOREM StartsSpaced == Spec => []AdmissionsSpaced
<1>1. GateInv => AdmissionsSpaced
  BY DEF GateInv
<1>2. QED
  BY <1>1, GateInvariant, PTL

(* A new burst inherits neither pacing nor backoff.                        *)
THEOREM BurstsStartFresh == Spec => []UnusedMeansFresh
<1>1. GateInv => UnusedMeansFresh
  BY DEF GateInv
<1>2. QED
  BY <1>1, GateInvariant, PTL

(* Types of the gate's state and of what each call carries.                *)
THEOREM GateTypeCorrect == Spec => []TypeOK
<1>1. GateInv => TypeOK
  BY DEF GateInv
<1>2. QED
  BY <1>1, GateInvariant, PTL
=============================================================================
