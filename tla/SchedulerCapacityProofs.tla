----------------------- MODULE SchedulerCapacityProofs -----------------------
(***************************************************************************)
(* What holds of the permits and of the wait queue for any number of       *)
(* accounts, pools, requests and restarts: permits are bounded and exact,  *)
(* the scheduler implements AccountPermits, the queue is accounted for     *)
(* and, while no circuit changes, served at once and in order.             *)
(***************************************************************************)
EXTENDS SchedulerCapacity, FiniteSetTheorems, TLAPS

(* Removing waiters keeps the per-pool counters natural numbers:           *)
(* removeCapacityWaiter clamps them; the remaining waiters keep a place.   *)
LEMMA DequeueType ==
  ASSUME NEW pl \in [Request -> Nat], NEW n \in [Pool -> Nat], NEW gone,
         TypeOK, Dequeue(pl, n, gone)
  PROVE  /\ place' \in [Request -> Nat]
         /\ poolWaiting' \in [Pool -> Nat]
         /\ expired' \in [Request -> BOOLEAN]
<1>1. \A p \in Pool :
        Cardinality({r \in Request : r \in gone /\ PoolOf[r] = p}) \in Nat
  BY FiniteRequests, FS_Subset, FS_CardinalityType
<1>2. \A r \in Request :
        Cardinality({v \in Request : pl[v] \in 1..pl[r] /\ v \notin gone}) \in Nat
  BY FiniteRequests, FS_Subset, FS_CardinalityType
<1>3. place' \in [Request -> Nat]
  BY <1>2 DEF Dequeue, PlaceAfter
<1>4. poolWaiting' \in [Pool -> Nat]
  BY <1>1 DEF Dequeue, CountAfter
<1>5. expired' \in [Request -> BOOLEAN]
  BY DEF Dequeue, TypeOK
<1>6. QED
  BY <1>3, <1>4, <1>5

(* The scheduler only picks members of the request that are below their    *)
(* configured concurrency: isEligible, for adaptive pools too.             *)
LEMMA CandidatesBelowLimit ==
  ASSUME TypeOK, NEW act \in [Account -> Nat], NEW r \in Request,
         NEW a \in Candidates(act, r)
  PROVE  a \in Account /\ act[a] < MaxConcurrency[a]
<1>1. a \in Account /\ act[a] < ConcurrencyLimit(r, a)
  BY CapacityConstants DEF Candidates, Eligible
<1>2. ConcurrencyLimit(r, a) \in Nat /\ ConcurrencyLimit(r, a) <= MaxConcurrency[a]
  BY <1>1, CapacityConstants DEF ConcurrencyLimit, TypeOK
<1>3. QED
  BY <1>1, <1>2, CapacityConstants

(* A permit handed to a waiter: one more on account b, held by the primary *)
(* slot of w.                                                              *)
Granted(act, ls, b, w) ==
  /\ act[b] < MaxConcurrency[b]
  /\ active' = [act EXCEPT ![b] = @ + 1]
  /\ lease' = [ls EXCEPT ![<<w, "primary">>] = b]

(* A hand-off keeps the types and grants at most one permit, below the     *)
(* configured concurrency: fulfillOneCapacityWaiter.                       *)
LEMMA FulfillOneEffect ==
  ASSUME TypeOK,
         NEW act \in [Account -> Nat], NEW pl \in [Request -> Nat],
         NEW n \in [Pool -> Nat], NEW ws \in [Request -> SUBSET Account],
         NEW ls \in [Slot -> Account \cup {None}],
         NEW ph \in [Request -> Phase], NEW woken,
         FulfillOne(act, pl, n, ws, ls, ph, woken)
  PROVE  /\ place' \in [Request -> Nat]
         /\ poolWaiting' \in [Pool -> Nat]
         /\ expired' \in [Request -> BOOLEAN]
         /\ waitSet' \in [Request -> SUBSET Account]
         /\ phase' \in [Request -> Phase]
         /\ hedgeOf' \in [Request -> Account \cup {None}]
         /\ \/ active' = act /\ lease' = ls
            \/ \E b \in Account, w \in Request : Granted(act, ls, b, w)
<1> DEFINE wakes(a)    == {r \in Request : pl[r] > 0 /\ a \in ws[r]}
           servable(a) == {r \in wakes(a) : ~expired[r] /\ Candidates(act, r) # {}}
           rejected(S) == {r \in S : expired[r] \/ CapacityBlocked(act, r) = {}}
           Leave(S, out) ==
             /\ Dequeue(pl, n, out)
             /\ waitSet' = [r \in Request |->
                              IF r \in out THEN {}
                              ELSE IF r \in S THEN CapacityBlocked(act, r) ELSE ws[r]]
           Nobody ==
             LET passed == UNION {wakes(a) : a \in woken}
             IN /\ \A a \in woken : servable(a) = {}
                /\ Leave(passed, rejected(passed))
                /\ phase' = [r \in Request |-> IF r \in rejected(passed) THEN "idle" ELSE ph[r]]
                /\ active' = act
                /\ lease' = ls
                /\ UNCHANGED hedgeOf
           Serve(a, before, w) ==
             LET passed == {r \in wakes(a) : pl[r] < pl[w]} \cup
                           UNION {wakes(c) : c \in before}
             IN /\ First(w, servable(a), pl)
                /\ Leave(passed, rejected(passed) \cup {w})
                /\ phase' = [r \in Request |-> IF r = w THEN "attempt"
                                               ELSE IF r \in rejected(passed) THEN "idle"
                                               ELSE ph[r]]
                /\ \E b \in Candidates(act, w) :
                     /\ active' = [act EXCEPT ![b] = @ + 1]
                     /\ lease' = [ls EXCEPT ![<<w, "primary">>] = b]
                     /\ Attempt(w, b)
<1>1. \/ Nobody
      \/ \E a \in woken, before \in SUBSET {c \in woken : servable(c) = {}} :
           \E w \in servable(a) : Serve(a, before, w)
  BY DEF FulfillOne
<1>2. \A r \in Request : CapacityBlocked(act, r) \in SUBSET Account
  BY CapacityConstants DEF CapacityBlocked
<1>3. ASSUME NEW S, NEW out, Leave(S, out)
      PROVE  /\ place' \in [Request -> Nat]
             /\ poolWaiting' \in [Pool -> Nat]
             /\ expired' \in [Request -> BOOLEAN]
             /\ waitSet' \in [Request -> SUBSET Account]
  <2>1. Dequeue(pl, n, out)
    BY <1>3
  <2>2. waitSet' \in [Request -> SUBSET Account]
    BY <1>2, <1>3
  <2>3. QED
    BY <2>1, <2>2, DequeueType
<1>4. CASE Nobody
  <2> DEFINE P == UNION {wakes(a) : a \in woken}
  <2>1. Leave(P, rejected(P))
    BY <1>4
  <2>2. phase' \in [Request -> Phase]
    BY <1>4 DEF Phase
  <2>3. hedgeOf' \in [Request -> Account \cup {None}]
    BY <1>4 DEF TypeOK
  <2>4. active' = act /\ lease' = ls
    BY <1>4
  <2> HIDE DEF P, Leave
  <2>5. QED
    BY <2>1, <2>2, <2>3, <2>4, <1>3
<1>5. ASSUME NEW a, NEW before, NEW w \in servable(a), Serve(a, before, w)
      PROVE  /\ place' \in [Request -> Nat]
             /\ poolWaiting' \in [Pool -> Nat]
             /\ expired' \in [Request -> BOOLEAN]
             /\ waitSet' \in [Request -> SUBSET Account]
             /\ phase' \in [Request -> Phase]
             /\ hedgeOf' \in [Request -> Account \cup {None}]
             /\ \E b \in Account, v \in Request : Granted(act, ls, b, v)
  <2> DEFINE P == {r \in wakes(a) : pl[r] < pl[w]} \cup UNION {wakes(c) : c \in before}
  <2>1. w \in Request
    OBVIOUS
  <2>2. Leave(P, rejected(P) \cup {w})
    BY <1>5
  <2>3. phase' \in [Request -> Phase]
    BY <1>5 DEF Phase
  <2>4. PICK b \in Candidates(act, w) :
           /\ active' = [act EXCEPT ![b] = @ + 1]
           /\ lease' = [ls EXCEPT ![<<w, "primary">>] = b]
           /\ Attempt(w, b)
    BY <1>5
  <2>5. b \in Account /\ act[b] < MaxConcurrency[b]
    BY <2>1, CandidatesBelowLimit
  <2>6. hedgeOf' \in [Request -> Account \cup {None}]
    BY <2>4, <2>5 DEF Attempt, TypeOK
  <2>7. Granted(act, ls, b, w)
    BY <2>4, <2>5 DEF Granted
  <2> HIDE DEF P, Leave
  <2>8. QED
    BY <2>1, <2>2, <2>3, <2>5, <2>6, <2>7, <1>3
<1> HIDE DEF Nobody, Serve
<1>6. QED
  BY <1>1, <1>4, <1>5

-----------------------------------------------------------------------------
(* The slots that hold a permit of the current run under the leases ls;    *)
(* Holders is Held for the variable lease.                                 *)
Held(ls, a) == {s \in Slot : ls[s] = a /\ reqGen[s[1]] = generation}

(* NeverOversubscribed for given permit counts and leases.                 *)
Fits(act, ls) ==
  \A a \in Account : /\ Cardinality(Held(ls, a)) <= act[a]
                     /\ act[a] <= MaxConcurrency[a]

(* Two slots per request make finitely many slots.                         *)
LEMMA SlotsFinite == IsFiniteSet(Slot)
<1>1. IsFiniteSet({"primary"} \cup {"hedge"})
  BY FS_AddElement, FS_Singleton
<1>2. {"primary", "hedge"} = {"primary"} \cup {"hedge"}
  OBVIOUS
<1>3. QED
  BY <1>1, <1>2, FiniteRequests, FS_Product DEF Slot

(* The slots of an account are finitely many.                              *)
LEMMA HeldFinite ==
  ASSUME NEW ls, NEW a
  PROVE  IsFiniteSet(Held(ls, a)) /\ Cardinality(Held(ls, a)) \in Nat
<1>1. Held(ls, a) \subseteq Slot
  BY DEF Held
<1>2. QED
  BY <1>1, SlotsFinite, FS_Subset, FS_CardinalityType

(* acquireAccountSlot below the configured concurrency keeps every account *)
(* within its permits.                                                     *)
LEMMA GrantFits ==
  ASSUME NEW act \in [Account -> Nat], NEW ls \in [Slot -> Account \cup {None}],
         NEW s \in Slot, NEW b \in Account,
         Fits(act, ls), act[b] < MaxConcurrency[b]
  PROVE  Fits([act EXCEPT ![b] = @ + 1], [ls EXCEPT ![s] = b])
<1> DEFINE act2 == [act EXCEPT ![b] = @ + 1]
           ls2  == [ls EXCEPT ![s] = b]
<1> SUFFICES ASSUME NEW a \in Account
             PROVE  /\ Cardinality(Held(ls2, a)) <= act2[a]
                    /\ act2[a] <= MaxConcurrency[a]
  BY DEF Fits
<1>1. /\ Cardinality(Held(ls, a)) <= act[a]
      /\ act[a] <= MaxConcurrency[a]
      /\ act[a] \in Nat
      /\ MaxConcurrency[a] \in Nat
  BY CapacityConstants DEF Fits
<1>2. CASE a = b
  <2>1. Held(ls2, a) \subseteq Held(ls, a) \cup {s}
    BY DEF Held
  <2>2. /\ IsFiniteSet(Held(ls, a) \cup {s})
        /\ Cardinality(Held(ls, a) \cup {s}) <= Cardinality(Held(ls, a)) + 1
        /\ Cardinality(Held(ls, a) \cup {s}) \in Nat
    <3>1. IsFiniteSet(Held(ls, a)) /\ Cardinality(Held(ls, a)) \in Nat
      BY HeldFinite
    <3> DEFINE H == Held(ls, a)
    <3>2. /\ IsFiniteSet(H \cup {s})
          /\ Cardinality(H \cup {s}) =
               IF s \in H THEN Cardinality(H) ELSE Cardinality(H) + 1
      BY <3>1, FS_AddElement
    <3> HIDE DEF H
    <3>3. Cardinality(H) \in Nat => Cardinality(H \cup {s}) <= Cardinality(H) + 1
      BY <3>2
    <3>4. Cardinality(H \cup {s}) \in Nat
      BY <3>2, FS_CardinalityType
    <3>5. QED
      BY <3>1, <3>2, <3>3, <3>4 DEF H
  <2>3. Cardinality(Held(ls2, a)) <= Cardinality(Held(ls, a) \cup {s})
    BY <2>1, <2>2, FS_Subset
  <2>4. act2[a] = act[a] + 1 /\ act2[a] <= MaxConcurrency[a]
    BY <1>1, <1>2
  <2>5. Cardinality(Held(ls, a)) \in Nat /\ Cardinality(Held(ls2, a)) \in Nat
    BY HeldFinite
  <2> HIDE DEF act2, ls2
  <2>6. QED
    BY <1>1, <2>2, <2>3, <2>4, <2>5
<1>3. CASE a # b
  <2>1. Held(ls2, a) \subseteq Held(ls, a)
    BY <1>3 DEF Held
  <2>2. Cardinality(Held(ls2, a)) <= Cardinality(Held(ls, a))
    BY <2>1, HeldFinite, FS_Subset
  <2>3. act2[a] = act[a]
    BY <1>3
  <2>4. Cardinality(Held(ls, a)) \in Nat /\ Cardinality(Held(ls2, a)) \in Nat
    BY HeldFinite
  <2> HIDE DEF act2, ls2
  <2>5. QED
    BY <1>1, <2>2, <2>3, <2>4
<1>4. QED
  BY <1>2, <1>3

(* releaseAccountSlot of a permit of the current run: the count and the    *)
(* holders go down together, so the clamp at zero never hides a loss.      *)
LEMMA ReturnFits ==
  ASSUME NEW act \in [Account -> Nat], NEW ls \in [Slot -> Account \cup {None}],
         NEW s \in Slot, NEW b \in Account,
         Fits(act, ls), ls[s] = b, reqGen[s[1]] = generation
  PROVE  Fits(Returned(act, b), [ls EXCEPT ![s] = None])
<1> DEFINE ls2 == [ls EXCEPT ![s] = None]
<1> SUFFICES ASSUME NEW a \in Account
             PROVE  /\ Cardinality(Held(ls2, a)) <= Returned(act, b)[a]
                    /\ Returned(act, b)[a] <= MaxConcurrency[a]
  BY DEF Fits
<1>1. /\ Cardinality(Held(ls, a)) <= act[a]
      /\ act[a] <= MaxConcurrency[a]
      /\ act[a] \in Nat
      /\ MaxConcurrency[a] \in Nat
  BY CapacityConstants DEF Fits
<1>2. Cardinality(Held(ls, a)) \in Nat /\ Cardinality(Held(ls2, a)) \in Nat
  BY HeldFinite
<1>3. CASE a = b
  <2>1. Held(ls2, a) = Held(ls, a) \ {s}
    BY <1>3, CapacityConstants DEF Held
  <2>2. s \in Held(ls, a)
    BY <1>3 DEF Held
  <2> HIDE DEF ls2
  <2>3. Cardinality(Held(ls2, a)) = Cardinality(Held(ls, a)) - 1
    <3>1. IsFiniteSet(Held(ls, a))
      BY HeldFinite
    <3>2. Cardinality(Held(ls, a) \ {s}) = Cardinality(Held(ls, a)) - 1
      BY <2>2, <3>1, FS_RemoveElement
    <3>3. QED
      BY <2>1, <3>2
  <2>4. act[a] > 0 /\ Returned(act, b)[a] = act[a] - 1
    BY <1>1, <1>2, <1>3, <2>3 DEF Returned
  <2>5. QED
    BY <1>1, <1>2, <2>3, <2>4
<1>4. CASE a # b
  <2>1. Held(ls2, a) \subseteq Held(ls, a)
    BY <1>4, CapacityConstants DEF Held
  <2>2. Cardinality(Held(ls2, a)) <= Cardinality(Held(ls, a))
    BY <2>1, HeldFinite, FS_Subset
  <2>3. Returned(act, b)[a] = act[a]
    BY <1>4 DEF Returned
  <2> HIDE DEF ls2
  <2>4. QED
    BY <1>1, <1>2, <2>2, <2>3
<1>5. QED
  BY <1>3, <1>4

(* A hand-off that grants at most one permit keeps the types and the fit.   *)
LEMMA HandOffFits ==
  ASSUME NEW act \in [Account -> Nat], NEW ls \in [Slot -> Account \cup {None}],
         Fits(act, ls),
         \/ active' = act /\ lease' = ls
         \/ \E b \in Account, w \in Request : Granted(act, ls, b, w)
  PROVE  /\ Fits(active', lease')
         /\ active' \in [Account -> Nat]
         /\ lease' \in [Slot -> Account \cup {None}]
<1>1. CASE active' = act /\ lease' = ls
  BY <1>1
<1>2. ASSUME NEW b \in Account, NEW w \in Request, Granted(act, ls, b, w)
      PROVE  /\ Fits(active', lease')
             /\ active' \in [Account -> Nat]
             /\ lease' \in [Slot -> Account \cup {None}]
  <2>1. /\ act[b] < MaxConcurrency[b]
        /\ active' = [act EXCEPT ![b] = @ + 1]
        /\ lease' = [ls EXCEPT ![<<w, "primary">>] = b]
    BY <1>2 DEF Granted
  <2>2. <<w, "primary">> \in Slot
    BY DEF Slot
  <2>3. active' \in [Account -> Nat]
    BY <2>1
  <2>4. lease' \in [Slot -> Account \cup {None}]
    BY <2>1
  <2>5. Fits(active', lease')
    BY <2>1, <2>2, GrantFits
  <2>6. QED
    BY <2>3, <2>4, <2>5
<1>3. QED
  BY <1>1, <1>2

-----------------------------------------------------------------------------
(* The inductive invariant: Stop empties every account's holders only      *)
(* because no request is of a later run than the current one.              *)
PermitInv ==
  /\ TypeOK
  /\ NeverOversubscribed
  /\ \A r \in Request : reqGen[r] <= generation

(* NeverOversubscribed is Fits of the two variables.                       *)
LEMMA FitsNow == NeverOversubscribed <=> Fits(active, lease)
  BY DEF NeverOversubscribed, Fits, Holders, Held

(* A step that keeps the runs of the requests and fits its permits keeps   *)
(* NeverOversubscribed.                                                    *)
LEMMA FitsNext ==
  ASSUME Fits(active', lease'), reqGen' = reqGen, generation' = generation
  PROVE  NeverOversubscribed'
  BY DEF NeverOversubscribed, Fits, Holders, Held

(* Requests as they start satisfy the invariant.                           *)
LEMMA InitPermitInv == Init => PermitInv
<1> SUFFICES ASSUME Init PROVE PermitInv
  OBVIOUS
<1>1. TypeOK
  BY CapacityConstants DEF Init, TypeOK, Phase
<1>2. ASSUME NEW a \in Account PROVE Holders(a) = {}
  BY CapacityConstants DEF Init, Holders
<1>3. NeverOversubscribed
  <2>1. ASSUME NEW a \in Account
        PROVE  Cardinality(Holders(a)) = 0 /\ active[a] = 0 /\ MaxConcurrency[a] \in Nat
    BY <1>2, FS_EmptySet, CapacityConstants DEF Init
  <2>2. QED
    BY <2>1 DEF NeverOversubscribed
<1>4. \A r \in Request : reqGen[r] <= generation
  BY DEF Init
<1>5. QED
  BY <1>1, <1>3, <1>4 DEF PermitInv

(* Every step of a request, of an account's health or of the gateway keeps *)
(* the permits within the configured concurrency.                          *)
LEMMA StepPermitInv == PermitInv /\ [Next]_vars => PermitInv'
<1> SUFFICES ASSUME PermitInv, [Next]_vars PROVE PermitInv'
  OBVIOUS
<1> USE DEF PermitInv
<1>fits. Fits(active, lease)
  BY FitsNow
<1>1. ASSUME NEW r \in Request, Arrive(r) PROVE PermitInv'
  <2>1. TypeOK'
    BY <1>1 DEF Arrive, TypeOK, Phase, queueVars, healthVars
  <2>2. ASSUME NEW a \in Account PROVE Holders(a)' = Holders(a)
    <3>1. \A s \in Slot : s[1] = r => lease[s] = None
      BY <1>1 DEF Arrive, Slot
    <3>2. \A s \in Slot : lease[s] = a => reqGen'[s[1]] = reqGen[s[1]]
      BY <1>1, <3>1, CapacityConstants DEF Arrive, Slot, TypeOK
    <3>3. QED
      BY <1>1, <3>2 DEF Arrive, Holders
  <2>3. NeverOversubscribed'
    BY <1>1, <2>2 DEF Arrive, NeverOversubscribed
  <2>4. (\A v \in Request : reqGen[v] <= generation)'
    BY <1>1 DEF Arrive, TypeOK
  <2>5. QED
    BY <2>1, <2>3, <2>4
<1>2. ASSUME NEW r \in Request, SelectNow(r) PROVE PermitInv'
  <2>1. PICK a \in Candidates(active, r) :
          /\ active' = [active EXCEPT ![a] = @ + 1]
          /\ lease' = [lease EXCEPT ![<<r, "primary">>] = a]
          /\ Attempt(r, a)
    BY <1>2 DEF SelectNow
  <2>2. a \in Account /\ active[a] < MaxConcurrency[a]
    BY CandidatesBelowLimit DEF TypeOK
  <2>3. UNCHANGED <<queueVars, healthVars, requestVars, generation>>
    BY <1>2 DEF SelectNow
  <2>4. <<r, "primary">> \in Slot
    BY DEF Slot
  <2>5. /\ active' \in [Account -> Nat]
        /\ lease' \in [Slot -> Account \cup {None}]
        /\ hedgeOf' \in [Request -> Account \cup {None}]
    BY <2>1, <2>2, <2>4 DEF Attempt, TypeOK
  <2>6. phase' \in [Request -> Phase]
    BY <1>2 DEF SelectNow, TypeOK, Phase
  <2>7. TypeOK'
    BY <2>3, <2>5, <2>6 DEF TypeOK, queueVars, healthVars, requestVars
  <2>8. Fits(active', lease')
    BY <1>fits, <2>1, <2>2, <2>4, GrantFits DEF TypeOK
  <2>9. QED
    BY <2>3, <2>7, <2>8, FitsNext DEF requestVars
<1>3. ASSUME NEW r \in Request, Refuse(r) PROVE PermitInv'
  <2>1. TypeOK'
    BY <1>3 DEF Refuse, TypeOK, Phase, queueVars, healthVars, requestVars
  <2>2. active' = active /\ lease' = lease /\ reqGen' = reqGen /\ generation' = generation
    BY <1>3 DEF Refuse, requestVars
  <2>3. QED
    BY <1>fits, <2>1, <2>2, FitsNext
<1>4. ASSUME NEW r \in Request, Enqueue(r) PROVE PermitInv'
  <2> DEFINE pl == [place EXCEPT ![r] = Cardinality(Waiting) + 1]
             n  == [poolWaiting EXCEPT ![PoolOf[r]] = @ + 1]
             ws == [waitSet EXCEPT ![r] = CapacityBlocked(active, r)]
             ph == [phase EXCEPT ![r] = "waiting"]
  <2>1. FulfillOne(active, pl, n, ws, lease, ph, CapacityBlocked(active, r))
    BY <1>4 DEF Enqueue
  <2>2. pl \in [Request -> Nat]
    <3>1. Cardinality(Waiting) \in Nat
      BY FiniteRequests, FS_Subset, FS_CardinalityType DEF Waiting
    <3>2. QED
      BY <3>1 DEF TypeOK
  <2>3. n \in [Pool -> Nat]
    BY CapacityConstants DEF TypeOK
  <2>4. ws \in [Request -> SUBSET Account]
    BY CapacityConstants DEF TypeOK, CapacityBlocked
  <2>5. ph \in [Request -> Phase]
    BY DEF TypeOK, Phase
  <2>6. UNCHANGED <<healthVars, requestVars, generation>>
    BY <1>4 DEF Enqueue
  <2> HIDE DEF pl, n, ws, ph
  <2>7. /\ place' \in [Request -> Nat]
        /\ poolWaiting' \in [Pool -> Nat]
        /\ expired' \in [Request -> BOOLEAN]
        /\ waitSet' \in [Request -> SUBSET Account]
        /\ phase' \in [Request -> Phase]
        /\ hedgeOf' \in [Request -> Account \cup {None}]
        /\ \/ active' = active /\ lease' = lease
           \/ \E b \in Account, w \in Request : Granted(active, lease, b, w)
    BY <2>1, <2>2, <2>3, <2>4, <2>5, FulfillOneEffect DEF TypeOK
  <2>8. /\ Fits(active', lease')
        /\ active' \in [Account -> Nat]
        /\ lease' \in [Slot -> Account \cup {None}]
    BY <1>fits, <2>7, HandOffFits DEF TypeOK
  <2>9. TypeOK'
    BY <2>6, <2>7, <2>8 DEF TypeOK, healthVars, requestVars
  <2>10. QED
    BY <2>6, <2>8, <2>9, FitsNext DEF requestVars
<1>5. ASSUME NEW r \in Request, DeadlinePasses(r) PROVE PermitInv'
  <2>1. TypeOK'
    BY <1>5 DEF DeadlinePasses, TypeOK, healthVars, requestVars
  <2>2. active' = active /\ lease' = lease /\ reqGen' = reqGen /\ generation' = generation
    BY <1>5 DEF DeadlinePasses, requestVars
  <2>3. QED
    BY <1>fits, <2>1, <2>2, FitsNext
<1>6. ASSUME NEW r \in Request, Reject(r)
      PROVE  /\ place' \in [Request -> Nat]
             /\ poolWaiting' \in [Pool -> Nat]
             /\ expired' \in [Request -> BOOLEAN]
             /\ waitSet' \in [Request -> SUBSET Account]
             /\ phase' \in [Request -> Phase]
  <2>1. Dequeue(place, poolWaiting, {r})
    BY <1>6 DEF Reject
  <2>2. /\ waitSet' \in [Request -> SUBSET Account]
        /\ phase' \in [Request -> Phase]
    BY <1>6 DEF Reject, TypeOK, Phase
  <2>3. QED
    BY <2>1, <2>2, DequeueType DEF TypeOK
<1>7. ASSUME NEW r \in Request, TimerFires(r) PROVE PermitInv'
  <2>1. UNCHANGED <<active, healthVars, requestVars, hedgeOf, lease, generation>>
    BY <1>7 DEF TimerFires
  <2>2. TypeOK'
    BY <1>6, <1>7, <2>1 DEF TimerFires, TypeOK, healthVars, requestVars
  <2>3. QED
    BY <1>fits, <2>1, <2>2, FitsNext DEF requestVars
<1>8. ASSUME NEW r \in Request, Abort(r) PROVE PermitInv'
  <2>1. UNCHANGED <<active, healthVars, hedgeOf, lease, reqGen, generation>>
    BY <1>8 DEF Abort
  <2>2. /\ place' \in [Request -> Nat]
        /\ poolWaiting' \in [Pool -> Nat]
        /\ expired' \in [Request -> BOOLEAN]
        /\ waitSet' \in [Request -> SUBSET Account]
        /\ phase' \in [Request -> Phase]
    BY <1>6, <1>8 DEF Abort, TypeOK, queueVars
  <2>3. aborted' \in [Request -> BOOLEAN]
    BY <1>8 DEF Abort, TypeOK
  <2>4. TypeOK'
    BY <2>1, <2>2, <2>3 DEF TypeOK, healthVars
  <2>5. QED
    BY <1>fits, <2>1, <2>4, FitsNext
<1>9. ASSUME NEW r \in Request, TryHedge(r) PROVE PermitInv'
  <2> DEFINE a == hedgeOf[r]
  <2>1. UNCHANGED <<queueVars, healthVars, requestVars, phase, generation>>
    BY <1>9 DEF TryHedge
  <2>2. hedgeOf' \in [Request -> Account \cup {None}] /\ a \in Account
    BY <1>9 DEF TryHedge, TypeOK
  <2>3. CASE active' = active /\ lease' = lease
    BY <1>fits, <2>1, <2>2, <2>3, FitsNext
       DEF TypeOK, queueVars, healthVars, requestVars
  <2>4. CASE /\ Eligible(active, r, a)
             /\ active' = [active EXCEPT ![a] = @ + 1]
             /\ lease' = [lease EXCEPT ![<<r, "hedge">>] = a]
    <3>1. active[a] < MaxConcurrency[a]
      <4>1. active[a] < ConcurrencyLimit(r, a) /\ active[a] \in Nat
        BY <2>2, <2>4 DEF Eligible, TypeOK
      <4>2. /\ ConcurrencyLimit(r, a) \in Nat
            /\ ConcurrencyLimit(r, a) <= MaxConcurrency[a]
        BY <2>2, CapacityConstants DEF ConcurrencyLimit, TypeOK
      <4> HIDE DEF a
      <4>3. QED
        BY <2>2, <4>1, <4>2, CapacityConstants
    <3>2. <<r, "hedge">> \in Slot
      BY DEF Slot
    <3>3. active' \in [Account -> Nat] /\ lease' \in [Slot -> Account \cup {None}]
      BY <2>2, <2>4, <3>2 DEF TypeOK
    <3>4. Fits(active', lease')
      BY <1>fits, <2>2, <2>4, <3>1, <3>2, GrantFits DEF TypeOK
    <3>5. TypeOK'
      BY <2>1, <2>2, <3>3 DEF TypeOK, queueVars, healthVars, requestVars
    <3>6. QED
      BY <2>1, <3>4, <3>5, FitsNext DEF requestVars
  <2>5. QED
    BY <1>9, <2>3, <2>4 DEF TryHedge
<1>10. ASSUME NEW r \in Request, PrimaryAnswers(r) PROVE PermitInv'
  <2>1. TypeOK'
    BY <1>10 DEF PrimaryAnswers, TypeOK, queueVars, healthVars, requestVars
  <2>2. active' = active /\ lease' = lease /\ reqGen' = reqGen /\ generation' = generation
    BY <1>10 DEF PrimaryAnswers, requestVars
  <2>3. QED
    BY <1>fits, <2>1, <2>2, FitsNext
<1>11. ASSUME NEW r \in Request, NEW k \in {"primary", "hedge"}, Release(r, k)
       PROVE  PermitInv'
  <2> DEFINE s  == <<r, k>>
             a  == lease[s]
             ls == [lease EXCEPT ![s] = None]
             ph == IF k = "primary" THEN [phase EXCEPT ![r] = "idle"] ELSE phase
  <2>1. UNCHANGED <<healthVars, requestVars, generation>>
    BY <1>11 DEF Release
  <2>2. s \in Slot /\ a \in Account
    BY <1>11 DEF Release, Slot, TypeOK
  <2>3. /\ ls \in [Slot -> Account \cup {None}]
        /\ ph \in [Request -> Phase]
        /\ Returned(active, a) \in [Account -> Nat]
    BY <2>2 DEF TypeOK, Phase, Returned
  <2>4. CASE ReturnsPermit(r)
    <3>1. FulfillOne(Returned(active, a), place, poolWaiting, waitSet, ls, ph, {a})
      BY <1>11, <2>4 DEF Release
    <3>2. Fits(Returned(active, a), ls)
      BY <1>fits, <2>2, <2>4, ReturnFits DEF ReturnsPermit, TypeOK
    <3> HIDE DEF s, a, ls, ph
    <3>3. /\ place' \in [Request -> Nat]
          /\ poolWaiting' \in [Pool -> Nat]
          /\ expired' \in [Request -> BOOLEAN]
          /\ waitSet' \in [Request -> SUBSET Account]
          /\ phase' \in [Request -> Phase]
          /\ hedgeOf' \in [Request -> Account \cup {None}]
          /\ \/ active' = Returned(active, a) /\ lease' = ls
             \/ \E b \in Account, w \in Request : Granted(Returned(active, a), ls, b, w)
      BY <2>3, <3>1, FulfillOneEffect DEF TypeOK
    <3>4. /\ Fits(active', lease')
          /\ active' \in [Account -> Nat]
          /\ lease' \in [Slot -> Account \cup {None}]
      BY <2>3, <3>2, <3>3, HandOffFits
    <3>5. TypeOK'
      BY <2>1, <3>3, <3>4 DEF TypeOK, healthVars, requestVars
    <3>6. QED
      BY <2>1, <3>4, <3>5, FitsNext DEF requestVars
  <2>5. CASE ~ReturnsPermit(r)
    <3>1. lease' = ls /\ phase' = ph /\ UNCHANGED <<active, queueVars, hedgeOf>>
      BY <1>11, <2>5 DEF Release
    <3>2. ASSUME NEW c \in Account PROVE Held(ls, c) = Held(lease, c)
      BY <2>2, <2>5, CapacityConstants DEF Held, ReturnsPermit, TypeOK
    <3>3. Fits(active', lease')
      BY <1>fits, <3>1, <3>2 DEF Fits
    <3>4. TypeOK'
      BY <2>1, <2>3, <3>1 DEF TypeOK, queueVars, healthVars, requestVars
    <3>5. QED
      BY <2>1, <3>3, <3>4, FitsNext DEF requestVars
  <2>6. QED
    BY <2>4, <2>5
<1>12. ASSUME NEW a \in Account, Trip(a) \/ CooldownElapses(a) \/ Recover(a)
       PROVE  PermitInv'
  <2>1. /\ circuit' \in [Account -> {"closed", "open", "half-open"}]
        /\ limit' \in [Account -> Nat]
        /\ \A c \in Account : limit'[c] \in 1..MaxConcurrency[c]
    <3>1. CASE \E l \in Nat : l \in 1..MaxConcurrency[a] /\ limit' = [limit EXCEPT ![a] = l]
      BY <1>12, <3>1 DEF Trip, CooldownElapses, Recover, TypeOK
    <3>2. CASE limit' = limit
      BY <1>12, <3>2 DEF Trip, CooldownElapses, Recover, TypeOK
    <3>3. LoweredLimit(a) \subseteq 1..MaxConcurrency[a]
      BY CapacityConstants DEF LoweredLimit, TypeOK
    <3>4. limit[a]..MaxConcurrency[a] \subseteq 1..MaxConcurrency[a]
      BY CapacityConstants DEF TypeOK
    <3>5. QED
      BY <1>12, <3>1, <3>2, <3>3, <3>4 DEF Trip, CooldownElapses, Recover
  <2>2. UNCHANGED <<active, queueVars, requestVars, phase, hedgeOf, lease, generation>>
    BY <1>12 DEF Trip, CooldownElapses, Recover
  <2>3. TypeOK'
    BY <2>1, <2>2 DEF TypeOK, queueVars, requestVars
  <2>4. QED
    BY <1>fits, <2>2, <2>3, FitsNext DEF requestVars
<1>13. ASSUME Stop PROVE PermitInv'
  <2>1. TypeOK'
    BY <1>13, CapacityConstants DEF Stop, TypeOK, Phase
  <2>2. generation' = generation + 1 /\ reqGen' = reqGen
    BY <1>13 DEF Stop
  <2>3. ASSUME NEW a \in Account PROVE Holders(a)' = {}
    BY <2>2 DEF Holders, Slot, TypeOK
  <2>4. ASSUME NEW a \in Account
        PROVE  /\ Cardinality(Holders(a))' = 0
               /\ active'[a] = 0
               /\ MaxConcurrency[a] \in Nat
    BY <1>13, <2>3, FS_EmptySet, CapacityConstants DEF Stop
  <2>5. NeverOversubscribed'
    BY <2>4 DEF NeverOversubscribed
  <2>6. (\A r \in Request : reqGen[r] <= generation)'
    BY <2>2 DEF TypeOK
  <2>7. QED
    BY <2>1, <2>5, <2>6
<1>14. CASE UNCHANGED vars
  <2>1. TypeOK'
    BY <1>14 DEF vars, queueVars, healthVars, requestVars, TypeOK
  <2>2. QED
    BY <1>fits, <1>14, <2>1, FitsNext DEF vars, requestVars
<1>15. QED
  BY <1>1, <1>2, <1>3, <1>4, <1>5, <1>7, <1>8, <1>9, <1>10, <1>11, <1>12,
     <1>13, <1>14 DEF Next

-----------------------------------------------------------------------------
(* Permit counts, queue places and leases keep their types in every state: *)
(* no release, hand-off or removal drives a counter below zero.            *)
THEOREM TypeCorrect == Spec => []TypeOK
<1>1. PermitInv => TypeOK
  BY DEF PermitInv
<1>2. QED
  BY <1>1, InitPermitInv, StepPermitInv, PTL DEF Spec

(* For any accounts, pools, requests, limits and number of restarts: every *)
(* permit of the current run is counted and no account runs more calls     *)
(* than its configured concurrency.                                        *)
THEOREM PermitsBounded == Spec => []NeverOversubscribed
<1>1. PermitInv => NeverOversubscribed
  BY DEF PermitInv
<1>2. QED
  BY <1>1, InitPermitInv, StepPermitInv, PTL DEF Spec
-----------------------------------------------------------------------------
(* What a hand-off does to the queue.                                      *)

Wakes(pl, ws, a) == {r \in Request : pl[r] > 0 /\ a \in ws[r]}

Servable(act, pl, ws, a) ==
  {r \in Wakes(pl, ws, a) : ~expired[r] /\ Candidates(act, r) # {}}

Rejected(act, S) == {r \in S : expired[r] \/ CapacityBlocked(act, r) = {}}

(* The waiters S are passed over and those of served get an account.       *)
Settled(act, pl, n, ws, ph, S, served) ==
  /\ Dequeue(pl, n, Rejected(act, S) \cup served)
  /\ waitSet' = [r \in Request |->
                   IF r \in Rejected(act, S) \cup served THEN {}
                   ELSE IF r \in S THEN CapacityBlocked(act, r) ELSE ws[r]]
  /\ phase' = [r \in Request |->
                 IF r \in served THEN "attempt"
                 ELSE IF r \in Rejected(act, S) THEN "idle" ELSE ph[r]]

NobodyServed(act, pl, n, ws, ls, ph, woken) ==
  /\ \A a \in woken : Servable(act, pl, ws, a) = {}
  /\ Settled(act, pl, n, ws, ph, UNION {Wakes(pl, ws, a) : a \in woken}, {})
  /\ active' = act /\ lease' = ls /\ hedgeOf' = hedgeOf

ServedBy(act, pl, n, ws, ls, ph, woken, a, w, S) ==
  /\ w \in Servable(act, pl, ws, a)
  /\ First(w, Servable(act, pl, ws, a), pl)
  /\ \A r \in Wakes(pl, ws, a) : pl[r] < pl[w] => r \in S
  /\ \A r \in S : r \in Request /\ pl[r] > 0 /\ (expired[r] \/ Candidates(act, r) = {})
  /\ Settled(act, pl, n, ws, ph, S, {w})
  /\ \E b \in Candidates(act, w) :
       /\ active' = [act EXCEPT ![b] = @ + 1]
       /\ lease' = [ls EXCEPT ![<<w, "primary">>] = b]
       /\ Attempt(w, b)

(* fulfillOneCapacityWaiter serves nobody, or one waiter after passing     *)
(* over others that no account can run now.                                *)
LEMMA FulfillOneOutcome ==
  ASSUME NEW act, NEW pl \in [Request -> Nat], NEW n, NEW ws, NEW ls, NEW ph, NEW woken,
         FulfillOne(act, pl, n, ws, ls, ph, woken)
  PROVE  \/ NobodyServed(act, pl, n, ws, ls, ph, woken)
         \/ \E a \in woken, w \in Request, S \in SUBSET Request :
              ServedBy(act, pl, n, ws, ls, ph, woken, a, w, S)
<1> DEFINE W(a) == Wakes(pl, ws, a)
           V(a) == Servable(act, pl, ws, a)
           R(S) == Rejected(act, S)
           L(S, out) ==
             /\ Dequeue(pl, n, out)
             /\ waitSet' = [r \in Request |->
                              IF r \in out THEN {}
                              ELSE IF r \in S THEN CapacityBlocked(act, r) ELSE ws[r]]
           Nobody ==
             LET passed == UNION {W(a) : a \in woken}
             IN /\ \A a \in woken : V(a) = {}
                /\ L(passed, R(passed))
                /\ phase' = [r \in Request |-> IF r \in R(passed) THEN "idle" ELSE ph[r]]
                /\ active' = act
                /\ lease' = ls
                /\ UNCHANGED hedgeOf
           Serve(a, before, w) ==
             LET passed == {r \in W(a) : pl[r] < pl[w]} \cup UNION {W(c) : c \in before}
             IN /\ First(w, V(a), pl)
                /\ L(passed, R(passed) \cup {w})
                /\ phase' = [r \in Request |-> IF r = w THEN "attempt"
                                               ELSE IF r \in R(passed) THEN "idle"
                                               ELSE ph[r]]
                /\ \E b \in Candidates(act, w) :
                     /\ active' = [act EXCEPT ![b] = @ + 1]
                     /\ lease' = [ls EXCEPT ![<<w, "primary">>] = b]
                     /\ Attempt(w, b)
<1>1. \/ Nobody
      \/ \E a \in woken, before \in SUBSET {c \in woken : V(c) = {}} :
           \E w \in V(a) : Serve(a, before, w)
  BY DEF FulfillOne, Wakes, Servable, Rejected
<1>2. CASE Nobody
  <2> DEFINE P == UNION {W(a) : a \in woken}
  <2>1. /\ \A a \in woken : V(a) = {}
        /\ L(P, R(P))
        /\ phase' = [r \in Request |-> IF r \in R(P) THEN "idle" ELSE ph[r]]
        /\ active' = act /\ lease' = ls /\ hedgeOf' = hedgeOf
    BY <1>2
  <2>2. R(P) \cup {} = R(P)
    OBVIOUS
  <2>3. Settled(act, pl, n, ws, ph, P, {})
    <3> HIDE DEF P
    <3>1. Dequeue(pl, n, R(P) \cup {})
      BY <2>1, <2>2
    <3>2. QED
      BY <2>1, <3>1 DEF Settled
  <2>4. QED
    BY <2>1, <2>3 DEF NobodyServed
<1>3. ASSUME NEW a \in woken, NEW before \in SUBSET {c \in woken : V(c) = {}},
             NEW w \in V(a), Serve(a, before, w)
      PROVE  \E S \in SUBSET Request : ServedBy(act, pl, n, ws, ls, ph, woken, a, w, S)
  <2> DEFINE P == {r \in W(a) : pl[r] < pl[w]} \cup UNION {W(c) : c \in before}
  <2>1. /\ First(w, V(a), pl)
        /\ L(P, R(P) \cup {w})
        /\ phase' = [r \in Request |-> IF r = w THEN "attempt"
                                       ELSE IF r \in R(P) THEN "idle" ELSE ph[r]]
        /\ \E b \in Candidates(act, w) :
             /\ active' = [act EXCEPT ![b] = @ + 1]
             /\ lease' = [ls EXCEPT ![<<w, "primary">>] = b]
             /\ Attempt(w, b)
    BY <1>3
  <2>2. \A r \in W(a) : pl[r] < pl[w] => r \in P
    OBVIOUS
  <2>3. \A r \in P : r \in Request /\ pl[r] > 0
    BY DEF Wakes
  <2>4. \A r \in P : expired[r] \/ Candidates(act, r) = {}
    <3>1. \A r \in W(a) : pl[r] < pl[w] => r \notin V(a)
      BY <2>1 DEF First, Servable, Wakes
    <3>2. \A c \in before : \A r \in W(c) : r \notin V(c)
      OBVIOUS
    <3>3. QED
      BY <3>1, <3>2 DEF Servable
  <2> HIDE DEF P
  <2>5. Settled(act, pl, n, ws, ph, P, {w})
    BY <2>1 DEF Settled
  <2>6. ServedBy(act, pl, n, ws, ls, ph, woken, a, w, P)
    BY <2>1, <2>2, <2>3, <2>4, <2>5 DEF ServedBy
  <2>7. P \in SUBSET Request
    BY <2>3
  <2>8. QED
    BY <2>6, <2>7
<1> HIDE DEF Nobody, Serve
<1>4. \A a : V(a) \subseteq Request
  BY DEF Servable, Wakes
<1>5. QED
  BY <1>1, <1>2, <1>3, <1>4
-----------------------------------------------------------------------------
(* The places of the queue.                                                *)

Queued(pl) == {r \in Request : pl[r] > 0}

(* Waiters have places of their own, none beyond the length of the queue.  *)
InLine(pl) ==
  /\ \A r \in Request : pl[r] <= Cardinality(Queued(pl))
  /\ \A r, v \in Queued(pl) : pl[r] = pl[v] => r = v

LEMMA QueuedFinite ==
  ASSUME NEW S \in SUBSET Request
  PROVE  IsFiniteSet(S) /\ Cardinality(S) \in Nat
  BY FiniteRequests, FS_Subset, FS_CardinalityType

(* Then no place is left out.                                              *)
LEMMA InLineGapless ==
  ASSUME NEW pl \in [Request -> Nat], InLine(pl)
  PROVE  {pl[r] : r \in Queued(pl)} = 1..Cardinality(Queued(pl))
<1> DEFINE Q == Queued(pl)
           N == Cardinality(Q)
           f == [r \in Q |-> pl[r]]
<1>1. IsFiniteSet(Q) /\ N \in Nat
  BY QueuedFinite DEF Queued
<1>2. \A r \in Q : pl[r] \in 1..N
  BY <1>1 DEF Queued, InLine
<1>3. f \in Injection(Q, 1..N)
  BY <1>2 DEF InLine, Injection, IsInjective
<1>4. IsFiniteSet(1..N) /\ Cardinality(1..N) = N
  BY <1>1, FS_Interval
<1> HIDE DEF f, N, Q
<1>5. f \in Surjection(Q, 1..N)
  BY <1>3, <1>4, FS_Injection DEF N
<1>6. \A k \in 1..N : \E r \in Q : f[r] = k
  BY <1>5 DEF Surjection
<1>7. QED
  BY <1>2, <1>6 DEF f, N, Q

(* removeCapacityWaiter keeps the order of those that stay.                *)
LEMMA DequeueInLine ==
  ASSUME NEW pl \in [Request -> Nat], InLine(pl), NEW gone
  PROVE  /\ PlaceAfter(pl, gone) \in [Request -> Nat]
         /\ Queued(PlaceAfter(pl, gone)) = Queued(pl) \ gone
         /\ InLine(PlaceAfter(pl, gone))
<1> DEFINE q == PlaceAfter(pl, gone)
           Ahead(r) == {v \in Request : pl[v] \in 1..pl[r] /\ v \notin gone}
           Rest == Queued(pl) \ gone
<1>1. \A r \in Request : /\ Ahead(r) \in SUBSET Request /\ Ahead(r) \in SUBSET Rest
                          /\ IsFiniteSet(Ahead(r)) /\ Cardinality(Ahead(r)) \in Nat
  BY QueuedFinite DEF Queued
<1>2. \A r \in Request : q[r] = IF r \in gone THEN 0 ELSE Cardinality(Ahead(r))
  BY DEF PlaceAfter
<1>3. q \in [Request -> Nat]
  BY <1>1 DEF PlaceAfter
<1>4. IsFiniteSet(Rest) /\ Cardinality(Rest) \in Nat
  BY QueuedFinite DEF Queued
<1>5. ASSUME NEW r \in Request PROVE q[r] <= Cardinality(Rest) /\ (r \in Rest <=> q[r] > 0)
  <2>1. Cardinality(Ahead(r)) <= Cardinality(Rest)
    BY <1>1, <1>4, FS_Subset
  <2>2. Cardinality(Ahead(r)) = 0 <=> Ahead(r) = {}
    BY <1>1, FS_EmptySet
  <2>3. r \in Rest => r \in Ahead(r)
    BY DEF Queued
  <2>4. pl[r] = 0 => Ahead(r) = {}
    OBVIOUS
  <2>5. r \notin gone => (r \in Rest <=> Ahead(r) # {})
    BY <2>3, <2>4 DEF Queued
  <2> HIDE DEF q, Ahead, Rest
  <2>6. CASE r \in gone
    <3>1. r \notin Rest
      BY <2>6 DEF Rest
    <3>2. QED
      BY <1>2, <1>4, <2>6, <3>1
  <2>7. CASE r \notin gone
    BY <1>1, <1>2, <2>1, <2>2, <2>5, <2>7
  <2>8. QED
    BY <2>6, <2>7
<1>6. Queued(q) = Rest
  BY <1>5 DEF Queued
<1>7. ASSUME NEW r \in Rest, NEW v \in Rest, pl[r] < pl[v] PROVE q[r] < q[v]
  <2>1. r \in Request /\ v \in Request /\ r \notin gone /\ v \notin gone
        /\ pl[r] \in Nat /\ pl[v] \in Nat /\ pl[v] > 0
    BY DEF Queued
  <2>2. Ahead(r) \subseteq Ahead(v)
    BY <1>7, <2>1
  <2>3. v \in Ahead(v) /\ v \notin Ahead(r)
    BY <1>7, <2>1
  <2> HIDE DEF Ahead, q
  <2>4. Cardinality(Ahead(r)) <= Cardinality(Ahead(v)) /\ Cardinality(Ahead(r)) # Cardinality(Ahead(v))
    BY <1>1, <2>1, <2>2, <2>3, FS_Subset
  <2>5. QED
    BY <1>1, <1>2, <2>1, <2>4
<1>8. ASSUME NEW r \in Rest, NEW v \in Rest, q[r] = q[v] PROVE r = v
  <2>1. pl[r] \in Nat /\ pl[v] \in Nat /\ q[r] \in Nat /\ q[v] \in Nat
    BY <1>3 DEF Queued
  <2> HIDE DEF q
  <2>2. pl[r] = pl[v]
    BY <1>7, <1>8, <2>1
  <2>3. r \in Queued(pl) /\ v \in Queued(pl)
    OBVIOUS
  <2>4. QED
    BY <2>2, <2>3 DEF InLine
<1> HIDE DEF q, Rest
<1>9. InLine(q)
  BY <1>5, <1>6, <1>8 DEF InLine
<1>10. QED
  BY <1>3, <1>6, <1>9 DEF q, Rest
-----------------------------------------------------------------------------
(* The queue as a whole: QueueAccounted for given places, pool counters    *)
(* and phases.                                                             *)
OfPool(S, p) == {r \in S : PoolOf[r] = p}

QueueSound(pl, n, ph) ==
  /\ InLine(pl)
  /\ Queued(pl) = {r \in Request : ph[r] = "waiting"}
  /\ Cardinality(Queued(pl)) <= MaxPending
  /\ \A p \in Pool : /\ n[p] = Cardinality(OfPool(Queued(pl), p))
                     /\ n[p] <= MaxPendingPerPool

(* The pool counters follow the waiters that leave; the clamp at zero      *)
(* never applies.                                                          *)
LEMMA DequeueSound ==
  ASSUME NEW pl \in [Request -> Nat], NEW n \in [Pool -> Nat], NEW ph, NEW gone,
         QueueSound(pl, n, ph), gone \subseteq Queued(pl),
         Dequeue(pl, n, gone),
         \A r \in Request : phase'[r] = "waiting" <=> ph[r] = "waiting" /\ r \notin gone
  PROVE  QueueSound(place', poolWaiting', phase')
<1>1. /\ place' = PlaceAfter(pl, gone) /\ poolWaiting' = CountAfter(n, gone)
      /\ InLine(pl) /\ Queued(pl) \in SUBSET Request
  BY DEF Dequeue, QueueSound, Queued
<1>2. InLine(place') /\ Queued(place') = Queued(pl) \ gone
  BY <1>1, DequeueInLine
<1>3. Queued(place') = {r \in Request : phase'[r] = "waiting"}
  BY <1>2 DEF QueueSound
<1>4. Cardinality(Queued(place')) <= MaxPending
  <2>1. /\ IsFiniteSet(Queued(pl)) /\ Cardinality(Queued(pl)) \in Nat
        /\ Cardinality(Queued(place')) \in Nat
    BY <1>1, <1>2, QueuedFinite
  <2>2. Cardinality(Queued(place')) <= Cardinality(Queued(pl))
    BY <1>2, <2>1, FS_Subset
  <2>3. MaxPending \in Nat
    BY CapacityConstants
  <2>4. QED
    BY <2>1, <2>2, <2>3 DEF QueueSound
<1>5. ASSUME NEW p \in Pool
      PROVE  /\ poolWaiting'[p] = Cardinality(OfPool(Queued(place'), p))
             /\ poolWaiting'[p] <= MaxPendingPerPool
  <2> DEFINE A == OfPool(Queued(pl), p)
             B == OfPool(gone, p)
             C == OfPool(Queued(place'), p)
  <2>1. A \in SUBSET Request /\ B \in SUBSET Request /\ C \in SUBSET Request
    BY <1>1, <1>2 DEF OfPool
  <2>2. A = C \cup B /\ C \cap B = {}
    BY <1>2 DEF OfPool
  <2>3. {r \in Request : r \in gone /\ PoolOf[r] = p} = B
    BY <1>1 DEF OfPool
  <2>4. n[p] = Cardinality(A) /\ n[p] <= MaxPendingPerPool /\ MaxPendingPerPool \in Nat
    BY CapacityConstants DEF QueueSound
  <2>5. poolWaiting'[p] = IF n[p] >= Cardinality(B) THEN n[p] - Cardinality(B) ELSE 0
    BY <1>1, <2>3 DEF CountAfter
  <2> HIDE DEF A, B, C
  <2>6. /\ IsFiniteSet(B) /\ IsFiniteSet(C)
        /\ Cardinality(A) \in Nat /\ Cardinality(B) \in Nat /\ Cardinality(C) \in Nat
    BY <2>1, QueuedFinite
  <2>7. Cardinality(A) = Cardinality(C) + Cardinality(B)
    BY <2>2, <2>6, FS_Union, FS_EmptySet
  <2>8. poolWaiting'[p] = Cardinality(C) /\ poolWaiting'[p] <= MaxPendingPerPool
    BY <2>4, <2>5, <2>6, <2>7
  <2>9. QED
    BY <2>8 DEF C
<1>6. QED
  BY <1>2, <1>3, <1>4, <1>5 DEF QueueSound

(* A request that waits or routes has neither permits nor a second call to *)
(* start; a second call that may start has not started.                    *)
SlotsFree(ph, ls, ho) ==
  \A r \in Request :
    /\ ph[r] \in {"routing", "waiting"} =>
         ls[<<r, "primary">>] = None /\ ls[<<r, "hedge">>] = None /\ ho[r] = None
    /\ ho[r] # None => ls[<<r, "hedge">>] = None

(* What a hand-off serves was waiting; the rest keeps its phase or, if it  *)
(* waited, leaves.                                                         *)
LEMMA FulfillOnePhases ==
  ASSUME TypeOK, NEW act, NEW pl \in [Request -> Nat], NEW n \in [Pool -> Nat], NEW ws,
         NEW ls \in [Slot -> Account \cup {None}], NEW ph \in [Request -> Phase], NEW woken,
         QueueSound(pl, n, ph), SlotsFree(ph, ls, hedgeOf),
         FulfillOne(act, pl, n, ws, ls, ph, woken)
  PROVE  /\ QueueSound(place', poolWaiting', phase')
         /\ SlotsFree(phase', lease', hedgeOf')
         /\ \A r \in Request : phase'[r] = ph[r] \/ (ph[r] = "waiting" /\ phase'[r] \in {"idle", "attempt"})
<1>1. ASSUME NEW S \in SUBSET Queued(pl), NEW served \in SUBSET Queued(pl),
             Settled(act, pl, n, ws, ph, S, served)
      PROVE  /\ QueueSound(place', poolWaiting', phase')
             /\ \A r \in Request : phase'[r] = ph[r] \/ (ph[r] = "waiting" /\ phase'[r] \in {"idle", "attempt"})
  <2> DEFINE gone == Rejected(act, S) \cup served
  <2>1. gone \subseteq Queued(pl) /\ Dequeue(pl, n, gone)
    BY <1>1 DEF Rejected, Settled
  <2>2. \A r \in gone : ph[r] = "waiting" /\ phase'[r] \in {"idle", "attempt"}
    BY <1>1, <2>1 DEF QueueSound, Settled, Queued
  <2>3. \A r \in Request : r \notin gone => phase'[r] = ph[r]
    BY <1>1 DEF Settled
  <2> HIDE DEF gone
  <2>4. \A r \in Request : phase'[r] = "waiting" <=> ph[r] = "waiting" /\ r \notin gone
    BY <2>2, <2>3
  <2>5. QED
    BY <2>1, <2>2, <2>3, <2>4, DequeueSound
<1>2. CASE NobodyServed(act, pl, n, ws, ls, ph, woken)
  <2>1. UNION {Wakes(pl, ws, a) : a \in woken} \in SUBSET Queued(pl)
    BY DEF Wakes, Queued
  <2>2. /\ QueueSound(place', poolWaiting', phase')
        /\ \A r \in Request : phase'[r] = ph[r] \/ (ph[r] = "waiting" /\ phase'[r] \in {"idle", "attempt"})
    BY <1>1, <1>2, <2>1 DEF NobodyServed
  <2>3. lease' = ls /\ hedgeOf' = hedgeOf
    BY <1>2 DEF NobodyServed
  <2>4. SlotsFree(phase', lease', hedgeOf')
    BY <2>2, <2>3 DEF SlotsFree
  <2>5. QED
    BY <2>2, <2>4
<1>3. ASSUME NEW a \in woken, NEW w \in Request, NEW S \in SUBSET Request,
             ServedBy(act, pl, n, ws, ls, ph, woken, a, w, S)
      PROVE  /\ QueueSound(place', poolWaiting', phase')
             /\ SlotsFree(phase', lease', hedgeOf')
             /\ \A r \in Request : phase'[r] = ph[r] \/ (ph[r] = "waiting" /\ phase'[r] \in {"idle", "attempt"})
  <2>1. S \in SUBSET Queued(pl) /\ w \in Queued(pl)
    BY <1>3 DEF ServedBy, Queued, Servable, Wakes
  <2>2. /\ QueueSound(place', poolWaiting', phase')
        /\ \A r \in Request : phase'[r] = ph[r] \/ (ph[r] = "waiting" /\ phase'[r] \in {"idle", "attempt"})
    BY <1>1, <1>3, <2>1 DEF ServedBy
  <2>3. ph[w] = "waiting" /\ phase'[w] = "attempt"
    BY <1>3, <2>1 DEF QueueSound, ServedBy, Settled
  <2>4. PICK b : /\ lease' = [ls EXCEPT ![<<w, "primary">>] = b]
                 /\ Attempt(w, b)
    BY <1>3 DEF ServedBy
  <2>5. ls[<<w, "hedge">>] = None
    BY <2>3 DEF SlotsFree
  <2>6. ASSUME NEW r \in Request
        PROVE  /\ phase'[r] \in {"routing", "waiting"} =>
                    lease'[<<r, "primary">>] = None /\ lease'[<<r, "hedge">>] = None /\ hedgeOf'[r] = None
               /\ hedgeOf'[r] # None => lease'[<<r, "hedge">>] = None
    <3>1. lease'[<<r, "hedge">>] = ls[<<r, "hedge">>]
      BY <2>4 DEF Slot
    <3>2. r # w => lease'[<<r, "primary">>] = ls[<<r, "primary">>] /\ hedgeOf'[r] = hedgeOf[r]
      BY <2>4 DEF Slot, Attempt, TypeOK
    <3>3. CASE r = w
      BY <2>3, <2>5, <3>1, <3>3
    <3>4. CASE r # w
      BY <2>2, <3>1, <3>2, <3>4 DEF SlotsFree
    <3>5. QED
      BY <3>3, <3>4
  <2>7. QED
    BY <2>2, <2>6 DEF SlotsFree
<1>4. QED
  BY <1>2, <1>3, FulfillOneOutcome
-----------------------------------------------------------------------------
(* Every step keeps the queue and the slots sound.                         *)

QueueInv ==
  /\ PermitInv
  /\ QueueSound(place, poolWaiting, phase)
  /\ SlotsFree(phase, lease, hedgeOf)

LEMMA InitQueueInv == Init => QueueInv
<1> SUFFICES ASSUME Init PROVE QueueInv
  OBVIOUS
<1>1. Queued(place) = {} /\ {r \in Request : phase[r] = "waiting"} = {}
  BY DEF Init, Queued
<1>2. MaxPending \in Nat /\ MaxPendingPerPool \in Nat
  BY CapacityConstants
<1>3. \A p : OfPool({}, p) = {}
  BY DEF OfPool
<1>4. QueueSound(place, poolWaiting, phase)
  <2>1. InLine(place)
    BY SMTT(60), <1>1, FS_EmptySet DEF Init, InLine
  <2>2. Cardinality(Queued(place)) = 0 /\ 0 <= MaxPending /\ 0 <= MaxPendingPerPool
    BY <1>1, <1>2, FS_EmptySet
  <2>3. \A p \in Pool : poolWaiting[p] = 0 /\ Cardinality(OfPool(Queued(place), p)) = 0
    BY <1>1, <1>3, FS_EmptySet DEF Init
  <2>4. QED
    BY <1>1, <2>1, <2>2, <2>3 DEF QueueSound
<1>5. SlotsFree(phase, lease, hedgeOf)
  BY DEF Init, SlotsFree, Slot
<1>6. QED
  BY <1>4, <1>5, InitPermitInv DEF QueueInv

(* A step that leaves the queue alone.                                     *)
LEMMA QueueUntouched ==
  ASSUME QueueSound(place, poolWaiting, phase), UNCHANGED <<place, poolWaiting>>,
         \A r \in Request : phase'[r] = "waiting" <=> phase[r] = "waiting"
  PROVE  QueueSound(place', poolWaiting', phase')
  BY DEF QueueSound

(* enqueueCapacityWaiter appends the request to the queue.                 *)
LEMMA EnqueueSound ==
  ASSUME QueueInv, NEW r \in Request, phase[r] = "routing", ~QueueFull(r)
  PROVE  LET pl == [place EXCEPT ![r] = Cardinality(Waiting) + 1]
             n  == [poolWaiting EXCEPT ![PoolOf[r]] = @ + 1]
             ph == [phase EXCEPT ![r] = "waiting"]
         IN /\ pl \in [Request -> Nat] /\ n \in [Pool -> Nat] /\ ph \in [Request -> Phase]
            /\ QueueSound(pl, n, ph)
            /\ SlotsFree(ph, lease, hedgeOf)
            /\ Queued(pl) = Queued(place) \cup {r}
<1> DEFINE Q  == Queued(place)
           pl == [place EXCEPT ![r] = Cardinality(Waiting) + 1]
           n  == [poolWaiting EXCEPT ![PoolOf[r]] = @ + 1]
           ph == [phase EXCEPT ![r] = "waiting"]
<1>1. /\ place \in [Request -> Nat] /\ poolWaiting \in [Pool -> Nat] /\ phase \in [Request -> Phase]
      /\ QueueSound(place, poolWaiting, phase) /\ PoolOf[r] \in Pool
  BY CapacityConstants DEF QueueInv, PermitInv, TypeOK
<1>2. Waiting = Q /\ IsFiniteSet(Q) /\ Cardinality(Q) \in Nat /\ r \notin Q /\ place[r] = 0
      /\ Q \in SUBSET Request
  <2>1. Waiting = Q /\ r \notin Q /\ Q \in SUBSET Request
    BY <1>1 DEF Waiting, Queued, QueueSound
  <2>2. place[r] = 0
    BY <1>1, <2>1 DEF Queued
  <2>3. QED
    BY <2>1, <2>2, QueuedFinite
<1>3. /\ pl \in [Request -> Nat] /\ n \in [Pool -> Nat] /\ ph \in [Request -> Phase]
  BY <1>1, <1>2 DEF Phase
<1>4. Queued(pl) = Q \cup {r}
  BY <1>1, <1>2 DEF Queued
<1>5. Cardinality(Queued(pl)) = Cardinality(Q) + 1
  BY ZenonT(60), <1>2, <1>4, FS_AddElement
<1>6. InLine(pl)
  <2>1. \A v \in Request : v # r => pl[v] = place[v] /\ place[v] <= Cardinality(Q)
    BY <1>1 DEF InLine, QueueSound
  <2>2. pl[r] = Cardinality(Q) + 1
    BY <1>1, <1>2
  <2>3. \A v \in Request : pl[v] \in Nat
    BY <1>3
  <2>4. \A u, v \in Q : place[u] = place[v] => u = v
    BY <1>1 DEF InLine, QueueSound
  <2> HIDE DEF pl, Q
  <2>5. \A v \in Request : pl[v] <= Cardinality(Q) + 1
    BY <1>2, <1>1, <2>1, <2>2
  <2>6. ASSUME NEW u \in Q \cup {r}, NEW v \in Q \cup {r}, pl[u] = pl[v] PROVE u = v
    BY <1>1, <1>2, <2>1, <2>2, <2>4, <2>6
  <2>7. QED
    BY <1>4, <1>5, <2>5, <2>6 DEF InLine
<1>7. Queued(pl) = {v \in Request : ph[v] = "waiting"}
  BY <1>1, <1>2, <1>4 DEF QueueSound
<1>8. Cardinality(Queued(pl)) <= MaxPending
  BY <1>2, <1>5, CapacityConstants DEF QueueFull
<1>9. ASSUME NEW p \in Pool
      PROVE  n[p] = Cardinality(OfPool(Queued(pl), p)) /\ n[p] <= MaxPendingPerPool
  <2>1. /\ poolWaiting[p] = Cardinality(OfPool(Q, p)) /\ poolWaiting[p] <= MaxPendingPerPool
        /\ poolWaiting[p] \in Nat /\ MaxPendingPerPool \in Nat
    BY <1>1, CapacityConstants DEF QueueSound
  <2>2. CASE p = PoolOf[r]
    <3>1. OfPool(Queued(pl), p) = OfPool(Q, p) \cup {r} /\ r \notin OfPool(Q, p)
      BY <1>2, <1>4, <2>2 DEF OfPool
    <3>2. IsFiniteSet(OfPool(Q, p))
      BY <1>2, FS_Subset DEF OfPool
    <3>3. Cardinality(OfPool(Queued(pl), p)) = Cardinality(OfPool(Q, p)) + 1
      BY <3>1, <3>2, FS_AddElement
    <3>4. n[p] = poolWaiting[p] + 1 /\ poolWaiting[p] < MaxPendingPerPool
      BY <1>1, <2>1, <2>2 DEF QueueFull
    <3>5. QED
      BY <2>1, <3>3, <3>4
  <2>3. CASE p # PoolOf[r]
    <3>1. OfPool(Queued(pl), p) = OfPool(Q, p)
      BY <1>4, <2>3 DEF OfPool
    <3>2. QED
      BY <1>1, <2>1, <2>3, <3>1
  <2>4. QED
    BY <2>2, <2>3
<1>10. SlotsFree(ph, lease, hedgeOf)
  BY <1>1 DEF QueueInv, SlotsFree
<1> HIDE DEF pl, n, ph, Q
<1>11. QueueSound(pl, n, ph)
  BY <1>6, <1>7, <1>8, <1>9 DEF QueueSound
<1>12. QED
  BY <1>3, <1>4, <1>10, <1>11 DEF pl, n, ph, Q

(* The leases and phases from which a returned permit is handed on.        *)
LeaseAfter(r, k) == [lease EXCEPT ![<<r, k>>] = None]
PhaseAfter(r, k) == IF k = "primary" THEN [phase EXCEPT ![r] = "idle"] ELSE phase

LEMMA ReturnSound ==
  ASSUME QueueInv, NEW r \in Request, NEW k \in {"primary", "hedge"}, lease[<<r, k>>] # None
  PROVE  /\ LeaseAfter(r, k) \in [Slot -> Account \cup {None}]
         /\ PhaseAfter(r, k) \in [Request -> Phase]
         /\ QueueSound(place, poolWaiting, PhaseAfter(r, k))
         /\ SlotsFree(PhaseAfter(r, k), LeaseAfter(r, k), hedgeOf)
         /\ \A v \in Request : PhaseAfter(r, k)[v] = "waiting" <=> phase[v] = "waiting"
<1> DEFINE ls == [lease EXCEPT ![<<r, k>>] = None]
           ph == IF k = "primary" THEN [phase EXCEPT ![r] = "idle"] ELSE phase
<1>1. /\ lease \in [Slot -> Account \cup {None}] /\ phase \in [Request -> Phase]
      /\ QueueSound(place, poolWaiting, phase) /\ SlotsFree(phase, lease, hedgeOf)
      /\ phase[r] \notin {"routing", "waiting"}
  BY DEF QueueInv, PermitInv, TypeOK, SlotsFree
<1>2. ls \in [Slot -> Account \cup {None}] /\ ph \in [Request -> Phase]
  BY <1>1 DEF Phase
<1>3. \A v \in Request : ph[v] = phase[v] \/ (ph[v] = "idle" /\ phase[v] \notin {"routing", "waiting"})
  BY <1>1
<1>4. \A s \in Slot : ls[s] = lease[s] \/ ls[s] = None
  BY <1>1
<1>5. \A v \in Request : <<v, "primary">> \in Slot /\ <<v, "hedge">> \in Slot
  BY DEF Slot
<1> HIDE DEF ls, ph
<1>6. \A v \in Request : ph[v] = "waiting" <=> phase[v] = "waiting"
  BY <1>3
<1>7. SlotsFree(ph, ls, hedgeOf)
  BY <1>1, <1>3, <1>4, <1>5 DEF SlotsFree
<1>8. QueueSound(place, poolWaiting, ph)
  BY <1>1, <1>6 DEF QueueSound
<1>9. QED
  BY <1>2, <1>6, <1>7, <1>8 DEF ls, ph, LeaseAfter, PhaseAfter

LEMMA StepQueueInv == QueueInv /\ [Next]_vars => QueueInv'
<1> SUFFICES ASSUME QueueInv, [Next]_vars PROVE QueueInv'
  OBVIOUS
<1> DEFINE Goal == QueueSound(place', poolWaiting', phase') /\ SlotsFree(phase', lease', hedgeOf')
<1>1. /\ TypeOK /\ QueueSound(place, poolWaiting, phase) /\ SlotsFree(phase, lease, hedgeOf)
  BY DEF QueueInv, PermitInv
<1>2. \A r \in Request : <<r, "primary">> \in Slot /\ <<r, "hedge">> \in Slot
  BY DEF Slot
<1>3. ASSUME NEW r \in Request, Arrive(r) PROVE Goal
  <2>1. /\ UNCHANGED <<place, poolWaiting, lease, hedgeOf>>
        /\ phase' = [phase EXCEPT ![r] = "routing"] /\ phase[r] = "idle"
        /\ lease[<<r, "primary">>] = None /\ lease[<<r, "hedge">>] = None /\ hedgeOf[r] = None
    BY <1>3 DEF Arrive, queueVars
  <2>2. QED
    BY <1>1, <2>1, QueueUntouched DEF SlotsFree, TypeOK
<1>4. ASSUME NEW r \in Request, SelectNow(r) PROVE Goal
  <2>1. PICK a : lease' = [lease EXCEPT ![<<r, "primary">>] = a] /\ Attempt(r, a)
    BY <1>4 DEF SelectNow
  <2>2. /\ UNCHANGED <<place, poolWaiting>> /\ phase[r] = "routing"
        /\ phase' = [phase EXCEPT ![r] = "attempt"]
    BY <1>4 DEF SelectNow, queueVars
  <2>3. ASSUME NEW v \in Request
        PROVE  /\ lease'[<<v, "hedge">>] = lease[<<v, "hedge">>]
               /\ v # r => lease'[<<v, "primary">>] = lease[<<v, "primary">>] /\ hedgeOf'[v] = hedgeOf[v]
    BY <1>1, <1>2, <2>1 DEF Attempt, TypeOK
  <2>4. QED
    BY <1>1, <2>2, <2>3, QueueUntouched DEF SlotsFree, TypeOK
<1>5. ASSUME NEW r \in Request, Refuse(r) \/ DeadlinePasses(r) PROVE Goal
  <2>1. /\ UNCHANGED <<place, poolWaiting, lease, hedgeOf>>
        /\ phase' = phase \/ (phase[r] = "routing" /\ phase' = [phase EXCEPT ![r] = "idle"])
    BY <1>5 DEF Refuse, DeadlinePasses, queueVars
  <2>2. QED
    BY <1>1, <2>1, QueueUntouched DEF SlotsFree, TypeOK
<1>6. ASSUME NEW r \in Request, Enqueue(r) PROVE Goal
  <2>1. phase[r] = "routing" /\ ~QueueFull(r)
    BY <1>6 DEF Enqueue
  <2>2. PICK pl \in [Request -> Nat], n \in [Pool -> Nat], ph \in [Request -> Phase] :
          /\ QueueSound(pl, n, ph) /\ SlotsFree(ph, lease, hedgeOf)
          /\ \E ws, woken : FulfillOne(active, pl, n, ws, lease, ph, woken)
    BY <1>6, <2>1, EnqueueSound DEF Enqueue
  <2>3. QED
    BY <1>1, <2>2, FulfillOnePhases DEF TypeOK
<1>7. ASSUME NEW r \in Request, Reject(r), UNCHANGED <<lease, hedgeOf>> PROVE Goal
  <2>1. /\ {r} \subseteq Queued(place) /\ Dequeue(place, poolWaiting, {r})
        /\ phase' = [phase EXCEPT ![r] = "idle"]
    BY <1>1, <1>7 DEF Reject, QueueSound
  <2>2. \A v \in Request : phase'[v] = "waiting" <=> phase[v] = "waiting" /\ v \notin {r}
    BY <1>1, <2>1 DEF TypeOK
  <2>3. QueueSound(place', poolWaiting', phase')
    BY <1>1, <2>1, <2>2, DequeueSound DEF TypeOK
  <2>4. SlotsFree(phase', lease', hedgeOf')
    BY <1>1, <1>7, <2>1 DEF SlotsFree, TypeOK
  <2>5. QED
    BY <2>3, <2>4
<1>8. ASSUME NEW r \in Request, TimerFires(r) PROVE Goal
  BY <1>7, <1>8 DEF TimerFires
<1>9. ASSUME NEW r \in Request, Abort(r) PROVE Goal
  <2>1. CASE phase[r] = "waiting"
    BY <1>7, <1>9, <2>1 DEF Abort
  <2>2. CASE phase[r] # "waiting"
    BY <1>1, <1>9, <2>2, QueueUntouched DEF Abort, queueVars
  <2>3. QED
    BY <2>1, <2>2
<1>10. ASSUME NEW r \in Request, TryHedge(r) \/ PrimaryAnswers(r) PROVE Goal
  <2>1. /\ UNCHANGED <<place, poolWaiting, phase>> /\ hedgeOf[r] # None
        /\ hedgeOf' = [hedgeOf EXCEPT ![r] = None]
        /\ lease' = lease \/ lease' = [lease EXCEPT ![<<r, "hedge">>] = hedgeOf[r]]
    BY <1>10 DEF TryHedge, PrimaryAnswers, queueVars
  <2>2. phase[r] \notin {"routing", "waiting"}
    BY <1>1, <2>1 DEF SlotsFree
  <2>3. ASSUME NEW v \in Request
        PROVE  /\ lease'[<<v, "primary">>] = lease[<<v, "primary">>]
               /\ v # r => lease'[<<v, "hedge">>] = lease[<<v, "hedge">>] /\ hedgeOf'[v] = hedgeOf[v]
               /\ hedgeOf'[r] = None
    BY <1>1, <1>2, <2>1 DEF TypeOK
  <2>4. QED
    BY <1>1, <2>1, <2>2, <2>3, QueueUntouched DEF SlotsFree
<1>11. ASSUME NEW r \in Request, NEW k \in {"primary", "hedge"}, Release(r, k) PROVE Goal
  <2>1. lease[<<r, k>>] # None
    BY <1>11 DEF Release
  <2>2. /\ LeaseAfter(r, k) \in [Slot -> Account \cup {None}] /\ PhaseAfter(r, k) \in [Request -> Phase]
        /\ QueueSound(place, poolWaiting, PhaseAfter(r, k))
        /\ SlotsFree(PhaseAfter(r, k), LeaseAfter(r, k), hedgeOf)
    BY <2>1, ReturnSound
  <2>3. CASE ReturnsPermit(r)
    <3>1. \E act, woken : FulfillOne(act, place, poolWaiting, waitSet, LeaseAfter(r, k), PhaseAfter(r, k), woken)
      BY <1>11, <2>3 DEF Release, LeaseAfter, PhaseAfter
    <3>2. QED
      BY <1>1, <2>2, <3>1, FulfillOnePhases DEF TypeOK
  <2>4. CASE ~ReturnsPermit(r)
    <3>1. lease' = LeaseAfter(r, k) /\ phase' = PhaseAfter(r, k) /\ UNCHANGED <<place, poolWaiting, hedgeOf>>
      BY <1>11, <2>4 DEF Release, queueVars, LeaseAfter, PhaseAfter
    <3>2. QED
      BY <2>2, <3>1
  <2>5. QED
    BY <2>3, <2>4
<1>12. ASSUME NEW a \in Account, Trip(a) \/ CooldownElapses(a) \/ Recover(a) PROVE Goal
  <2>1. UNCHANGED <<place, poolWaiting, phase, lease, hedgeOf>>
    BY <1>12 DEF Trip, CooldownElapses, Recover, queueVars
  <2>2. QED
    BY <1>1, <2>1
<1>13. ASSUME Stop PROVE Goal
  <2>1. Queued(place') = {} /\ {r \in Request : phase'[r] = "waiting"} = {}
    BY <1>13 DEF Stop, Queued
  <2>2. MaxPending \in Nat /\ MaxPendingPerPool \in Nat
    BY CapacityConstants
  <2>3. \A p : OfPool({}, p) = {}
    BY DEF OfPool
  <2>4. QueueSound(place', poolWaiting', phase')
    BY SMTT(60), <1>13, <2>1, <2>2, <2>3, FS_EmptySet DEF Stop, QueueSound, InLine
  <2>5. SlotsFree(phase', lease', hedgeOf')
    BY <1>1, <1>13 DEF Stop, SlotsFree
  <2>6. QED
    BY <2>4, <2>5
<1>14. ASSUME UNCHANGED vars PROVE Goal
  BY <1>1, <1>14 DEF vars, queueVars
<1> HIDE DEF Goal
<1>15. Goal
  BY <1>3, <1>4, <1>5, <1>6, <1>8, <1>9, <1>10, <1>11, <1>12, <1>13, <1>14 DEF Next
<1>16. QED
  BY <1>15, StepPermitInv DEF QueueInv, Goal
-----------------------------------------------------------------------------
(* Every step of the scheduler is a step of AccountPermits.                *)

View(ls) == [a \in Account |-> Held(ls, a)]

(* AccountPermits counts with the same function.                           *)
LEMMA SameCount == \A S : Permits!Cardinality(S) = Cardinality(S)
  BY DEF Permits!Cardinality, Cardinality, Permits!IsFiniteSet, IsFiniteSet

(* A permit granted to a free slot, which is one of the current run or of  *)
(* no account as far as the current run is concerned.                      *)
LEMMA GrantView ==
  ASSUME NEW ls \in [Slot -> Account \cup {None}], NEW s \in Slot, NEW b \in Account, ls[s] = None
  PROVE  /\ reqGen[s[1]] = generation =>
              /\ View([ls EXCEPT ![s] = b]) = Permits!Grant(View(ls), b, s)
              /\ Permits!Free(View(ls), s)
         /\ reqGen[s[1]] # generation => View([ls EXCEPT ![s] = b]) = View(ls)
<1>1. \A a \in Account : None # a
  BY CapacityConstants
<1>2. ASSUME NEW a \in Account
      PROVE  Held([ls EXCEPT ![s] = b], a) =
               IF a = b /\ reqGen[s[1]] = generation THEN Held(ls, a) \cup {s} ELSE Held(ls, a)
  BY <1>1 DEF Held
<1>3. \A a \in Account : s \notin Held(ls, a)
  BY <1>1 DEF Held
<1>4. QED
  <2>1. reqGen[s[1]] # generation => View([ls EXCEPT ![s] = b]) = View(ls)
    BY <1>2 DEF View
  <2>2. ASSUME reqGen[s[1]] = generation
        PROVE  View([ls EXCEPT ![s] = b]) = [View(ls) EXCEPT ![b] = @ \cup {s}]
    BY <1>2, <2>2 DEF View
  <2>3. Permits!Free(View(ls), s)
    BY <1>3 DEF View, Permits!Free
  <2>4. QED
    BY <2>1, <2>2, <2>3 DEF Permits!Grant

LEMMA ReturnView ==
  ASSUME NEW ls \in [Slot -> Account \cup {None}], NEW s \in Slot, NEW b \in Account,
         ls[s] = b, reqGen[s[1]] = generation
  PROVE  /\ View([ls EXCEPT ![s] = None]) = Permits!Revoke(View(ls), b, s)
         /\ s \in View(ls)[b]
<1>1. \A a \in Account : None # a
  BY CapacityConstants
<1>2. ASSUME NEW a \in Account
      PROVE  Held([ls EXCEPT ![s] = None], a) = IF a = b THEN Held(ls, a) \ {s} ELSE Held(ls, a)
  BY <1>1 DEF Held
<1>3. View([ls EXCEPT ![s] = None]) = [View(ls) EXCEPT ![b] = @ \ {s}]
  BY <1>2 DEF View
<1>4. s \in View(ls)[b]
  BY DEF View, Held
<1>5. QED
  BY <1>3, <1>4 DEF Permits!Revoke

(* A hand-off grants at most one permit: to a waiter without one, of an    *)
(* account that is available and below its concurrency.                    *)
Handed(act, ls) ==
  \/ active' = act /\ lease' = ls
  \/ \E b \in Account, s \in Slot :
       /\ ls[s] = None
       /\ act[b] < MaxConcurrency[b] /\ Available(act, b)
       /\ active' = [act EXCEPT ![b] = @ + 1]
       /\ lease' = [ls EXCEPT ![s] = b]

LEMMA CandidatesAvailable ==
  ASSUME TypeOK, NEW act, NEW r \in Request, NEW a \in Candidates(act, r)
  PROVE  Available(act, a)
  BY DEF Candidates, Eligible

LEMMA FulfillOneHands ==
  ASSUME TypeOK, NEW act \in [Account -> Nat], NEW pl \in [Request -> Nat],
         NEW n \in [Pool -> Nat], NEW ws, NEW ls \in [Slot -> Account \cup {None}],
         NEW ph \in [Request -> Phase], NEW woken,
         QueueSound(pl, n, ph), SlotsFree(ph, ls, hedgeOf),
         FulfillOne(act, pl, n, ws, ls, ph, woken)
  PROVE  Handed(act, ls)
<1>1. ASSUME NEW a \in woken, NEW w \in Request, NEW S \in SUBSET Request,
             ServedBy(act, pl, n, ws, ls, ph, woken, a, w, S)
      PROVE  Handed(act, ls)
  <2>1. ph[w] = "waiting"
    BY <1>1 DEF ServedBy, Servable, Wakes, QueueSound, Queued
  <2>2. ls[<<w, "primary">>] = None /\ <<w, "primary">> \in Slot
    BY <2>1 DEF SlotsFree, Slot
  <2>3. PICK b \in Candidates(act, w) : /\ active' = [act EXCEPT ![b] = @ + 1]
                                        /\ lease' = [ls EXCEPT ![<<w, "primary">>] = b]
    BY <1>1 DEF ServedBy
  <2>4. b \in Account /\ act[b] < MaxConcurrency[b] /\ Available(act, b)
    BY CandidatesBelowLimit, CandidatesAvailable
  <2>5. QED
    BY <2>2, <2>3, <2>4 DEF Handed
<1>2. CASE NobodyServed(act, pl, n, ws, ls, ph, woken)
  BY <1>2 DEF NobodyServed, Handed
<1>3. QED
  BY <1>1, <1>2, FulfillOneOutcome

(* What a step does to the permits.                                        *)
LEMMA StepHands ==
  ASSUME QueueInv, [Next]_vars
  PROVE  \/ /\ UNCHANGED <<reqGen, generation>> /\ Handed(active, lease)
         \/ /\ UNCHANGED <<reqGen, generation, circuit>>
            /\ \E s \in Slot, a \in Account :
                 /\ lease[s] = a /\ reqGen[s[1]] = generation
                 /\ Handed(Returned(active, a), [lease EXCEPT ![s] = None])
         \/ /\ UNCHANGED <<reqGen, generation, active>>
            /\ \E s \in Slot : /\ reqGen[s[1]] # generation
                               /\ lease' = [lease EXCEPT ![s] = None]
         \/ \E r \in Request : Arrive(r)
         \/ Stop
<1>1. TypeOK /\ QueueSound(place, poolWaiting, phase) /\ SlotsFree(phase, lease, hedgeOf)
  BY DEF QueueInv, PermitInv
<1>2. ASSUME NEW r \in Request, SelectNow(r)
      PROVE  UNCHANGED <<reqGen, generation>> /\ Handed(active, lease)
  <2>1. PICK b \in Candidates(active, r) : /\ active' = [active EXCEPT ![b] = @ + 1]
                                           /\ lease' = [lease EXCEPT ![<<r, "primary">>] = b]
    BY <1>2 DEF SelectNow
  <2>2. lease[<<r, "primary">>] = None /\ <<r, "primary">> \in Slot
    BY <1>1, <1>2 DEF SlotsFree, Slot, SelectNow
  <2>3. b \in Account /\ active[b] < MaxConcurrency[b] /\ Available(active, b)
    BY <1>1, CandidatesBelowLimit, CandidatesAvailable DEF TypeOK
  <2>4. QED
    BY <1>2, <2>1, <2>2, <2>3 DEF Handed, SelectNow, requestVars
<1>3. ASSUME NEW r \in Request, Enqueue(r)
      PROVE  UNCHANGED <<reqGen, generation>> /\ Handed(active, lease)
  <2>1. phase[r] = "routing" /\ ~QueueFull(r) /\ UNCHANGED <<reqGen, generation>>
    BY <1>3 DEF Enqueue, requestVars
  <2>2. PICK pl \in [Request -> Nat], n \in [Pool -> Nat], ph \in [Request -> Phase] :
          /\ QueueSound(pl, n, ph) /\ SlotsFree(ph, lease, hedgeOf)
          /\ \E ws, woken : FulfillOne(active, pl, n, ws, lease, ph, woken)
    BY <1>3, <2>1, EnqueueSound DEF Enqueue
  <2>3. QED
    BY <1>1, <2>1, <2>2, FulfillOneHands DEF TypeOK
<1>4. ASSUME NEW r \in Request, TryHedge(r)
      PROVE  UNCHANGED <<reqGen, generation>> /\ Handed(active, lease)
  <2> DEFINE a == hedgeOf[r]
  <2>1. /\ UNCHANGED <<reqGen, generation>> /\ a \in Account
        /\ lease[<<r, "hedge">>] = None /\ <<r, "hedge">> \in Slot
    BY <1>1, <1>4 DEF TryHedge, requestVars, SlotsFree, Slot, TypeOK
  <2>2. \/ active' = active /\ lease' = lease
        \/ /\ Eligible(active, r, a)
           /\ active' = [active EXCEPT ![a] = @ + 1]
           /\ lease' = [lease EXCEPT ![<<r, "hedge">>] = a]
    BY <1>4 DEF TryHedge
  <2> HIDE DEF a
  <2>3. ASSUME Eligible(active, r, a) PROVE active[a] < MaxConcurrency[a] /\ Available(active, a)
    <3>1. active[a] < ConcurrencyLimit(r, a) /\ Available(active, a) /\ active[a] \in Nat
      BY <1>1, <2>1, <2>3 DEF Eligible, TypeOK
    <3>2. ConcurrencyLimit(r, a) \in Nat /\ ConcurrencyLimit(r, a) <= MaxConcurrency[a]
      BY <1>1, <2>1, CapacityConstants DEF ConcurrencyLimit, TypeOK
    <3>3. QED
      BY <2>1, <3>1, <3>2, CapacityConstants
  <2>4. QED
    BY <2>1, <2>2, <2>3 DEF Handed
<1>5. ASSUME NEW r \in Request, NEW k \in {"primary", "hedge"}, Release(r, k)
      PROVE  /\ UNCHANGED <<reqGen, generation, circuit>>
             /\ \/ \E s \in Slot, a \in Account :
                     /\ lease[s] = a /\ reqGen[s[1]] = generation
                     /\ Handed(Returned(active, a), [lease EXCEPT ![s] = None])
                \/ /\ UNCHANGED active
                   /\ \E s \in Slot : /\ reqGen[s[1]] # generation
                                      /\ lease' = [lease EXCEPT ![s] = None]
  <2> DEFINE a == lease[<<r, k>>]
  <2>1. /\ UNCHANGED <<reqGen, generation, circuit>> /\ a \in Account /\ <<r, k>> \in Slot
        /\ a # None
    BY <1>1, <1>5 DEF Release, requestVars, healthVars, Slot, TypeOK
  <2>2. /\ LeaseAfter(r, k) \in [Slot -> Account \cup {None}] /\ PhaseAfter(r, k) \in [Request -> Phase]
        /\ QueueSound(place, poolWaiting, PhaseAfter(r, k))
        /\ SlotsFree(PhaseAfter(r, k), LeaseAfter(r, k), hedgeOf)
    BY <2>1, ReturnSound
  <2>3. CASE ReturnsPermit(r)
    <3>1. \E woken : FulfillOne(Returned(active, a), place, poolWaiting, waitSet,
                                LeaseAfter(r, k), PhaseAfter(r, k), woken)
      BY <1>5, <2>3 DEF Release, LeaseAfter, PhaseAfter
    <3>2. Returned(active, a) \in [Account -> Nat]
      BY <1>1, <2>1 DEF Returned, TypeOK
    <3>3. Handed(Returned(active, a), LeaseAfter(r, k))
      BY <1>1, <2>2, <3>1, <3>2, FulfillOneHands DEF TypeOK
    <3>4. QED
      BY <2>1, <2>3, <3>3 DEF ReturnsPermit, LeaseAfter
  <2>4. CASE ~ReturnsPermit(r)
    BY <1>5, <2>1, <2>4 DEF Release, ReturnsPermit
  <2>5. QED
    BY <2>1, <2>3, <2>4
<1>6. ASSUME \/ \E r \in Request : \/ Refuse(r) \/ DeadlinePasses(r) \/ TimerFires(r)
                                   \/ Abort(r) \/ PrimaryAnswers(r)
             \/ \E a \in Account : Trip(a) \/ CooldownElapses(a) \/ Recover(a)
             \/ UNCHANGED vars
      PROVE  UNCHANGED <<reqGen, generation>> /\ Handed(active, lease)
  <2>1. UNCHANGED <<active, lease, reqGen, generation>>
    BY <1>6 DEF Refuse, DeadlinePasses, TimerFires, Abort, PrimaryAnswers, Trip, CooldownElapses,
       Recover, vars, requestVars
  <2>2. QED
    BY <2>1 DEF Handed
<1>7. QED
  BY <1>2, <1>3, <1>4, <1>5, <1>6 DEF Next

(* Below the count is below the permits: a grant may be made abstractly.   *)
LEMMA HandedPermits ==
  ASSUME NEW act \in [Account -> Nat], NEW ls \in [Slot -> Account \cup {None}],
         Fits(act, ls), Handed(act, ls)
  PROVE  \/ View(lease') = View(ls)
         \/ \E b \in Account, t \in Slot :
              /\ Permits!Free(View(ls), t)
              /\ Cardinality(View(ls)[b]) < MaxConcurrency[b]
              /\ View(lease') = Permits!Grant(View(ls), b, t)
<1>1. CASE lease' = ls
  BY <1>1
<1>2. ASSUME NEW b \in Account, NEW s \in Slot, ls[s] = None, act[b] < MaxConcurrency[b],
             lease' = [ls EXCEPT ![s] = b]
      PROVE  \/ View(lease') = View(ls)
             \/ /\ Permits!Free(View(ls), s)
                /\ Cardinality(View(ls)[b]) < MaxConcurrency[b]
                /\ View(lease') = Permits!Grant(View(ls), b, s)
  <2>1. Cardinality(Held(ls, b)) <= act[b] /\ Cardinality(Held(ls, b)) \in Nat
        /\ MaxConcurrency[b] \in Nat /\ View(ls)[b] = Held(ls, b)
    BY HeldFinite, CapacityConstants DEF Fits, View
  <2>2. Cardinality(View(ls)[b]) < MaxConcurrency[b]
    BY <1>2, <2>1
  <2>3. QED
    BY <1>2, <2>2, GrantView
<1>3. QED
  BY <1>1, <1>2 DEF Handed

LEMMA StepPermits ==
  ASSUME QueueInv, [Next]_vars
  PROVE  \/ Permits!Next
         \/ [a \in Account |-> Holders(a)]' = [a \in Account |-> Holders(a)]
<1> DEFINE h == [a \in Account |-> Holders(a)]
<1>1. /\ TypeOK /\ NeverOversubscribed /\ Fits(active, lease) /\ h = View(lease)
      /\ \A r \in Request : reqGen[r] <= generation
  BY FitsNow DEF QueueInv, PermitInv, View, Held, Holders
<1>2. ASSUME UNCHANGED <<reqGen, generation>> PROVE h' = View(lease')
  BY <1>2 DEF View, Held, Holders
<1>3. ASSUME UNCHANGED <<reqGen, generation>>, Handed(active, lease)
      PROVE  Permits!Next \/ h' = h
  <2>1. \/ h' = h
        \/ \E b \in Account, t \in Slot : /\ Permits!Free(h, t)
                                          /\ Cardinality(h[b]) < MaxConcurrency[b]
                                          /\ h' = Permits!Grant(h, b, t)
    BY <1>1, <1>2, <1>3, HandedPermits DEF TypeOK
  <2>2. QED
    BY <2>1, SameCount DEF Permits!Next, Permits!Acquire
<1>4. ASSUME UNCHANGED <<reqGen, generation>>, NEW s \in Slot, NEW a \in Account,
             lease[s] = a, reqGen[s[1]] = generation,
             Handed(Returned(active, a), [lease EXCEPT ![s] = None])
      PROVE  Permits!Next
  <2> DEFINE ls  == [lease EXCEPT ![s] = None]
             act == Returned(active, a)
  <2>1. ls \in [Slot -> Account \cup {None}] /\ act \in [Account -> Nat]
    BY <1>1 DEF TypeOK, Returned
  <2>2. Fits(act, ls)
    BY <1>1, <1>4, ReturnFits DEF TypeOK
  <2>3. View(ls) = Permits!Revoke(h, a, s) /\ s \in h[a]
    BY <1>1, <1>4, ReturnView DEF TypeOK
  <2>4. Handed(act, ls)
    BY <1>4
  <2> HIDE DEF ls, act
  <2>5. \/ h' = View(ls)
        \/ \E b \in Account, t \in Slot : /\ Permits!Free(View(ls), t)
                                          /\ Cardinality(View(ls)[b]) < MaxConcurrency[b]
                                          /\ h' = Permits!Grant(View(ls), b, t)
    BY <1>2, <1>4, <2>1, <2>2, <2>4, HandedPermits
  <2>6. QED
    BY <2>3, <2>5, SameCount DEF Permits!Next, Permits!Release, Permits!HandOver
<1>5. ASSUME UNCHANGED <<reqGen, generation>>, NEW s \in Slot,
             reqGen[s[1]] # generation, lease' = [lease EXCEPT ![s] = None]
      PROVE  h' = h
  <2>1. \A a \in Account : Held(lease', a) = Held(lease, a)
    BY <1>1, <1>5, CapacityConstants DEF Held, TypeOK
  <2>2. QED
    BY <1>1, <1>2, <1>5, <2>1 DEF View
<1>6. ASSUME NEW r \in Request, Arrive(r) PROVE h' = h
  <2>1. \A s \in Slot : s[1] = r => lease[s] = None
    BY <1>6 DEF Arrive, Slot
  <2>2. \A s \in Slot : s[1] # r => reqGen'[s[1]] = reqGen[s[1]]
    BY <1>1, <1>6 DEF Arrive, Slot, TypeOK
  <2>3. \A a \in Account : Holders(a)' = Holders(a)
    BY <1>6, <2>1, <2>2, CapacityConstants DEF Arrive, Holders
  <2>4. QED
    BY <2>3
<1>7. ASSUME Stop PROVE Permits!Next
  <2>1. generation' = generation + 1 /\ reqGen' = reqGen
    BY <1>7 DEF Stop
  <2>2. \A a \in Account : Holders(a)' = {}
    BY <1>1, <2>1 DEF Holders, Slot, TypeOK
  <2>3. QED
    BY <2>2 DEF Permits!Next, Permits!Reset
<1>8. QED
  BY <1>3, <1>4, <1>5, <1>6, <1>7, StepHands
-----------------------------------------------------------------------------
(* A half-open account carries one probe.                                  *)

LEMMA HandedProbes ==
  ASSUME NEW act \in [Account -> Nat], NEW ls, Handed(act, ls), NEW a \in Account,
         circuit[a] = "half-open"
  PROVE  active'[a] <= IF act[a] = 0 THEN 1 ELSE act[a]
<1>1. CASE active' = act
  BY <1>1
<1>2. ASSUME NEW b \in Account, Available(act, b), active' = [act EXCEPT ![b] = @ + 1]
      PROVE  active'[a] <= IF act[a] = 0 THEN 1 ELSE act[a]
  <2>1. CASE b = a
    <3>1. act[a] = 0
      BY <1>2, <2>1 DEF Available
    <3>2. QED
      BY <1>2, <2>1, <3>1
  <2>2. CASE b # a
    BY <1>2, <2>2
  <2>3. QED
    BY <2>1, <2>2
<1>3. QED
  BY <1>1, <1>2 DEF Handed

LEMMA ProbeByStep ==
  ASSUME QueueInv, [Next]_vars, NEW a \in Account, circuit[a] = "half-open"
  PROVE  active'[a] <= IF active[a] = 0 THEN 1 ELSE active[a]
<1>1. active \in [Account -> Nat] /\ active[a] \in Nat
  BY DEF QueueInv, PermitInv, TypeOK
<1>2. CASE Handed(active, lease)
  BY <1>1, <1>2, HandedProbes
<1>3. ASSUME NEW b \in Account, NEW ls, Handed(Returned(active, b), ls)
      PROVE  active'[a] <= IF active[a] = 0 THEN 1 ELSE active[a]
  <2>1. Returned(active, b) \in [Account -> Nat] /\ Returned(active, b)[a] <= active[a]
        /\ Returned(active, b)[a] \in Nat
    BY <1>1 DEF Returned
  <2>2. active'[a] <= IF Returned(active, b)[a] = 0 THEN 1 ELSE Returned(active, b)[a]
    BY <1>3, <2>1, HandedProbes
  <2>3. active'[a] \in Nat
    <3>1. active' \in [Account -> Nat]
      BY <1>3, <2>1 DEF Handed
    <3>2. QED
      BY <3>1
  <2>4. QED
    BY <1>1, <2>1, <2>2, <2>3
<1>4. CASE active' = active \/ Stop \/ \E r \in Request : Arrive(r)
  <2>1. active' = active \/ active' = [c \in Account |-> 0]
    BY <1>4 DEF Stop, Arrive
  <2>2. active'[a] = active[a] \/ active'[a] = 0
    BY <2>1
  <2>3. QED
    BY <1>1, <2>2
<1>5. CASE \E s \in Slot, b \in Account :
              /\ lease[s] = b /\ reqGen[s[1]] = generation
              /\ Handed(Returned(active, b), [lease EXCEPT ![s] = None])
  <2>1. PICK s \in Slot, b \in Account : Handed(Returned(active, b), [lease EXCEPT ![s] = None])
    BY <1>5
  <2> DEFINE ls == [lease EXCEPT ![s] = None]
  <2>2. Handed(Returned(active, b), ls)
    BY <2>1
  <2> HIDE DEF ls
  <2>3. QED
    BY <1>3, <2>2
<1>6. QED
  BY <1>2, <1>4, <1>5, StepHands
-----------------------------------------------------------------------------
(* Without second calls every permit that is counted is held by a request  *)
(* of the current run.                                                     *)

Exact(act, ls) == \A a \in Account : act[a] = Cardinality(Held(ls, a))

CurrentInv ==
  /\ QueueInv
  /\ Exact(active, lease)
  /\ \A r \in Request :
       /\ hedgeOf[r] = None
       /\ phase[r] = "waiting" => reqGen[r] = generation
       /\ phase[r] = "routing" /\ ~aborted[r] => reqGen[r] = generation

LEMMA InitCurrentInv == Init => CurrentInv
<1> SUFFICES ASSUME Init PROVE CurrentInv
  OBVIOUS
<1>1. ASSUME NEW a \in Account PROVE Held(lease, a) = {}
  BY CapacityConstants DEF Init, Held
<1>2. Exact(active, lease)
  BY <1>1, FS_EmptySet DEF Init, Exact
<1>3. QED
  BY <1>2, InitQueueInv DEF Init, CurrentInv

(* acquireAccountSlot for a request of the current run.                    *)
LEMMA GrantExact ==
  ASSUME NEW act \in [Account -> Nat], NEW ls \in [Slot -> Account \cup {None}],
         Exact(act, ls), NEW s \in Slot, NEW b \in Account,
         ls[s] = None, reqGen[s[1]] = generation
  PROVE  Exact([act EXCEPT ![b] = @ + 1], [ls EXCEPT ![s] = b])
<1> SUFFICES ASSUME NEW a \in Account
             PROVE  [act EXCEPT ![b] = @ + 1][a] = Cardinality(Held([ls EXCEPT ![s] = b], a))
  BY DEF Exact
<1>1. act[a] = Cardinality(Held(ls, a)) /\ IsFiniteSet(Held(ls, a))
  BY HeldFinite DEF Exact
<1>2. CASE a = b
  <2>1. Held([ls EXCEPT ![s] = b], a) = Held(ls, a) \cup {s} /\ s \notin Held(ls, a)
    BY <1>2, CapacityConstants DEF Held
  <2>2. QED
    BY ZenonT(60), <1>1, <1>2, <2>1, FS_AddElement
<1>3. CASE a # b
  <2>1. Held([ls EXCEPT ![s] = b], a) = Held(ls, a)
    BY <1>3, CapacityConstants DEF Held
  <2>2. QED
    BY <1>1, <1>3, <2>1
<1>4. QED
  BY <1>2, <1>3

LEMMA ReturnExact ==
  ASSUME NEW act \in [Account -> Nat], NEW ls \in [Slot -> Account \cup {None}],
         Exact(act, ls), NEW s \in Slot, NEW b \in Account,
         ls[s] = b, reqGen[s[1]] = generation
  PROVE  Exact(Returned(act, b), [ls EXCEPT ![s] = None])
<1> SUFFICES ASSUME NEW a \in Account
             PROVE  Returned(act, b)[a] = Cardinality(Held([ls EXCEPT ![s] = None], a))
  BY DEF Exact
<1>1. /\ act[a] = Cardinality(Held(ls, a)) /\ act[a] \in Nat /\ IsFiniteSet(Held(ls, a))
      /\ Cardinality(Held([ls EXCEPT ![s] = None], a)) \in Nat
  BY HeldFinite DEF Exact
<1>2. CASE a = b
  <2>1. Held([ls EXCEPT ![s] = None], a) = Held(ls, a) \ {s} /\ s \in Held(ls, a)
    BY <1>2, CapacityConstants DEF Held
  <2>2. Cardinality(Held([ls EXCEPT ![s] = None], a)) = act[a] - 1
    BY ZenonT(60), <1>1, <2>1, FS_RemoveElement
  <2>3. QED
    BY <1>1, <1>2, <2>2 DEF Returned
<1>3. CASE a # b
  <2>1. Held([ls EXCEPT ![s] = None], a) = Held(ls, a)
    BY <1>3, CapacityConstants DEF Held
  <2>2. QED
    BY <1>1, <1>3, <2>1 DEF Returned
<1>4. QED
  BY <1>2, <1>3

(* Whoever a hand-off serves belongs to the current run.                   *)
LEMMA HandOffExact ==
  ASSUME Hedged = {}, TypeOK, NEW act \in [Account -> Nat], NEW pl \in [Request -> Nat],
         NEW n \in [Pool -> Nat], NEW ws, NEW ls \in [Slot -> Account \cup {None}],
         NEW ph \in [Request -> Phase], NEW woken,
         QueueSound(pl, n, ph), SlotsFree(ph, ls, hedgeOf),
         FulfillOne(act, pl, n, ws, ls, ph, woken),
         \A r \in Request : ph[r] = "waiting" => reqGen[r] = generation,
         \A r \in Request : hedgeOf[r] = None,
         Exact(act, ls)
  PROVE  /\ Exact(active', lease')
         /\ \A r \in Request : hedgeOf'[r] = None
<1>1. CASE NobodyServed(act, pl, n, ws, ls, ph, woken)
  BY <1>1 DEF NobodyServed
<1>2. ASSUME NEW a \in woken, NEW w \in Request, NEW S \in SUBSET Request,
             ServedBy(act, pl, n, ws, ls, ph, woken, a, w, S)
      PROVE  /\ Exact(active', lease')
             /\ \A r \in Request : hedgeOf'[r] = None
  <2>1. ph[w] = "waiting"
    BY <1>2 DEF ServedBy, Servable, Wakes, QueueSound, Queued
  <2>2. ls[<<w, "primary">>] = None /\ <<w, "primary">> \in Slot /\ reqGen[w] = generation
    BY <2>1 DEF SlotsFree, Slot
  <2>3. PICK b \in Candidates(act, w) : /\ active' = [act EXCEPT ![b] = @ + 1]
                                        /\ lease' = [ls EXCEPT ![<<w, "primary">>] = b]
                                        /\ Attempt(w, b)
    BY <1>2 DEF ServedBy
  <2>4. b \in Account
    BY CandidatesBelowLimit
  <2>5. Exact(active', lease')
    BY <2>2, <2>3, <2>4, GrantExact
  <2>6. \A r \in Request : hedgeOf'[r] = None
    BY <2>3 DEF Attempt, TypeOK
  <2>7. QED
    BY <2>5, <2>6
<1>3. QED
  BY <1>1, <1>2, FulfillOneOutcome

LEMMA StepCurrentInv ==
  ASSUME Hedged = {}, CurrentInv, [Next]_vars
  PROVE  CurrentInv'
<1> DEFINE Goal == /\ Exact(active, lease)'
                   /\ \A r \in Request :
                        /\ hedgeOf'[r] = None
                        /\ phase'[r] = "waiting" => reqGen'[r] = generation'
                        /\ phase'[r] = "routing" /\ ~aborted'[r] => reqGen'[r] = generation'
<1>1. /\ TypeOK /\ QueueInv /\ QueueSound(place, poolWaiting, phase) /\ SlotsFree(phase, lease, hedgeOf)
      /\ Exact(active, lease)
      /\ \A r \in Request : /\ hedgeOf[r] = None
                            /\ phase[r] = "waiting" => reqGen[r] = generation
                            /\ phase[r] = "routing" /\ ~aborted[r] => reqGen[r] = generation
      /\ \A r \in Request : reqGen[r] <= generation
  BY DEF CurrentInv, QueueInv, PermitInv
<1>2. ASSUME UNCHANGED <<reqGen, generation>>
      PROVE  Exact(active, lease)' <=> Exact(active', lease')
  BY <1>2 DEF Exact, Held
<1>3. ASSUME UNCHANGED <<reqGen, generation, active, lease, hedgeOf>>,
             \A r \in Request : /\ phase'[r] \in {phase[r], "idle"}
                                /\ aborted[r] => aborted'[r]
      PROVE  Goal
  BY <1>1, <1>2, <1>3
<1>4. ASSUME NEW r \in Request, Arrive(r) PROVE Goal
  <2>1. \A s \in Slot : s[1] = r => lease[s] = None
    BY <1>4 DEF Arrive, Slot
  <2>2. \A s \in Slot : s[1] # r => reqGen'[s[1]] = reqGen[s[1]]
    BY <1>1, <1>4 DEF Arrive, Slot, TypeOK
  <2>3. \A a \in Account : Held(lease, a)' = Held(lease, a)
    BY <1>4, <2>1, <2>2, CapacityConstants DEF Arrive, Held
  <2>4. Exact(active, lease)'
    BY <1>1, <1>4, <2>3 DEF Exact, Arrive
  <2>5. QED
    BY <1>1, <1>4, <2>4 DEF Arrive, TypeOK
<1>5. ASSUME NEW r \in Request, SelectNow(r) PROVE Goal
  <2>1. PICK b \in Candidates(active, r) : /\ active' = [active EXCEPT ![b] = @ + 1]
                                           /\ lease' = [lease EXCEPT ![<<r, "primary">>] = b]
                                           /\ Attempt(r, b)
    BY <1>5 DEF SelectNow
  <2>2. /\ lease[<<r, "primary">>] = None /\ <<r, "primary">> \in Slot /\ reqGen[r] = generation
        /\ UNCHANGED <<reqGen, generation, aborted>>
        /\ phase' = [phase EXCEPT ![r] = "attempt"]
    BY <1>1, <1>5 DEF SlotsFree, Slot, SelectNow, requestVars
  <2>3. b \in Account
    BY <1>1, CandidatesBelowLimit DEF TypeOK
  <2>4. Exact(active', lease')
    BY <1>1, <2>1, <2>2, <2>3, GrantExact DEF TypeOK
  <2>5. \A v \in Request : hedgeOf'[v] = None
    BY <1>1, <2>1 DEF Attempt, TypeOK
  <2>6. QED
    BY <1>1, <1>2, <2>2, <2>4, <2>5 DEF TypeOK
<1>6. ASSUME NEW r \in Request, Enqueue(r) PROVE Goal
  <2>1. /\ phase[r] = "routing" /\ ~aborted[r] /\ ~QueueFull(r)
        /\ UNCHANGED <<reqGen, generation, aborted>>
    BY <1>6 DEF Enqueue, requestVars
  <2> DEFINE ph == [phase EXCEPT ![r] = "waiting"]
  <2>2. PICK pl \in [Request -> Nat], n \in [Pool -> Nat] :
          /\ ph \in [Request -> Phase]
          /\ QueueSound(pl, n, ph) /\ SlotsFree(ph, lease, hedgeOf)
          /\ \E ws, woken : FulfillOne(active, pl, n, ws, lease, ph, woken)
    BY <1>1, <1>6, <2>1, EnqueueSound DEF Enqueue
  <2>3. \A v \in Request : /\ ph[v] = "waiting" => reqGen[v] = generation
                           /\ ph[v] = "routing" /\ ~aborted[v] => reqGen[v] = generation
    BY <1>1, <2>1 DEF TypeOK
  <2> HIDE DEF ph
  <2>4. /\ Exact(active', lease') /\ \A v \in Request : hedgeOf'[v] = None
    BY <1>1, <2>2, <2>3, HandOffExact DEF TypeOK
  <2>5. \A v \in Request : phase'[v] = ph[v] \/ phase'[v] \in {"idle", "attempt"}
    BY <1>1, <2>2, FulfillOnePhases DEF TypeOK
  <2>6. QED
    BY <1>2, <2>1, <2>3, <2>4, <2>5
<1>7. ASSUME NEW r \in Request, NEW k \in {"primary", "hedge"}, Release(r, k) PROVE Goal
  <2> DEFINE a == lease[<<r, k>>]
             ls == LeaseAfter(r, k)
             ph == PhaseAfter(r, k)
  <2>1. /\ UNCHANGED <<reqGen, generation, aborted>> /\ a \in Account /\ <<r, k>> \in Slot
        /\ a # None
    BY <1>1, <1>7 DEF Release, requestVars, Slot, TypeOK
  <2>2. /\ ls \in [Slot -> Account \cup {None}] /\ ph \in [Request -> Phase]
        /\ QueueSound(place, poolWaiting, ph) /\ SlotsFree(ph, ls, hedgeOf)
    BY <1>1, <2>1, ReturnSound
  <2>3. \A v \in Request : ph[v] \in {phase[v], "idle"}
    BY <1>1 DEF PhaseAfter, TypeOK
  <2>4. CASE ReturnsPermit(r)
    <3>1. FulfillOne(Returned(active, a), place, poolWaiting, waitSet, ls, ph, {a})
      BY <1>7, <2>4 DEF Release, LeaseAfter, PhaseAfter
    <3>2. Returned(active, a) \in [Account -> Nat]
      BY <1>1, <2>1 DEF Returned, TypeOK
    <3>3. active \in [Account -> Nat] /\ lease \in [Slot -> Account \cup {None}]
          /\ reqGen[<<r, k>>[1]] = generation
      BY <1>1, <2>4 DEF TypeOK, ReturnsPermit
    <3>4. Exact(Returned(active, a), [lease EXCEPT ![<<r, k>>] = None])
      BY <1>1, <2>1, <3>3, ReturnExact
    <3>5. Exact(Returned(active, a), ls)
      BY <3>4 DEF LeaseAfter
    <3> HIDE DEF a, ls, ph
    <3>6. \A v \in Request : ph[v] = "waiting" => reqGen[v] = generation
      BY <1>1, <2>3
    <3>7. Exact(active', lease') /\ \A v \in Request : hedgeOf'[v] = None
      BY ZenonT(60), <1>1, <2>2, <3>1, <3>2, <3>5, <3>6, HandOffExact DEF TypeOK
    <3>8. \A v \in Request : phase'[v] = ph[v] \/ phase'[v] \in {"idle", "attempt"}
      BY <1>1, <2>2, <3>1, FulfillOnePhases DEF TypeOK
    <3>9. QED
      BY <1>1, <1>2, <2>1, <2>3, <3>7, <3>8
  <2>5. CASE ~ReturnsPermit(r)
    <3>1. lease' = ls /\ phase' = ph /\ UNCHANGED <<active, hedgeOf>>
      BY <1>7, <2>5 DEF Release, LeaseAfter, PhaseAfter
    <3>2. \A b \in Account : Held(ls, b) = Held(lease, b)
      BY <1>1, <2>1, <2>5, CapacityConstants DEF Held, ReturnsPermit, TypeOK, LeaseAfter
    <3>3. Exact(active', lease')
      BY <1>1, <3>1, <3>2 DEF Exact
    <3> HIDE DEF ls, ph
    <3>4. QED
      BY <1>1, <1>2, <2>1, <2>3, <3>1, <3>3
  <2>6. QED
    BY <2>4, <2>5
<1>8. ASSUME NEW r \in Request, Refuse(r) \/ DeadlinePasses(r) \/ TimerFires(r) \/ Abort(r)
      PROVE  Goal
  <2>1. UNCHANGED <<reqGen, generation, active, lease, hedgeOf>>
    BY <1>8 DEF Refuse, DeadlinePasses, TimerFires, Abort, requestVars
  <2>2. \A v \in Request : phase'[v] \in {phase[v], "idle"} /\ (aborted[v] => aborted'[v])
    BY <1>1, <1>8 DEF Refuse, DeadlinePasses, TimerFires, Abort, Reject, requestVars, queueVars, TypeOK
  <2>3. QED
    BY <1>3, <2>1, <2>2
<1>9. ASSUME NEW r \in Request, TryHedge(r) \/ PrimaryAnswers(r) PROVE Goal
  BY <1>1, <1>9 DEF TryHedge, PrimaryAnswers
<1>10. ASSUME \/ \E a \in Account : Trip(a) \/ CooldownElapses(a) \/ Recover(a)
              \/ UNCHANGED vars
       PROVE  Goal
  <2>1. UNCHANGED <<reqGen, generation, active, lease, hedgeOf, phase, aborted>>
    BY <1>10 DEF Trip, CooldownElapses, Recover, vars, requestVars
  <2>2. QED
    BY <1>3, <2>1
<1>11. ASSUME Stop PROVE Goal
  <2>1. generation' = generation + 1 /\ reqGen' = reqGen
    BY <1>11 DEF Stop
  <2>2. \A a \in Account : Held(lease, a)' = {}
    BY <1>1, <2>1 DEF Held, Slot, TypeOK
  <2>3. Exact(active, lease)'
    BY <1>11, <2>2, FS_EmptySet DEF Exact, Stop
  <2>4. QED
    BY <1>1, <1>11, <2>3 DEF Stop
<1> HIDE DEF Goal
<1>12. Goal
  BY <1>4, <1>5, <1>6, <1>7, <1>8, <1>9, <1>10, <1>11 DEF Next
<1>13. QED
  BY <1>12, StepQueueInv DEF CurrentInv, Goal
-----------------------------------------------------------------------------
(* Without circuit changes an account is available while it has capacity,  *)
(* whatever the pool: a waiter listens to every member it has.             *)

AllWell == \A a \in Account : circuit[a] = "closed" /\ limit[a] = MaxConcurrency[a]

Saturated(act, r) == \A a \in Members(r) : act[a] >= MaxConcurrency[a]

LEMMA WellEligible ==
  ASSUME AllWell, NEW act, NEW r, NEW a \in Account
  PROVE  Available(act, a) /\ (Eligible(act, r, a) <=> act[a] < MaxConcurrency[a])
  BY DEF AllWell, Eligible, Available, ConcurrencyLimit

LEMMA WellCandidates ==
  ASSUME AllWell, NEW act \in [Account -> Nat], NEW r \in Request
  PROVE  /\ Candidates(act, r) = {} <=> Saturated(act, r)
         /\ \A a \in Candidates(act, r) : a \in Members(r) /\ act[a] < MaxConcurrency[a]
         /\ CapacityBlocked(act, r) = {a \in Members(r) : act[a] >= MaxConcurrency[a]}
<1>1. /\ Verified[r] \in SUBSET Account /\ Unknown[r] \in SUBSET Account
      /\ Members(r) = Verified[r] \cup Unknown[r]
      /\ \A a \in Account : act[a] \in Nat /\ MaxConcurrency[a] \in Nat
  BY CapacityConstants DEF Members
<1> DEFINE A == {a \in Verified[r] : Eligible(act, r, a)}
           B == {a \in Unknown[r] : Eligible(act, r, a)}
<1>2. Candidates(act, r) = IF A # {} THEN A ELSE B
  BY DEF Candidates
<1>3. A = {a \in Verified[r] : act[a] < MaxConcurrency[a]}
  BY <1>1, WellEligible
<1>4. B = {a \in Unknown[r] : act[a] < MaxConcurrency[a]}
  BY <1>1, WellEligible
<1> HIDE DEF A, B
<1>5. Candidates(act, r) = {} <=> A = {} /\ B = {}
  BY <1>2
<1>6. Candidates(act, r) = {} <=> Saturated(act, r)
  BY <1>1, <1>3, <1>4, <1>5 DEF Saturated
<1>7. \A a \in Candidates(act, r) : a \in Members(r) /\ act[a] < MaxConcurrency[a]
  BY <1>1, <1>2, <1>3, <1>4
<1>8. CapacityBlocked(act, r) = {a \in Members(r) : act[a] >= MaxConcurrency[a]}
  <2>1. \A a \in Account : Available(act, a) /\ ConcurrencyLimit(r, a) = MaxConcurrency[a]
    BY WellEligible DEF AllWell, ConcurrencyLimit
  <2>2. QED
    BY <1>1, <2>1 DEF CapacityBlocked
<1>9. QED
  BY <1>6, <1>7, <1>8

LEMMA WellBlocked ==
  ASSUME AllWell, NEW act \in [Account -> Nat], NEW r \in Request, Candidates(act, r) = {}
  PROVE  CapacityBlocked(act, r) = Members(r)
  BY WellCandidates DEF Saturated

Attentive(pl, ws) == \A r \in Request : pl[r] > 0 => ws[r] = Members(r)

NobodyIdles(act, pl) == \A r \in Request : pl[r] > 0 => Candidates(act, r) = {}

(* Who stays in the queue listens to all its members again.                *)
LEMMA SettledWell ==
  ASSUME AllWell, NEW act \in [Account -> Nat], NEW pl \in [Request -> Nat], InLine(pl),
         NEW n, NEW ws, NEW ph, NEW S, NEW served, Settled(act, pl, n, ws, ph, S, served),
         \A r \in S : expired[r] \/ Candidates(act, r) = {},
         Attentive(pl, ws)
  PROVE  /\ Attentive(place', waitSet')
         /\ \A r \in Request : place'[r] > 0 => /\ pl[r] > 0 /\ r \notin served
                                                /\ r \in S => Candidates(act, r) = {}
<1> SUFFICES ASSUME NEW r \in Request, place'[r] > 0
             PROVE  /\ waitSet'[r] = Members(r)
                    /\ pl[r] > 0 /\ r \notin served
                    /\ r \in S => Candidates(act, r) = {}
  BY DEF Attentive
<1> DEFINE out == Rejected(act, S) \cup served
<1>1. place' = PlaceAfter(pl, out)
  BY DEF Settled, Dequeue
<1>2. Queued(place') = Queued(pl) \ out
  BY <1>1, DequeueInLine
<1>3. r \in Queued(pl) /\ r \notin out
  BY <1>2 DEF Queued
<1>4. waitSet'[r] = IF r \in S THEN CapacityBlocked(act, r) ELSE ws[r]
  BY <1>3 DEF Settled
<1>5. r \in S => Candidates(act, r) = {}
  BY <1>3 DEF Rejected
<1>6. QED
  BY <1>3, <1>4, <1>5, WellBlocked DEF Queued, Attentive
-----------------------------------------------------------------------------
(* A request waits only while its members are saturated.                   *)

WellInv ==
  /\ QueueInv
  /\ AllWell
  /\ Attentive(place, waitSet)
  /\ \A r \in Request : place[r] > 0 => Saturated(active, r)

LEMMA InitWellInv == Init => WellInv
  BY InitQueueInv DEF Init, WellInv, AllWell, Attentive

LEMMA NobodyIdlesNow == WellInv => NobodyIdles(active, place)
  BY WellCandidates DEF WellInv, QueueInv, PermitInv, TypeOK, NobodyIdles

(* enqueueCapacityWaiter finds nobody to serve.                            *)
LEMMA NobodyToServe ==
  ASSUME AllWell, NEW act \in [Account -> Nat], NEW pl \in [Request -> Nat], NEW n, NEW ws,
         NEW ls, NEW ph, NEW woken, FulfillOne(act, pl, n, ws, ls, ph, woken),
         NobodyIdles(act, pl)
  PROVE  NobodyServed(act, pl, n, ws, ls, ph, woken)
<1>1. ASSUME NEW a \in woken, NEW w \in Request, NEW S \in SUBSET Request,
             ServedBy(act, pl, n, ws, ls, ph, woken, a, w, S)
      PROVE  FALSE
  BY <1>1 DEF ServedBy, Servable, Wakes, NobodyIdles
<1>2. QED
  BY <1>1, FulfillOneOutcome

LEMMA NobodyServedWell ==
  ASSUME AllWell, NEW act \in [Account -> Nat], NEW pl \in [Request -> Nat], InLine(pl),
         NEW n, NEW ws, NEW ls, NEW ph, NEW woken,
         NobodyServed(act, pl, n, ws, ls, ph, woken), Attentive(pl, ws),
         \A r \in Request : pl[r] > 0 =>
           Candidates(act, r) = {} \/ \E a \in woken : a \in Members(r)
  PROVE  Attentive(place', waitSet') /\ NobodyIdles(active', place')
<1> DEFINE S == UNION {Wakes(pl, ws, a) : a \in woken}
<1>1. Settled(act, pl, n, ws, ph, S, {}) /\ active' = act
  BY DEF NobodyServed
<1>2. \A r \in S : expired[r] \/ Candidates(act, r) = {}
  BY DEF NobodyServed, Servable
<1>3. \A r \in Request : \A a \in woken : pl[r] > 0 /\ a \in Members(r) => r \in S
  BY DEF Attentive, Wakes
<1> HIDE DEF S
<1>4. /\ Attentive(place', waitSet')
      /\ \A r \in Request : place'[r] > 0 => pl[r] > 0 /\ (r \in S => Candidates(act, r) = {})
  BY <1>1, <1>2, SettledWell
<1>5. QED
  BY <1>1, <1>3, <1>4 DEF NobodyIdles

(* A permit that comes back serves whoever wanted it, so that the count is *)
(* what it was, or nobody wanted it.                                       *)
LEMMA ReturnWell ==
  ASSUME AllWell, NEW act \in [Account -> Nat], NEW pl \in [Request -> Nat], InLine(pl),
         NEW n, NEW ws, NEW ls, NEW ph, NEW a \in Account,
         FulfillOne(Returned(act, a), pl, n, ws, ls, ph, {a}), Attentive(pl, ws),
         NobodyIdles(act, pl)
  PROVE  Attentive(place', waitSet') /\ NobodyIdles(active', place')
<1> DEFINE back == Returned(act, a)
<1>1. /\ back \in [Account -> Nat] /\ \A c \in Account : c # a => back[c] = act[c]
      /\ act[a] > 0 => [back EXCEPT ![a] = @ + 1] = act
  <2>1. back \in [Account -> Nat] /\ \A c \in Account : c # a => back[c] = act[c]
    BY DEF Returned
  <2>2. ASSUME act[a] > 0 PROVE back[a] + 1 = act[a]
    BY <2>2 DEF Returned
  <2> HIDE DEF back
  <2>3. QED
    BY <2>1, <2>2
<1>2. FulfillOne(back, pl, n, ws, ls, ph, {a})
  OBVIOUS
<1>3. \A r \in Request : pl[r] > 0 => Saturated(act, r)
  BY WellCandidates DEF NobodyIdles
<1>4. \A r \in Request : Members(r) \subseteq Account
  BY CapacityConstants DEF Members
<1> HIDE DEF back
<1>5. CASE NobodyServed(back, pl, n, ws, ls, ph, {a})
  <2>1. \A r \in Request : pl[r] > 0 /\ a \notin Members(r) => Saturated(back, r)
    BY <1>1, <1>3, <1>4 DEF Saturated
  <2>2. \A r \in Request : pl[r] > 0 => Candidates(back, r) = {} \/ a \in Members(r)
    BY <1>1, <2>1, WellCandidates
  <2>3. \A r \in Request : pl[r] > 0 =>
          Candidates(back, r) = {} \/ \E c \in {a} : c \in Members(r)
    BY <2>2
  <2> DEFINE woken == {a}
  <2>4. /\ \A r \in Request : pl[r] > 0 =>
             Candidates(back, r) = {} \/ \E c \in woken : c \in Members(r)
        /\ NobodyServed(back, pl, n, ws, ls, ph, woken) /\ back \in [Account -> Nat]
    BY <1>1, <1>5, <2>3
  <2> HIDE DEF woken
  <2>5. QED
    BY <2>4, NobodyServedWell
<1>6. ASSUME NEW c \in {a}, NEW w \in Request, NEW S \in SUBSET Request,
             ServedBy(back, pl, n, ws, ls, ph, {a}, c, w, S)
      PROVE  Attentive(place', waitSet') /\ NobodyIdles(active', place')
  <2>1. pl[w] > 0
    BY <1>6 DEF ServedBy, Servable, Wakes
  <2>2. PICK b \in Candidates(back, w) : active' = [back EXCEPT ![b] = @ + 1]
    BY <1>6 DEF ServedBy
  <2>3. b \in Members(w) /\ b \in Account /\ back[b] < MaxConcurrency[b]
    BY <1>1, <1>4, WellCandidates
  <2>4. act[b] >= MaxConcurrency[b] /\ MaxConcurrency[b] \in Nat /\ MaxConcurrency[b] > 0
        /\ act[b] \in Nat
    BY <1>3, <2>1, <2>3, CapacityConstants DEF Saturated
  <2>5. b = a
    BY <1>1, <2>3, <2>4
  <2>6. active' = act
    BY <1>1, <2>2, <2>4, <2>5
  <2>7. Settled(back, pl, n, ws, ph, S, {w}) /\ \A r \in S : expired[r] \/ Candidates(back, r) = {}
    BY <1>6 DEF ServedBy
  <2>8. Attentive(place', waitSet') /\ \A r \in Request : place'[r] > 0 => pl[r] > 0
    BY <1>1, <2>7, SettledWell
  <2>9. QED
    BY <2>6, <2>8 DEF NobodyIdles
<1>7. QED
  BY <1>2, <1>5, <1>6, FulfillOneOutcome

LEMMA StepWellInv ==
  ASSUME Flapping = {}, WellInv, [Next]_vars
  PROVE  WellInv'
<1>1. /\ TypeOK /\ QueueInv /\ QueueSound(place, poolWaiting, phase) /\ InLine(place)
      /\ AllWell /\ Attentive(place, waitSet) /\ NobodyIdles(active, place)
      /\ place \in [Request -> Nat] /\ active \in [Account -> Nat]
      /\ \A r \in Request : place[r] > 0 <=> phase[r] = "waiting"
  BY NobodyIdlesNow DEF WellInv, QueueInv, PermitInv, QueueSound, Queued, TypeOK
<1>2. AllWell'
  <2>1. UNCHANGED <<circuit, limit>> \/ Stop
    <3>1. ASSUME NEW a \in Account, Trip(a) \/ CooldownElapses(a) \/ Recover(a) PROVE FALSE
      BY <1>1, <3>1 DEF Trip, CooldownElapses, Recover, AllWell
    <3>2. ASSUME NEW r \in Request,
                 \/ Arrive(r) \/ SelectNow(r) \/ Refuse(r) \/ Enqueue(r)
                 \/ DeadlinePasses(r) \/ TimerFires(r) \/ Abort(r)
                 \/ TryHedge(r) \/ PrimaryAnswers(r)
                 \/ \E k \in {"primary", "hedge"} : Release(r, k)
          PROVE  UNCHANGED healthVars
      BY <3>2 DEF Arrive, SelectNow, Refuse, Enqueue, DeadlinePasses, TimerFires, Abort,
         TryHedge, PrimaryAnswers, Release
    <3>3. QED
      BY <3>1, <3>2 DEF Next, vars, healthVars
  <2>2. CASE UNCHANGED <<circuit, limit>>
    BY <1>1, <2>2 DEF AllWell
  <2>3. CASE Stop
    BY <2>3 DEF Stop, AllWell
  <2>4. QED
    BY <2>1, <2>2, <2>3
<1> DEFINE Goal == Attentive(place', waitSet') /\ NobodyIdles(active', place')
<1>3. ASSUME UNCHANGED <<place, waitSet>>,
             \A a \in Account : active'[a] >= active[a], active' \in [Account -> Nat]
      PROVE  Goal
  <2>1. \A r \in Request : place[r] > 0 => Saturated(active, r)
    BY <1>1, WellCandidates DEF NobodyIdles
  <2>2. \A r \in Request : \A a \in Members(r) : a \in Account /\ MaxConcurrency[a] \in Nat
    BY CapacityConstants DEF Members
  <2>3. \A r \in Request : place[r] > 0 => Saturated(active', r)
    BY <1>1, <1>3, <2>1, <2>2 DEF Saturated
  <2>4. \A r \in Request : place[r] > 0 => Candidates(active', r) = {}
    BY <1>1, <1>3, <2>3, WellCandidates
  <2>5. NobodyIdles(active', place') /\ Attentive(place', waitSet')
    BY <1>1, <1>3, <2>4 DEF Attentive, NobodyIdles
  <2>6. QED
    BY <2>5
<1>4. ASSUME NEW b \in Account, active' = [active EXCEPT ![b] = @ + 1]
      PROVE  /\ active' \in [Account -> Nat]
             /\ \A a \in Account : active'[a] >= active[a]
  <2>1. active[b] + 1 \in Nat /\ \A a \in Account : active[a] \in Nat
    BY <1>1
  <2>2. QED
    BY <1>1, <1>4, <2>1
<1>5. ASSUME NEW r \in Request, SelectNow(r) PROVE Goal
  <2>1. PICK b \in Candidates(active, r) : active' = [active EXCEPT ![b] = @ + 1]
    BY <1>5 DEF SelectNow
  <2>2. b \in Account
    BY <1>1, CandidatesBelowLimit DEF TypeOK
  <2>3. UNCHANGED <<place, waitSet>>
    BY <1>5 DEF SelectNow, queueVars
  <2>4. QED
    BY <1>3, <1>4, <2>1, <2>2, <2>3
<1>6. ASSUME NEW r \in Request, TryHedge(r) PROVE Goal
  <2>1. UNCHANGED <<place, waitSet>>
    BY <1>6 DEF TryHedge, queueVars
  <2>2. CASE active' = active
    BY <1>1, <1>3, <2>1, <2>2
  <2>3. CASE active' = [active EXCEPT ![hedgeOf[r]] = @ + 1]
    <3>1. hedgeOf[r] \in Account
      BY <1>1, <1>6 DEF TryHedge, TypeOK
    <3>2. QED
      BY <1>3, <1>4, <2>1, <2>3, <3>1
  <2>4. QED
    BY <1>6, <2>2, <2>3 DEF TryHedge
<1>7. ASSUME NEW r \in Request, Enqueue(r) PROVE Goal
  <2> DEFINE pl == [place EXCEPT ![r] = Cardinality(Waiting) + 1]
             n  == [poolWaiting EXCEPT ![PoolOf[r]] = @ + 1]
             ws == [waitSet EXCEPT ![r] = CapacityBlocked(active, r)]
             ph == [phase EXCEPT ![r] = "waiting"]
             woken == CapacityBlocked(active, r)
  <2>1. /\ FulfillOne(active, pl, n, ws, lease, ph, woken)
        /\ Candidates(active, r) = {} /\ phase[r] = "routing" /\ ~QueueFull(r)
    BY <1>7 DEF Enqueue
  <2>2. pl \in [Request -> Nat] /\ InLine(pl) /\ Queued(pl) = Queued(place) \cup {r}
    BY <1>1, <2>1, EnqueueSound DEF QueueSound
  <2>3. \A v \in Request : pl[v] > 0 => v = r \/ place[v] > 0
    BY <1>1
  <2>4. waitSet \in [Request -> SUBSET Account]
    BY <1>1 DEF TypeOK
  <2>5. woken = Members(r)
    BY <1>1, <2>1, WellBlocked
  <2>6. \A v \in Request : ws[v] = IF v = r THEN woken ELSE waitSet[v]
    BY <2>4
  <2> HIDE DEF pl, n, ws, ph, woken
  <2>7. Attentive(pl, ws)
    BY <1>1, <2>3, <2>5, <2>6 DEF Attentive
  <2>8. NobodyIdles(active, pl)
    BY <1>1, <2>1, <2>3 DEF NobodyIdles
  <2>9. NobodyServed(active, pl, n, ws, lease, ph, woken)
    BY <1>1, <2>1, <2>2, <2>8, NobodyToServe
  <2>10. \A v \in Request : pl[v] > 0 =>
           Candidates(active, v) = {} \/ \E a \in woken : a \in Members(v)
    BY <2>8 DEF NobodyIdles
  <2>11. QED
    BY <1>1, <2>2, <2>7, <2>9, <2>10, NobodyServedWell
<1>8. ASSUME NEW r \in Request, NEW k \in {"primary", "hedge"}, Release(r, k) PROVE Goal
  <2> DEFINE a == lease[<<r, k>>]
  <2>1. a \in Account
    BY <1>1, <1>8 DEF Release, Slot, TypeOK
  <2>2. CASE ReturnsPermit(r)
    <3>1. PICK ls, ph : FulfillOne(Returned(active, a), place, poolWaiting, waitSet, ls, ph, {a})
      BY <1>8, <2>2 DEF Release
    <3> HIDE DEF a
    <3>2. QED
      BY <1>1, <2>1, <3>1, ReturnWell
  <2>3. CASE ~ReturnsPermit(r)
    <3>1. UNCHANGED <<place, waitSet, active>>
      BY <1>8, <2>3 DEF Release, queueVars
    <3>2. QED
      BY <1>1, <3>1
  <2>4. QED
    BY <2>2, <2>3
<1>9. ASSUME NEW r \in Request, TimerFires(r) \/ Abort(r) PROVE Goal
  <2>1. active' = active
    BY <1>9 DEF TimerFires, Abort
  <2>2. CASE Reject(r)
    <3>1. place' = PlaceAfter(place, {r}) /\ waitSet' = [waitSet EXCEPT ![r] = {}]
      BY <2>2 DEF Reject, Dequeue
    <3>2. Queued(place') = Queued(place) \ {r}
      BY <1>1, <3>1, DequeueInLine
    <3>3. \A v \in Request : place'[v] > 0 => place[v] > 0 /\ v # r
      BY <3>2 DEF Queued
    <3>4. \A v \in Request : v # r => waitSet'[v] = waitSet[v]
      BY <1>1, <3>1 DEF TypeOK
    <3>5. QED
      BY <1>1, <2>1, <3>3, <3>4 DEF Attentive, NobodyIdles
  <2>3. CASE UNCHANGED queueVars
    BY <1>1, <2>1, <2>3 DEF queueVars
  <2>4. QED
    BY <1>9, <2>2, <2>3 DEF TimerFires, Abort
<1>10. ASSUME Stop PROVE Goal
  BY <1>10 DEF Stop, Attentive, NobodyIdles
<1>11. ASSUME \/ \E r \in Request : \/ Arrive(r) \/ Refuse(r) \/ DeadlinePasses(r)
                                    \/ PrimaryAnswers(r)
              \/ \E a \in Account : Trip(a) \/ CooldownElapses(a) \/ Recover(a)
              \/ UNCHANGED vars
       PROVE  Goal
  <2>1. UNCHANGED <<place, waitSet, active>>
    BY <1>11 DEF Arrive, Refuse, DeadlinePasses, PrimaryAnswers, Trip, CooldownElapses, Recover,
       vars, queueVars
  <2>2. QED
    BY <1>1, <2>1
<1> HIDE DEF Goal
<1>12. Goal
  BY <1>5, <1>6, <1>7, <1>8, <1>9, <1>10, <1>11 DEF Next
<1>13. QueueInv'
  BY <1>1, StepQueueInv
<1>14. active' \in [Account -> Nat]
  BY <1>13 DEF QueueInv, PermitInv, TypeOK
<1>15. \A r \in Request : place'[r] > 0 => Saturated(active', r)
  BY <1>1, <1>12, <1>14, WellCandidates DEF Goal, NobodyIdles
<1>16. QED
  BY <1>2, <1>12, <1>13, <1>15 DEF WellInv, Goal, Attentive, Saturated, Members
-----------------------------------------------------------------------------
(* The handoff and the order of the queue.                                 *)

SameMembers == \A r, v \in Request : PoolOf[r] = PoolOf[v] => Members(r) = Members(v)

LEMMA FulfillOneInOrder ==
  ASSUME AllWell, NEW act \in [Account -> Nat], NEW pl \in [Request -> Nat], NEW n, NEW ws,
         NEW ls, NEW ph, NEW woken, FulfillOne(act, pl, n, ws, ls, ph, woken),
         Attentive(pl, ws), NEW r \in Request, NEW v \in Request, Members(r) = Members(v),
         pl[r] > 0, pl[v] > 0, pl[r] < pl[v], ph[v] # "attempt", phase'[v] = "attempt"
  PROVE  phase'[r] = "idle"
<1>1. CASE NobodyServed(act, pl, n, ws, ls, ph, woken)
  BY <1>1 DEF NobodyServed, Settled
<1>2. ASSUME NEW a \in woken, NEW w \in Request, NEW S \in SUBSET Request,
             ServedBy(act, pl, n, ws, ls, ph, woken, a, w, S)
      PROVE  phase'[r] = "idle"
  <2>1. Settled(act, pl, n, ws, ph, S, {w})
    BY <1>2 DEF ServedBy
  <2>2. v = w
    BY <2>1 DEF Settled
  <2>3. a \in ws[w] /\ Candidates(act, w) # {}
    BY <1>2 DEF ServedBy, Servable, Wakes
  <2>4. r \in Wakes(pl, ws, a)
    BY <2>2, <2>3 DEF Attentive, Wakes
  <2>5. r \in S /\ (expired[r] \/ Candidates(act, r) = {})
    BY <1>2, <2>2, <2>4 DEF ServedBy
  <2>6. Candidates(act, r) # {}
    BY <2>2, <2>3, WellCandidates DEF Saturated
  <2>7. r \in Rejected(act, S) /\ r # w
    BY <2>2, <2>5, <2>6 DEF Rejected
  <2>8. QED
    BY <2>1, <2>7 DEF Settled
<1>3. QED
  BY <1>1, <1>2, FulfillOneOutcome

LEMMA StepInOrder ==
  ASSUME SameMembers, WellInv, [Next]_vars, NEW r \in Waiting, NEW v \in Waiting,
         PoolOf[r] = PoolOf[v], place[r] < place[v], phase'[v] = "attempt"
  PROVE  phase'[r] # "waiting"
<1>1. /\ TypeOK /\ QueueInv /\ AllWell /\ Attentive(place, waitSet) /\ NobodyIdles(active, place)
      /\ place \in [Request -> Nat] /\ active \in [Account -> Nat] /\ phase \in [Request -> Phase]
      /\ r \in Request /\ v \in Request /\ place[r] > 0 /\ place[v] > 0
      /\ phase[r] = "waiting" /\ phase[v] = "waiting" /\ Members(r) = Members(v)
  BY NobodyIdlesNow DEF WellInv, QueueInv, PermitInv, QueueSound, Queued, TypeOK, Waiting,
     SameMembers
<1>2. ASSUME NEW x \in Request,
             \/ Arrive(x) \/ SelectNow(x) \/ Refuse(x) \/ DeadlinePasses(x) \/ TimerFires(x)
             \/ Abort(x) \/ TryHedge(x) \/ PrimaryAnswers(x)
      PROVE  FALSE
  <2>1. phase'[v] = phase[v] \/ phase'[v] = "idle"
    BY <1>1, <1>2 DEF Arrive, SelectNow, Refuse, DeadlinePasses, TimerFires, Abort, Reject,
       TryHedge, PrimaryAnswers
  <2>2. QED
    BY <1>1, <2>1
<1>3. ASSUME NEW x \in Request, Enqueue(x) PROVE FALSE
  <2> DEFINE pl == [place EXCEPT ![x] = Cardinality(Waiting) + 1]
             ph == [phase EXCEPT ![x] = "waiting"]
  <2>1. /\ Candidates(active, x) = {} /\ phase[x] = "routing" /\ ~QueueFull(x)
        /\ \E n, ws, woken : FulfillOne(active, pl, n, ws, lease, ph, woken)
    BY <1>3 DEF Enqueue
  <2>2. pl \in [Request -> Nat]
    BY <1>1, <2>1, EnqueueSound
  <2>3. \A y \in Request : pl[y] > 0 => y = x \/ place[y] > 0
    BY <1>1
  <2>4. ph[v] # "attempt"
    BY <1>1
  <2> HIDE DEF pl, ph
  <2>5. NobodyIdles(active, pl)
    BY <1>1, <2>1, <2>3 DEF NobodyIdles
  <2>6. PICK n, ws, woken : NobodyServed(active, pl, n, ws, lease, ph, woken)
    BY <1>1, <2>1, <2>2, <2>5, NobodyToServe
  <2>7. QED
    BY <1>1, <2>4, <2>6 DEF NobodyServed, Settled
<1>4. ASSUME NEW x \in Request, NEW k \in {"primary", "hedge"}, Release(x, k)
      PROVE  phase'[r] # "waiting"
  <2> DEFINE a  == lease[<<x, k>>]
             ph == IF k = "primary" THEN [phase EXCEPT ![x] = "idle"] ELSE phase
  <2>1. ph[v] # "attempt" /\ a \in Account
    BY <1>1, <1>4 DEF Release, Slot, TypeOK
  <2>2. CASE ReturnsPermit(x)
    <3>1. PICK ls : FulfillOne(Returned(active, a), place, poolWaiting, waitSet, ls, ph, {a})
      BY <1>4, <2>2 DEF Release
    <3>2. Returned(active, a) \in [Account -> Nat]
      BY <1>1, <2>1 DEF Returned
    <3> HIDE DEF a, ph
    <3>3. phase'[r] = "idle"
      BY <1>1, <2>1, <3>1, <3>2, FulfillOneInOrder
    <3>4. QED
      BY <3>3
  <2>3. CASE ~ReturnsPermit(x)
    BY <1>4, <2>1, <2>3 DEF Release
  <2>4. QED
    BY <2>2, <2>3
<1>5. ASSUME \/ \E a \in Account : Trip(a) \/ CooldownElapses(a) \/ Recover(a)
             \/ UNCHANGED vars
      PROVE  FALSE
  <2>1. UNCHANGED phase
    BY <1>5 DEF Trip, CooldownElapses, Recover, vars
  <2>2. QED
    BY <1>1, <2>1
<1>6. ASSUME Stop PROVE FALSE
  BY <1>1, <1>6 DEF Stop
<1>7. QED
  BY <1>2, <1>3, <1>4, <1>5, <1>6 DEF Next
-----------------------------------------------------------------------------
(* For any accounts, pools, requests and restarts the queue is accounted   *)
(* for: exactly the waiting requests are in it, at the places 1, 2, ...,   *)
(* within its bounds, and every per-pool counter is the number of waiters  *)
(* of its pool (enqueueCapacityWaiter, removeCapacityWaiter, clear).       *)
THEOREM QueueIsAccounted == Spec => []QueueAccounted
<1>1. ASSUME QueueInv PROVE QueueAccounted
  <2>1. /\ place \in [Request -> Nat] /\ InLine(place) /\ Waiting = Queued(place)
        /\ QueueSound(place, poolWaiting, phase)
    BY <1>1 DEF QueueInv, PermitInv, TypeOK, QueueSound, Waiting, Queued
  <2>2. {place[r] : r \in Waiting} = 1..Cardinality(Waiting)
    BY <2>1, InLineGapless
  <2>3. \A p \in Pool : OfPool(Queued(place), p) = {r \in Waiting : PoolOf[r] = p}
    BY <2>1 DEF OfPool
  <2>4. QED
    BY <2>1, <2>2, <2>3 DEF QueueAccounted, QueueSound
<1>2. QED
  BY <1>1, InitQueueInv, StepQueueInv, PTL DEF Spec

(* The scheduler implements AccountPermits for every value of its          *)
(* constants: each step grants a permit to a free slot below the limit,    *)
(* returns one, hands one over, revokes all, or leaves the holders alone.  *)
THEOREM PermitsImplemented == Spec => ImplementsPermits
<1>1. Init => Permits!Init
  BY CapacityConstants DEF Init, Permits!Init, Holders
<1>2. QueueInv /\ [Next]_vars => [Permits!Next]_([a \in Account |-> Holders(a)])
  BY StepPermits
<1>3. QED
  BY <1>1, <1>2, InitQueueInv, StepQueueInv, PTL DEF Spec, ImplementsPermits, Permits!Spec

(* An account in the half-open state is never given a second permit, be it *)
(* a first call, a second call or a permit handed over on a release.       *)
THEOREM OneProbe == Spec => SingleProbe
<1>1. QueueInv /\ [Next]_vars =>
        [\A a \in Account : (circuit[a] = "half-open" /\ circuit'[a] = "half-open")
           => active'[a] <= IF active[a] = 0 THEN 1 ELSE active[a]]_vars
  BY ProbeByStep
<1>2. QED
  BY <1>1, InitQueueInv, StepQueueInv, PTL DEF Spec, SingleProbe

(* Where no pool makes second calls, an account is counted busy only for   *)
(* permits that are held: when nobody holds one, every count is zero.      *)
(* With second calls an aborted request takes a permit it never returns,   *)
(* which the run capacity_restart shows.                                   *)
THEOREM IdleIsFree ==
  ASSUME Hedged = {}
  PROVE  Spec => []IdleMeansFree
<1>1. ASSUME CurrentInv PROVE IdleMeansFree
  <2>1. ASSUME \A s \in Slot : lease[s] = None, NEW a \in Account PROVE active[a] = 0
    <3>1. Held(lease, a) = {}
      BY <2>1, CapacityConstants DEF Held
    <3>2. QED
      BY <1>1, <3>1, FS_EmptySet DEF CurrentInv, Exact
  <2>2. QED
    BY <2>1 DEF IdleMeansFree
<1>2. CurrentInv /\ [Next]_vars => CurrentInv'
  BY StepCurrentInv
<1>3. QED
  BY <1>1, <1>2, InitCurrentInv, PTL DEF Spec

(* While no circuit changes, a request waits only while all its members    *)
(* are at their limit, for any pools, members and limits.                  *)
THEOREM NoWaiterStaysIdle ==
  ASSUME Flapping = {}
  PROVE  Spec => []NoWaiterIdles
<1>1. WellInv => NoWaiterIdles
  BY NobodyIdlesNow DEF NobodyIdles, NoWaiterIdles, Waiting
<1>2. WellInv /\ [Next]_vars => WellInv'
  BY StepWellInv
<1>3. QED
  BY <1>1, <1>2, InitWellInv, PTL DEF Spec

(* While no circuit changes and the requests of a pool can use the same    *)
(* accounts, a waiter is not served before an earlier one of its pool      *)
(* (fulfillOneCapacityWaiter goes through the queue in insertion order).   *)
THEOREM FirstComeFirstServed ==
  ASSUME Flapping = {}, SameMembers
  PROVE  Spec => ServedInOrder
<1>1. WellInv /\ [Next]_vars =>
        [\A r, v \in Waiting :
           (/\ PoolOf[r] = PoolOf[v]
            /\ place[r] < place[v]
            /\ phase'[v] = "attempt")
           => phase'[r] # "waiting"]_vars
  BY StepInOrder
<1>2. WellInv /\ [Next]_vars => WellInv'
  BY StepWellInv
<1>3. QED
  BY <1>1, <1>2, InitWellInv, PTL DEF Spec, ServedInOrder

(* While no circuit changes, a returned permit leaves no member of its     *)
(* account waiting that could use it.                                      *)
THEOREM ReleaseWakesEveryMember ==
  ASSUME Flapping = {}
  PROVE  Spec => ReleaseWakesMembers
<1>1. ASSUME WellInv, WellInv', NEW a \in Account, NEW r \in Request, a \in Members(r),
             phase'[r] = "waiting"
      PROVE  ~(Eligible(active, r, a))'
  <2>1. place'[r] > 0
    BY <1>1 DEF WellInv, QueueInv, QueueSound, Queued
  <2>2. active'[a] >= MaxConcurrency[a] /\ limit'[a] = MaxConcurrency[a]
    BY <1>1, <2>1 DEF WellInv, Saturated, AllWell
  <2>3. active'[a] \in Nat /\ MaxConcurrency[a] \in Nat
    BY <1>1, CapacityConstants DEF WellInv, QueueInv, PermitInv, TypeOK
  <2>4. QED
    BY <2>2, <2>3 DEF Eligible, ConcurrencyLimit
<1>2. WellInv /\ [Next]_vars => WellInv'
  BY StepWellInv
<1>3. WellInv /\ WellInv' =>
        [\A s \in Slot, a \in Account, r \in Request :
           (/\ lease[s] = a
            /\ lease'[s] = None
            /\ reqGen[s[1]] = generation
            /\ a \in Members(r)
            /\ phase'[r] = "waiting")
           => ~(Eligible(active, r, a))']_vars
  BY <1>1
<1>4. QED
  BY <1>2, <1>3, InitWellInv, PTL DEF Spec, ReleaseWakesMembers
=============================================================================
