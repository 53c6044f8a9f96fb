------------------------ MODULE RequestFailoverProofs ------------------------
(***************************************************************************)
(* What the failover loop guarantees for any number of requests and        *)
(* sources, any kinds of sources and any limits.                           *)
(***************************************************************************)
EXTENDS RequestFailover, FiniteSetTheorems, TLAPS

(* Only an attempt under way has sent output or a binding header.  It is   *)
(* what makes NothingAfterOutput inductive: every way back to the choice   *)
(* of a source checks the headers first.                                   *)
BoundInAttempt(l) == l.sent \in {"bound", "output"} => l.step \in {"attempt", "ended"}

PermitMatchesStep(l) == l.permit # NoSource <=> l.step \in {"attempt", "renew"}

Sound(l) == l \in Locals /\ BoundInAttempt(l) /\ PermitMatchesStep(l)

FailoverInv ==
  /\ kind \in Mixes
  /\ \A r \in Call : Sound(loop[r])
  /\ loop \in [Call -> Locals]
  /\ cooled \subseteq Source /\ disabled \subseteq Source /\ barred \subseteq Source

LEMMA FreshIsSound ==
  ASSUME NEW s \in {"choose", "ended"}, NEW p \in BOOLEAN
  PROVE  Sound([Fresh EXCEPT !.step = s, !.portable = p])
<1>1. /\ [b \in Budget |-> 0] \in [Budget -> Nat]
      /\ [failure |-> "none", length |-> 0] \in [failure : Failure \cup {"none"}, length : Nat]
  OBVIOUS
<1>2. QED
  BY <1>1, FailoverConstants DEF Sound, Fresh, Locals, BoundInAttempt, PermitMatchesStep

LEMMA EndedIsSound == Sound([Fresh EXCEPT !.step = "ended"])
<1>1. /\ [b \in Budget |-> 0] \in [Budget -> Nat]
      /\ [failure |-> "none", length |-> 0] \in [failure : Failure \cup {"none"}, length : Nat]
  OBVIOUS
<1>2. QED
  BY <1>1, FailoverConstants DEF Sound, Fresh, Locals, BoundInAttempt, PermitMatchesStep

(* A step of one handler that leaves its variables sound.                  *)
LEMMA OneHandler ==
  ASSUME FailoverInv, NEW r \in Call, NEW new, Sound(new),
         loop' = [loop EXCEPT ![r] = new], kind' = kind,
         cooled' \subseteq Source, disabled' \subseteq Source, barred' \subseteq Source
  PROVE  FailoverInv'
<1>1. \A q \in Call : Sound(loop'[q])
  BY DEF FailoverInv
<1>2. loop' \in [Call -> Locals]
  BY DEF FailoverInv, Sound
<1>3. (\A q \in Call : Sound(loop[q]))'
  BY <1>1 DEF Sound, BoundInAttempt, PermitMatchesStep
<1>4. QED
  BY <1>2, <1>3 DEF FailoverInv

LEMMA EndIsSound ==
  ASSUME FailoverInv, NEW r \in Call, End(r), UNCHANGED <<kind, sourceHealth>>
  PROVE  FailoverInv'
  BY EndedIsSound, OneHandler DEF End, FailoverInv, sourceHealth

LEMMA FailoverInitInv == FailoverInit => FailoverInv
<1>1. SUFFICES ASSUME FailoverInit PROVE FailoverInv
  OBVIOUS
<1>2. kind \in [Call -> CallKind]
  BY <1>1, FailoverConstants DEF FailoverInit
<1>3. ASSUME NEW r \in Call PROVE Sound(loop[r])
  <2> DEFINE s == IF kind[r] = "none" THEN "ended" ELSE "choose"
             p == kind[r] = "compact" /\ Native = {}
  <2>1. loop[r] = [Fresh EXCEPT !.step = s, !.portable = p]
    <3>1. Fresh.step = "choose"
      BY DEF Fresh
    <3>2. QED
      BY <1>1, <3>1, Zenon DEF FailoverInit
  <2>2. s \in {"choose", "ended"} /\ p \in BOOLEAN
    OBVIOUS
  <2> HIDE DEF s, p
  <2>3. QED
    BY <2>1, <2>2, FreshIsSound
<1>4. \A r \in Call : loop[r] \in Locals
  BY <1>3 DEF Sound
<1>5. loop \in [Call -> Locals]
  BY <1>1, <1>4 DEF FailoverInit
<1>6. QED
  BY <1>1, <1>3, <1>5 DEF FailoverInv, FailoverInit

LEMMA SelectInv ==
  ASSUME FailoverInv, NEW r \in Call, Select(r)
  PROVE  FailoverInv'
<1> DEFINE p == Fallback(r)
<1>1. p \in BOOLEAN
  BY DEF Fallback
<1>2. PICK a \in Choices(r, p) \cap Usable :
        loop' = [loop EXCEPT ![r].step = "attempt", ![r].permit = a, ![r].pinned = NoSource,
                             ![r].attempts = @ + 1, ![r].portable = p]
  BY DEF Select
<1> HIDE DEF p
<1> DEFINE new == [loop[r] EXCEPT !.step = "attempt", !.permit = a, !.pinned = NoSource,
                                  !.attempts = @ + 1, !.portable = p]
<1>3. a \in Source /\ a # NoSource
  BY <1>2, FailoverConstants DEF Usable
<1>4. loop[r] \in Locals
  BY DEF FailoverInv
<1>5. Sound(new)
  <2>1. new \in Locals
    <3>1. loop[r].attempts + 1 \in Nat
      BY <1>4 DEF Locals
    <3>2. QED
      BY <1>1, <1>3, <1>4, <3>1, Zenon DEF Locals
  <2>2. BoundInAttempt(new)
    BY <1>1, <1>3, <1>4 DEF Locals, BoundInAttempt
  <2>3. PermitMatchesStep(new)
    BY <1>1, <1>3, <1>4 DEF Locals, PermitMatchesStep
  <2>4. QED
    BY <2>1, <2>2, <2>3 DEF Sound
<1>6. loop' = [loop EXCEPT ![r] = new]
  BY <1>2
<1> HIDE DEF new
<1>7. QED
  BY <1>5, <1>6, OneHandler DEF Select, FailoverInv, sourceHealth

LEMMA EndingInv ==
  ASSUME FailoverInv, NEW r \in Call,
         NoEligible(r) \/ TimesOut(r) \/ ClientLeaves(r) \/ Succeeds(r)
  PROVE  FailoverInv'
  BY EndIsSound DEF NoEligible, TimesOut, ClientLeaves, Succeeds

LEMMA ResponseOverdueInv ==
  ASSUME FailoverInv, NEW r \in Call, ResponseOverdue(r)
  PROVE  FailoverInv'
<1> DEFINE new == [loop[r] EXCEPT !.late = TRUE]
<1>1. Sound(new)
  BY ZenonT(60) DEF FailoverInv, Sound, Locals, BoundInAttempt, PermitMatchesStep
<1>2. loop' = [loop EXCEPT ![r] = new]
  BY DEF ResponseOverdue
<1> HIDE DEF new
<1>3. QED
  BY <1>1, <1>2, OneHandler DEF ResponseOverdue, FailoverInv, sourceHealth

LEMMA SendingInv ==
  ASSUME FailoverInv, NEW r \in Call, Beat(r) \/ Output(r)
  PROVE  FailoverInv'
<1>1. PICK s \in {"keepalive", "bound", "output"} : loop' = [loop EXCEPT ![r].sent = s]
  BY DEF Beat, Output
<1> DEFINE new == [loop[r] EXCEPT !.sent = s]
<1>2. loop[r].step = "attempt"
  BY DEF Beat, Output, At
<1>3. loop[r] \in Locals /\ BoundInAttempt(loop[r]) /\ PermitMatchesStep(loop[r])
  BY DEF FailoverInv, Sound
<1>4. Sound(new)
  <2>1. new \in Locals
    BY <1>1, <1>2, <1>3 DEF Locals
  <2>2. BoundInAttempt(new)
    BY <1>1, <1>2, <1>3 DEF Locals, BoundInAttempt
  <2>3. PermitMatchesStep(new)
    BY <1>1, <1>2, <1>3 DEF Locals, PermitMatchesStep
  <2>4. QED
    BY <2>1, <2>2, <2>3 DEF Sound
<1>5. loop' = [loop EXCEPT ![r] = new]
  BY <1>1
<1> HIDE DEF new
<1>6. QED
  BY <1>4, <1>5, OneHandler DEF Beat, Output, FailoverInv, sourceHealth

LEMMA QuotaHeadersInv ==
  ASSUME FailoverInv, NEW r \in Call, QuotaHeaders(r)
  PROVE  FailoverInv'
<1>1. loop[r].permit \in Source
  BY DEF QuotaHeaders, At, FailoverInv, Sound, Locals, PermitMatchesStep
<1>2. kind' = kind /\ loop' = loop /\ disabled' = disabled /\ barred' = barred
  BY DEF QuotaHeaders
<1>3. cooled' \subseteq Source
  BY <1>1 DEF QuotaHeaders, FailoverInv
<1>4. QED
  BY <1>2, <1>3 DEF FailoverInv, Sound, BoundInAttempt, PermitMatchesStep

LEMMA RenewRejectedInv ==
  ASSUME FailoverInv, NEW r \in Call, RenewRejected(r)
  PROVE  FailoverInv'
<1> DEFINE new == [loop[r] EXCEPT !.step = "renew", !.renewed = @ \cup {loop[r].permit}]
<1>1. loop[r] \in Locals /\ BoundInAttempt(loop[r]) /\ PermitMatchesStep(loop[r])
  BY DEF FailoverInv, Sound
<1>2. loop[r].step = "attempt" /\ loop[r].sent = "nothing"
  BY DEF RenewRejected, Fails, At, headersSent
<1>3. loop[r].permit \in Source
  BY <1>1, <1>2 DEF Locals, PermitMatchesStep
<1>4. Sound(new)
  <2>1. new \in Locals
    BY <1>1, <1>2, <1>3 DEF Locals
  <2>2. BoundInAttempt(new)
    BY <1>1, <1>2, <1>3 DEF Locals, BoundInAttempt
  <2>3. PermitMatchesStep(new)
    BY <1>1, <1>2, <1>3 DEF Locals, PermitMatchesStep
  <2>4. QED
    BY <2>1, <2>2, <2>3 DEF Sound
<1>5. loop' = [loop EXCEPT ![r] = new]
  BY DEF RenewRejected
<1> HIDE DEF new
<1>6. QED
  BY <1>4, <1>5, OneHandler DEF RenewRejected, FailoverInv, sourceHealth

(* A renewal that fails ends the request; one that succeeds releases the   *)
(* permit and asks for the same source again.                              *)
LEMMA RenewedInv ==
  ASSUME FailoverInv, NEW r \in Call, Renewed(r)
  PROVE  FailoverInv'
<1> DEFINE new == [loop[r] EXCEPT !.step = "choose", !.permit = NoSource,
                                  !.pinned = loop[r].permit, !.failed = @ \ {loop[r].permit}]
<1>1. CASE End(r)
  BY <1>1, EndIsSound DEF Renewed
<1>2. CASE ~End(r)
  <2>1. loop[r] \in Locals /\ BoundInAttempt(loop[r]) /\ PermitMatchesStep(loop[r])
    BY DEF FailoverInv, Sound
  <2>2. loop[r].step = "renew"
    BY DEF Renewed, At
  <2>3. Sound(new)
    <3>1. new \in Locals
      BY <2>1 DEF Locals
    <3>2. BoundInAttempt(new)
      BY <2>1, <2>2 DEF Locals, BoundInAttempt
    <3>3. PermitMatchesStep(new)
      BY <2>1 DEF Locals, PermitMatchesStep
    <3>4. QED
      BY <3>1, <3>2, <3>3 DEF Sound
  <2>4. loop' = [loop EXCEPT ![r] = new]
    BY <1>2 DEF Renewed
  <2> HIDE DEF new
  <2>5. QED
    BY <2>3, <2>4, OneHandler DEF Renewed, FailoverInv, sourceHealth
<1>3. QED
  BY <1>1, <1>2

LEMMA BackoffEndsInv ==
  ASSUME FailoverInv, NEW r \in Call, BackoffEnds(r)
  PROVE  FailoverInv'
<1> DEFINE new == [loop[r] EXCEPT !.step = "choose"]
<1>1. loop[r] \in Locals /\ BoundInAttempt(loop[r]) /\ PermitMatchesStep(loop[r])
  BY DEF FailoverInv, Sound
<1>2. loop[r].step = "backoff"
  BY DEF BackoffEnds, At
<1>3. Sound(new)
  <2>1. new \in Locals
    BY <1>1, <1>2 DEF Locals
  <2>2. BoundInAttempt(new)
    BY <1>1, <1>2 DEF Locals, BoundInAttempt
  <2>3. PermitMatchesStep(new)
    BY <1>1, <1>2 DEF Locals, PermitMatchesStep
  <2>4. QED
    BY <2>1, <2>2, <2>3 DEF Sound
<1>4. loop' = [loop EXCEPT ![r] = new]
  BY DEF BackoffEnds
<1> HIDE DEF new
<1>5. QED
  BY <1>3, <1>4, OneHandler DEF BackoffEnds, FailoverInv, sourceHealth

LEMMA StreakType ==
  ASSUME NEW r \in Call, NEW f \in Failure, loop[r] \in Locals
  PROVE  Streak(r, f) \in [failure : Failure \cup {"none"}, length : Nat]
<1>1. loop[r].streak \in [failure : Failure \cup {"none"}, length : Nat]
  BY DEF Locals
<1>2. QED
  BY <1>1 DEF Streak

(* One retry more from one of the budgets.                                 *)
LEMMA SpentType ==
  ASSUME NEW l \in Locals, NEW b \in Budget
  PROVE  [l.spent EXCEPT ![b] = @ + 1] \in [Budget -> Nat]
<1>1. l.spent \in [Budget -> Nat]
  BY DEF Locals
<1>2. QED
  BY <1>1

LEMMA RetryAdaptiveInv ==
  ASSUME FailoverInv, NEW r \in Call, NEW f \in Failure, RetryAdaptive(r, f)
  PROVE  FailoverInv'
<1> DEFINE a    == loop[r].permit
           more == [loop[r].spent EXCEPT !["adaptive"] = @ + 1]
           next == [loop[r] EXCEPT !.permit = NoSource, !.spent = more]
           new  == IF Alternative(r) THEN [next EXCEPT !.failed = @ \cup {a}, !.step = "choose"]
                                     ELSE [next EXCEPT !.pinned = a, !.step = "backoff"]
<1>1. loop[r] \in Locals /\ PermitMatchesStep(loop[r])
  BY DEF FailoverInv, Sound
<1>2. loop[r].step = "attempt" /\ loop[r].sent = "nothing"
  BY DEF RetryAdaptive, Fails, At, Adaptable, headersSent
<1>3. a \in Source
  BY <1>1, <1>2 DEF Locals, PermitMatchesStep
<1>4. more \in [Budget -> Nat]
  BY <1>1, SpentType DEF Budget
<1>5. loop' = [loop EXCEPT ![r] = new]
  BY DEF RetryAdaptive
<1> HIDE DEF a, more
<1>6. next \in Locals /\ next.sent = "nothing" /\ next.permit = NoSource
  BY <1>1, <1>2, <1>4 DEF Locals
<1> HIDE DEF next
<1>7. Sound([next EXCEPT !.failed = @ \cup {a}, !.step = "choose"])
  BY <1>3, <1>6 DEF Sound, Locals, BoundInAttempt, PermitMatchesStep
<1>8. Sound([next EXCEPT !.pinned = a, !.step = "backoff"])
  BY <1>3, <1>6 DEF Sound, Locals, BoundInAttempt, PermitMatchesStep
<1>9. Sound(new)
  BY <1>7, <1>8
<1> HIDE DEF new
<1>10. QED
  BY <1>5, <1>9, OneHandler DEF RetryAdaptive, FailoverInv, sourceHealth

LEMMA RetryTransientInv ==
  ASSUME FailoverInv, NEW r \in Call, NEW f \in Failure, RetryTransient(r, f)
  PROVE  FailoverInv'
<1> DEFINE a    == loop[r].permit
           run  == Streak(r, f)
           more == [loop[r].spent EXCEPT !["transient"] = @ + 1]
           next == [loop[r] EXCEPT !.permit = NoSource, !.spent = more,
                                   !.streak = run, !.step = "backoff"]
           new  == IF Alternative(r) THEN [next EXCEPT !.failed = @ \cup {a}]
                                     ELSE [next EXCEPT !.failed = @ \ {a}, !.pinned = a]
<1>1. loop[r] \in Locals /\ PermitMatchesStep(loop[r])
  BY DEF FailoverInv, Sound
<1>2. loop[r].step = "attempt" /\ loop[r].sent = "nothing"
  BY DEF RetryTransient, Fails, At, Repeatable, headersSent
<1>3. a \in Source
  BY <1>1, <1>2 DEF Locals, PermitMatchesStep
<1>4. more \in [Budget -> Nat] /\ run \in [failure : Failure \cup {"none"}, length : Nat]
  BY <1>1, SpentType, StreakType DEF Budget
<1>5. loop' = [loop EXCEPT ![r] = new]
  BY DEF RetryTransient
<1> HIDE DEF a, more, run
<1>6. next \in Locals /\ next.sent = "nothing" /\ next.permit = NoSource /\ next.step = "backoff"
  BY <1>1, <1>2, <1>4 DEF Locals
<1> HIDE DEF next
<1>7. Sound([next EXCEPT !.failed = @ \cup {a}])
  BY <1>3, <1>6 DEF Sound, Locals, BoundInAttempt, PermitMatchesStep
<1>8. Sound([next EXCEPT !.failed = @ \ {a}, !.pinned = a])
  BY <1>3, <1>6 DEF Sound, Locals, BoundInAttempt, PermitMatchesStep
<1>9. Sound(new)
  BY <1>7, <1>8
<1> HIDE DEF new
<1>10. QED
  BY <1>5, <1>9, OneHandler DEF RetryTransient, FailoverInv, sourceHealth

(* Every way a handler goes on after the catch of the loop: back to the    *)
(* choice of a source, or to a pause, only without output of its own.      *)
LEMMA AfterFailureSound ==
  ASSUME FailoverInv, NEW r \in Call, NEW f \in Failure, Fails(r, f),
         NEW quota \in BOOLEAN, NEW room \in BOOLEAN, NEW answered \in BOOLEAN
  PROVE  Sound(AfterFailure(r, f, quota, room, answered))
<1> DEFINE a      == loop[r].permit
           other  == Alternative(r)
           enters == canEnterPortable(r, f, quota, answered) /\ ~(canRetry(r, f, quota) /\ other)
           moves  == canMoveToPeer(r)
           waits  == ~other /\ f \in {"edge", "upstream", "admission"}
           avoids == \/ Penalised(r, f, quota) \/ moves
                     \/ other /\ f = "model"
                     \/ other /\ requestScoped(r, f) /\ ~Explicit(r, f)
           unable == Proven(r, f) /\ onlyCompaction(r, f, quota) /\ (other \/ PortablePeer(r))
           run    == Streak(r, f)
           away   == IF avoids THEN loop[r].failed \cup {a} ELSE loop[r].failed
           not    == IF unable THEN loop[r].incapable \cup {a} ELSE loop[r].incapable
           next   == [loop[r] EXCEPT !.step = "choose", !.permit = NoSource, !.streak = run,
                                     !.failed = away, !.incapable = not]
           pause  == IF waits THEN "backoff" ELSE next.step
<1>1. loop[r] \in Locals /\ PermitMatchesStep(loop[r])
  BY DEF FailoverInv, Sound
<1>2. a \in Source
  BY <1>1 DEF Locals, PermitMatchesStep, Fails, At
<1>3. run \in [failure : Failure \cup {"none"}, length : Nat]
  BY <1>1, StreakType
<1>4. away \subseteq Source /\ not \subseteq Source
  BY <1>1, <1>2 DEF Locals
<1>5. AfterFailure(r, f, quota, room, answered) =
        IF enters THEN [next EXCEPT !.portable = TRUE]
        ELSE IF moves THEN [next EXCEPT !.spent["portable"] = @ + 1]
        ELSE IF ~canRetry(r, f, quota) \/ (waits /\ ~room) THEN [Fresh EXCEPT !.step = "ended"]
        ELSE [next EXCEPT !.spent["ordinary"] = @ + 1, !.step = pause]
  BY Zenon DEF AfterFailure
<1>6. enters \/ moves \/ canRetry(r, f, quota) => loop[r].sent \notin {"bound", "output"}
  BY DEF canEnterPortable, canMoveToPeer, canRetry, hasClientOutput
<1> HIDE DEF a, other, enters, moves, waits, avoids, unable, run, away, not
<1>7. /\ next \in Locals
      /\ next.sent = loop[r].sent /\ next.permit = NoSource /\ next.step = "choose"
  BY <1>1, <1>3, <1>4 DEF Locals
<1>8. pause \in {"choose", "backoff"}
  BY <1>7
<1> HIDE DEF next, pause
<1>9. CASE loop[r].sent \notin {"bound", "output"}
  <2>1. Sound([next EXCEPT !.portable = TRUE])
    BY <1>7, <1>9 DEF Sound, Locals, BoundInAttempt, PermitMatchesStep
  <2>2. Sound([next EXCEPT !.spent["portable"] = @ + 1])
    <3>1. [next.spent EXCEPT !["portable"] = @ + 1] \in [Budget -> Nat]
      BY <1>7, SpentType DEF Budget
    <3>2. QED
      BY <1>7, <1>9, <3>1 DEF Sound, Locals, BoundInAttempt, PermitMatchesStep
  <2>3. Sound([next EXCEPT !.spent["ordinary"] = @ + 1, !.step = pause])
    <3>1. [next.spent EXCEPT !["ordinary"] = @ + 1] \in [Budget -> Nat]
      BY <1>7, SpentType DEF Budget
    <3>2. QED
      BY <1>7, <1>8, <1>9, <3>1 DEF Sound, Locals, BoundInAttempt, PermitMatchesStep
  <2>4. QED
    BY <1>5, <2>1, <2>2, <2>3, EndedIsSound
<1>10. CASE loop[r].sent \in {"bound", "output"}
  BY <1>5, <1>6, <1>10, EndedIsSound
<1>11. QED
  BY <1>9, <1>10

LEMMA FailOverInv ==
  ASSUME FailoverInv, NEW r \in Call, NEW f \in Failure,
         NEW quota \in BOOLEAN, NEW room \in BOOLEAN, NEW answered \in BOOLEAN,
         FailOver(r, f, quota, room, answered)
  PROVE  FailoverInv'
<1>1. loop[r].permit \in Source
  BY DEF FailOver, Fails, At, FailoverInv, Sound, Locals, PermitMatchesStep
<1>2. cooled' \subseteq Source /\ disabled' \subseteq Source /\ barred' \subseteq Source
  BY <1>1 DEF FailOver, Penalise, FailoverInv
<1>3. Sound(AfterFailure(r, f, quota, room, answered))
  BY AfterFailureSound DEF FailOver
<1>4. QED
  BY <1>2, <1>3, OneHandler DEF FailOver

LEMMA CooldownEndsInv ==
  ASSUME FailoverInv, NEW a \in Source, CooldownEnds(a)
  PROVE  FailoverInv'
  BY DEF CooldownEnds, FailoverInv, Sound, BoundInAttempt, PermitMatchesStep

LEMMA FailoverStep ==
  FailoverInv /\ [FailoverNext]_failoverVars => FailoverInv'
<1>1. CASE UNCHANGED failoverVars
  BY <1>1 DEF failoverVars, FailoverInv, Sound, BoundInAttempt, PermitMatchesStep
<1>2. ASSUME FailoverInv, FailoverNext PROVE FailoverInv'
  BY <1>2, SelectInv, EndingInv, ResponseOverdueInv, SendingInv, QuotaHeadersInv, RenewRejectedInv,
     RenewedInv, RetryAdaptiveInv, RetryTransientInv, FailOverInv, BackoffEndsInv, CooldownEndsInv
     DEF FailoverNext, Choose, Concludes
<1>3. QED
  BY <1>1, <1>2

(* In every reachable state of the loop of GatewayServer.handle, for any   *)
(* sources, calls and limits, its counters, sets and steps keep their      *)
(* types.                                                                  *)
THEOREM FailoverTypeCorrect == FailoverSpec => []FailoverTypeOK
<1>1. FailoverInv => FailoverTypeOK
  BY DEF FailoverInv, FailoverTypeOK
<1>2. QED
  BY <1>1, FailoverInitInv, FailoverStep, PTL DEF FailoverSpec

(* A request holds the permit of an account only while one of its attempts *)
(* is under way: each of its pauses begins with the release in handle.     *)
THEOREM PermitsOnlyInAttempts == FailoverSpec => []PermitOnlyInAttempt
<1>1. FailoverInv => PermitOnlyInAttempt
  BY DEF FailoverInv, Sound, PermitMatchesStep, PermitOnlyInAttempt
<1>2. QED
  BY <1>1, FailoverInitInv, FailoverStep, PTL DEF FailoverSpec
-----------------------------------------------------------------------------
(* Only the choice of a source makes an attempt.                           *)
NoAttemptMade(l, new) == new.attempts = l.attempts \/ new.attempts = 0

LEMMA OneHandlerNoAttempt ==
  ASSUME FailoverInv, NEW q \in Call, NEW new, loop' = [loop EXCEPT ![q] = new],
         NoAttemptMade(loop[q], new)
  PROVE  \A r \in Call : loop'[r].attempts <= loop[r].attempts
<1>1. SUFFICES ASSUME NEW r \in Call PROVE loop'[r].attempts <= loop[r].attempts
  OBVIOUS
<1>2. loop[r].attempts \in Nat
  BY DEF FailoverInv, Locals
<1>3. loop'[r] = IF r = q THEN new ELSE loop[r]
  BY DEF FailoverInv
<1>4. QED
  BY <1>2, <1>3 DEF NoAttemptMade

LEMMA EndMakesNoAttempt ==
  ASSUME FailoverInv, NEW q \in Call, End(q)
  PROVE  \A r \in Call : loop'[r].attempts <= loop[r].attempts
<1>1. NoAttemptMade(loop[q], [Fresh EXCEPT !.step = "ended"])
  BY DEF NoAttemptMade, Fresh
<1>2. QED
  BY <1>1, OneHandlerNoAttempt DEF End

LEMMA AfterFailureMakesNoAttempt ==
  ASSUME FailoverInv, NEW r \in Call, NEW f \in Failure, NEW quota, NEW room, NEW answered
  PROVE  NoAttemptMade(loop[r], AfterFailure(r, f, quota, room, answered))
<1>1. loop[r] \in Locals
  BY DEF FailoverInv
<1> DEFINE s == Streak(r, f)
<1> HIDE DEF s
<1>2. /\ [Fresh EXCEPT !.step = "ended"].attempts = 0
      /\ \A x, y : [loop[r] EXCEPT !.step = "choose", !.permit = NoSource, !.streak = s,
                        !.failed = x, !.incapable = y].attempts = loop[r].attempts
  BY <1>1 DEF Fresh, Locals
<1>3. QED
  BY <1>1, <1>2, Zenon DEF AfterFailure, NoAttemptMade, Locals

(* Once the client has output, or a header that ties it to an account, the *)
(* loop starts no other attempt: such a request is in its attempt, and so  *)
(* not where handle chooses an account, and every failure path that goes   *)
(* back to the choice has tested for it.                                   *)
THEOREM NothingAfterOutputProved == FailoverSpec => NothingAfterOutput
<1> DEFINE A == \A r \in Call : loop[r].sent \in {"bound", "output"} =>
                                 loop'[r].attempts <= loop[r].attempts
<1>1. ASSUME FailoverInv, NEW q \in Call, Select(q) PROVE A
  <2>1. SUFFICES ASSUME NEW r \in Call, loop[r].sent \in {"bound", "output"}
                 PROVE  loop'[r].attempts <= loop[r].attempts
    OBVIOUS
  <2>2. r # q
    BY <1>1, <2>1 DEF FailoverInv, Sound, BoundInAttempt, Select, At
  <2>3. loop'[r] = loop[r] /\ loop[r].attempts \in Nat
    BY <1>1, <2>2 DEF Select, FailoverInv, Locals
  <2>4. QED
    BY <2>3
<1>2. ASSUME FailoverInv, NEW q \in Call,
             NoEligible(q) \/ TimesOut(q) \/ ClientLeaves(q) \/ Succeeds(q)
      PROVE  A
  BY <1>2, EndMakesNoAttempt DEF NoEligible, TimesOut, ClientLeaves, Succeeds
<1>3. ASSUME FailoverInv, NEW q \in Call,
             ResponseOverdue(q) \/ Beat(q) \/ Output(q) \/ RenewRejected(q) \/ BackoffEnds(q)
      PROVE  A
  <2>1. SUFFICES ASSUME NEW r \in Call PROVE loop'[r].attempts = loop[r].attempts
    BY <1>3 DEF FailoverInv, Locals
  <2>2. loop[r] \in Locals /\ loop \in [Call -> Locals]
    BY <1>3 DEF FailoverInv
  <2>3. CASE ResponseOverdue(q)
    BY <2>2, <2>3 DEF ResponseOverdue, Locals
  <2>4. CASE Beat(q) \/ Output(q)
    <3>1. PICK s : loop' = [loop EXCEPT ![q].sent = s]
      BY <2>4 DEF Beat, Output
    <3>2. QED
      BY <2>2, <3>1 DEF Locals
  <2>5. CASE RenewRejected(q)
    BY <2>2, <2>5 DEF RenewRejected, Locals
  <2>6. CASE BackoffEnds(q)
    BY <2>2, <2>6 DEF BackoffEnds, Locals
  <2>7. QED
    BY <1>3, <2>3, <2>4, <2>5, <2>6
<1>4. ASSUME FailoverInv, NEW q \in Call, Renewed(q) PROVE A
  <2>1. CASE End(q)
    BY <1>4, <2>1, EndMakesNoAttempt
  <2>2. CASE ~End(q)
    <3>1. SUFFICES ASSUME NEW r \in Call PROVE loop'[r].attempts = loop[r].attempts
      BY <1>4 DEF FailoverInv, Locals
    <3>2. loop[r] \in Locals /\ loop \in [Call -> Locals]
      BY <1>4 DEF FailoverInv
    <3>3. QED
      BY <1>4, <2>2, <3>2 DEF Renewed, Locals
  <2>3. QED
    BY <2>1, <2>2
<1>5. ASSUME FailoverInv, NEW q \in Call, NEW f \in Failure,
             RetryAdaptive(q, f) \/ RetryTransient(q, f)
      PROVE  A
  <2>1. SUFFICES ASSUME NEW r \in Call PROVE loop'[r].attempts = loop[r].attempts
    BY <1>5 DEF FailoverInv, Locals
  <2>2. loop[r] \in Locals /\ loop \in [Call -> Locals] /\ loop[q] \in Locals
    BY <1>5 DEF FailoverInv
  <2>3. CASE RetryAdaptive(q, f)
    BY <2>2, <2>3 DEF RetryAdaptive, Locals
  <2>4. CASE RetryTransient(q, f)
    <3> DEFINE a    == loop[q].permit
               run  == Streak(q, f)
               more == [loop[q].spent EXCEPT !["transient"] = @ + 1]
               next == [loop[q] EXCEPT !.permit = NoSource, !.spent = more,
                                       !.streak = run, !.step = "backoff"]
               new  == IF Alternative(q) THEN [next EXCEPT !.failed = @ \cup {a}]
                                         ELSE [next EXCEPT !.failed = @ \ {a}, !.pinned = a]
    <3>1. loop' = [loop EXCEPT ![q] = new]
      BY <2>4 DEF RetryTransient
    <3> HIDE DEF a, run, more
    <3>2. next.attempts = loop[q].attempts /\ DOMAIN next = DOMAIN loop[q]
      BY <2>2 DEF Locals
    <3>3. "attempts" \in DOMAIN loop[q]
      BY <2>2 DEF Locals
    <3> HIDE DEF next
    <3>4. new.attempts = loop[q].attempts
      BY <3>2, <3>3
    <3> HIDE DEF new
    <3>5. QED
      BY <2>2, <3>1, <3>4
  <2>5. QED
    BY <1>5, <2>3, <2>4
<1>6. ASSUME FailoverInv, NEW q \in Call, NEW f \in Failure, NEW quota, NEW room, NEW answered,
             FailOver(q, f, quota, room, answered)
      PROVE  A
  BY <1>6, AfterFailureMakesNoAttempt, OneHandlerNoAttempt DEF FailOver
<1>7. ASSUME FailoverInv, NEW a \in Source, CooldownEnds(a) PROVE A
  BY <1>7 DEF CooldownEnds, FailoverInv, Locals
<1>8. ASSUME FailoverInv, NEW q \in Call, QuotaHeaders(q) PROVE A
  BY <1>8 DEF QuotaHeaders, FailoverInv, Locals
<1>9. ASSUME FailoverInv, FailoverNext PROVE A
  BY <1>1, <1>2, <1>3, <1>4, <1>5, <1>6, <1>7, <1>8, <1>9 DEF FailoverNext, Choose, Concludes
<1>10. FailoverInv /\ [FailoverNext]_failoverVars => [A]_failoverVars
  BY <1>9
<1>11. QED
  BY <1>10, FailoverInitInv, FailoverStep, PTL DEF FailoverSpec, NothingAfterOutput

(* The last account that requests can use is cooled only by the headers of *)
(* its own attempt (applyExhaustedQuotaHeaders), which holds on to its     *)
(* permit.  A failure that is not fatal cools an account only while        *)
(* another one is usable for the request in that very step: the look for   *)
(* it and the cooldown of handle have no await between them.               *)
THEOREM LastSourceIsSpared == FailoverSpec => LastSourceSpared
<1> DEFINE Spared(a) == \/ Source \ (cooled' \cup disabled' \cup barred') # {}
                        \/ \E r \in Call : a \in Metered /\ loop'[r].permit = a
           A == \A a \in cooled' \ cooled : Spared(a)
<1>1. ASSUME NEW r \in Call, NEW f \in Failure, NEW quota, NEW room, NEW answered,
             FailOver(r, f, quota, room, answered)
      PROVE  A
  <2>1. CASE ~(Penalised(r, f, quota) /\ ~disables(r, f))
    BY <1>1, <2>1 DEF FailOver, Penalise
  <2>2. CASE Penalised(r, f, quota) /\ ~disables(r, f)
    <3>1. f # "model" /\ (Alternative(r) \/ PortablePeer(r))
      BY <2>2 DEF Penalised, Proven
    <3>2. PICK sources : UsableBesides(r, sources)
      BY <3>1, Zenon DEF Alternative, PortablePeer
    <3>3. PICK b \in Usable : b # loop[r].permit
      BY <3>2 DEF UsableBesides
    <3>4. /\ cooled' = cooled \cup {loop[r].permit}
          /\ disabled' = disabled /\ barred' = barred
      BY <1>1, <2>2, <3>1 DEF FailOver, Penalise
    <3>5. QED
      BY <3>3, <3>4 DEF Usable
  <2>3. QED
    BY <2>1, <2>2
<1>2. ASSUME FailoverNext PROVE A
  <2>1. CASE \E r \in Call, f \in Failure, quota, room, answered \in BOOLEAN :
               FailOver(r, f, quota, room, answered)
    BY <1>1, <2>1
  <2>2. CASE \E a \in Source : CooldownEnds(a)
    BY <2>2 DEF CooldownEnds
  <2>3. CASE UNCHANGED sourceHealth
    BY <2>3 DEF sourceHealth
  <2>4. CASE \E r \in Call : QuotaHeaders(r)
    BY <2>4 DEF QuotaHeaders
  <2>5. QED
    BY ZenonT(60), <1>2, <2>1, <2>2, <2>3, <2>4
       DEF FailoverNext, Choose, Concludes, Select, NoEligible, TimesOut, ResponseOverdue,
           ClientLeaves, Beat, Output, Succeeds, RenewRejected, Renewed, RetryAdaptive,
           RetryTransient, BackoffEnds
<1>3. [FailoverNext]_failoverVars => [A]_failoverVars
  BY <1>2
<1>4. QED
  BY <1>3, PTL DEF FailoverSpec, LastSourceSpared
-----------------------------------------------------------------------------
(* The budgets.  Every attempt but the first is paid for: by a retry from  *)
(* a budget, by a renewed session, or by the one change to the portable    *)
(* sources.  A request that is not in an attempt has paid for the next.    *)
Taken(spent) == spent.ordinary + spent.adaptive + spent.transient + spent.portable

Paid(l) ==
  l.attempts + (IF l.step = "attempt" THEN 0 ELSE 1)
    <= 1 + Taken(l.spent) + Cardinality(l.renewed) + (IF l.portable THEN 1 ELSE 0)

TransientBudget(k) == IF k = "webWm" THEN SameFailures - 1 ELSE TransientLimit

WithinBudgets(l, k) ==
  /\ l.spent.ordinary <= RetryLimit
  /\ l.spent.adaptive <= AdaptiveLimit
  /\ l.spent.transient <= TransientBudget(k)
  /\ l.spent.portable <= IF k = "compact" THEN 1 + RetryLimit ELSE 0
  /\ l.portable => k = "compact"

Affords(l, k) == Paid(l) /\ WithinBudgets(l, k)

BudgetInv == FailoverInv /\ \A r \in Call : Affords(loop[r], kind[r])

LEMMA LocalsCount ==
  ASSUME NEW l \in Locals
  PROVE  /\ l.attempts \in Nat /\ Cardinality(l.renewed) \in Nat /\ IsFiniteSet(l.renewed)
         /\ l.spent \in [Budget -> Nat] /\ Taken(l.spent) \in Nat
         /\ {l.spent.ordinary, l.spent.adaptive, l.spent.transient, l.spent.portable} \subseteq Nat
         /\ {RetryLimit, AdaptiveLimit, TransientLimit} \subseteq Nat
         /\ \A k : TransientBudget(k) \in Nat
<1>1. l.attempts \in Nat /\ l.renewed \subseteq Source /\ l.spent \in [Budget -> Nat]
  BY DEF Locals
<1>2. IsFiniteSet(l.renewed) /\ Cardinality(l.renewed) \in Nat
  BY <1>1, FailoverConstants, FS_Subset, FS_CardinalityType
<1>3. {l.spent.ordinary, l.spent.adaptive, l.spent.transient, l.spent.portable} \subseteq Nat
  BY <1>1 DEF Budget
<1>4. Taken(l.spent) \in Nat
  BY <1>3 DEF Taken
<1>5. \A k : TransientBudget(k) \in Nat
  BY FailoverConstants DEF TransientBudget
<1>6. QED
  BY <1>1, <1>2, <1>3, <1>4, <1>5, FailoverConstants

(* A handler that begins, or has returned.                                 *)
LEMMA NothingSpent ==
  ASSUME NEW n, NEW k, n.attempts = 0, n.renewed = {}, n.portable => k = "compact",
         n.spent = [b \in Budget |-> 0]
  PROVE  Affords(n, k)
<1>1. /\ n.spent.ordinary = 0 /\ n.spent.adaptive = 0 /\ n.spent.transient = 0
      /\ n.spent.portable = 0
  BY DEF Budget
<1>2. Cardinality(n.renewed) = 0
  BY FS_EmptySet
<1>3. {RetryLimit, AdaptiveLimit, TransientLimit} \subseteq Nat /\ TransientBudget(k) \in Nat
  BY FailoverConstants DEF TransientBudget
<1>4. Paid(n)
  BY <1>1, <1>2 DEF Paid, Taken
<1>5. WithinBudgets(n, k)
  BY <1>1, <1>3 DEF WithinBudgets
<1>6. QED
  BY <1>4, <1>5 DEF Affords

LEMMA FreshAffords ==
  ASSUME NEW s \in {"choose", "ended"}, NEW k, NEW p \in BOOLEAN, p => k = "compact"
  PROVE  Affords([Fresh EXCEPT !.step = s, !.portable = p], k)
<1> DEFINE n == [Fresh EXCEPT !.step = s, !.portable = p]
<1>1. n.attempts = 0 /\ n.renewed = {} /\ n.portable = p /\ n.spent = [b \in Budget |-> 0]
  BY DEF Fresh
<1> HIDE DEF n
<1>2. QED
  BY <1>1, NothingSpent DEF n

LEMMA EndedAffords ==
  ASSUME NEW k
  PROVE  Affords([Fresh EXCEPT !.step = "ended"], k)
<1> DEFINE n == [Fresh EXCEPT !.step = "ended"]
<1>1. n.attempts = 0 /\ n.renewed = {} /\ ~n.portable /\ n.spent = [b \in Budget |-> 0]
  BY DEF Fresh
<1> HIDE DEF n
<1>2. QED
  BY <1>1, NothingSpent DEF n

(* A step that neither makes an attempt nor takes a retry.                 *)
LEMMA SameAccount ==
  ASSUME NEW l \in Locals, NEW n \in Locals, NEW k, Affords(l, k),
         n.attempts = l.attempts, n.spent = l.spent, n.renewed = l.renewed,
         n.portable = l.portable, n.step = "attempt" <=> l.step = "attempt"
  PROVE  Affords(n, k)
  BY DEF Affords, Paid, WithinBudgets

(* A failed attempt that takes a retry from one of the budgets.            *)
LEMMA RetryPays ==
  ASSUME NEW l \in Locals, NEW n \in Locals, NEW k, NEW b \in Budget, Affords(l, k),
         l.step = "attempt", n.attempts = l.attempts, n.renewed = l.renewed,
         n.portable = l.portable, n.spent = [l.spent EXCEPT ![b] = @ + 1],
         b = "ordinary" => l.spent.ordinary < RetryLimit,
         b = "adaptive" => l.spent.adaptive < AdaptiveLimit,
         b = "transient" => l.spent.transient < TransientBudget(k),
         b = "portable" => k = "compact" /\ (l.spent.portable < RetryLimit \/ l.spent.portable < 1)
  PROVE  Affords(n, k)
<1> DEFINE o == l.spent.ordinary
           a == l.spent.adaptive
           t == l.spent.transient
           q == l.spent.portable
<1>1. /\ n.spent.ordinary  = IF b = "ordinary" THEN o + 1 ELSE o
      /\ n.spent.adaptive  = IF b = "adaptive" THEN a + 1 ELSE a
      /\ n.spent.transient = IF b = "transient" THEN t + 1 ELSE t
      /\ n.spent.portable  = IF b = "portable" THEN q + 1 ELSE q
      /\ b \in {"ordinary", "adaptive", "transient", "portable"}
  BY LocalsCount DEF Budget
<1>2. /\ {o, a, t, q} \subseteq Nat /\ l.attempts \in Nat /\ Cardinality(l.renewed) \in Nat
      /\ RetryLimit \in Nat /\ AdaptiveLimit \in Nat /\ TransientBudget(k) \in Nat
  BY LocalsCount
<1>3. Taken(l.spent) = o + a + t + q
  BY DEF Taken
<1> HIDE DEF o, a, t, q
<1>4. Taken(n.spent) = Taken(l.spent) + 1 /\ Taken(l.spent) \in Nat
  BY <1>1, <1>2, <1>3 DEF Taken
<1>5. Paid(n)
  BY <1>2, <1>4 DEF Affords, Paid
<1>6. /\ o <= RetryLimit /\ a <= AdaptiveLimit /\ t <= TransientBudget(k)
      /\ q <= IF k = "compact" THEN 1 + RetryLimit ELSE 0
      /\ l.portable => k = "compact"
  BY DEF Affords, WithinBudgets, o, a, t, q
<1>7. /\ b = "ordinary" => o < RetryLimit
      /\ b = "adaptive" => a < AdaptiveLimit
      /\ b = "transient" => t < TransientBudget(k)
      /\ b = "portable" => k = "compact" /\ (q < RetryLimit \/ q < 1)
  BY DEF o, a, t, q
<1>8. WithinBudgets(n, k)
  BY <1>1, <1>2, <1>6, <1>7 DEF WithinBudgets
<1>9. QED
  BY <1>5, <1>8 DEF Affords

LEMMA OneHandlerAffords ==
  ASSUME BudgetInv, NEW r \in Call, NEW new, Affords(new, kind[r]),
         loop' = [loop EXCEPT ![r] = new], kind' = kind
  PROVE  \A q \in Call : Affords(loop'[q], kind'[q])
<1>1. \A q \in Call : loop'[q] = IF q = r THEN new ELSE loop[q]
  BY DEF BudgetInv, FailoverInv
<1>2. QED
  BY <1>1 DEF BudgetInv

LEMMA QuietAffords ==
  ASSUME BudgetInv, FailoverInv', NEW r \in Call,
         \/ ResponseOverdue(r) \/ Beat(r) \/ Output(r) \/ Renewed(r) \/ BackoffEnds(r)
         \/ NoEligible(r) \/ TimesOut(r) \/ ClientLeaves(r) \/ Succeeds(r)
  PROVE  \A q \in Call : Affords(loop'[q], kind'[q])
<1>1. loop[r] \in Locals /\ loop'[r] \in Locals /\ loop \in [Call -> Locals] /\ Affords(loop[r], kind[r])
  BY DEF BudgetInv, FailoverInv
<1>2. CASE End(r) /\ kind' = kind
  BY <1>2, EndedAffords, OneHandlerAffords DEF End
<1>3. ASSUME NEW new, loop' = [loop EXCEPT ![r] = new], kind' = kind,
             new.attempts = loop[r].attempts, new.spent = loop[r].spent,
             new.renewed = loop[r].renewed, new.portable = loop[r].portable,
             new.step = "attempt" <=> loop[r].step = "attempt"
      PROVE  \A q \in Call : Affords(loop'[q], kind'[q])
  <2>1. new = loop'[r]
    BY <1>1, <1>3
  <2>2. Affords(new, kind[r])
    BY <1>1, <1>3, <2>1, SameAccount
  <2>3. QED
    BY <1>3, <2>2, OneHandlerAffords
<1>4. CASE ResponseOverdue(r)
  <2> DEFINE new == [loop[r] EXCEPT !.late = TRUE]
  <2>1. loop' = [loop EXCEPT ![r] = new] /\ kind' = kind
    BY <1>4 DEF ResponseOverdue
  <2>2. /\ new.attempts = loop[r].attempts /\ new.spent = loop[r].spent
        /\ new.renewed = loop[r].renewed /\ new.portable = loop[r].portable
        /\ new.step = loop[r].step
    BY <1>1 DEF Locals
  <2> HIDE DEF new
  <2>3. QED
    BY <1>3, <2>1, <2>2
<1>5. CASE Beat(r) \/ Output(r)
  <2>1. PICK s : loop' = [loop EXCEPT ![r].sent = s] /\ kind' = kind
    BY <1>5 DEF Beat, Output
  <2> DEFINE new == [loop[r] EXCEPT !.sent = s]
  <2>2. loop' = [loop EXCEPT ![r] = new] /\ kind' = kind
    BY <2>1
  <2>3. /\ new.attempts = loop[r].attempts /\ new.spent = loop[r].spent
        /\ new.renewed = loop[r].renewed /\ new.portable = loop[r].portable
        /\ new.step = loop[r].step
    BY <1>1 DEF Locals
  <2> HIDE DEF new
  <2>4. QED
    BY <1>3, <2>2, <2>3
<1>6. CASE BackoffEnds(r)
  <2> DEFINE new == [loop[r] EXCEPT !.step = "choose"]
  <2>1. loop' = [loop EXCEPT ![r] = new] /\ kind' = kind /\ loop[r].step = "backoff"
    BY <1>6 DEF BackoffEnds, At
  <2>2. /\ new.attempts = loop[r].attempts /\ new.spent = loop[r].spent
        /\ new.renewed = loop[r].renewed /\ new.portable = loop[r].portable
        /\ new.step = "choose"
    BY <1>1 DEF Locals
  <2> HIDE DEF new
  <2>3. QED
    BY <1>3, <2>1, <2>2
<1>7. CASE Renewed(r) /\ ~End(r)
  <2> DEFINE new == [loop[r] EXCEPT !.step = "choose", !.permit = NoSource,
                                    !.pinned = loop[r].permit, !.failed = @ \ {loop[r].permit}]
  <2>1. loop' = [loop EXCEPT ![r] = new] /\ kind' = kind /\ loop[r].step = "renew"
    BY <1>7 DEF Renewed, At
  <2>2. /\ new.attempts = loop[r].attempts /\ new.spent = loop[r].spent
        /\ new.renewed = loop[r].renewed /\ new.portable = loop[r].portable
        /\ new.step = "choose"
    BY <1>1 DEF Locals
  <2> HIDE DEF new
  <2>3. QED
    BY <1>3, <2>1, <2>2
<1>8. QED
  BY <1>2, <1>4, <1>5, <1>6, <1>7 DEF NoEligible, TimesOut, ClientLeaves, Succeeds, Renewed

LEMMA SelectAffords ==
  ASSUME BudgetInv, NEW r \in Call, Select(r)
  PROVE  \A q \in Call : Affords(loop'[q], kind'[q])
<1> DEFINE l == loop[r]
           p == Fallback(r)
<1>1. l \in Locals /\ l.portable \in BOOLEAN /\ l.step = "choose" /\ Affords(l, kind[r]) /\ kind' = kind
  BY DEF BudgetInv, FailoverInv, Select, At, Locals
<1>2. p \in BOOLEAN /\ (l.portable => p) /\ (p => l.portable \/ kind[r] = "compact")
  BY DEF Fallback
<1>3. PICK a : loop' = [loop EXCEPT ![r].step = "attempt", ![r].permit = a, ![r].pinned = NoSource,
                                    ![r].attempts = @ + 1, ![r].portable = p]
  BY DEF Select
<1> DEFINE new == [l EXCEPT !.step = "attempt", !.permit = a, !.pinned = NoSource,
                            !.attempts = @ + 1, !.portable = p]
<1>4. loop' = [loop EXCEPT ![r] = new]
  BY <1>3
<1> HIDE DEF p
<1>5. /\ new.attempts = l.attempts + 1 /\ new.spent = l.spent /\ new.renewed = l.renewed
      /\ new.portable = p /\ new.step = "attempt"
  BY <1>1 DEF Locals
<1> HIDE DEF new, l
<1>6. /\ Taken(l.spent) \in Nat /\ Cardinality(l.renewed) \in Nat /\ l.attempts \in Nat
  BY <1>1, LocalsCount
<1>7. Paid(new)
  BY <1>1, <1>2, <1>5, <1>6 DEF Affords, Paid
<1>8. WithinBudgets(new, kind[r])
  BY <1>1, <1>2, <1>5 DEF Affords, WithinBudgets
<1>9. Affords(new, kind[r])
  BY <1>7, <1>8 DEF Affords
<1>10. QED
  BY <1>1, <1>4, <1>9, OneHandlerAffords

LEMMA RenewAffords ==
  ASSUME BudgetInv, NEW r \in Call, RenewRejected(r)
  PROVE  \A q \in Call : Affords(loop'[q], kind'[q])
<1> DEFINE l   == loop[r]
           a   == l.permit
           new == [l EXCEPT !.step = "renew", !.renewed = @ \cup {a}]
<1>1. /\ l \in Locals /\ l.step = "attempt" /\ Affords(l, kind[r]) /\ kind' = kind
      /\ a \notin l.renewed /\ loop' = [loop EXCEPT ![r] = new]
  BY DEF BudgetInv, FailoverInv, RenewRejected, Fails, At
<1> HIDE DEF a
<1>2. /\ new.attempts = l.attempts /\ new.spent = l.spent /\ new.renewed = l.renewed \cup {a}
      /\ new.portable = l.portable /\ new.step = "renew"
  BY <1>1 DEF Locals
<1> HIDE DEF new, l
<1>3. /\ Taken(l.spent) \in Nat /\ Cardinality(l.renewed) \in Nat /\ l.attempts \in Nat
      /\ IsFiniteSet(l.renewed)
  BY <1>1, LocalsCount
<1>4. Cardinality(new.renewed) = Cardinality(l.renewed) + 1
  BY <1>1, <1>2, <1>3, FS_AddElement
<1>5. Paid(new)
  BY <1>1, <1>2, <1>3, <1>4 DEF Affords, Paid
<1>6. WithinBudgets(new, kind[r])
  BY <1>1, <1>2 DEF Affords, WithinBudgets
<1>7. Affords(new, kind[r])
  BY <1>5, <1>6 DEF Affords
<1>8. QED
  BY <1>1, <1>7, OneHandlerAffords

LEMMA RetryAdaptiveAffords ==
  ASSUME BudgetInv, FailoverInv', NEW r \in Call, NEW f \in Failure, RetryAdaptive(r, f)
  PROVE  \A q \in Call : Affords(loop'[q], kind'[q])
<1> DEFINE l    == loop[r]
           a    == l.permit
           next == [l EXCEPT !.permit = NoSource, !.spent["adaptive"] = @ + 1]
           new  == IF Alternative(r) THEN [next EXCEPT !.failed = @ \cup {a}, !.step = "choose"]
                                     ELSE [next EXCEPT !.pinned = a, !.step = "backoff"]
<1>1. /\ l \in Locals /\ l.step = "attempt" /\ Affords(l, kind[r]) /\ kind' = kind
      /\ l.spent.adaptive < AdaptiveLimit /\ loop' = [loop EXCEPT ![r] = new]
      /\ loop \in [Call -> Locals] /\ loop'[r] \in Locals
  BY DEF BudgetInv, FailoverInv, RetryAdaptive, Adaptable, Fails, At
<1> HIDE DEF a
<1>2. /\ next.attempts = l.attempts /\ next.spent = [l.spent EXCEPT !["adaptive"] = @ + 1]
      /\ next.renewed = l.renewed /\ next.portable = l.portable /\ DOMAIN next = DOMAIN l
  BY <1>1 DEF Locals
<1>3. {"attempts", "spent", "renewed", "portable"} \subseteq DOMAIN l
  BY <1>1 DEF Locals
<1> HIDE DEF next
<1>4. /\ new.attempts = l.attempts /\ new.spent = [l.spent EXCEPT !["adaptive"] = @ + 1]
      /\ new.renewed = l.renewed /\ new.portable = l.portable
  BY <1>2, <1>3
<1> HIDE DEF new, l
<1>5. new \in Locals
  BY <1>1
<1>6. Affords(new, kind[r])
  BY <1>1, <1>4, <1>5, RetryPays DEF Budget
<1>7. QED
  BY <1>1, <1>6, OneHandlerAffords

LEMMA RetryTransientAffords ==
  ASSUME BudgetInv, FailoverInv', NEW r \in Call, NEW f \in Failure, RetryTransient(r, f)
  PROVE  \A q \in Call : Affords(loop'[q], kind'[q])
<1> DEFINE l    == loop[r]
           a    == l.permit
           run  == Streak(r, f)
           next == [l EXCEPT !.permit = NoSource, !.spent["transient"] = @ + 1,
                             !.streak = run, !.step = "backoff"]
           new  == IF Alternative(r) THEN [next EXCEPT !.failed = @ \cup {a}]
                                     ELSE [next EXCEPT !.failed = @ \ {a}, !.pinned = a]
<1>1. /\ l \in Locals /\ l.step = "attempt" /\ Affords(l, kind[r]) /\ kind' = kind
      /\ l.spent.transient < TransientBudget(kind[r]) /\ loop' = [loop EXCEPT ![r] = new]
      /\ loop \in [Call -> Locals] /\ loop'[r] \in Locals
  BY DEF BudgetInv, FailoverInv, RetryTransient, Repeatable, Fails, At, TransientLimitOf, TransientBudget
<1> HIDE DEF a, run
<1>2. /\ next.attempts = l.attempts /\ next.spent = [l.spent EXCEPT !["transient"] = @ + 1]
      /\ next.renewed = l.renewed /\ next.portable = l.portable /\ DOMAIN next = DOMAIN l
  BY <1>1 DEF Locals
<1>3. {"attempts", "spent", "renewed", "portable"} \subseteq DOMAIN l
  BY <1>1 DEF Locals
<1> HIDE DEF next
<1>4. /\ new.attempts = l.attempts /\ new.spent = [l.spent EXCEPT !["transient"] = @ + 1]
      /\ new.renewed = l.renewed /\ new.portable = l.portable
  BY <1>2, <1>3
<1> HIDE DEF new, l
<1>5. new \in Locals
  BY <1>1
<1>6. Affords(new, kind[r])
  BY <1>1, <1>4, <1>5, RetryPays DEF Budget
<1>7. QED
  BY <1>1, <1>6, OneHandlerAffords

(* What the catch of the loop charges: the change to the portable sources, *)
(* which happens once, a move among them, or an ordinary retry.            *)
LEMMA FailOverAffords ==
  ASSUME BudgetInv, FailoverInv', NEW r \in Call, NEW f \in Failure,
         NEW quota \in BOOLEAN, NEW room \in BOOLEAN, NEW answered \in BOOLEAN,
         FailOver(r, f, quota, room, answered)
  PROVE  \A q \in Call : Affords(loop'[q], kind'[q])
<1> DEFINE l      == loop[r]
           a      == l.permit
           other  == Alternative(r)
           enters == canEnterPortable(r, f, quota, answered) /\ ~(canRetry(r, f, quota) /\ other)
           moves  == canMoveToPeer(r)
           waits  == ~other /\ f \in {"edge", "upstream", "admission"}
           avoids == \/ Penalised(r, f, quota) \/ moves
                     \/ other /\ f = "model"
                     \/ other /\ requestScoped(r, f) /\ ~Explicit(r, f)
           unable == Proven(r, f) /\ onlyCompaction(r, f, quota) /\ (other \/ PortablePeer(r))
           run    == Streak(r, f)
           away   == IF avoids THEN l.failed \cup {a} ELSE l.failed
           not    == IF unable THEN l.incapable \cup {a} ELSE l.incapable
           next   == [l EXCEPT !.step = "choose", !.permit = NoSource, !.streak = run,
                               !.failed = away, !.incapable = not]
           pause  == IF waits THEN "backoff" ELSE next.step
           new    == AfterFailure(r, f, quota, room, answered)
<1>1. /\ l \in Locals /\ l.step = "attempt" /\ Affords(l, kind[r]) /\ kind' = kind
      /\ loop' = [loop EXCEPT ![r] = new] /\ loop \in [Call -> Locals] /\ loop'[r] \in Locals
  BY DEF BudgetInv, FailoverInv, FailOver, Fails, At
<1>2. new =
        IF enters THEN [next EXCEPT !.portable = TRUE]
        ELSE IF moves THEN [next EXCEPT !.spent["portable"] = @ + 1]
        ELSE IF ~canRetry(r, f, quota) \/ (waits /\ ~room) THEN [Fresh EXCEPT !.step = "ended"]
        ELSE [next EXCEPT !.spent["ordinary"] = @ + 1, !.step = pause]
  BY Zenon DEF AfterFailure
<1>3. /\ enters => kind[r] = "compact" /\ ~l.portable
      /\ moves => kind[r] = "compact" /\ (l.spent.portable < RetryLimit \/ l.spent.portable < 1)
      /\ canRetry(r, f, quota) => l.spent.ordinary < RetryLimit
  BY DEF canEnterPortable, canMoveToPeer, canRetry
<1> HIDE DEF a, other, enters, moves, waits, avoids, unable, run, away, not
<1>4. /\ next.attempts = l.attempts /\ next.spent = l.spent /\ next.renewed = l.renewed
      /\ next.portable = l.portable /\ next.step = "choose" /\ DOMAIN next = DOMAIN l
  BY <1>1 DEF Locals
<1>5. {"attempts", "spent", "renewed", "portable", "step"} \subseteq DOMAIN l
  BY <1>1 DEF Locals
<1>6. pause \in {"choose", "backoff"}
  BY <1>4
<1>7. new \in Locals
  BY <1>1
<1> HIDE DEF next, pause, new
<1>8. CASE enters
  <2>1. /\ new.attempts = l.attempts /\ new.spent = l.spent /\ new.renewed = l.renewed
        /\ new.portable = TRUE /\ new.step = "choose"
    BY <1>2, <1>4, <1>5, <1>8
  <2> HIDE DEF l
  <2>2. Taken(l.spent) \in Nat /\ Cardinality(l.renewed) \in Nat /\ l.attempts \in Nat
    BY <1>1, LocalsCount
  <2>3. Paid(new)
    BY <1>1, <1>3, <1>8, <2>1, <2>2 DEF Affords, Paid
  <2>4. WithinBudgets(new, kind[r])
    BY <1>1, <1>3, <1>8, <2>1 DEF Affords, WithinBudgets
  <2>5. Affords(new, kind[r])
    BY <2>3, <2>4 DEF Affords
  <2>6. QED
    BY <1>1, <2>5, OneHandlerAffords
<1>9. ASSUME NEW b \in Budget, NEW s \in {"choose", "backoff"},
             new = [next EXCEPT !.spent[b] = @ + 1, !.step = s],
             b = "ordinary" => l.spent.ordinary < RetryLimit,
             b = "adaptive" => l.spent.adaptive < AdaptiveLimit,
             b = "transient" => l.spent.transient < TransientBudget(kind[r]),
             b = "portable" => kind[r] = "compact" /\ (l.spent.portable < RetryLimit \/ l.spent.portable < 1)
      PROVE  \A q \in Call : Affords(loop'[q], kind'[q])
  <2>1. /\ new.attempts = l.attempts /\ new.spent = [l.spent EXCEPT ![b] = @ + 1]
        /\ new.renewed = l.renewed /\ new.portable = l.portable
    BY <1>4, <1>5, <1>9
  <2> HIDE DEF l
  <2>2. Affords(new, kind[r])
    BY <1>1, <1>7, <1>9, <2>1, RetryPays
  <2>3. QED
    BY <1>1, <2>2, OneHandlerAffords
<1>10. CASE ~enters /\ moves
  <2>1. next.step = "choose" /\ new = [next EXCEPT !.spent["portable"] = @ + 1]
    BY <1>2, <1>4, <1>10
  <2>2. new = [next EXCEPT !.spent["portable"] = @ + 1, !.step = "choose"]
    BY <1>4, <1>5, <2>1
  <2>3. QED
    BY <1>3, <1>9, <1>10, <2>2 DEF Budget
<1>11. CASE ~enters /\ ~moves /\ canRetry(r, f, quota) /\ new # [Fresh EXCEPT !.step = "ended"]
  <2>1. new = [next EXCEPT !.spent["ordinary"] = @ + 1, !.step = pause]
    BY <1>2, <1>11
  <2>2. QED
    BY <1>3, <1>6, <1>9, <1>11, <2>1 DEF Budget
<1>12. CASE new = [Fresh EXCEPT !.step = "ended"]
  BY <1>1, <1>12, EndedAffords, OneHandlerAffords
<1>13. QED
  BY <1>2, <1>8, <1>10, <1>11, <1>12

LEMMA BudgetStep == BudgetInv /\ [FailoverNext]_failoverVars => BudgetInv'
<1> SUFFICES ASSUME BudgetInv, [FailoverNext]_failoverVars PROVE BudgetInv'
  OBVIOUS
<1>1. FailoverInv'
  BY FailoverStep DEF BudgetInv
<1>2. \A q \in Call : Affords(loop'[q], kind'[q])
  <2>1. CASE UNCHANGED <<kind, loop>>
    BY <2>1 DEF BudgetInv
  <2>2. CASE \E r \in Call : Choose(r) \/ Concludes(r) \/ Beat(r) \/ Output(r)
                             \/ QuotaHeaders(r) \/ ResponseOverdue(r) \/ ClientLeaves(r)
    <3>1. PICK r \in Call : Choose(r) \/ Concludes(r) \/ Beat(r) \/ Output(r)
                             \/ QuotaHeaders(r) \/ ResponseOverdue(r) \/ ClientLeaves(r)
      BY <2>2
    <3>2. CASE \E f \in Failure, quota, room, answered \in BOOLEAN :
                 FailOver(r, f, quota, room, answered)
      BY <1>1, <3>2, FailOverAffords
    <3>3. CASE \E f \in Failure : RetryAdaptive(r, f) \/ RetryTransient(r, f)
      BY <1>1, <3>3, RetryAdaptiveAffords, RetryTransientAffords
    <3>4. CASE Select(r) \/ RenewRejected(r)
      BY <3>4, SelectAffords, RenewAffords
    <3>5. CASE QuotaHeaders(r)
      BY <3>5 DEF QuotaHeaders, BudgetInv
    <3>6. QED
      BY <1>1, <3>1, <3>2, <3>3, <3>4, <3>5, QuietAffords DEF Choose, Concludes
  <2>3. QED
    BY <2>1, <2>2 DEF FailoverNext, CooldownEnds, failoverVars
<1>3. QED
  BY <1>1, <1>2 DEF BudgetInv, Affords, Paid, WithinBudgets

LEMMA BudgetInit == FailoverInit => BudgetInv
<1> SUFFICES ASSUME FailoverInit PROVE BudgetInv
  OBVIOUS
<1>1. ASSUME NEW r \in Call PROVE Affords(loop[r], kind[r])
  <2> DEFINE s == IF kind[r] = "none" THEN "ended" ELSE "choose"
             p == kind[r] = "compact" /\ Native = {}
  <2>1. loop[r] = [Fresh EXCEPT !.step = s, !.portable = p]
    <3>1. Fresh.step = "choose"
      BY DEF Fresh
    <3>2. QED
      BY <3>1, Zenon DEF FailoverInit
  <2>2. s \in {"choose", "ended"} /\ p \in BOOLEAN /\ (p => kind[r] = "compact")
    OBVIOUS
  <2> HIDE DEF s, p
  <2>3. Affords([Fresh EXCEPT !.step = s, !.portable = p], kind[r])
    BY <2>2, FreshAffords
  <2>4. QED
    BY <2>1, <2>3, Zenon
<1>2. QED
  BY <1>1, FailoverInitInv DEF BudgetInv

(* The retry budgets that handle keeps, of relay edges, of request-scoped  *)
(* failures, of the pool and of a compaction, add up and never             *)
(* renew each other, in whatever order failures alternate.                 *)
THEOREM BudgetsAddUp == FailoverSpec => []AttemptsBounded
<1>1. ASSUME BudgetInv, NEW r \in Call
      PROVE  loop[r].attempts <= 1 + RetryLimit + AdaptiveLimit + TransientLimitOf(r)
                                   + (IF kind[r] = "compact" THEN 2 + RetryLimit ELSE 0)
                                   + Cardinality(loop[r].renewed)
  <2> DEFINE l == loop[r]
  <2>1. l \in Locals /\ Paid(l) /\ WithinBudgets(l, kind[r]) /\ l.portable \in BOOLEAN
    BY <1>1 DEF BudgetInv, FailoverInv, Affords, Locals
  <2>2. TransientLimitOf(r) = TransientBudget(kind[r])
    BY DEF TransientLimitOf, TransientBudget
  <2> HIDE DEF l
  <2>3. /\ l.attempts \in Nat /\ Cardinality(l.renewed) \in Nat
        /\ {l.spent.ordinary, l.spent.adaptive, l.spent.transient, l.spent.portable} \subseteq Nat
        /\ {RetryLimit, AdaptiveLimit, TransientBudget(kind[r])} \subseteq Nat
    BY <2>1, LocalsCount
  <2>4. l.attempts <= 1 + RetryLimit + AdaptiveLimit + TransientBudget(kind[r])
                        + (IF kind[r] = "compact" THEN 2 + RetryLimit ELSE 0)
                        + Cardinality(l.renewed)
    BY <2>1, <2>3 DEF Paid, WithinBudgets, Taken
  <2>5. QED
    BY <2>2, <2>4 DEF l
<1>2. BudgetInv => AttemptsBounded
  BY <1>1 DEF AttemptsBounded
<1>3. QED
  BY <1>2, BudgetInit, BudgetStep, PTL DEF FailoverSpec
=============================================================================
