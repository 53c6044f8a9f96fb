--------------------------- MODULE RequestFailover ---------------------------
(***************************************************************************)
(* How the gateway answers a request (the loop of GatewayServer.handle,    *)
(* src/main/gateway/server.ts): it takes an account, makes one attempt     *)
(* upstream, and after a failure retries the same account, moves to        *)
(* another one or gives up.  Several requests share the accounts.  The     *)
(* order in which the scheduler serves them is SchedulerCapacity's.        *)
(***************************************************************************)
EXTENDS Naturals, FiniteSets

CONSTANTS
  Source,         \* the accounts of the pool, with one permit each
  Call,           \* the requests
  NoSource,
  Mixes,          \* the kinds of request, [Call -> CallKind], to start from;
                  \* "none" stands for no request
  Relay,          \* sources that are relays with the Responses protocol
  Native,         \* sources whose own compaction is used
  Portable,       \* sources that can summarise a history by an ordinary request
  Metered,        \* sources whose responses have the headers of a quota
  RetryLimit,     \* maxRetries of the pool
  AdaptiveLimit,  \* MAX_RESPONSES_RELAY_ADAPTIVE_RETRIES, 2 in the code
  TransientLimit, \* MAX_REQUEST_TRANSIENT_RETRIES, 6
  SameFailures    \* REQUEST_TRANSIENT_EXPLICIT_FAILURE_COUNT, 3

CallKind == {"none", "plain", "toolResult", "compact", "webWm"}

(* What an attempt may fail with: overload and stream errors of ChatGPT, a *)
(* broken relay edge, a server error without and with Retry-After, 429, a  *)
(* refused credential, a model the account may not use, a bad request.     *)
Transient == {"overload", "streamError"}
Failure == Transient \cup {"edge", "upstream", "admission", "rateLimit", "dead", "model", "rejected"}

ASSUME FailoverConstants ==
  /\ IsFiniteSet(Source) /\ NoSource \notin Source /\ IsFiniteSet(Call)
  /\ Mixes \subseteq [Call -> CallKind]
  /\ Relay \subseteq Source /\ Native \subseteq Source
  /\ Portable \subseteq Source /\ Metered \subseteq Source
  /\ {RetryLimit, AdaptiveLimit, TransientLimit} \subseteq Nat /\ SameFailures \in Nat \ {0}

VARIABLES
  kind,      \* kind[r], fixed
  loop,      \* loop[r]: the local variables of the handler of r
  cooled,    \* sources in a cooldown
  disabled,  \* sources taken out
  barred     \* sources that may not use the model for a while

failoverVars == <<kind, loop, cooled, disabled, barred>>
sourceHealth == <<cooled, disabled, barred>>

Budget == {"ordinary", "adaptive", "transient", "portable"}

Locals == [
  step      : {"choose", "attempt", "renew", "backoff", "ended"},
  permit    : Source \cup {NoSource},   \* the source whose permit is held
  attempts  : Nat,                      \* history: attempts made
  pinned    : Source \cup {NoSource},   \* preferredTransientRetryAccountId
  failed    : SUBSET Source,            \* failedAccountIds
  incapable : SUBSET Source,            \* nativeCompactCapabilityFailedAccountIds
  portable  : BOOLEAN,                  \* codexCompactV2Fallback
  renewed   : SUBSET Source,            \* webWmRejectedAccessRecoveryUsed
  spent     : [Budget -> Nat],          \* retries taken from each budget
  streak    : [failure : Failure \cup {"none"}, length : Nat],
  sent      : {"nothing", "keepalive", "bound", "output"},
  late      : BOOLEAN]                  \* the response start is overdue

FailoverTypeOK ==
  /\ kind \in Mixes /\ loop \in [Call -> Locals]
  /\ cooled \subseteq Source /\ disabled \subseteq Source /\ barred \subseteq Source

Fresh == [
  step |-> "choose", permit |-> NoSource, attempts |-> 0,
  pinned |-> NoSource, failed |-> {}, incapable |-> {}, portable |-> FALSE, renewed |-> {},
  spent |-> [b \in Budget |-> 0], streak |-> [failure |-> "none", length |-> 0],
  sent |-> "nothing", late |-> FALSE]

FailoverInit ==
  /\ kind \in Mixes
  /\ loop = [r \in Call |->
       [Fresh EXCEPT !.step = IF kind[r] = "none" THEN "ended" ELSE @,
                     !.portable = kind[r] = "compact" /\ Native = {}]]
  /\ cooled = {} /\ disabled = {} /\ barred = {}

(* The variables of a handler that has returned are gone.                  *)
End(r) == loop' = [loop EXCEPT ![r] = [Fresh EXCEPT !.step = "ended"]]

At(r, step) == loop[r].step = step
-----------------------------------------------------------------------------
(* Which sources the request may take.                                     *)
Scheduling(r, fallback) ==
  IF kind[r] # "compact" THEN Source ELSE IF fallback THEN Portable ELSE Native

Excluded(r, fallback) ==
  loop[r].failed \cup (IF kind[r] = "compact" /\ ~fallback THEN loop[r].incapable ELSE {})

Choices(r, fallback) ==
  (IF loop[r].pinned \in Scheduling(r, fallback) THEN {loop[r].pinned}
                                                 ELSE Scheduling(r, fallback))
    \ Excluded(r, fallback)

Usable == Source \ (cooled \cup disabled \cup barred)

Free(a) == \A r \in Call : loop[r].permit # a

UsableWithItself(r, sources) == (sources \ loop[r].failed) \cap Usable # {}

(* hasUsableAlternative                                                    *)
UsableBesides(r, sources) == (sources \ ({loop[r].permit} \cup loop[r].failed)) \cap Usable # {}

Alternative(r) ==
  LET fallback == loop[r].portable
  IN UsableBesides(r, Scheduling(r, fallback) \ Excluded(r, fallback))

PortablePeer(r) == kind[r] = "compact" /\ ~loop[r].portable /\ UsableBesides(r, Portable)

OutputOnly(r) == loop[r].sent = "output"

headersSent(r) == loop[r].sent # "nothing"
hasClientOutput(r) == loop[r].sent \in {"bound", "output"}
-----------------------------------------------------------------------------
(* selectAndAcquireWhenAvailable; a compaction that finds no source of its *)
(* own kind turns to the portable ones.                                    *)
Fallback(r) ==
  \/ loop[r].portable
  \/ kind[r] = "compact" /\ Portable # {} /\ Choices(r, FALSE) \cap Usable = {}

Select(r) ==
  /\ At(r, "choose") /\ ~loop[r].late
  /\ \E a \in Choices(r, Fallback(r)) \cap Usable :
       /\ Free(a)
       /\ loop' = [loop EXCEPT ![r].step = "attempt", ![r].permit = a, ![r].pinned = NoSource,
                               ![r].attempts = @ + 1, ![r].portable = Fallback(r)]
  /\ UNCHANGED <<kind, sourceHealth>>

(* Without a source the error of the last attempt is answered, if any.     *)
NoEligible(r) ==
  /\ At(r, "choose") /\ ~loop[r].late
  /\ Choices(r, Fallback(r)) \cap Usable = {}
  /\ End(r)
  /\ UNCHANGED <<kind, sourceHealth>>

TimesOut(r) ==
  /\ At(r, "choose") /\ loop[r].late
  /\ End(r)
  /\ UNCHANGED <<kind, sourceHealth>>

ResponseOverdue(r) ==
  /\ ~At(r, "ended") /\ ~loop[r].late
  /\ loop' = [loop EXCEPT ![r].late = TRUE]
  /\ UNCHANGED <<kind, sourceHealth>>

(* The client disconnects, wherever the loop is.                           *)
ClientLeaves(r) ==
  /\ ~At(r, "ended")
  /\ End(r)
  /\ UNCHANGED <<kind, sourceHealth>>

(* The keepalive of a compaction sends the headers of the attempt, maybe   *)
(* those that tie the client to its source.                                *)
Beat(r) ==
  /\ At(r, "attempt") /\ kind[r] = "compact" /\ ~loop[r].portable
  /\ ~headersSent(r)
  /\ \E s \in {"keepalive", "bound"} : loop' = [loop EXCEPT ![r].sent = s]
  /\ UNCHANGED <<kind, sourceHealth>>

Output(r) ==
  /\ At(r, "attempt") /\ loop[r].sent # "output"
  /\ loop' = [loop EXCEPT ![r].sent = "output"]
  /\ UNCHANGED <<kind, sourceHealth>>

(* applyExhaustedQuotaHeaders: upstream headers that report an exhausted   *)
(* quota cool the source at once, the last one too, whatever becomes of    *)
(* the attempt, which goes on.  (Those of a 429 of the web transport do    *)
(* not; that attempt fails with "rateLimit".)                              *)
QuotaHeaders(r) ==
  /\ At(r, "attempt") /\ loop[r].sent # "output" /\ loop[r].permit \in Metered
  /\ cooled' = cooled \cup {loop[r].permit}
  /\ UNCHANGED <<kind, loop, disabled, barred>>

Succeeds(r) ==
  /\ At(r, "attempt") /\ loop[r].sent = "output"
  /\ End(r)
  /\ UNCHANGED <<kind, sourceHealth>>
-----------------------------------------------------------------------------
(* What the catch of the loop makes of a failure.  With quota, the error   *)
(* carries the exhausted quota of the headers: it need not, and it may     *)
(* when the cooldown that they began is over.                              *)
Fails(r, f) ==
  /\ At(r, "attempt")
  /\ IF loop[r].permit \in Relay THEN f \notin Transient ELSE f # "edge"

requestScoped(r, f) == f \in Transient \/ (kind[r] = "webWm" /\ f = "rateLimit")
disables(r, f) == f = "dead" /\ kind[r] # "webWm"
hard(r, f, quota) == f = "rateLimit" \/ disables(r, f) \/ quota

Streak(r, f) ==
  LET old == loop[r].streak
  IN IF ~requestScoped(r, f) THEN old
     ELSE [failure |-> f, length |-> IF old.failure = f THEN old.length + 1 ELSE 1]

Explicit(r, f) == Streak(r, f).length >= SameFailures
TransientLimitOf(r) == IF kind[r] = "webWm" THEN SameFailures - 1 ELSE TransientLimit

(* A session that the web transport finds rejected is renewed once for     *)
(* each source, with the permit still held, and tried again.               *)
RenewRejected(r) ==
  /\ Fails(r, "dead") /\ kind[r] = "webWm"
  /\ ~headersSent(r) /\ loop[r].permit \notin loop[r].renewed
  /\ loop' = [loop EXCEPT ![r].step = "renew", ![r].renewed = @ \cup {loop[r].permit}]
  /\ UNCHANGED <<kind, sourceHealth>>

RenewedHolding(r) ==
  /\ At(r, "renew")
  /\ \/ loop' = [loop EXCEPT ![r].step = "choose", ![r].pinned = loop[r].permit]
     \/ End(r)
  /\ UNCHANGED <<kind, sourceHealth>>

Renewed(r) ==
  /\ At(r, "renew")
  /\ \/ loop' = [loop EXCEPT ![r].step = "choose", ![r].permit = NoSource,
                             ![r].pinned = loop[r].permit, ![r].failed = @ \ {loop[r].permit}]
     \/ End(r)
  /\ UNCHANGED <<kind, sourceHealth>>

Adaptable(r, f, room) ==
  /\ f = "edge" /\ ~headersSent(r) /\ loop[r].spent.adaptive < AdaptiveLimit
  /\ IF Alternative(r) THEN ~loop[r].late ELSE room

RetryAdaptiveFreely(r, f) ==
  /\ Fails(r, f) /\ Adaptable(r, f, ~loop[r].late)
  /\ loop' = [loop EXCEPT ![r].permit = NoSource, ![r].pinned = loop[r].permit,
                          ![r].step = "backoff"]
  /\ UNCHANGED <<kind, sourceHealth>>

RetryAdaptive(r, f) ==
  /\ Fails(r, f) /\ Adaptable(r, f, ~loop[r].late)
  /\ LET a == loop[r].permit
         next == [loop[r] EXCEPT !.permit = NoSource, !.spent["adaptive"] = @ + 1]
     IN loop' = [loop EXCEPT ![r] =
          IF Alternative(r) THEN [next EXCEPT !.failed = @ \cup {a}, !.step = "choose"]
                            ELSE [next EXCEPT !.pinned = a, !.step = "backoff"]]
  /\ UNCHANGED <<kind, sourceHealth>>

Repeatable(r, f, room) ==
  /\ requestScoped(r, f) /\ ~Explicit(r, f)
  /\ loop[r].spent.transient < TransientLimitOf(r) /\ ~headersSent(r) /\ room

RetryTransient(r, f) ==
  /\ Fails(r, f) /\ Repeatable(r, f, ~loop[r].late)
  /\ LET a == loop[r].permit
         next == [loop[r] EXCEPT !.permit = NoSource, !.spent["transient"] = @ + 1,
                                 !.streak = Streak(r, f), !.step = "backoff"]
     IN loop' = [loop EXCEPT ![r] =
          IF Alternative(r) THEN [next EXCEPT !.failed = @ \cup {a}]
                            ELSE [next EXCEPT !.failed = @ \ {a}, !.pinned = a]]
  /\ UNCHANGED <<kind, sourceHealth>>

(* provenAccountFailure: what counts against the source and not against    *)
(* the request.                                                            *)
Proven(r, f) ==
  /\ f \notin {"rejected", "model"}
  /\ requestScoped(r, f) =>
       /\ f = "rateLimit"
       /\ loop[r].spent.transient >= TransientLimitOf(r) \/ Explicit(r, f)

onlyCompaction(r, f, quota) ==
  kind[r] = "compact" /\ ~loop[r].portable /\ ~hard(r, f, quota)

(* The failure spares the last usable source, unless its credential is     *)
(* refused.                                                                *)
Penalised(r, f, quota) ==
  /\ Proven(r, f) /\ ~onlyCompaction(r, f, quota)
  /\ disables(r, f) \/ Alternative(r) \/ PortablePeer(r)

Penalise(r, f, quota) ==
  LET a == loop[r].permit
  IN /\ cooled' = IF Penalised(r, f, quota) /\ ~disables(r, f) THEN cooled \cup {a} ELSE cooled
     /\ disabled' = IF Penalised(r, f, quota) /\ disables(r, f) THEN disabled \cup {a} ELSE disabled
     /\ barred' = IF f = "model" THEN barred \cup {a} ELSE barred

canRetry(r, f, quota) ==
  /\ loop[r].spent.ordinary < RetryLimit /\ ~hasClientOutput(r) /\ ~loop[r].late
  /\ f # "rejected" /\ ~requestScoped(r, f) /\ kind[r] # "toolResult"
  /\ Alternative(r) \/ (f # "model" /\ ~hard(r, f, quota) /\ f # "admission")

(* room: the budget leaves time for a pause; answered: the upstream had    *)
(* sent its headers.                                                       *)
canEnterPortable(r, f, quota, answered) ==
  /\ kind[r] = "compact" /\ ~loop[r].portable /\ f # "model"
  /\ ~hasClientOutput(r) /\ ~loop[r].late
  /\ PortablePeer(r) \/ (loop[r].permit \in Portable /\ answered /\ ~hard(r, f, quota))

canMoveToPeer(r) ==
  /\ kind[r] = "compact" /\ loop[r].portable
  /\ ~hasClientOutput(r) /\ ~loop[r].late
  /\ Alternative(r)
  /\ loop[r].spent.portable < RetryLimit \/ loop[r].spent.portable < 1

AfterFailure(r, f, quota, room, answered) ==
  LET a      == loop[r].permit
      other  == Alternative(r)
      enters == canEnterPortable(r, f, quota, answered) /\ ~(canRetry(r, f, quota) /\ other)
      moves  == canMoveToPeer(r)
      waits  == ~other /\ f \in {"edge", "upstream", "admission"}
      avoids == \/ Penalised(r, f, quota) \/ moves
                \/ other /\ f = "model"
                \/ other /\ requestScoped(r, f) /\ ~Explicit(r, f)
      unable == Proven(r, f) /\ onlyCompaction(r, f, quota) /\ (other \/ PortablePeer(r))
      next   == [loop[r] EXCEPT !.step = "choose", !.permit = NoSource,
                                !.streak = Streak(r, f),
                                !.failed = IF avoids THEN @ \cup {a} ELSE @,
                                !.incapable = IF unable THEN @ \cup {a} ELSE @]
  IN IF enters THEN [next EXCEPT !.portable = TRUE]
     ELSE IF moves THEN [next EXCEPT !.spent["portable"] = @ + 1]
     ELSE IF ~canRetry(r, f, quota) \/ (waits /\ ~room) THEN [Fresh EXCEPT !.step = "ended"]
     ELSE [next EXCEPT !.spent["ordinary"] = @ + 1, !.step = IF waits THEN "backoff" ELSE @]

FailOver(r, f, quota, room, answered) ==
  /\ Fails(r, f)
  /\ room => ~loop[r].late
  /\ quota => loop[r].permit \in Metered
  /\ quota \/ loop[r].permit \in cooled => answered
  /\ ~Adaptable(r, f, room) /\ ~Repeatable(r, f, room)
  /\ Penalise(r, f, quota)
  /\ loop' = [loop EXCEPT ![r] = AfterFailure(r, f, quota, room, answered)]
  /\ UNCHANGED kind

BackoffEnds(r) ==
  /\ At(r, "backoff")
  /\ loop' = [loop EXCEPT ![r].step = "choose"]
  /\ UNCHANGED <<kind, sourceHealth>>

(* A cooldown ends, of the source or of its model.                         *)
CooldownEnds(a) ==
  /\ \/ a \in cooled /\ cooled' = cooled \ {a} /\ UNCHANGED barred
     \/ a \in barred /\ barred' = barred \ {a} /\ UNCHANGED cooled
  /\ UNCHANGED <<kind, loop, disabled>>
-----------------------------------------------------------------------------
Choose(r) == Select(r) \/ NoEligible(r) \/ TimesOut(r)

Concludes(r) ==
  \/ Succeeds(r) \/ RenewRejected(r) \/ Renewed(r) \/ BackoffEnds(r)
  \/ \E f \in Failure :
       \/ RetryAdaptive(r, f) \/ RetryTransient(r, f)
       \/ \E quota, room, answered \in BOOLEAN : FailOver(r, f, quota, room, answered)

FailoverNext ==
  \/ \E r \in Call : \/ Choose(r) \/ Concludes(r) \/ Beat(r) \/ Output(r) \/ QuotaHeaders(r)
                     \/ ResponseOverdue(r) \/ ClientLeaves(r)
  \/ \E a \in Source : CooldownEnds(a)

FailoverSpec == FailoverInit /\ [][FailoverNext]_failoverVars

(* Attempts, renewals and pauses end, as weak fairness of Concludes would  *)
(* have it; a permit that is free again and again is taken in the end (the *)
(* capacity queue is first come, first served).                            *)
UnderWay(r) == loop[r].step \in {"attempt", "renew", "backoff"}

FairFailoverSpec ==
  FailoverSpec /\ \A r \in Call : SF_failoverVars(Choose(r)) /\ []<>~UnderWay(r)
-----------------------------------------------------------------------------
(* A request holds a permit only during an attempt: never while it backs   *)
(* off or waits for another source, so that requests cannot wait for each  *)
(* other's permits in a circle.                                            *)
PermitOnlyInAttempt ==
  \A r \in Call : loop[r].permit # NoSource <=> loop[r].step \in {"attempt", "renew"}

(* The budgets of the different retries add up and never renew each other, *)
(* whatever failures alternate.                                            *)
AttemptsBounded ==
  \A r \in Call :
    loop[r].attempts <= 1 + RetryLimit + AdaptiveLimit + TransientLimitOf(r)
                          + (IF kind[r] = "compact" THEN 2 + RetryLimit ELSE 0)
                          + Cardinality(loop[r].renewed)

(* Once output, or a header that ties the client to a source, has been     *)
(* sent, no other attempt is made for the request.                         *)
NothingAfterOutput ==
  [][\A r \in Call : loop[r].sent \in {"bound", "output"} =>
                         loop'[r].attempts <= loop[r].attempts]_failoverVars

(* Even when several requests fail at once, the last source that requests  *)
(* can use is cooled only by the headers of an attempt that is still under *)
(* way, its own word that its quota is exhausted: a failure, which gives   *)
(* the permit up, cools a source only beside another usable one.           *)
LastSourceSpared ==
  [][\A a \in cooled' \ cooled :
       \/ Source \ (cooled' \cup disabled' \cup barred') # {}
       \/ \E r \in Call : a \in Metered /\ loop'[r].permit = a]_failoverVars

(* Every request ends, with permits for one request only and without the   *)
(* help of its deadline.                                                   *)
RequestEnds == <>(\A r \in Call : At(r, "ended"))

(* The continuation of a tool call is not moved: no attempt is made after  *)
(* a source was given up.                                                  *)
ToolTurnStays ==
  \A r \in Call : kind[r] = "toolResult" /\ At(r, "attempt") => loop[r].failed = {}
=============================================================================
