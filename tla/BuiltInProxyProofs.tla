--------------------------- MODULE BuiltInProxyProofs ---------------------------
(***************************************************************************)
(* What the built-in proxy guarantees for any number of routes and leases: *)
(* the coordinator never publishes a route whose generation is gone and    *)
(* never falls back in silence, and the lease never leaves the system      *)
(* proxy pointing at Stone+ without a journal, nor loses what was chosen.  *)
(***************************************************************************)
EXTENDS RouteCoordinator, SystemProxyLease, FiniteSetTheorems, TLAPS

(* A request returns its lease exactly when its body is over for it; it    *)
(* uses a generation that has been published.                              *)
RequestsSound ==
  /\ nextGeneration >= 1
  /\ \A r \in PageRequest :
       /\ usedBy[r] < nextGeneration
       /\ usedBy[r] = 0 <=> stage[r] = "new"
       /\ released[r] <=> stage[r] \in {"cancelled", "done"}

(* Timers and disposal are for retired generations only.                   *)
OnlyRetiredEnd ==
  \A g \in Generation :
    life[g].timer > 0 \/ life[g].disposal # "no" => life[g].retired

(* The part of the invariant about generations and requests, and the part  *)
(* about the status.                                                       *)
LeaseInv ==
  /\ now \in Nat /\ nextGeneration \in Nat
  /\ route \in [kind : {"external", "built-in", "blocked"}, generation : Nat]
  /\ route.kind = "built-in" => route.generation \in Generation /\ route.generation < nextGeneration
  /\ life \in [Generation -> Life]
  /\ stage \in [PageRequest -> {"new", "fetching", "paused", "reading", "cancelled", "done"}]
  /\ usedBy \in [PageRequest -> Generation \cup {0}]
  /\ released \in [PageRequest -> BOOLEAN]
  /\ RequestsSound
  /\ OnlyRetiredEnd
  /\ PublishedIsLive
  /\ InFlightCounted

StatusInv ==
  /\ desiredEnabled \in BOOLEAN /\ hasActivated \in BOOLEAN
  /\ status \in {"disabled", "starting", "ready", "error", "stopping"}
  /\ op \in {"none", "enable", "restart", "recording", "disable", "draining",
            "closing", "forcing", "closed"}
  /\ previous \in BOOLEAN /\ invalidated \in BOOLEAN
  /\ queue \in Seq({"enable", "disable", "cleanup", "restart"})
  /\ activeAccess \in BOOLEAN /\ crashRecoveryPending \in BOOLEAN /\ coreRestart \in BOOLEAN
  /\ StatusMatchesRoute
-----------------------------------------------------------------------------
(* The life of one generation.                                             *)

(* m is l with other leases and times: what a call or a read that goes on  *)
(* may change.                                                             *)
SameEnd(l, m) ==
  m.retired = l.retired /\ m.disposal = l.disposal /\ m.timer = l.timer /\ m.deadline = l.deadline

SameWork(l, m) ==
  /\ m.pendingFetches = l.pendingFetches
  /\ m.activeBodyReads = l.activeBodyReads
  /\ m.lastActivity = l.lastActivity

(* startDisposal of a retired generation.                                  *)
LEMMA StartDisposalLife ==
  ASSUME NEW l \in Life
  PROVE  /\ StartDisposal(l) \in Life
         /\ SameWork(l, StartDisposal(l))
         /\ StartDisposal(l).inFlight = l.inFlight
         /\ StartDisposal(l).retired = l.retired
         /\ StartDisposal(l).deadline = l.deadline
         /\ StartDisposal(l).disposal # "no"
  BY DEF StartDisposal, Life, SameWork

(* scheduleRetirementCheck sets a timer and nothing else.                  *)
LEMMA ScheduledLife ==
  ASSUME NEW l \in Life, now \in Nat
  PROVE  /\ Scheduled(l) \in Life
         /\ SameWork(l, Scheduled(l))
         /\ Scheduled(l).inFlight = l.inFlight
         /\ Scheduled(l).retired = l.retired
         /\ Scheduled(l).deadline = l.deadline
         /\ Scheduled(l).disposal = l.disposal
<1>1. (IF l.deadline > now THEN l.deadline - now ELSE 1) \in Nat
  BY DEF Life
<1>2. now + Smaller(DrainTimeout, IF l.deadline > now THEN l.deadline - now ELSE 1) \in Nat
  BY <1>1, RouteConstants DEF Smaller
<1>3. QED
  BY <1>2 DEF Scheduled, Life, SameWork

(* retire starts the disposal at once only when no lease is out.           *)
LEMMA RetireLife ==
  ASSUME NEW l \in Life, now \in Nat
  PROVE  /\ Retire(l) \in Life
         /\ SameWork(l, Retire(l))
         /\ Retire(l).inFlight = l.inFlight
         /\ Retire(l).retired
         /\ l.disposal = "no" /\ Retire(l).disposal = "running" => l.inFlight = 0
<1> DEFINE r == [l EXCEPT !.retired = TRUE, !.deadline = now + FinalTimeout]
<1>1. now + FinalTimeout \in Nat
  BY RouteConstants
<1>2. /\ r \in Life /\ SameWork(l, r) /\ r.inFlight = l.inFlight
      /\ r.retired /\ r.disposal = l.disposal
  BY <1>1 DEF Life, SameWork
<1>3. Retire(l) = IF l.retired THEN l ELSE IF l.inFlight = 0 THEN StartDisposal(r) ELSE Scheduled(r)
  BY DEF Retire
<1> HIDE DEF r
<1>4. CASE l.retired
  BY <1>3, <1>4 DEF SameWork, Life
<1>5. CASE ~l.retired /\ l.inFlight = 0
  BY <1>2, <1>3, <1>5, StartDisposalLife DEF SameWork
<1>6. CASE ~l.retired /\ l.inFlight # 0
  BY <1>2, <1>3, <1>6, ScheduledLife DEF SameWork
<1>7. QED
  BY <1>4, <1>5, <1>6

(* A returned lease ends a retired generation when it is the last one.     *)
LEMMA ReturnLeaseLife ==
  ASSUME NEW l \in Life
  PROVE  /\ ReturnLease(l) \in Life
         /\ SameWork(l, ReturnLease(l))
         /\ ReturnLease(l).inFlight = (IF l.inFlight > 0 THEN l.inFlight - 1 ELSE 0)
         /\ ReturnLease(l).retired = l.retired
         /\ ReturnLease(l).deadline = l.deadline
         /\ \/ SameEnd(l, ReturnLease(l))
            \/ l.retired /\ ReturnLease(l).inFlight = 0
<1> DEFINE left == IF l.inFlight > 0 THEN l.inFlight - 1 ELSE 0
           r    == [l EXCEPT !.inFlight = left]
<1>1. left \in Nat
  BY DEF Life
<1>2. r \in Life /\ SameWork(l, r) /\ r.inFlight = left /\ SameEnd(l, r)
  BY <1>1 DEF Life, SameWork, SameEnd
<1>3. ReturnLease(l) = IF l.retired /\ left = 0 THEN StartDisposal(r) ELSE r
  BY DEF ReturnLease
<1>4. StartDisposal(r) \in Life /\ SameWork(r, StartDisposal(r))
      /\ StartDisposal(r).inFlight = left /\ StartDisposal(r).retired = r.retired
      /\ StartDisposal(r).deadline = r.deadline
  BY <1>2, StartDisposalLife
<1> HIDE DEF r, left
<1>5. CASE l.retired /\ left = 0
  BY <1>2, <1>3, <1>4, <1>5 DEF SameWork, SameEnd, left
<1>6. CASE ~(l.retired /\ left = 0)
  BY <1>2, <1>3, <1>6 DEF SameWork, SameEnd, left
<1>7. QED
  BY <1>5, <1>6

(* What the calls and reads of a generation do to its counters.            *)
Called(l) == [l EXCEPT !.inFlight = @ + 1, !.pendingFetches = @ + 1]
Failed(l) == [l EXCEPT !.pendingFetches = @ - 1]
BegunRead(l) == [l EXCEPT !.activeBodyReads = @ + 1, !.lastActivity = now]

LEMMA CalledLife ==
  ASSUME NEW l \in Life
  PROVE  /\ Called(l) \in Life /\ SameEnd(l, Called(l))
         /\ Called(l).inFlight = l.inFlight + 1 /\ Called(l).pendingFetches = l.pendingFetches + 1
         /\ Called(l).activeBodyReads = l.activeBodyReads
<1>1. l.inFlight + 1 \in Nat /\ l.pendingFetches + 1 \in Nat
  BY DEF Life
<1>2. QED
  BY <1>1 DEF Called, Life, SameEnd

LEMMA FailedLife ==
  ASSUME NEW l \in Life, l.pendingFetches > 0
  PROVE  /\ Failed(l) \in Life /\ SameEnd(l, Failed(l))
         /\ Failed(l).inFlight = l.inFlight /\ Failed(l).pendingFetches = l.pendingFetches - 1
         /\ Failed(l).activeBodyReads = l.activeBodyReads
<1>1. l.pendingFetches - 1 \in Nat
  BY DEF Life
<1>2. QED
  BY <1>1 DEF Failed, Life, SameEnd

LEMMA FetchedLife ==
  ASSUME NEW l \in Life, l.pendingFetches > 0, now \in Nat
  PROVE  /\ Fetched(l) \in Life /\ SameEnd(l, Fetched(l))
         /\ Fetched(l).inFlight = l.inFlight /\ Fetched(l).pendingFetches = l.pendingFetches - 1
         /\ Fetched(l).activeBodyReads = l.activeBodyReads
<1>1. l.pendingFetches - 1 \in Nat
  BY DEF Life
<1>2. QED
  BY <1>1 DEF Fetched, Life, SameEnd

LEMMA BegunReadLife ==
  ASSUME NEW l \in Life, now \in Nat
  PROVE  /\ BegunRead(l) \in Life /\ SameEnd(l, BegunRead(l))
         /\ BegunRead(l).inFlight = l.inFlight /\ BegunRead(l).pendingFetches = l.pendingFetches
         /\ BegunRead(l).activeBodyReads = l.activeBodyReads + 1
<1>1. l.activeBodyReads + 1 \in Nat
  BY DEF Life
<1>2. QED
  BY <1>1 DEF BegunRead, Life, SameEnd

LEMMA EndReadLife ==
  ASSUME NEW l \in Life, l.activeBodyReads > 0, now \in Nat
  PROVE  /\ EndRead(l) \in Life /\ SameEnd(l, EndRead(l))
         /\ EndRead(l).inFlight = l.inFlight /\ EndRead(l).pendingFetches = l.pendingFetches
         /\ EndRead(l).activeBodyReads = l.activeBodyReads - 1
<1>1. l.activeBodyReads - 1 \in Nat
  BY DEF Life
<1>2. QED
  BY <1>1 DEF EndRead, Life, SameEnd
-----------------------------------------------------------------------------
(* Counting requests.                                                      *)

Bit(b) == IF b THEN 1 ELSE 0

Unreleased(g) == {r \in PageRequest : usedBy[r] = g /\ ~released[r]}

(* When one request moves, a count of requests changes by that one.        *)
LEMMA OneMoves ==
  ASSUME NEW r \in PageRequest,
         NEW S \in SUBSET PageRequest, NEW T \in SUBSET PageRequest,
         \A v \in PageRequest \ {r} : v \in S <=> v \in T
  PROVE  /\ Cardinality(S) \in Nat /\ Cardinality(T) \in Nat
         /\ Cardinality(T) + Bit(r \in S) = Cardinality(S) + Bit(r \in T)
<1>1. /\ IsFiniteSet(S) /\ IsFiniteSet(T)
      /\ Cardinality(S) \in Nat /\ Cardinality(T) \in Nat
  BY RouteConstants, FS_Subset, FS_CardinalityType
<1>2. CASE r \in S <=> r \in T
  <2>1. S = T
    BY <1>2
  <2>2. QED
    BY <1>1, <2>1 DEF Bit
<1>3. CASE r \in S /\ r \notin T
  <2>1. T = S \ {r}
    BY <1>3
  <2>2. Cardinality(T) = Cardinality(S) - 1
    BY <1>1, <1>3, <2>1, FS_RemoveElement
  <2>3. QED
    BY <1>1, <1>3, <2>2 DEF Bit
<1>4. CASE r \notin S /\ r \in T
  <2>1. T = S \cup {r}
    BY <1>4
  <2>2. Cardinality(T) = Cardinality(S) + 1
    BY <1>1, <1>4, <2>1, FS_AddElement
  <2>3. QED
    BY <1>1, <1>4, <2>2 DEF Bit
<1>5. QED
  BY <1>2, <1>3, <1>4

(* A count is positive when some request is counted.                       *)
LEMMA CountPositive ==
  ASSUME NEW S \in SUBSET PageRequest
  PROVE  /\ Cardinality(S) \in Nat
         /\ Cardinality(S) = 0 <=> S = {}
  BY RouteConstants, FS_Subset, FS_CardinalityType, FS_EmptySet

(* The counters of a generation in terms of the sets of requests.          *)
CountedBy(l, g) ==
  /\ l.inFlight = Cardinality(Unreleased(g))
  /\ l.pendingFetches = Cardinality(Users(g, {"fetching"}))
  /\ l.activeBodyReads = Cardinality(Users(g, {"reading", "cancelled"}))

LEMMA CountedNow == InFlightCounted <=> \A g \in Generation : CountedBy(life[g], g)
  BY DEF InFlightCounted, CountedBy, Unreleased

LEMMA CountedNext ==
  ASSUME \A g \in Generation : CountedBy(life[g], g)'
  PROVE  InFlightCounted'
  BY DEF InFlightCounted, CountedBy, Unreleased

(* What request r counts for in the three counters of its generation.      *)
Lease(r) == Bit(stage[r] # "new" /\ ~released[r])
Fetch(r) == Bit(stage[r] = "fetching")
Read(r)  == Bit(stage[r] \in {"reading", "cancelled"})

(* A step of one request keeps the counts when the counters of its         *)
(* generation change by what the request counts for.                       *)
LEMMA CountsFollow ==
  ASSUME LeaseInv, NEW r \in PageRequest, NEW g \in Generation, NEW l \in Life,
         usedBy'[r] = g, usedBy[r] \in {0, g}, stage'[r] # "new",
         \A v \in PageRequest \ {r} : /\ usedBy'[v] = usedBy[v]
                                      /\ stage'[v] = stage[v]
                                      /\ released'[v] = released[v],
         life' = [life EXCEPT ![g] = l],
         l.inFlight + Lease(r) = life[g].inFlight + Lease(r)',
         l.pendingFetches + Fetch(r) = life[g].pendingFetches + Fetch(r)',
         l.activeBodyReads + Read(r) = life[g].activeBodyReads + Read(r)'
  PROVE  InFlightCounted'
<1>1. /\ usedBy[r] = 0 <=> stage[r] = "new"
      /\ \A h \in Generation : CountedBy(life[h], h) /\ life[h] \in Life /\ h # 0
      /\ life \in [Generation -> Life]
  BY CountedNow DEF LeaseInv, RequestsSound, Generation
<1>2. ASSUME NEW h \in Generation PROVE CountedBy(life[h], h)'
  <2>1. /\ Unreleased(h) \in SUBSET PageRequest /\ Unreleased(h)' \in SUBSET PageRequest
        /\ \A P : Users(h, P) \in SUBSET PageRequest /\ Users(h, P)' \in SUBSET PageRequest
    BY DEF Unreleased, Users
  <2>2. \A v \in PageRequest \ {r} : v \in Unreleased(h) <=> v \in Unreleased(h)'
    BY DEF Unreleased
  <2>3. \A v \in PageRequest \ {r} :
          /\ v \in Users(h, {"fetching"}) <=> v \in Users(h, {"fetching"})'
          /\ v \in Users(h, {"reading", "cancelled"}) <=> v \in Users(h, {"reading", "cancelled"})'
    BY DEF Users
  <2>4. /\ Cardinality(Unreleased(h)) \in Nat /\ Cardinality(Unreleased(h)') \in Nat
        /\ Cardinality(Unreleased(h)') + Bit(r \in Unreleased(h))
              = Cardinality(Unreleased(h)) + Bit(r \in Unreleased(h)')
    BY <2>1, <2>2, OneMoves
  <2>5. /\ Cardinality(Users(h, {"fetching"})) \in Nat /\ Cardinality(Users(h, {"fetching"})') \in Nat
        /\ Cardinality(Users(h, {"fetching"})') + Bit(r \in Users(h, {"fetching"}))
              = Cardinality(Users(h, {"fetching"})) + Bit(r \in Users(h, {"fetching"})')
    BY <2>1, <2>3, OneMoves
  <2>6. /\ Cardinality(Users(h, {"reading", "cancelled"})) \in Nat
        /\ Cardinality(Users(h, {"reading", "cancelled"})') \in Nat
        /\ Cardinality(Users(h, {"reading", "cancelled"})') + Bit(r \in Users(h, {"reading", "cancelled"}))
              = Cardinality(Users(h, {"reading", "cancelled"})) + Bit(r \in Users(h, {"reading", "cancelled"})')
    BY <2>1, <2>3, OneMoves
  <2>7. CountedBy(life[h], h) /\ life[h] \in Life
    BY <1>1
  <2>8. CASE h = g
    <3>1. /\ Bit(r \in Unreleased(h)) = Lease(r) /\ Bit(r \in Unreleased(h)') = Lease(r)'
          /\ Bit(r \in Users(h, {"fetching"})) = Fetch(r)
          /\ Bit(r \in Users(h, {"fetching"})') = Fetch(r)'
          /\ Bit(r \in Users(h, {"reading", "cancelled"})) = Read(r)
          /\ Bit(r \in Users(h, {"reading", "cancelled"})') = Read(r)'
      BY <1>1, <2>8 DEF Unreleased, Users, Lease, Fetch, Read
    <3>2. life'[h] = l
      BY <1>1, <2>8
    <3>3. l.inFlight \in Nat /\ l.pendingFetches \in Nat /\ l.activeBodyReads \in Nat
      BY DEF Life
    <3>4. Lease(r) \in 0..1 /\ Fetch(r) \in 0..1 /\ Read(r) \in 0..1
      BY DEF Lease, Fetch, Read, Bit
    <3>5. l.inFlight = Cardinality(Unreleased(h)')
      BY <2>4, <2>7, <2>8, <3>1, <3>3, <3>4 DEF CountedBy
    <3>6. l.pendingFetches = Cardinality(Users(h, {"fetching"})')
      BY <2>5, <2>7, <2>8, <3>1, <3>3, <3>4 DEF CountedBy
    <3>7. l.activeBodyReads = Cardinality(Users(h, {"reading", "cancelled"})')
      BY <2>6, <2>7, <2>8, <3>1, <3>3, <3>4 DEF CountedBy
    <3>8. QED
      BY <3>2, <3>5, <3>6, <3>7 DEF CountedBy
  <2>9. CASE h # g
    <3>1. /\ r \notin Unreleased(h) /\ r \notin Unreleased(h)'
          /\ \A P : r \notin Users(h, P) /\ r \notin Users(h, P)'
      BY <1>1, <2>9 DEF Unreleased, Users
    <3>2. life'[h] = life[h]
      BY <1>1, <2>9
    <3>3. Unreleased(h)' = Unreleased(h)
      BY <2>2, <3>1 DEF Unreleased
    <3>4. \A P : Users(h, P)' = Users(h, P)
      BY <1>1, <2>9 DEF Users
    <3>5. QED
      BY <2>7, <3>2, <3>3, <3>4 DEF CountedBy
  <2>10. QED
    BY <2>8, <2>9
<1>3. QED
  BY <1>2, CountedNext
-----------------------------------------------------------------------------
(* Steps of requests and of generations.                                   *)

(* A step of one request keeps LeaseInv, given the counters it leaves and  *)
(* that only a retired generation may have come closer to its end.         *)
LEMMA RequestKeepsLeases ==
  ASSUME LeaseInv, NEW r \in PageRequest, NEW g \in Generation, NEW l \in Life,
         UNCHANGED <<now, route, nextGeneration>>,
         life' = [life EXCEPT ![g] = l],
         usedBy[r] \in {0, g}, usedBy' = [usedBy EXCEPT ![r] = g], g < nextGeneration,
         NEW s \in {"fetching", "paused", "reading", "cancelled", "done"},
         stage' = [stage EXCEPT ![r] = s],
         released' = [released EXCEPT ![r] = s \in {"cancelled", "done"}],
         l.inFlight + Lease(r) = life[g].inFlight + Lease(r)',
         l.pendingFetches + Fetch(r) = life[g].pendingFetches + Fetch(r)',
         l.activeBodyReads + Read(r) = life[g].activeBodyReads + Read(r)',
         l.retired = life[g].retired,
         l.retired \/ (l.timer = life[g].timer /\ l.disposal = life[g].disposal)
  PROVE  LeaseInv'
<1>1. InFlightCounted'
  <2>1. \A v \in PageRequest \ {r} :
          usedBy'[v] = usedBy[v] /\ stage'[v] = stage[v] /\ released'[v] = released[v]
    BY DEF LeaseInv
  <2>2. usedBy'[r] = g /\ stage'[r] # "new"
    BY DEF LeaseInv
  <2>3. QED
    BY <2>1, <2>2, CountsFollow
<1>2. RequestsSound'
  <2>1. ASSUME NEW v \in PageRequest
        PROVE  /\ usedBy'[v] < nextGeneration'
               /\ usedBy'[v] = 0 <=> stage'[v] = "new"
               /\ released'[v] <=> stage'[v] \in {"cancelled", "done"}
    <3>1. g # 0
      BY DEF Generation
    <3>2. CASE v = r
      BY <3>1, <3>2 DEF LeaseInv
    <3>3. CASE v # r
      BY <3>3 DEF LeaseInv, RequestsSound
    <3>4. QED
      BY <3>2, <3>3
  <2>2. QED
    BY <2>1 DEF LeaseInv, RequestsSound
<1>3. life' \in [Generation -> Life] /\ OnlyRetiredEnd'
  BY DEF LeaseInv, OnlyRetiredEnd, Life
<1>4. PublishedIsLive'
  BY DEF LeaseInv, OnlyRetiredEnd, PublishedIsLive, Ready
<1>5. QED
  BY <1>1, <1>2, <1>3, <1>4 DEF LeaseInv

(* What the counters of a generation say of a request that uses it.        *)
LEMMA CountersPositive ==
  ASSUME LeaseInv, NEW r \in PageRequest, stage[r] # "new"
  PROVE  /\ usedBy[r] \in Generation /\ usedBy[r] < nextGeneration
         /\ life[usedBy[r]] \in Life
         /\ released[r] <=> stage[r] \in {"cancelled", "done"}
         /\ stage[r] \in {"fetching", "paused", "reading"} => life[usedBy[r]].inFlight > 0
         /\ stage[r] = "fetching" => life[usedBy[r]].pendingFetches > 0
         /\ stage[r] \in {"reading", "cancelled"} => life[usedBy[r]].activeBodyReads > 0
<1> DEFINE g == usedBy[r]
<1>1. g \in Generation /\ g < nextGeneration /\ life[g] \in Life
  BY DEF LeaseInv, RequestsSound
<1>2. released[r] <=> stage[r] \in {"cancelled", "done"}
  BY DEF LeaseInv, RequestsSound
<1>3. CountedBy(life[g], g)
  BY <1>1, CountedNow DEF LeaseInv
<1>4. /\ Unreleased(g) \in SUBSET PageRequest
      /\ \A P : Users(g, P) \in SUBSET PageRequest
  BY DEF Unreleased, Users
<1>5. stage[r] \in {"fetching", "paused", "reading"} => life[g].inFlight > 0
  BY <1>2, <1>3, <1>4, CountPositive DEF CountedBy, Unreleased
<1>6. stage[r] = "fetching" => life[g].pendingFetches > 0
  BY <1>3, <1>4, CountPositive DEF CountedBy, Users
<1>7. stage[r] \in {"reading", "cancelled"} => life[g].activeBodyReads > 0
  BY <1>3, <1>4, CountPositive DEF CountedBy, Users
<1>8. QED
  BY <1>1, <1>2, <1>5, <1>6, <1>7

(* The same for a request that has started, in terms of its generation.    *)
LEMMA StartedKeepsLeases ==
  ASSUME LeaseInv, NEW r \in PageRequest, stage[r] # "new",
         NEW m \in Life, NEW s \in {"paused", "reading", "cancelled", "done"},
         UNCHANGED <<now, route, nextGeneration, usedBy>>,
         life' = [life EXCEPT ![usedBy[r]] = m],
         stage' = [stage EXCEPT ![r] = s],
         released' = [released EXCEPT ![r] = s \in {"cancelled", "done"}],
         m.inFlight + Bit(~released[r]) = life[usedBy[r]].inFlight + Bit(s \notin {"cancelled", "done"}),
         m.pendingFetches + Bit(stage[r] = "fetching") = life[usedBy[r]].pendingFetches,
         m.activeBodyReads + Bit(stage[r] \in {"reading", "cancelled"})
           = life[usedBy[r]].activeBodyReads + Bit(s \in {"reading", "cancelled"}),
         m.retired = life[usedBy[r]].retired,
         m.retired \/ (m.timer = life[usedBy[r]].timer /\ m.disposal = life[usedBy[r]].disposal)
  PROVE  LeaseInv'
<1>1. usedBy[r] \in Generation /\ usedBy[r] < nextGeneration /\ life[usedBy[r]] \in Life
  BY CountersPositive
<1>2. usedBy' = [usedBy EXCEPT ![r] = usedBy[r]]
  BY DEF LeaseInv
<1>3. stage'[r] = s /\ released'[r] = (s \in {"cancelled", "done"})
  BY DEF LeaseInv
<1>4. /\ Lease(r) = Bit(~released[r]) /\ Lease(r)' = Bit(s \notin {"cancelled", "done"})
      /\ Fetch(r) = Bit(stage[r] = "fetching") /\ Fetch(r)' = 0
      /\ Read(r) = Bit(stage[r] \in {"reading", "cancelled"})
      /\ Read(r)' = Bit(s \in {"reading", "cancelled"})
  BY <1>3 DEF Lease, Fetch, Read, Bit
<1>5. life[usedBy[r]].pendingFetches = life[usedBy[r]].pendingFetches + 0
  BY <1>1 DEF Life
<1>6. /\ m.inFlight + Lease(r) = life[usedBy[r]].inFlight + Lease(r)'
      /\ m.pendingFetches + Fetch(r) = life[usedBy[r]].pendingFetches + Fetch(r)'
      /\ m.activeBodyReads + Read(r) = life[usedBy[r]].activeBodyReads + Read(r)'
  BY <1>4, <1>5
<1>7. \E g \in Generation : g = usedBy[r]
  BY <1>1
<1>8. PICK g \in Generation : g = usedBy[r]
  BY <1>7
<1>9. s \in {"fetching", "paused", "reading", "cancelled", "done"}
  OBVIOUS
<1>10. QED
  BY <1>1, <1>2, <1>6, <1>8, <1>9, RequestKeepsLeases

(* Every step of a request, from its start to the second return of a       *)
(* cancelled read, keeps the leases exact.                                 *)
LEMMA StartRequestKeepsLeases ==
  ASSUME LeaseInv, NEW r \in PageRequest, StartRequest(r)
  PROVE  LeaseInv'
<1> DEFINE h == route.generation
           m == Called(life[h])
<1>1. h \in Generation /\ h < nextGeneration /\ life[h] \in Life /\ usedBy[r] = 0 /\ ~released[r]
  BY DEF StartRequest, Ready, LeaseInv, RequestsSound
<1>2. /\ stage[r] = "new"
      /\ usedBy' = [usedBy EXCEPT ![r] = h]
      /\ stage' = [stage EXCEPT ![r] = "fetching"]
      /\ released' = released
      /\ life' = [life EXCEPT ![h].inFlight = @ + 1, ![h].pendingFetches = @ + 1]
      /\ UNCHANGED <<now, route, nextGeneration>>
  BY DEF StartRequest, routeVars
<1>3. /\ m \in Life
      /\ m.inFlight = life[h].inFlight + 1 /\ m.pendingFetches = life[h].pendingFetches + 1
      /\ m.activeBodyReads = life[h].activeBodyReads
      /\ SameEnd(life[h], m)
  BY <1>1, CalledLife
<1>4. life' = [life EXCEPT ![h] = m]
  BY <1>1, <1>2 DEF LeaseInv, Life, Called
<1>5. /\ Lease(r) = 0 /\ Fetch(r) = 0 /\ Read(r) = 0
      /\ Lease(r)' = 1 /\ Fetch(r)' = 1 /\ Read(r)' = 0
  BY <1>1, <1>2 DEF LeaseInv, Lease, Fetch, Read, Bit
<1>6. released' = [released EXCEPT ![r] = "fetching" \in {"cancelled", "done"}]
  BY <1>1, <1>2 DEF LeaseInv
<1>7. life[h].inFlight \in Nat /\ life[h].pendingFetches \in Nat /\ life[h].activeBodyReads \in Nat
  BY <1>1 DEF Life
<1> HIDE DEF m, h
<1>8. /\ m.inFlight + Lease(r) = life[h].inFlight + Lease(r)'
      /\ m.pendingFetches + Fetch(r) = life[h].pendingFetches + Fetch(r)'
      /\ m.activeBodyReads + Read(r) = life[h].activeBodyReads + Read(r)'
  BY <1>3, <1>5, <1>7
<1>9. QED
  BY ZenonT(60), <1>1, <1>2, <1>3, <1>4, <1>6, <1>8, RequestKeepsLeases DEF SameEnd

LEMMA FetchEndsKeepLeases ==
  ASSUME LeaseInv, NEW r \in PageRequest, Headers(r) \/ FetchFails(r)
  PROVE  LeaseInv'
<1> DEFINE l == life[usedBy[r]]
<1>1. /\ stage[r] = "fetching" /\ ~released[r] /\ l \in Life /\ now \in Nat
      /\ l.pendingFetches > 0 /\ l.inFlight > 0
      /\ UNCHANGED <<now, route, nextGeneration, usedBy>>
  BY CountersPositive DEF Headers, FetchFails, LeaseInv, routeVars
<1>2. /\ l.inFlight \in Nat /\ l.pendingFetches \in Nat /\ l.activeBodyReads \in Nat
  BY <1>1 DEF Life
<1> DEFINE Ended(m) == /\ m \in Life /\ SameEnd(l, m)
                       /\ m.inFlight = l.inFlight /\ m.pendingFetches = l.pendingFetches - 1
                       /\ m.activeBodyReads = l.activeBodyReads
<1>3. Ended(Fetched(l)) /\ Ended(Failed(l))
  BY <1>1, FetchedLife, FailedLife
<1>4. CASE /\ stage' = [stage EXCEPT ![r] = "paused"]
           /\ Update(r, Fetched(l))
           /\ UNCHANGED released
  <2>1. released' = [released EXCEPT ![r] = "paused" \in {"cancelled", "done"}]
    BY <1>1, <1>4 DEF LeaseInv
  <2>2. life' = [life EXCEPT ![usedBy[r]] = Fetched(l)]
    BY <1>4 DEF Update
  <2> DEFINE m == Fetched(l)
  <2>3. Ended(m) /\ life' = [life EXCEPT ![usedBy[r]] = m]
    BY <1>3, <2>2
  <2> HIDE DEF m
  <2>4. /\ m.inFlight + Bit(~released[r]) = l.inFlight + Bit("paused" \notin {"cancelled", "done"})
        /\ m.pendingFetches + Bit(stage[r] = "fetching") = l.pendingFetches
        /\ m.activeBodyReads + Bit(stage[r] \in {"reading", "cancelled"})
             = l.activeBodyReads + Bit("paused" \in {"reading", "cancelled"})
    BY <1>1, <1>2, <2>3 DEF Bit
  <2>5. QED
    BY <1>1, <1>4, <2>1, <2>3, <2>4, StartedKeepsLeases DEF SameEnd
<1>5. ASSUME NEW m, Ended(m), stage' = [stage EXCEPT ![r] = "done"],
             Update(r, Released(r, m)), released' = [released EXCEPT ![r] = TRUE]
      PROVE  LeaseInv'
  <2> DEFINE n == ReturnLease(m)
  <2>1. life' = [life EXCEPT ![usedBy[r]] = n]
    BY <1>1, <1>5 DEF Update, Released
  <2>2. /\ n \in Life /\ n.inFlight = m.inFlight - 1 /\ n.retired = m.retired
        /\ SameWork(m, n) /\ (SameEnd(m, n) \/ m.retired)
    BY <1>1, <1>5, ReturnLeaseLife
  <2> HIDE DEF n
  <2>3. /\ n.inFlight + Bit(~released[r]) = l.inFlight + Bit("done" \notin {"cancelled", "done"})
        /\ n.pendingFetches + Bit(stage[r] = "fetching") = l.pendingFetches
        /\ n.activeBodyReads + Bit(stage[r] \in {"reading", "cancelled"})
             = l.activeBodyReads + Bit("done" \in {"reading", "cancelled"})
    BY <1>1, <1>2, <1>5, <2>2 DEF Bit, SameWork
  <2>4. released' = [released EXCEPT ![r] = "done" \in {"cancelled", "done"}]
    BY <1>5
  <2>5. n.retired = l.retired /\ (n.retired \/ (n.timer = l.timer /\ n.disposal = l.disposal))
    BY <1>5, <2>2 DEF SameEnd
  <2>6. QED
    BY <1>1, <1>5, <2>1, <2>2, <2>3, <2>4, <2>5, StartedKeepsLeases
<1>6. QED
  BY <1>3, <1>4, <1>5 DEF Headers, FetchFails, Failed

LEMMA ReadStepsKeepLeases ==
  ASSUME LeaseInv, NEW r \in PageRequest, BeginRead(r) \/ Chunk(r)
  PROVE  LeaseInv'
<1> DEFINE l == life[usedBy[r]]
<1>1. /\ stage[r] \in {"paused", "reading"} /\ ~released[r] /\ l \in Life /\ now \in Nat
      /\ stage[r] = "reading" => l.activeBodyReads > 0
      /\ UNCHANGED <<now, route, nextGeneration, usedBy, released>>
  BY CountersPositive DEF BeginRead, Chunk, LeaseInv, routeVars
<1>2. /\ l.inFlight \in Nat /\ l.pendingFetches \in Nat /\ l.activeBodyReads \in Nat
  BY <1>1 DEF Life
<1>3. ASSUME NEW m \in Life, SameEnd(l, m), m.inFlight = l.inFlight,
             m.pendingFetches = l.pendingFetches,
             NEW s \in {"paused", "reading"}, s # stage[r],
             m.activeBodyReads = IF s = "reading" THEN l.activeBodyReads + 1 ELSE l.activeBodyReads - 1,
             life' = [life EXCEPT ![usedBy[r]] = m],
             stage' = [stage EXCEPT ![r] = s]
      PROVE  LeaseInv'
  <2>1. released' = [released EXCEPT ![r] = s \in {"cancelled", "done"}]
    BY <1>1, <1>3 DEF LeaseInv
  <2>2. /\ m.inFlight + Bit(~released[r]) = l.inFlight + Bit(s \notin {"cancelled", "done"})
        /\ m.pendingFetches + Bit(stage[r] = "fetching") = l.pendingFetches
        /\ m.activeBodyReads + Bit(stage[r] \in {"reading", "cancelled"})
             = l.activeBodyReads + Bit(s \in {"reading", "cancelled"})
    BY <1>1, <1>2, <1>3 DEF Bit
  <2>3. stage[r] # "new" /\ s \in {"paused", "reading", "cancelled", "done"}
    BY <1>1, <1>3
  <2>4. QED
    BY <1>1, <1>3, <2>1, <2>2, <2>3, StartedKeepsLeases DEF SameEnd
<1>4. CASE BeginRead(r)
  <2>1. /\ stage[r] = "paused" /\ stage' = [stage EXCEPT ![r] = "reading"]
        /\ life' = [life EXCEPT ![usedBy[r]] = BegunRead(l)]
    BY <1>4 DEF BeginRead, Update, BegunRead
  <2>2. QED
    BY <1>1, <1>3, <2>1, BegunReadLife
<1>5. CASE Chunk(r)
  <2>1. /\ stage[r] = "reading" /\ stage' = [stage EXCEPT ![r] = "paused"]
        /\ life' = [life EXCEPT ![usedBy[r]] = EndRead(l)]
    BY <1>5 DEF Chunk, Update
  <2>2. QED
    BY <1>1, <1>3, <2>1, EndReadLife
<1>6. QED
  BY <1>4, <1>5

(* The second return of a lease leaves the generation as it is.            *)
LEMMA ReleasedLife ==
  ASSUME NEW r \in PageRequest, NEW l \in Life, released[r] \/ l.inFlight > 0
  PROVE  /\ Released(r, l) \in Life
         /\ Released(r, l).inFlight + Bit(~released[r]) = l.inFlight
         /\ SameWork(l, Released(r, l))
         /\ Released(r, l).retired = l.retired
         /\ SameEnd(l, Released(r, l)) \/ l.retired
<1>1. l.inFlight \in Nat
  BY DEF Life
<1>2. CASE released[r]
  BY <1>1, <1>2 DEF Released, SameEnd, SameWork, Bit
<1>3. CASE ~released[r]
  <2>1. Released(r, l) = ReturnLease(l)
    BY <1>3 DEF Released
  <2>2. QED
    BY <1>1, <1>3, <2>1, ReturnLeaseLife DEF Bit
<1>4. QED
  BY <1>2, <1>3

LEMMA BodyStepsKeepLeases ==
  ASSUME LeaseInv, NEW r \in PageRequest, BodyEnds(r) \/ Cancel(r)
  PROVE  LeaseInv'
<1> DEFINE l == life[usedBy[r]]
           n == Released(r, l)
<1>1. /\ stage[r] \in {"paused", "reading", "cancelled"} /\ l \in Life /\ now \in Nat
      /\ released[r] \/ l.inFlight > 0
      /\ stage[r] # "paused" => l.activeBodyReads > 0
      /\ UNCHANGED <<now, route, nextGeneration, usedBy>>
      /\ released' = [released EXCEPT ![r] = TRUE]
  BY CountersPositive DEF BodyEnds, Cancel, LeaseInv, routeVars
<1>2. /\ l.inFlight \in Nat /\ l.pendingFetches \in Nat /\ l.activeBodyReads \in Nat
  BY <1>1 DEF Life
<1>3. /\ n \in Life /\ n.inFlight + Bit(~released[r]) = l.inFlight
      /\ SameWork(l, n) /\ n.retired = l.retired /\ (SameEnd(l, n) \/ l.retired)
  BY <1>1, ReleasedLife
<1> HIDE DEF n
<1>4. ASSUME NEW m \in Life, SameEnd(n, m), m.inFlight = n.inFlight,
             m.pendingFetches = n.pendingFetches,
             NEW s \in {"cancelled", "done"},
             m.activeBodyReads + Bit(stage[r] \in {"reading", "cancelled"})
               = l.activeBodyReads + Bit(s \in {"reading", "cancelled"}),
             life' = [life EXCEPT ![usedBy[r]] = m],
             stage' = [stage EXCEPT ![r] = s]
      PROVE  LeaseInv'
  <2>1. released' = [released EXCEPT ![r] = s \in {"cancelled", "done"}]
    BY <1>1, <1>4
  <2>2. /\ m.inFlight + Bit(~released[r]) = l.inFlight + Bit(s \notin {"cancelled", "done"})
        /\ m.pendingFetches + Bit(stage[r] = "fetching") = l.pendingFetches
    BY <1>1, <1>2, <1>3, <1>4 DEF Bit, SameWork
  <2>3. m.retired = l.retired /\ (m.retired \/ (m.timer = l.timer /\ m.disposal = l.disposal))
    BY <1>3, <1>4 DEF SameEnd
  <2>4. stage[r] # "new" /\ s \in {"paused", "reading", "cancelled", "done"}
    BY <1>1, <1>4
  <2>5. QED
    BY <1>1, <1>4, <2>1, <2>2, <2>3, <2>4, StartedKeepsLeases
<1>5. CASE BodyEnds(r)
  <2> DEFINE m == EndRead(n)
  <2>1. /\ stage[r] \in {"reading", "cancelled"} /\ stage' = [stage EXCEPT ![r] = "done"]
        /\ life' = [life EXCEPT ![usedBy[r]] = m]
    BY <1>5 DEF BodyEnds, Update, n
  <2>2. /\ m \in Life /\ m.inFlight = n.inFlight /\ m.pendingFetches = n.pendingFetches
        /\ m.activeBodyReads = l.activeBodyReads - 1 /\ SameEnd(n, m)
    BY <1>1, <1>3, <2>1, EndReadLife DEF SameWork
  <2> HIDE DEF m
  <2>3. m.activeBodyReads + Bit(stage[r] \in {"reading", "cancelled"})
          = l.activeBodyReads + Bit("done" \in {"reading", "cancelled"})
    BY <1>2, <2>1, <2>2 DEF Bit
  <2>4. QED
    BY <1>4, <2>1, <2>2, <2>3
<1>6. CASE Cancel(r)
  <2> DEFINE s == IF stage[r] = "reading" THEN "cancelled" ELSE "done"
  <2>1. /\ stage[r] \in {"paused", "reading"} /\ stage' = [stage EXCEPT ![r] = s]
        /\ life' = [life EXCEPT ![usedBy[r]] = n]
    BY <1>6 DEF Cancel, Update, n, LeaseInv
  <2>2. n.activeBodyReads + Bit(stage[r] \in {"reading", "cancelled"})
          = l.activeBodyReads + Bit(s \in {"reading", "cancelled"})
    BY <1>2, <1>3, <2>1 DEF Bit, SameWork
  <2>3. s \in {"cancelled", "done"} /\ SameEnd(n, n)
    BY DEF SameEnd
  <2>4. QED
    BY <1>3, <1>4, <2>1, <2>2, <2>3
<1>7. QED
  BY <1>5, <1>6

LEMMA RequestsKeepLeases ==
  ASSUME LeaseInv, Requests
  PROVE  LeaseInv'
  BY StartRequestKeepsLeases, FetchEndsKeepLeases, ReadStepsKeepLeases, BodyStepsKeepLeases
     DEF Requests
-----------------------------------------------------------------------------
(* Steps of the route and of the timers.                                   *)

(* A step that touches neither requests nor generations.                   *)
LEMMA QuietKeepsLeases ==
  ASSUME LeaseInv, KeepRoute, UNCHANGED restVars
  PROVE  LeaseInv'
<1>1. /\ UNCHANGED <<now, route, nextGeneration, life, stage, usedBy, released>>
  BY DEF KeepRoute, restVars, pageVars
<1>2. InFlightCounted'
  <2>1. ASSUME NEW g \in Generation PROVE CountedBy(life[g], g)'
    BY <1>1, CountedNow DEF LeaseInv, CountedBy, Unreleased, Users
  <2>2. QED
    BY <2>1, CountedNext
<1>3. RequestsSound' /\ OnlyRetiredEnd' /\ PublishedIsLive'
  BY <1>1 DEF LeaseInv, RequestsSound, OnlyRetiredEnd, PublishedIsLive, Ready
<1>4. QED
  BY <1>1, <1>2, <1>3 DEF LeaseInv

(* A step that leaves requests alone and keeps the counters of every       *)
(* generation keeps the counts.                                            *)
LEMMA CountsKept ==
  ASSUME InFlightCounted, UNCHANGED pageVars,
         \A g \in Generation : /\ SameWork(life[g], life'[g]) \/ life'[g] = life[g]
                               /\ life'[g].inFlight = life[g].inFlight
  PROVE  InFlightCounted'
<1>1. ASSUME NEW g \in Generation PROVE CountedBy(life[g], g)'
  BY SMTT(60), CountedNow DEF CountedBy, Unreleased, Users, pageVars, SameWork
<1>2. QED
  BY <1>1, CountedNext

(* A step that only ends retired generations, or retires one that is not   *)
(* published.                                                              *)
LEMMA EndingKeepsLeases ==
  ASSUME LeaseInv, UNCHANGED <<route, nextGeneration, pageVars>>, now' \in Nat,
         life' \in [Generation -> Life],
         \A g \in Generation : /\ SameWork(life[g], life'[g])
                               /\ life'[g].inFlight = life[g].inFlight
                               /\ life'[g].retired = life[g].retired
                               /\ life[g].retired \/ life'[g] = life[g]
  PROVE  LeaseInv'
<1>1. InFlightCounted'
  BY CountsKept DEF LeaseInv
<1>2. RequestsSound' /\ OnlyRetiredEnd' /\ PublishedIsLive'
  BY DEF LeaseInv, RequestsSound, OnlyRetiredEnd, PublishedIsLive, Ready, pageVars
<1>3. QED
  BY <1>1, <1>2 DEF LeaseInv, pageVars

LEMMA ClockKeepsLeases ==
  ASSUME LeaseInv, Clock
  PROVE  LeaseInv'
<1>1. CASE Tick
  <2>1. now' \in Nat /\ UNCHANGED <<route, nextGeneration, pageVars, life>>
    BY <1>1 DEF Tick, LeaseInv, routeVars
  <2>2. QED
    BY <2>1, EndingKeepsLeases DEF LeaseInv, SameWork
<1>2. ASSUME NEW g \in Generation, CheckRetirement(g) PROVE LeaseInv'
  <2> DEFINE l == life[g]
  <2>1. l \in Life /\ l.timer > 0 /\ now \in Nat /\ l.retired /\ life \in [Generation -> Life]
    BY <1>2 DEF LeaseInv, CheckRetirement, OnlyRetiredEnd
  <2>2. PICK m \in {StartDisposal(l), Scheduled(l)} : life' = [life EXCEPT ![g] = m]
    BY <1>2 DEF CheckRetirement
  <2>3. m \in Life /\ SameWork(l, m) /\ m.inFlight = l.inFlight /\ m.retired = l.retired
    BY ZenonT(60), <2>1, <2>2, StartDisposalLife, ScheduledLife
  <2>4. UNCHANGED <<now, route, nextGeneration, pageVars>>
    BY <1>2 DEF CheckRetirement, routeVars
  <2>5. QED
    BY <2>1, <2>2, <2>3, <2>4, EndingKeepsLeases DEF SameWork
<1>3. ASSUME NEW g \in Generation, DisposalEnds(g) PROVE LeaseInv'
  <2> DEFINE l == life[g]
             m == [l EXCEPT !.disposal = "done"]
  <2>1. /\ l \in Life /\ now \in Nat /\ l.retired /\ life \in [Generation -> Life]
        /\ life' = [life EXCEPT ![g] = m]
        /\ UNCHANGED <<now, route, nextGeneration, pageVars>>
    BY <1>3 DEF LeaseInv, DisposalEnds, OnlyRetiredEnd, routeVars
  <2>2. m \in Life /\ SameWork(l, m) /\ m.inFlight = l.inFlight /\ m.retired = l.retired
    BY <2>1 DEF Life, SameWork
  <2> HIDE DEF m
  <2>3. QED
    BY <2>1, <2>2, EndingKeepsLeases DEF SameWork
<1>4. QED
  BY <1>1, <1>2, <1>3 DEF Clock

LEMMA ForceDrainKeepsLeases ==
  ASSUME LeaseInv, ForceDrain
  PROVE  LeaseInv'
<1>1. /\ UNCHANGED <<now, route, nextGeneration, pageVars>>
      /\ life \in [Generation -> Life]
      /\ life' = [g \in Generation |-> IF life[g].retired THEN StartDisposal(life[g]) ELSE life[g]]
  BY DEF ForceDrain, routeVars, LeaseInv
<1>2. ASSUME NEW g \in Generation
      PROVE  /\ life'[g] \in Life /\ SameWork(life[g], life'[g])
             /\ life'[g].inFlight = life[g].inFlight
             /\ life'[g].retired = life[g].retired
             /\ life[g].retired \/ life'[g] = life[g]
  <2>1. life[g] \in Life /\ life'[g] = IF life[g].retired THEN StartDisposal(life[g]) ELSE life[g]
    BY <1>1
  <2>2. QED
    BY <2>1, StartDisposalLife DEF SameWork
<1>3. now' \in Nat /\ life' \in [Generation -> Life]
  BY <1>1, <1>2 DEF LeaseInv
<1>4. QED
  BY <1>1, <1>2, <1>3, EndingKeepsLeases

(* A new generation has no users yet; the one it replaces retires.         *)
LEMMA PublishKeepsLeases ==
  ASSUME LeaseInv, NEW kind \in {"external", "built-in", "blocked"},
         Publish(kind), UNCHANGED restVars
  PROVE  LeaseInv'
<1> DEFINE n == nextGeneration
           fresh == [NewLife EXCEPT !.lastActivity = now]
<1>1. /\ n \in Generation /\ n \in Nat
      /\ route' = [kind |-> kind, generation |-> n] /\ nextGeneration' = n + 1
      /\ UNCHANGED <<now, stage, usedBy, released>> /\ now \in Nat
      /\ life \in [Generation -> Life]
      /\ Ready => route.generation \in Generation /\ route.generation < n
  BY DEF Publish, LeaseInv, RequestsSound, Generation, restVars, pageVars, Ready
<1>2. fresh \in Life /\ ~fresh.retired /\ fresh.disposal = "no" /\ fresh.timer = 0
      /\ fresh.inFlight = 0 /\ fresh.pendingFetches = 0 /\ fresh.activeBodyReads = 0
  BY <1>1 DEF NewLife, Life
<1> HIDE DEF fresh
<1>3. ASSUME NEW g \in Generation
      PROVE  /\ life[g] \in Life
             /\ \/ Ready /\ g = route.generation /\ life'[g] = Retire(life[g])
                \/ kind = "built-in" /\ g = n /\ life'[g] = fresh /\ ~(Ready /\ g = route.generation)
                \/ /\ life'[g] = life[g] /\ ~(Ready /\ g = route.generation)
                   /\ ~(kind = "built-in" /\ g = n)
  BY <1>1 DEF Publish, fresh
<1>4. ASSUME NEW g \in Generation
      PROVE  /\ life'[g] \in Life
             /\ life'[g].timer > 0 \/ life'[g].disposal # "no" => life'[g].retired
             /\ CountedBy(life'[g], g)
  <2>1. CountedBy(life[g], g) /\ (life[g].timer > 0 \/ life[g].disposal # "no" => life[g].retired)
    BY CountedNow DEF LeaseInv, OnlyRetiredEnd
  <2>2. CASE life'[g] = Retire(life[g])
    BY <1>1, <1>3, <2>1, <2>2, RetireLife DEF CountedBy, SameWork
  <2>3. CASE g = n /\ life'[g] = fresh
    <3>1. \A r \in PageRequest : usedBy[r] # g
      BY <1>1, <2>3 DEF LeaseInv, RequestsSound
    <3>2. Unreleased(g) = {} /\ \A P : Users(g, P) = {}
      BY <3>1 DEF Unreleased, Users
    <3>3. CountedBy(fresh, g)
      BY <1>2, <3>2, FS_EmptySet DEF CountedBy
    <3>4. QED
      BY <1>2, <2>3, <3>3
  <2>4. CASE life'[g] = life[g]
    BY <1>3, <2>1, <2>4
  <2>5. QED
    BY <1>3, <2>2, <2>3, <2>4
<1>5. life' \in [Generation -> Life]
  BY <1>4 DEF Publish
<1>6. InFlightCounted'
  <2>1. ASSUME NEW g \in Generation PROVE CountedBy(life[g], g)'
    BY <1>1, <1>4 DEF CountedBy, Unreleased, Users
  <2>2. QED
    BY <2>1, CountedNext
<1>7. PublishedIsLive'
  BY <1>1, <1>2, <1>3 DEF PublishedIsLive, Ready
<1>8. RequestsSound'
  <2>1. ASSUME NEW r \in PageRequest
        PROVE  /\ usedBy'[r] < nextGeneration'
               /\ usedBy'[r] = 0 <=> stage'[r] = "new"
               /\ released'[r] <=> stage'[r] \in {"cancelled", "done"}
    <3>1. usedBy[r] \in Nat /\ usedBy[r] < n
      BY DEF LeaseInv, RequestsSound, Generation
    <3>2. QED
      BY <1>1, <3>1 DEF LeaseInv, RequestsSound
  <2>2. QED
    BY <1>1, <2>1 DEF RequestsSound, Generation
<1>9. OnlyRetiredEnd'
  BY <1>4 DEF OnlyRetiredEnd
<1>10. QED
  BY <1>1, <1>5, <1>6, <1>7, <1>8, <1>9 DEF LeaseInv, Generation

(* What an operation or a failure does to the route.                       *)
LEMMA RouteOfOperations ==
  ASSUME Operations \/ Failures
  PROVE  \/ ForceDrain
         \/ UNCHANGED restVars /\ KeepRoute
         \/ UNCHANGED restVars /\ \E kind \in {"external", "built-in", "blocked"} : Publish(kind)
<1>1. CASE \E kind \in {"enable", "disable"} : Ask(kind)
  BY <1>1 DEF Ask
<1>2. CASE BeginEnable \/ BeginRestart \/ BeginDisable \/ BeginClose \/ Cleanup \/ Recorded \/ Closed
  BY <1>2 DEF BeginEnable, BeginRestart, BeginDisable, BeginClose, Cleanup, Recorded, Closed
<1>3. CASE EnableFails \/ RestartFails \/ OperationBlocks \/ Crash
  BY <1>3 DEF EnableFails, RestartFails, OperationBlocks, Crash, RestoreReady, ReportError, FailClosed
<1>4. CASE DisableFails \/ DrainDone \/ CloseFails
  BY <1>4 DEF DisableFails, DrainDone, CloseFails, DisableFailed
<1>5. CASE CompleteDisable \/ RepairMaintenance \/ CloseReleases
  BY <1>5 DEF CompleteDisable, RepairMaintenance, CloseReleases, Disabled
<1>6. CASE CandidateCrash \/ CoreRestarts \/ CoreGivesUp
  BY <1>6 DEF CandidateCrash, CoreRestarts, CoreGivesUp
<1>7. CASE Commit
  BY <1>7 DEF Commit
<1>8. QED
  BY <1>1, <1>2, <1>3, <1>4, <1>5, <1>6, <1>7 DEF Operations, Failures

LEMMA StepKeepsLeases ==
  ASSUME LeaseInv, [RouteNext]_coordinatorVars
  PROVE  LeaseInv'
<1>1. CASE UNCHANGED coordinatorVars
  BY <1>1, QuietKeepsLeases DEF coordinatorVars, KeepRoute, restVars, pageVars
<1>2. CASE Operations \/ Failures
  BY <1>2, RouteOfOperations, ForceDrainKeepsLeases, QuietKeepsLeases, PublishKeepsLeases
<1>3. QED
  BY <1>1, <1>2, ClockKeepsLeases, RequestsKeepLeases DEF RouteNext
-----------------------------------------------------------------------------
(* The status and the operations.                                          *)

QueueKinds == {"enable", "disable", "cleanup", "restart"}

LEMMA QueueKept ==
  ASSUME NEW q \in Seq(QueueKinds)
  PROVE  /\ \A kind \in QueueKinds : Append(q, kind) \in Seq(QueueKinds)
         /\ q # <<>> => Tail(q) \in Seq(QueueKinds)
         /\ q # <<>> => \A kind \in QueueKinds : Append(Tail(q), kind) \in Seq(QueueKinds)
  OBVIOUS

(* The types of what the operations change.                                *)
LEMMA StepKeepsTypes ==
  ASSUME StatusInv, [RouteNext]_coordinatorVars
  PROVE  /\ desiredEnabled' \in BOOLEAN /\ hasActivated' \in BOOLEAN
         /\ previous' \in BOOLEAN /\ invalidated' \in BOOLEAN
         /\ activeAccess' \in BOOLEAN
         /\ crashRecoveryPending' \in BOOLEAN /\ coreRestart' \in BOOLEAN
         /\ queue' \in Seq(QueueKinds)
<1>1. /\ desiredEnabled \in BOOLEAN /\ hasActivated \in BOOLEAN
      /\ previous \in BOOLEAN /\ invalidated \in BOOLEAN
      /\ activeAccess \in BOOLEAN
      /\ crashRecoveryPending \in BOOLEAN /\ coreRestart \in BOOLEAN
      /\ queue \in Seq(QueueKinds)
      /\ {"restart", "cleanup", "enable", "disable"} \subseteq QueueKinds
  BY DEF StatusInv, QueueKinds
<1>2. CASE UNCHANGED coordinatorVars \/ Clock \/ Requests \/ ForceDrain
  <2>1. UNCHANGED <<desiredEnabled, hasActivated, previous, invalidated, activeAccess,
                    crashRecoveryPending, coreRestart, queue>>
    BY <1>2 DEF coordinatorVars, Clock, Tick, CheckRetirement, DisposalEnds, Requests,
       StartRequest, Headers, FetchFails, BeginRead, Chunk, BodyEnds, Cancel, ForceDrain,
       routeVars, statusVars, opVars, coreVars
  <2>2. QED
    BY <1>1, <2>1
<1>3. CASE \/ \E kind \in {"enable", "disable"} : Ask(kind)
           \/ BeginRestart \/ BeginDisable \/ Cleanup \/ OperationBlocks \/ RepairMaintenance
           \/ BeginEnable \/ Crash \/ CoreRestarts
  <2>1. /\ desiredEnabled' \in BOOLEAN /\ hasActivated' \in BOOLEAN
        /\ previous' \in BOOLEAN /\ invalidated' \in BOOLEAN
        /\ activeAccess' \in BOOLEAN
        /\ crashRecoveryPending' \in BOOLEAN /\ coreRestart' \in BOOLEAN
    BY <1>1, <1>3 DEF Ask, BeginRestart, BeginDisable, Cleanup, OperationBlocks, RepairMaintenance,
       BeginEnable, Crash, CoreRestarts, FailClosed, Disabled, statusVars, opVars, coreVars
  <2>2. \/ \E kind \in QueueKinds : queue' = Append(queue, kind)
        \/ queue # <<>> /\ (queue' = Tail(queue) \/ queue' = Append(Tail(queue), "restart"))
        \/ queue' = queue
    BY <1>1, <1>3 DEF Ask, BeginRestart, BeginDisable, Cleanup, OperationBlocks, RepairMaintenance,
       BeginEnable, Crash, CoreRestarts, Starts
  <2>3. queue' \in Seq(QueueKinds)
    BY <1>1, <2>2, QueueKept
  <2>4. QED
    BY <2>1, <2>3
<1>4. CASE \/ EnableFails \/ Commit \/ Recorded \/ RestartFails \/ CompleteDisable \/ DisableFails
           \/ DrainDone \/ BeginClose \/ CloseFails \/ CloseReleases \/ Closed
           \/ CandidateCrash \/ CoreGivesUp
  <2>1. /\ UNCHANGED previous /\ UNCHANGED queue
        /\ invalidated' \in {invalidated, TRUE}
        /\ crashRecoveryPending' \in {crashRecoveryPending, FALSE}
        /\ coreRestart' \in {coreRestart, FALSE}
    BY <1>4 DEF EnableFails, Commit, Recorded, RestartFails, CompleteDisable, DisableFails,
       DrainDone, BeginClose, CloseFails, CloseReleases, Closed, CandidateCrash, CoreGivesUp,
       statusVars, opVars, coreVars
  <2>2. activeAccess' \in {activeAccess, FALSE, TRUE}
    BY <1>4 DEF EnableFails, Commit, Recorded, RestartFails, CompleteDisable, DisableFails,
       DrainDone, BeginClose, CloseFails, CloseReleases, Closed, CandidateCrash, CoreGivesUp,
       RestoreReady, ReportError, ReleasedOrNot, statusVars, opVars, coreVars
  <2>3. /\ desiredEnabled' \in {desiredEnabled, FALSE, TRUE}
        /\ hasActivated' \in {hasActivated, FALSE, TRUE}
    BY <1>4 DEF EnableFails, Commit, Recorded, RestartFails, CompleteDisable, DisableFails,
       DrainDone, BeginClose, CloseFails, CloseReleases, Closed, CandidateCrash, CoreGivesUp,
       RestoreReady, ReportError, FailClosed, Disabled, DisableFailed, statusVars, opVars, coreVars
  <2>4. QED
    BY ZenonT(60), <1>1, <2>1, <2>2, <2>3
<1>5. QED
  BY <1>2, <1>3, <1>4 DEF RouteNext, Operations, Failures

OpKinds == {"none", "enable", "restart", "recording", "disable", "draining",
            "closing", "forcing", "closed"}
StatusKinds == {"disabled", "starting", "ready", "error", "stopping"}

StatusGoal == op \in OpKinds /\ status \in StatusKinds /\ StatusMatchesRoute

(* What Publish and KeepRoute say of the route.                            *)
LEMMA RouteFacts ==
  /\ \A kind \in {"external", "built-in", "blocked"} :
       Publish(kind) => (Ready' <=> kind = "built-in") /\ (Intercepting' <=> kind # "external")
  /\ KeepRoute => (Ready' <=> Ready) /\ (Intercepting' <=> Intercepting)
  /\ Ready => Intercepting
  BY DEF Publish, KeepRoute, Ready, Intercepting

(* One step per operation: the status it leaves is true of the route it    *)
(* leaves.                                                                 *)
LEMMA StepKeepsStatus ==
  ASSUME StatusInv, [RouteNext]_coordinatorVars
  PROVE  StatusGoal'
<1>1. StatusGoal
  BY DEF StatusInv, StatusGoal, OpKinds, StatusKinds
<1> USE RouteFacts DEF StatusGoal, OpKinds, StatusKinds, StatusMatchesRoute
<1>2. CASE UNCHANGED coordinatorVars \/ Clock \/ Requests \/ ForceDrain
  <2>1. UNCHANGED <<route, desiredEnabled, status, hasActivated, op>>
    BY <1>2 DEF coordinatorVars, Clock, Tick, CheckRetirement, DisposalEnds, Requests,
       StartRequest, Headers, FetchFails, BeginRead, Chunk, BodyEnds, Cancel, ForceDrain,
       routeVars, statusVars, opVars, coreVars
  <2>2. QED
    BY <1>1, <2>1 DEF Ready, Intercepting
<1>3. CASE (\E kind \in {"enable", "disable"} : Ask(kind)) \/ Cleanup \/ CandidateCrash
           \/ CoreRestarts \/ CoreGivesUp
  BY <1>1, <1>3 DEF Ask, Cleanup, CandidateCrash, CoreRestarts, CoreGivesUp, statusVars, opVars
<1>4. CASE BeginEnable
  BY <1>1, <1>4 DEF BeginEnable
<1>5. CASE BeginRestart
  BY <1>1, <1>5 DEF BeginRestart, Starts, statusVars
<1>6. CASE BeginDisable
  BY <1>1, <1>6 DEF BeginDisable
<1>7. CASE BeginClose \/ Recorded \/ Closed
  BY <1>1, <1>7 DEF BeginClose, Recorded, Closed, statusVars
<1>8. CASE EnableFails
  BY <1>1, <1>8 DEF EnableFails, RestoreReady, ReportError, FailClosed
<1>9. CASE RestartFails
  BY <1>1, <1>9 DEF RestartFails, FailClosed, statusVars
<1>10. CASE OperationBlocks
  BY <1>1, <1>10 DEF OperationBlocks, FailClosed, statusVars, opVars
<1>11. CASE Crash
  BY <1>1, <1>11 DEF Crash, FailClosed
<1>12. CASE Commit
  BY <1>1, <1>12 DEF Commit
<1>13. CASE CompleteDisable
  BY <1>1, <1>13 DEF CompleteDisable, Disabled
<1>14. CASE RepairMaintenance
  BY <1>1, <1>14 DEF RepairMaintenance, Disabled, MaintenanceError, opVars
<1>15. CASE CloseReleases
  BY <1>1, <1>15 DEF CloseReleases, Disabled, statusVars
<1>16. CASE DisableFails \/ CloseFails
  BY <1>1, <1>16 DEF DisableFails, CloseFails, DisableFailed
<1>17. CASE DrainDone
  BY <1>1, <1>17 DEF DrainDone, DisableFailed, statusVars
<1>18. QED
  BY <1>2, <1>3, <1>4, <1>5, <1>6, <1>7, <1>8, <1>9, <1>10, <1>11, <1>12, <1>13, <1>14, <1>15,
     <1>16, <1>17 DEF RouteNext, Operations, Failures

RouteInv == LeaseInv /\ StatusInv

LEMMA InitRoute == RouteInit => RouteInv
<1> SUFFICES ASSUME RouteInit PROVE RouteInv
  OBVIOUS
<1>1. NewLife \in Life
  BY DEF NewLife, Life
<1>2. InFlightCounted
  <2>1. ASSUME NEW g \in Generation PROVE CountedBy(life[g], g)
    <3>1. \A r \in PageRequest : usedBy[r] # g
      BY DEF RouteInit, Generation
    <3>2. Unreleased(g) = {} /\ \A P : Users(g, P) = {}
      BY <3>1 DEF Unreleased, Users
    <3>3. QED
      BY <3>2, FS_EmptySet DEF RouteInit, CountedBy, NewLife
  <2>2. QED
    BY <2>1, CountedNow
<1>3. LeaseInv
  BY <1>1, <1>2 DEF RouteInit, LeaseInv, RequestsSound, OnlyRetiredEnd, PublishedIsLive, Ready,
     NewLife
<1>4. StatusInv
  <2>1. queue \in Seq({"enable", "disable", "cleanup", "restart"})
    BY DEF RouteInit
  <2>2. StatusMatchesRoute
    BY DEF RouteInit, StatusMatchesRoute, Ready, Intercepting
  <2>3. /\ desiredEnabled \in BOOLEAN /\ hasActivated \in BOOLEAN
        /\ status \in {"disabled", "starting", "ready", "error", "stopping"}
        /\ op = "none" /\ previous \in BOOLEAN /\ invalidated \in BOOLEAN
        /\ activeAccess \in BOOLEAN /\ crashRecoveryPending \in BOOLEAN /\ coreRestart \in BOOLEAN
    BY DEF RouteInit
  <2>4. QED
    BY <2>1, <2>2, <2>3 DEF StatusInv
<1>5. QED
  BY <1>3, <1>4 DEF RouteInv

LEMMA StepRoute == RouteInv /\ [RouteNext]_coordinatorVars => RouteInv'
<1> SUFFICES ASSUME RouteInv, [RouteNext]_coordinatorVars PROVE RouteInv'
  OBVIOUS
<1>1. LeaseInv'
  BY StepKeepsLeases DEF RouteInv
<1>2. StatusInv'
  BY StepKeepsTypes, StepKeepsStatus
     DEF RouteInv, StatusInv, StatusGoal, QueueKinds, OpKinds, StatusKinds
<1>3. QED
  BY <1>1, <1>2 DEF RouteInv

LEMMA RouteInvariant == RouteSpec => []RouteInv
  BY InitRoute, StepRoute, PTL DEF RouteSpec
-----------------------------------------------------------------------------
(* The steps that take work from a generation.                             *)

(* A generation without leases has no request that waits or reads.         *)
LEMMA IdleHasNoWork ==
  ASSUME LeaseInv', NEW g \in Generation, life'[g].inFlight = 0
  PROVE  /\ Users(g, {"fetching", "reading"})' = {}
         /\ Users(g, {"paused"})' = {}
<1>1. /\ Unreleased(g)' \in SUBSET PageRequest
      /\ Cardinality(Unreleased(g)') = 0
  BY DEF LeaseInv, InFlightCounted, Unreleased
<1>2. Unreleased(g)' = {}
  BY <1>1, RouteConstants, FS_Subset, FS_EmptySet
<1>3. \A r \in PageRequest : usedBy'[r] = g => stage'[r] \in {"cancelled", "done"}
  BY <1>2 DEF Unreleased, LeaseInv, RequestsSound
<1>4. QED
  BY <1>3 DEF Users

(* A generation with no pending fetch and no read has only paused bodies.  *)
LEMMA NoCallsNoWork ==
  ASSUME LeaseInv', NEW g \in Generation,
         life'[g].pendingFetches = 0, life'[g].activeBodyReads = 0
  PROVE  Users(g, {"fetching", "reading"})' = {}
<1>1. /\ Users(g, {"fetching"})' \in SUBSET PageRequest
      /\ Users(g, {"reading", "cancelled"})' \in SUBSET PageRequest
      /\ Cardinality(Users(g, {"fetching"})') = 0
      /\ Cardinality(Users(g, {"reading", "cancelled"})') = 0
  BY DEF LeaseInv, InFlightCounted, Users
<1>2. Users(g, {"fetching"})' = {} /\ Users(g, {"reading", "cancelled"})' = {}
  BY <1>1, RouteConstants, FS_Subset, FS_EmptySet
<1>3. QED
  BY <1>2 DEF Users

Dying(g) == life[g].disposal = "no" /\ life'[g].disposal = "running"

(* A request ends its generation only by returning the last lease.         *)
LEMMA LastLeaseEnds ==
  ASSUME LeaseInv, Requests, NEW g \in Generation, Dying(g)
  PROVE  life'[g].inFlight = 0
<1>1. life \in [Generation -> Life] /\ now \in Nat
  BY DEF LeaseInv
<1>2. PICK r \in PageRequest : StartRequest(r) \/ Headers(r) \/ FetchFails(r) \/ BeginRead(r)
                               \/ Chunk(r) \/ BodyEnds(r) \/ Cancel(r)
  BY DEF Requests
<1>3. CASE StartRequest(r)
  <2>1. life' = [life EXCEPT ![route.generation].inFlight = @ + 1,
                            ![route.generation].pendingFetches = @ + 1]
    BY <1>3 DEF StartRequest
  <2>2. life'[g].disposal = life[g].disposal
    BY <1>1, <2>1 DEF Life
  <2>3. QED
    BY <2>2 DEF Dying
<1>4. ASSUME stage[r] # "new",
             NEW m, life' = [life EXCEPT ![usedBy[r]] = m],
             m.disposal = life[usedBy[r]].disposal \/ m.inFlight = 0
      PROVE  life'[g].inFlight = 0
  <2>1. usedBy[r] \in Generation
    BY <1>4, CountersPositive
  <2>2. QED
    BY <1>1, <1>4, <2>1 DEF Dying
<1> DEFINE l == life[usedBy[r]]
<1>5. CASE stage[r] = "new"
  BY <1>2, <1>3, <1>5 DEF Headers, FetchFails, BeginRead, Chunk, BodyEnds, Cancel
<1>6. CASE stage[r] # "new"
  <2>1. l \in Life
    BY <1>6, CountersPositive
  <2> DEFINE Kept(m) == m.disposal = l.disposal
             Ended(m) == Kept(m) \/ m.inFlight = 0
  <2>2. /\ Fetched(l).disposal = l.disposal /\ Failed(l).disposal = l.disposal
        /\ BegunRead(l).disposal = l.disposal /\ EndRead(l).disposal = l.disposal
    BY <2>1 DEF Fetched, Failed, BegunRead, EndRead, Life
  <2>3. CASE BeginRead(r) \/ Chunk(r)
    BY <1>4, <1>6, <2>2, <2>3 DEF BeginRead, Chunk, Update, BegunRead
  <2>4. CASE Headers(r) \/ FetchFails(r)
    <3>1. /\ l.pendingFetches > 0 /\ ~released[r]
      BY <1>6, <2>4, CountersPositive DEF Headers, FetchFails
    <3>2. Fetched(l) \in Life /\ Failed(l) \in Life
      BY <1>1, <2>1, <3>1, FetchedLife, FailedLife
    <3>3. /\ Ended(ReturnLease(Fetched(l)))
          /\ Ended(ReturnLease(Failed(l)))
      BY <2>2, <3>2, ReturnLeaseLife DEF SameEnd
    <3>4. \/ life' = [life EXCEPT ![usedBy[r]] = Fetched(l)]
          \/ life' = [life EXCEPT ![usedBy[r]] = ReturnLease(Fetched(l))]
          \/ life' = [life EXCEPT ![usedBy[r]] = ReturnLease(Failed(l))]
      BY <2>4, <3>1 DEF Headers, FetchFails, Update, Released, Failed
    <3>5. QED
      BY <1>4, <1>6, <2>2, <3>3, <3>4
  <2>5. CASE BodyEnds(r) \/ Cancel(r)
    <3> DEFINE n == Released(r, l)
    <3>1. Ended(n) /\ n \in Life
      BY <2>1, ReturnLeaseLife DEF Released, SameEnd
    <3>2. EndRead(n).disposal = n.disposal /\ EndRead(n).inFlight = n.inFlight
      BY <3>1 DEF EndRead, Life
    <3>3. \/ life' = [life EXCEPT ![usedBy[r]] = n]
          \/ life' = [life EXCEPT ![usedBy[r]] = EndRead(n)]
      BY <2>5 DEF BodyEnds, Cancel, Update
    <3> HIDE DEF n
    <3>4. QED
      BY <1>4, <1>6, <3>1, <3>2, <3>3
  <2>6. QED
    BY <1>2, <1>6, <2>3, <2>4, <2>5 DEF StartRequest
<1>7. QED
  BY <1>5, <1>6

LEMMA WorkIsKeptByStep ==
  ASSUME LeaseInv, [RouteNext]_coordinatorVars, NEW g \in Generation, Dying(g)
  PROVE  \/ op = "forcing"
         \/ Passed(life[g].deadline)
         \/ /\ Users(g, {"fetching", "reading"})' = {}
            /\ \/ Users(g, {"paused"})' = {}
               \/ now - life[g].lastActivity >= DrainTimeout
<1>1. LeaseInv' /\ life[g] \in Life /\ life \in [Generation -> Life] /\ now \in Nat
  BY StepKeepsLeases DEF LeaseInv
<1>2. CASE Requests
  BY <1>1, <1>2, LastLeaseEnds, IdleHasNoWork
<1>3. CASE Clock
  <2>1. ~Tick /\ ~ \E h \in Generation : DisposalEnds(h)
    BY <1>1 DEF Dying, Tick, DisposalEnds, Life
  <2>2. PICK h \in Generation : CheckRetirement(h)
    BY <1>3, <2>1 DEF Clock
  <2>3. h = g
    BY <1>1, <2>2 DEF CheckRetirement, Dying
  <2>4. life' = [life EXCEPT ![g] = StartDisposal(life[g])] \/ life' = [life EXCEPT ![g] = Scheduled(life[g])]
    BY <2>2, <2>3 DEF CheckRetirement
  <2>5. /\ life'[g].inFlight = life[g].inFlight
        /\ life'[g].pendingFetches = life[g].pendingFetches
        /\ life'[g].activeBodyReads = life[g].activeBodyReads
    BY <1>1, <2>4, StartDisposalLife, ScheduledLife DEF SameWork
  <2>6. life' # [life EXCEPT ![g] = Scheduled(life[g])]
    BY <1>1, ScheduledLife DEF Dying
  <2>7. \/ life[g].inFlight = 0
        \/ Passed(life[g].deadline)
        \/ /\ life[g].pendingFetches = 0 /\ life[g].activeBodyReads = 0
           /\ now - life[g].lastActivity >= DrainTimeout
    BY <2>2, <2>3, <2>6 DEF CheckRetirement
  <2>8. QED
    BY <1>1, <2>5, <2>7, IdleHasNoWork, NoCallsNoWork
<1>4. CASE \E kind \in {"external", "built-in", "blocked"} : Publish(kind)
  <2>1. life'[g] = Retire(life[g]) \/ life'[g].disposal = "no" \/ life'[g] = life[g]
    BY <1>4 DEF Publish, NewLife
  <2>2. life'[g].inFlight = 0
    BY <1>1, <2>1, RetireLife DEF Dying
  <2>3. QED
    BY <1>1, <2>2, IdleHasNoWork
<1>5. CASE KeepRoute \/ UNCHANGED coordinatorVars
  BY <1>5 DEF KeepRoute, coordinatorVars, Dying
<1>6. QED
  BY <1>2, <1>3, <1>4, <1>5, RouteOfOperations DEF RouteNext, ForceDrain

(* Only a disable or the end of the program brings the external route back. *)
LEMMA NoFallbackByStep ==
  ASSUME [RouteNext]_coordinatorVars, Intercepting, ~Intercepting'
  PROVE  op \in {"disable", "closing"} /\ ~desiredEnabled'
<1> USE RouteFacts
<1>1. CASE UNCHANGED coordinatorVars \/ Clock \/ Requests \/ ForceDrain
  <2>1. UNCHANGED route
    BY <1>1 DEF coordinatorVars, Clock, Tick, CheckRetirement, DisposalEnds, Requests,
       StartRequest, Headers, FetchFails, BeginRead, Chunk, BodyEnds, Cancel, ForceDrain, routeVars
  <2>2. QED
    BY <2>1 DEF Intercepting
<1>2. CASE \/ \E kind \in {"enable", "disable"} : Ask(kind)
           \/ BeginEnable \/ BeginRestart \/ BeginDisable \/ BeginClose \/ Cleanup \/ Recorded \/ Closed
           \/ DisableFails \/ DrainDone \/ CloseFails \/ CandidateCrash \/ CoreRestarts \/ CoreGivesUp
  BY <1>2 DEF Ask, BeginEnable, BeginRestart, BeginDisable, BeginClose, Cleanup, Recorded, Closed,
     DisableFails, DrainDone, CloseFails, DisableFailed, CandidateCrash, CoreRestarts, CoreGivesUp
<1>3. CASE EnableFails \/ RestartFails \/ OperationBlocks \/ Crash \/ Commit
  BY <1>3 DEF EnableFails, RestartFails, OperationBlocks, Crash, Commit, RestoreReady, ReportError,
     FailClosed
<1>4. CASE RepairMaintenance
  BY <1>4 DEF RepairMaintenance, MaintenanceError
<1>5. CASE CompleteDisable \/ CloseReleases
  BY <1>5 DEF CompleteDisable, CloseReleases, Disabled
<1>6. QED
  BY <1>1, <1>2, <1>3, <1>4, <1>5 DEF RouteNext, Operations, Failures
-----------------------------------------------------------------------------
(* Every variable has the type the module gives it (RouteTypeOK).          *)
THEOREM RouteTypeCorrect == RouteSpec => []RouteTypeOK
<1>1. RouteInv => RouteTypeOK
  BY DEF RouteInv, LeaseInv, StatusInv, RouteTypeOK
<1>2. QED
  BY <1>1, RouteInvariant, PTL

(* A generation counts each request once, from its start to its first      *)
(* release (executeBuiltIn and its release closure).                       *)
THEOREM LeasesCounted == RouteSpec => []InFlightCounted
<1>1. RouteInv => InFlightCounted
  BY DEF RouteInv, LeaseInv
<1>2. QED
  BY <1>1, RouteInvariant, PTL

(* The generation that new requests take is never retired (publish retires *)
(* only what it replaces).                                                 *)
THEOREM PublishedRouteIsLive == RouteSpec => []PublishedIsLive
<1>1. RouteInv => PublishedIsLive
  BY DEF RouteInv, LeaseInv
<1>2. QED
  BY <1>1, RouteInvariant, PTL

(* The status agrees with the route under every order of operations,       *)
(* crashes and restarts.                                                   *)
THEOREM StatusIsTrue == RouteSpec => []StatusMatchesRoute
<1>1. RouteInv => StatusMatchesRoute
  BY DEF RouteInv, StatusInv
<1>2. QED
  BY <1>1, RouteInvariant, PTL

(* Fail-closed: no failure hands requests back to the external route.      *)
THEOREM NeverFallsBack == RouteSpec => NoSilentFallback
<1>1. [RouteNext]_coordinatorVars =>
        [Intercepting /\ ~Intercepting' =>
           op \in {"disable", "closing"} /\ ~desiredEnabled']_coordinatorVars
  BY NoFallbackByStep
<1>2. QED
  BY <1>1, PTL DEF RouteSpec, NoSilentFallback

(* A retired generation is disposed of under its work only when a deadline *)
(* has passed or the program ends (retire, returnLease, checkRetirement).  *)
THEOREM WorkIsKept == RouteSpec => WorkKeepsGeneration
<1>1. RouteInv /\ [RouteNext]_coordinatorVars =>
        [\A g \in Generation :
           life[g].disposal = "no" /\ life'[g].disposal = "running" =>
             \/ op = "forcing"
             \/ Passed(life[g].deadline)
             \/ /\ Users(g, {"fetching", "reading"})' = {}
                /\ \/ Users(g, {"paused"})' = {}
                   \/ now - life[g].lastActivity >= DrainTimeout]_coordinatorVars
  BY WorkIsKeptByStep DEF Dying, RouteInv
<1>2. QED
  BY <1>1, RouteInvariant, PTL DEF RouteSpec, WorkKeepsGeneration
-----------------------------------------------------------------------------
(* What an acquisition is called with.                                     *)
Call == [op : LeaseOp, at : Stage, target : Endpoint \cup {NoClaim}, id : 0..MaxLeases,
         current : BOOLEAN, changed : BOOLEAN]

Complete(c) == c \in Call /\ (c.op = "acquire" => c.target \in Endpoint /\ c.id # 0)

Queue(cs) == cs \in Seq(Call) /\ \A i \in DOMAIN cs : Complete(cs[i])

LeaseTypes ==
  /\ settings \in Settings
  /\ {journal, record, draft} \subseteq LeaseRecord \cup {NoRecord}
  /\ leaseStatus \in {"idle", "recovering", "acquiring", "active", "releasing", "error"}
  /\ monitor \in 0..MaxLeases /\ made \in 0..MaxLeases
  /\ Complete(doing) /\ Queue(calls)
  /\ startup \in {"down", "first", "second", "done"}
  /\ watches \in 0..MaxWatches /\ faults \in 0..MaxFaults /\ deaths \in 0..MaxDeaths
  /\ choice \in [server : Foreign \cup {NoClaim}, all : Settings \cup {NoClaim}]

(* The stages of an operation that has no record yet, and of one that has. *)
Recordless == {"load", "capture", "save"}
WithRecord == {"compare", "restoreMode", "restoreBlob", "restoreServer", "announce", "check",
               "clear", "applyBlob", "applyServer", "applyMode", "notify", "confirm", "verify"}

(* The record in memory is the one on disk, and the stages go with them.   *)
RecordJournaled ==
  /\ record # NoRecord => journal = record
  /\ leaseStatus = "active" \/ doing.at \in WithRecord => record # NoRecord
  /\ doing.at \in Recordless => record = NoRecord
  /\ doing.at \in {"capture", "save"} => journal = NoRecord /\ doing.op = "acquire"
  /\ doing.at = "save" => draft # NoRecord
  /\ doing.at = "clear" => ~Owns(record)

(* No record restores settings that point at Stone+, and settings point    *)
(* only at the endpoint in the journal.                                    *)
Unmarked(s) == s.server \notin Endpoint /\ s.blob \notin Endpoint

MarksJournaled ==
  /\ \A r \in {journal, draft} \ {NoRecord} : Unmarked(r.original)
  /\ \A p \in {settings.server, settings.blob} \cap Endpoint : journal # NoRecord /\ p = journal.target

(* The chosen server is in place or remembered.                            *)
ServerKept ==
  choice.server # NoClaim =>
    /\ \/ settings.server = choice.server
       \/ settings.server \in Endpoint /\ journal # NoRecord /\ journal.original.server = choice.server
    /\ doing.at = "save" => draft.original.server = choice.server
    /\ doing.at \in {"applyBlob", "applyServer"} => journal.original.server = choice.server

(* All chosen settings are in place, before a takeover or because they     *)
(* were chosen during it, or the journal remembers them and what differs   *)
(* from them is Stone+'s own.                                              *)
Chosen ==
  /\ settings = choice.all /\ Unmarked(settings)
  /\ settings.server # journal.original.server
  /\ doing.at \notin {"restoreMode", "applyBlob", "applyServer", "applyMode"}

TakenOver ==
  LET was == journal.original
  IN /\ was = choice.all
     /\ settings.blob \in {was.blob, journal.target}
     /\ settings.server \in {was.server, journal.target}
     /\ settings.mode = was.mode \/ (settings.mode = "manual" /\ settings.server = journal.target)
     /\ doing.at = "applyBlob" => settings = was
     /\ doing.at = "applyServer" => settings.mode = was.mode
     /\ doing.at = "applyMode" => settings.server = journal.target
     /\ doing.at \in {"restoreBlob", "restoreServer"} => settings.mode = was.mode
     /\ doing.at = "restoreServer" => settings.blob = was.blob
     /\ doing.at \in {"announce", "check", "clear"} => settings = was

AllKept ==
  choice.all # NoClaim =>
    IF journal = NoRecord
      THEN settings = choice.all /\ (doing.at = "save" => draft.original = choice.all)
      ELSE Chosen \/ TakenOver

TakeoverInv ==
  /\ LeaseTypes /\ RecordJournaled /\ MarksJournaled
  /\ ServerKept /\ AllKept

LEMMA TypesImply == LeaseTypes => LeaseTypeOK
  BY DEF LeaseTypes, LeaseTypeOK, Queue, Complete, Call

LEMMA NewCall ==
  ASSUME NEW what \in LeaseOp, NEW t \in Endpoint \cup {NoClaim}, NEW id \in 0..MaxLeases
  PROVE  /\ Operation(what, t, id) \in Call
         /\ what # "acquire" \/ (t \in Endpoint /\ id # 0) => Complete(Operation(what, t, id))
<1>1. Operation(what, t, id) \in Call
  BY DEF Operation, Call, Stage
<1>2. QED
  BY <1>1 DEF Operation, Complete

LEMMA NothingKnown == Complete(Nothing) /\ Nothing.at = "called" /\ Nothing.op = "none"
<1>1. "none" \in LeaseOp /\ NoClaim \in Endpoint \cup {NoClaim} /\ 0 \in 0..MaxLeases
  BY LeaseConstants DEF LeaseOp
<1>2. QED
  BY <1>1, NewCall DEF Nothing, Operation

(* What an operation keeps when it goes on and when its watch is outdated. *)
LEMMA GoesOn ==
  ASSUME NEW c, Complete(c), NEW point \in Stage
  PROVE  /\ Complete([c EXCEPT !.at = point])
         /\ [c EXCEPT !.at = point].at = point /\ [c EXCEPT !.at = point].op = c.op
         /\ \A b \in BOOLEAN : /\ Complete([c EXCEPT !.at = point, !.changed = b])
                               /\ [c EXCEPT !.at = point, !.changed = b].at = point
                               /\ [c EXCEPT !.at = point, !.changed = b].op = c.op
         /\ Complete(Outdated(c)) /\ Outdated(c).at = c.at /\ Outdated(c).op = c.op
<1>1. [c EXCEPT !.at = point] \in Call /\ Outdated(c) \in Call
      /\ \A b \in BOOLEAN : [c EXCEPT !.at = point, !.changed = b] \in Call
  BY DEF Complete, Call, Outdated
<1>2. QED
  BY <1>1 DEF Complete, Call, Outdated

LEMMA QueueMoves ==
  ASSUME NEW cs, Queue(cs)
  PROVE  /\ Queue(Stale(cs)) /\ Queue(<<>>)
         /\ cs # <<>> => Complete(Head(cs)) /\ Queue(Tail(cs))
         /\ \A c : Complete(c) => Queue(Append(cs, c)) /\ Queue(<<c>>)
<1>1. /\ cs \in Seq(Call) /\ Len(cs) \in Nat /\ DOMAIN cs = 1..Len(cs)
      /\ \A i \in 1..Len(cs) : cs[i] \in Call /\ Complete(cs[i])
  BY DEF Queue
<1>2. Queue(Stale(cs))
  <2>1. "called" \in Stage
    BY DEF Stage
  <2>2. \A i \in 1..Len(cs) : Complete(Outdated(cs[i])) /\ Outdated(cs[i]) \in Call
    BY <1>1, <2>1, GoesOn DEF Complete
  <2>3. Stale(cs) \in Seq(Call) /\ DOMAIN Stale(cs) = 1..Len(cs)
        /\ \A i \in 1..Len(cs) : Stale(cs)[i] = Outdated(cs[i])
    BY <1>1, <2>2 DEF Stale
  <2>4. QED
    BY <2>2, <2>3 DEF Queue
<1>3. ASSUME cs # <<>> PROVE Complete(Head(cs)) /\ Queue(Tail(cs))
  <2>1. Head(cs) = cs[1] /\ 1 \in 1..Len(cs)
    BY <1>1, <1>3
  <2>2. /\ Tail(cs) \in Seq(Call) /\ Len(Tail(cs)) \in Nat /\ DOMAIN Tail(cs) = 1..Len(Tail(cs))
        /\ \A i \in 1..Len(Tail(cs)) : Tail(cs)[i] = cs[i + 1] /\ i + 1 \in 1..Len(cs)
    BY <1>1, <1>3
  <2>3. QED
    BY <1>1, <2>1, <2>2 DEF Queue
<1>4. ASSUME NEW c, Complete(c) PROVE Queue(Append(cs, c)) /\ Queue(<<c>>)
  <2>1. c \in Call
    BY <1>4 DEF Complete
  <2>2. /\ Append(cs, c) \in Seq(Call) /\ DOMAIN Append(cs, c) = 1..(Len(cs) + 1)
        /\ \A i \in 1..(Len(cs) + 1) : Append(cs, c)[i] = IF i <= Len(cs) THEN cs[i] ELSE c
    BY <1>1, <2>1
  <2>3. <<c>> \in Seq(Call) /\ DOMAIN <<c>> = {1} /\ <<c>>[1] = c
    BY <2>1
  <2>4. Queue(Append(cs, c))
    BY <1>1, <1>4, <2>2 DEF Queue
  <2>5. Queue(<<c>>)
    BY <1>4, <2>3 DEF Queue
  <2>6. QED
    BY <2>4, <2>5
<1>5. Queue(<<>>)
  BY DEF Queue
<1>6. QED
  BY <1>2, <1>3, <1>4, <1>5

LEMMA WritesQueue ==
  ASSUME LeaseTypes, NEW new, NEW next \in Stage, Writes(new, next)
  PROVE  Complete(doing') /\ Queue(calls')
<1>1. Complete(doing) /\ Queue(calls)
  BY DEF LeaseTypes
<1>2. CASE calls' = calls /\ doing' = [doing EXCEPT !.at = next, !.changed = @ \/ new # settings]
  <2>1. (doing.changed \/ new # settings) \in BOOLEAN
    BY <1>1 DEF Complete, Call
  <2>2. Complete(doing')
    BY <1>1, <1>2, <2>1, GoesOn
  <2>3. QED
    BY <1>1, <1>2, <2>2
<1>3. CASE Fail
  BY <1>1, <1>3, QueueMoves, NothingKnown DEF Fail
<1>4. QED
  BY <1>2, <1>3 DEF Writes

LEMMA CallsQueue ==
  ASSUME LeaseTypes, Calls \/ MonitorFires \/ Starting \/ Started \/ ProcessDies
  PROVE  Complete(doing') /\ Queue(calls')
<1>1. Complete(doing) /\ Queue(calls) /\ made \in 0..MaxLeases /\ monitor \in 0..MaxLeases
      /\ MaxLeases \in Nat /\ 0 \in 0..MaxLeases
  BY LeaseConstants DEF LeaseTypes
<1>2. "called" \in Stage
  BY DEF Stage
<1>3. Complete(Outdated(doing)) /\ Queue(Stale(calls)) /\ Queue(<<>>)
  BY <1>1, <1>2, GoesOn, QueueMoves
<1>4. ASSUME NEW cs, Queue(cs), NEW c, Complete(c) PROVE Queue(Append(cs, c)) /\ Queue(<<c>>)
  BY <1>4, QueueMoves
<1>5. ASSUME NEW t \in Endpoint, CallAcquire(t) PROVE Complete(doing') /\ Queue(calls')
  <2>1. made + 1 \in 0..MaxLeases /\ made + 1 # 0
    BY <1>1, <1>5 DEF CallAcquire
  <2>2. Complete(Operation("acquire", t, made + 1))
    BY <2>1, NewCall DEF LeaseOp
  <2>3. QED
    BY <1>1, <1>4, <1>5, <2>2 DEF CallAcquire
<1>6. ASSUME NEW t \in Endpoint, NEW id \in 1..MaxLeases, CallVerify(t, id) PROVE Complete(doing') /\ Queue(calls')
  <2>1. Complete(Operation("verify", t, id))
    BY <1>1, NewCall DEF LeaseOp
  <2>2. QED
    BY <1>1, <1>4, <1>6, <2>1 DEF CallVerify
<1>7. /\ Complete(Operation("recover", NoClaim, 0)) /\ Complete(Operation("release", NoClaim, 0))
      /\ Complete(Operation("watch", NoClaim, monitor))
  BY <1>1, NewCall DEF LeaseOp
<1>8. CASE CallRecover \/ CallRelease \/ StartMonitoring \/ MonitorFires
  BY <1>1, <1>3, <1>4, <1>7, <1>8 DEF CallRecover, CallRelease, StartMonitoring, MonitorFires
<1>9. CASE Starting
  BY <1>1, <1>4, <1>7, <1>9 DEF Starting
<1>10. CASE Started \/ ProcessDies
  BY <1>1, <1>3, <1>10, NothingKnown DEF Started, ProcessDies, memory
<1>11. QED
  BY <1>5, <1>6, <1>8, <1>9, <1>10 DEF Calls

LEMMA ProceedsQueue ==
  ASSUME LeaseTypes, Proceeds
  PROVE  Complete(doing') /\ Queue(calls')
<1>1. Complete(doing) /\ Queue(calls) /\ Complete(Nothing)
  BY NothingKnown DEF LeaseTypes
<1>2. \A cs : Queue(cs) => Queue(Stale(cs))
  BY QueueMoves
<1>3. calls # <<>> => Complete(Head(calls)) /\ Queue(Tail(calls)) /\ Queue(Stale(Tail(calls)))
  BY <1>1, <1>2, QueueMoves
<1>4. CASE Begin
  <2>1. calls # <<>>
    BY <1>4 DEF Begin, BeginAcquire, BeginRelease, BeginRecover, BeginVerify, BeginWatch, Begins
  <2>2. \A point \in Stage : Complete([Head(calls) EXCEPT !.at = point])
    BY <1>3, <2>1, GoesOn
  <2>3. \/ \E point \in {"verify", "compare", "load", "observe"} : BeginsAt(point)
        \/ doing' = Nothing
    BY <1>4 DEF Begin, BeginAcquire, BeginRelease, BeginRecover, BeginVerify, BeginWatch, Advance, RefuseCall
  <2>4. calls' = Tail(calls) \/ calls' = Stale(Tail(calls))
    BY <1>4 DEF Begin, BeginAcquire, BeginRelease, BeginRecover, BeginVerify, BeginWatch, Advance, RefuseCall
  <2>5. Complete(doing')
    BY <1>1, <2>2, <2>3 DEF BeginsAt, Stage
  <2>6. QED
    BY <1>3, <2>1, <2>4, <2>5
<1>5. CASE RestoreMode \/ RestoreBlob \/ RestoreServer \/ ApplyBlob \/ ApplyServer \/ ApplyMode
  BY <1>5, WritesQueue DEF RestoreMode, RestoreBlob, RestoreServer, ApplyBlob, ApplyServer, ApplyMode, Stage
<1>6. CASE Load \/ Compare \/ Announce \/ Check \/ Clear \/ Capture \/ Save \/ Notify \/ Confirm \/ Observe \/ Settle
  <2>1. \A point \in Stage : /\ Complete([doing EXCEPT !.at = point])
                             /\ Complete([doing EXCEPT !.at = point, !.changed = FALSE])
    BY <1>1, GoesOn
  <2>2. \/ \E point \in {"capture", "compare", "announce", "check", "restoreMode", "clear", "save", "applyBlob",
                         "confirm", "drifted", "applied"} :
             \/ doing' = [doing EXCEPT !.at = point]
             \/ doing' = [doing EXCEPT !.at = point, !.changed = FALSE]
        \/ doing' = Nothing
    BY <1>6 DEF Load, Compare, Announce, Check, Clear, Capture, Save, Notify, Confirm, Observe, Settle, At, Ends, Fail,
                FinishIdle
  <2>3. calls' = calls \/ calls' = Stale(calls)
    BY <1>6 DEF Load, Compare, Announce, Check, Clear, Capture, Save, Notify, Confirm, Observe, Settle, At, Ends, Fail,
                FinishIdle
  <2>4. Complete(doing')
    BY <1>1, <2>1, <2>2 DEF Stage
  <2>5. QED
    BY <1>1, <1>2, <2>3, <2>4
<1>7. QED
  BY <1>4, <1>5, <1>6 DEF Proceeds, Restores, Acquires

LEMMA KnownRecord ==
  ASSUME TakeoverInv, leaseStatus = "active" \/ doing.at \in WithRecord
  PROVE  /\ record # NoRecord /\ journal = record /\ record \in LeaseRecord
         /\ record.target \in Endpoint /\ record.id \in 1..MaxLeases
         /\ record.original \in Settings
<1>1. record # NoRecord /\ journal = record /\ record \in LeaseRecord
  BY DEF TakeoverInv, LeaseTypes, RecordJournaled
<1>2. QED
  BY <1>1 DEF LeaseRecord

(* The parts of the types that a step changes one by one.                  *)
ScalarTypes ==
  /\ settings \in Settings
  /\ {journal, record, draft} \subseteq LeaseRecord \cup {NoRecord}
  /\ leaseStatus \in {"idle", "recovering", "acquiring", "active", "releasing", "error"}
  /\ monitor \in 0..MaxLeases /\ made \in 0..MaxLeases
  /\ startup \in {"down", "first", "second", "done"}
  /\ watches \in 0..MaxWatches /\ faults \in 0..MaxFaults /\ deaths \in 0..MaxDeaths
  /\ choice \in [server : Foreign \cup {NoClaim}, all : Settings \cup {NoClaim}]

LEMMA WritesScalars ==
  ASSUME TakeoverInv, NEW new \in Settings, NEW next, Writes(new, next)
  PROVE  ScalarTypes'
  BY LeaseConstants DEF TakeoverInv, LeaseTypes, ScalarTypes, Writes, Fault, Works, Fail

(* The values that the commands write.                                     *)
LEMMA WrittenSettings ==
  ASSUME NEW s \in Settings, NEW p \in Endpoint \cup Foreign, NEW m \in Mode
  PROVE  /\ [s EXCEPT !.blob = p] \in Settings /\ [s EXCEPT !.server = p] \in Settings
         /\ [s EXCEPT !.mode = m] \in Settings
         /\ [s EXCEPT !.blob = p].blob = p /\ [s EXCEPT !.server = p].server = p /\ [s EXCEPT !.mode = m].mode = m
         /\ [s EXCEPT !.blob = p].server = s.server /\ [s EXCEPT !.blob = p].mode = s.mode
         /\ [s EXCEPT !.server = p].blob = s.blob /\ [s EXCEPT !.server = p].mode = s.mode
         /\ [s EXCEPT !.mode = m].blob = s.blob /\ [s EXCEPT !.mode = m].server = s.server
  BY DEF Settings

LEMMA SettingsFields ==
  ASSUME NEW s \in Settings
  PROVE  /\ s.blob \in Endpoint \cup Foreign /\ s.server \in Endpoint \cup Foreign /\ s.mode \in Mode
         /\ \A t \in Settings : s.blob = t.blob /\ s.server = t.server /\ s.mode = t.mode => s = t
  BY DEF Settings

LEMMA ScalarsStep ==
  ASSUME TakeoverInv, LeaseNext
  PROVE  ScalarTypes'
<1>1. LeaseTypes
  BY DEF TakeoverInv
<1>2. settings \in Settings /\ settings.blob \in Endpoint \cup Foreign /\ settings.server \in Endpoint \cup Foreign
      /\ settings.mode \in Mode
  BY <1>1, SettingsFields DEF LeaseTypes
<1>3. CASE Begin
  <2>1. /\ monitor' \in {monitor, 0} /\ leaseStatus' \in {leaseStatus, "error", "recovering", "releasing"}
        /\ record' = record /\ UNCHANGED <<outside, journal, draft, startup, watches, counters>>
    BY <1>3 DEF Begin, BeginAcquire, BeginRelease, BeginRecover, BeginVerify, BeginWatch, Advance, RefuseCall
  <2>2. QED
    BY <1>1, <2>1, LeaseConstants DEF LeaseTypes, ScalarTypes, outside, counters
<1>4. ASSUME doing.at \in {"restoreMode", "restoreBlob", "restoreServer", "applyBlob", "applyServer", "applyMode"},
             \/ RestoreMode \/ RestoreBlob \/ RestoreServer \/ ApplyBlob \/ ApplyServer \/ ApplyMode
      PROVE  ScalarTypes'
  <2>1. record.target \in Endpoint /\ record.original \in Settings
    BY <1>4, KnownRecord DEF WithRecord
  <2>2. /\ record.original.blob \in Endpoint \cup Foreign /\ record.original.server \in Endpoint \cup Foreign
        /\ record.original.mode \in Mode
    BY <2>1, SettingsFields
  <2>3. \A p \in Endpoint \cup Foreign : [settings EXCEPT !.blob = p] \in Settings /\ [settings EXCEPT !.server = p] \in Settings
    BY <1>2 DEF Settings
  <2>4. \A m \in Mode : [settings EXCEPT !.mode = m] \in Settings
    BY <1>2 DEF Settings
  <2>5. CASE RestoreMode
    BY <1>2, <2>2, <2>4, <2>5, WritesScalars DEF RestoreMode
  <2>6. CASE RestoreBlob
    BY <1>2, <2>2, <2>3, <2>6, WritesScalars DEF RestoreBlob
  <2>7. CASE RestoreServer
    BY <1>2, <2>2, <2>3, <2>7, WritesScalars DEF RestoreServer
  <2>8. CASE ApplyBlob
    BY <2>1, <2>3, <2>8, WritesScalars DEF ApplyBlob
  <2>9. CASE ApplyServer
    BY <2>1, <2>3, <2>9, WritesScalars DEF ApplyServer
  <2>10. CASE ApplyMode
    BY <2>4, <2>10, WritesScalars DEF ApplyMode, Mode
  <2>11. QED
    BY <1>4, <2>5, <2>6, <2>7, <2>8, <2>9, <2>10
<1>5. CASE RestoreMode \/ RestoreBlob \/ RestoreServer \/ ApplyBlob \/ ApplyServer \/ ApplyMode
  BY <1>4, <1>5 DEF RestoreMode, RestoreBlob, RestoreServer, ApplyBlob, ApplyServer, ApplyMode
<1>6. CASE Load \/ Compare \/ Check \/ Clear \/ Notify \/ Confirm \/ Observe
  <2>1. faults' \in 0..MaxFaults
    BY <1>1, <1>6, LeaseConstants DEF LeaseTypes, Load, Compare, Check, Clear, Notify, Confirm, Observe, Fault, Works
  <2>2. monitor' \in 0..MaxLeases
    BY <1>1, <1>6, LeaseConstants DEF LeaseTypes, Load, Compare, Check, Clear, Notify, Confirm, Observe, Fail,
       FinishIdle
  <2>3. {journal', record', draft'} \subseteq LeaseRecord \cup {NoRecord}
    BY <1>1, <1>6 DEF LeaseTypes, Load, Compare, Check, Clear, Notify, Confirm, Observe, Fail, FinishIdle
  <2>4. /\ leaseStatus' \in {"idle", "recovering", "acquiring", "active", "releasing", "error"}
        /\ UNCHANGED <<made, startup, watches, deaths, settings, choice>>
    BY <1>1, <1>6 DEF LeaseTypes, Load, Compare, Check, Clear, Notify, Confirm, Observe, Fail, FinishIdle, outside
  <2>5. QED
    BY <1>1, <2>1, <2>2, <2>3, <2>4 DEF LeaseTypes, ScalarTypes
<1>7. CASE Announce
  <2>1. record.target \in Endpoint
    BY <1>7, KnownRecord DEF Announce, WithRecord
  <2>2. [settings EXCEPT !.server = record.target] \in Settings
    BY <1>2, <2>1 DEF Settings
  <2>3. settings' \in Settings
    BY <1>2, <1>7, <2>2 DEF Announce
  <2>4. QED
    BY <1>1, <1>7, <2>3, LeaseConstants DEF LeaseTypes, ScalarTypes, Announce, Fault, Works, Fail, At
<1>8. CASE Capture
  <2>1. doing.op = "acquire" /\ Complete(doing)
    BY <1>1, <1>8 DEF Capture, LeaseTypes, TakeoverInv, RecordJournaled
  <2>2. doing.target \in Endpoint /\ doing.id \in 1..MaxLeases
    BY <2>1, LeaseConstants DEF Complete, Call
  <2>3. [id |-> doing.id, target |-> doing.target, original |-> settings] \in LeaseRecord
    BY <1>2, <2>2 DEF LeaseRecord
  <2>4. draft' \in LeaseRecord \cup {NoRecord}
    BY <1>1, <1>8, <2>3 DEF Capture, LeaseTypes
  <2>5. QED
    BY <1>1, <1>8, <2>4, LeaseConstants DEF LeaseTypes, ScalarTypes, Capture, Fault, Works, Fail, At, outside
<1>9. CASE Save
  BY <1>1, <1>9, LeaseConstants DEF LeaseTypes, ScalarTypes, Save, Fault, Works, Fail, At, outside
<1>10. CASE Settle
  <2>1. monitor' \in 0..MaxLeases
    <3>1. CASE StillOwns(doing) /\ monitor' = record.id
      BY <3>1, KnownRecord, LeaseConstants DEF StillOwns
    <3>2. CASE monitor' = monitor \/ monitor' = 0
      BY <1>1, <3>2, LeaseConstants DEF LeaseTypes
    <3>3. QED
      BY <1>10, <3>1, <3>2 DEF Settle, Fail
  <2>2. QED
    BY <1>1, <1>10, <2>1 DEF LeaseTypes, ScalarTypes, Settle, Fail, Ends, outside, counters
<1>11. CASE StartMonitoring
  <2>1. record.id \in 0..MaxLeases
    BY <1>11, KnownRecord, LeaseConstants DEF StartMonitoring
  <2>2. QED
    BY <1>1, <1>11, <2>1, LeaseConstants DEF LeaseTypes, ScalarTypes, StartMonitoring, outside, counters
<1>12. CASE (\E t \in Endpoint : CallAcquire(t) \/ \E id \in 1..MaxLeases : CallVerify(t, id)) \/ CallRecover
            \/ CallRelease \/ MonitorFires \/ Starting \/ Started \/ ProcessDies
  <2>1. /\ settings' = settings /\ choice' = choice /\ journal' = journal /\ faults' = faults
        /\ record' \in {record, NoRecord} /\ draft' \in {draft, NoRecord} /\ leaseStatus' \in {leaseStatus, "idle"}
        /\ startup' \in {startup, "first", "second", "done", "down"}
    BY <1>12 DEF CallAcquire, CallVerify, CallRecover, CallRelease,
     MonitorFires, Starting, Started, ProcessDies, outside, counters, memory
  <2>2. monitor' \in {monitor, 0} /\ watches' \in {watches, 0}
    BY <1>12 DEF CallAcquire, CallVerify, CallRecover, CallRelease,
     MonitorFires, Starting, Started, ProcessDies, outside, counters, memory
  <2>3. made' \in 0..MaxLeases /\ deaths' \in 0..MaxDeaths
    BY <1>1, <1>12, LeaseConstants DEF LeaseTypes, CallAcquire, CallVerify, CallRecover, CallRelease,
     MonitorFires, Starting, Started, ProcessDies, counters
  <2>4. 0 \in 0..MaxLeases /\ 0 \in 0..MaxWatches
    BY LeaseConstants
  <2>5. QED
    BY <1>1, <2>1, <2>2, <2>3, <2>4 DEF LeaseTypes, ScalarTypes
<1>13. ASSUME NEW p \in Foreign, NEW m \in Mode, NEW b \in {p, settings.blob}, Chooses(p, m, b)
       PROVE  ScalarTypes'
  <2>1. settings' \in Settings
    BY <1>2, <1>13 DEF Chooses, Settings
  <2>2. choice' \in [server : Foreign \cup {NoClaim}, all : Settings \cup {NoClaim}]
    BY <1>13, <2>1 DEF Chooses
  <2>3. QED
    BY <1>1, <1>13, <2>1, <2>2 DEF LeaseTypes, ScalarTypes, Chooses, memory, counters
<1>14. QED
  BY <1>3, <1>5, <1>6, <1>7, <1>8, <1>9, <1>10, <1>11, <1>12, <1>13
     DEF LeaseNext, Proceeds, Restores, Acquires, Calls

LEMMA LeaseTypesStep ==
  ASSUME TakeoverInv, LeaseNext
  PROVE  LeaseTypes'
<1>1. LeaseTypes /\ ScalarTypes'
  BY ScalarsStep DEF TakeoverInv
<1>2. Complete(doing') /\ Queue(calls')
  BY <1>1, CallsQueue, ProceedsQueue DEF LeaseNext, Chooses, memory, LeaseTypes
<1>3. QED
  BY <1>1, <1>2 DEF LeaseTypes, ScalarTypes

(* The point an operation goes on to, and its end.                         *)
LEMMA DoingMoves ==
  ASSUME TakeoverInv
  PROVE  /\ doing.at \in Stage /\ doing.op \in LeaseOp
         /\ \A point : [doing EXCEPT !.at = point].at = point /\ [doing EXCEPT !.at = point].op = doing.op
         /\ \A point, b : /\ [doing EXCEPT !.at = point, !.changed = b].at = point
                          /\ [doing EXCEPT !.at = point, !.changed = b].op = doing.op
         /\ Outdated(doing).at = doing.at /\ Outdated(doing).op = doing.op
         /\ Nothing.at = "called" /\ Nothing.op = "none"
  BY NothingKnown DEF TakeoverInv, LeaseTypes, Complete, Call, Outdated

LEMMA FailKeeps ==
  ASSUME TakeoverInv, Fail, journal' = journal \/ record = NoRecord
  PROVE  RecordJournaled'
<1>1. doing'.at = "called" /\ leaseStatus' = "error" /\ record' = record
  BY DoingMoves DEF Fail
<1>2. QED
  BY <1>1 DEF TakeoverInv, RecordJournaled, WithRecord, Recordless

LEMMA WritesKeep ==
  ASSUME TakeoverInv, NEW new, NEW next \in WithRecord \ {"clear"}, Writes(new, next), doing.at \in WithRecord
  PROVE  RecordJournaled'
<1>1. journal' = journal
  BY DEF Writes
<1>2. CASE doing'.at = next /\ UNCHANGED <<leaseStatus, record>>
  <2>1. next \notin Recordless /\ next \notin {"capture", "save", "clear"}
    BY DEF WithRecord, Recordless
  <2>2. QED
    BY <1>1, <1>2, <2>1 DEF TakeoverInv, RecordJournaled
<1>3. CASE Fail
  BY <1>1, <1>3, FailKeeps
<1>4. [doing EXCEPT !.at = next, !.changed = @ \/ new # settings].at = next
  BY DEF TakeoverInv, LeaseTypes, Complete, Call
<1>5. QED
  BY <1>2, <1>3, <1>4 DEF Writes

LEMMA StillKeeps ==
  ASSUME TakeoverInv, UNCHANGED <<journal, record>>, leaseStatus' = "active" => record # NoRecord,
         \/ doing'.at \notin WithRecord \cup Recordless
         \/ UNCHANGED <<settings, draft>> /\ doing'.at = doing.at /\ doing'.op = doing.op
         \/ doing'.at \in WithRecord \ {"clear"} /\ record # NoRecord
         \/ doing'.at = "load" /\ record = NoRecord
  PROVE  RecordJournaled'
  BY DEF TakeoverInv, RecordJournaled, WithRecord, Recordless, Owns

LEMMA BeginKeeps ==
  ASSUME TakeoverInv, Begin
  PROVE  RecordJournaled'
<1>1. /\ journal' = journal /\ record' = record
      /\ leaseStatus' \in {leaseStatus, "error", "recovering", "releasing"}
  BY DEF Begin, BeginAcquire, BeginRelease, BeginRecover, BeginVerify, BeginWatch, Advance, RefuseCall
<1>2. leaseStatus' = "active" => record # NoRecord
  BY <1>1 DEF TakeoverInv, RecordJournaled
<1>3. calls # <<>>
  BY DEF Begin, BeginAcquire, BeginRelease, BeginRecover, BeginVerify, BeginWatch, Begins
<1>4. Head(calls) \in Call
  BY <1>3, QueueMoves DEF TakeoverInv, LeaseTypes, Complete
<1>5. \A point : BeginsAt(point) => doing'.at = point
  BY <1>4 DEF BeginsAt, Call
<1>6. leaseStatus = "active" => record # NoRecord
  BY DEF TakeoverInv, RecordJournaled
<1>7. CASE doing' = Nothing \/ BeginsAt("observe")
  BY <1>1, <1>2, <1>5, <1>7, StillKeeps, DoingMoves DEF WithRecord, Recordless
<1>8. CASE BeginsAt("verify") /\ leaseStatus = "active"
  BY <1>1, <1>2, <1>5, <1>6, <1>8, StillKeeps DEF WithRecord
<1>9. CASE BeginsAt("compare") /\ record # NoRecord
  BY <1>1, <1>2, <1>5, <1>9, StillKeeps DEF WithRecord
<1>10. CASE BeginsAt("load") /\ record = NoRecord
  BY <1>1, <1>2, <1>5, <1>10, StillKeeps
<1>11. QED
  BY <1>7, <1>8, <1>9, <1>10 DEF Begin, BeginAcquire, BeginRelease, BeginRecover, BeginVerify, BeginWatch, Advance,
     RefuseCall

LEMMA RestoresKeep ==
  ASSUME TakeoverInv, Restores
  PROVE  RecordJournaled'
<1>1. RecordJournaled
  BY DEF TakeoverInv
<1>2. CASE RestoreMode \/ RestoreBlob \/ RestoreServer
  BY <1>2, WritesKeep DEF RestoreMode, RestoreBlob, RestoreServer, WithRecord
<1>3. CASE Load
  <2>1. CASE Fail
    BY <1>3, <2>1, FailKeeps DEF Load
  <2>2. CASE journal = NoRecord /\ doing.op = "acquire" /\ At("capture") /\ leaseStatus' = "acquiring" /\ UNCHANGED record
    <3>1. doing'.at = "capture" /\ doing'.op = "acquire" /\ record' = NoRecord /\ journal' = NoRecord
      BY <1>1, <1>3, <2>2, DoingMoves DEF At, Load, RecordJournaled, Recordless
    <3>2. QED
      BY <2>2, <3>1 DEF RecordJournaled, WithRecord
  <2>3. CASE FinishIdle(calls)
    BY <2>3, DoingMoves DEF FinishIdle, RecordJournaled, WithRecord, Recordless
  <2>4. CASE journal # NoRecord /\ record' = journal /\ doing' = [doing EXCEPT !.at = "compare"]
             /\ leaseStatus' \in {"releasing", "recovering"}
    <3>1. doing'.at = "compare" /\ journal' = journal
      BY <1>3, <2>4, DoingMoves DEF Load
    <3>2. QED
      BY <2>4, <3>1 DEF RecordJournaled, WithRecord, Recordless
  <2>5. QED
    BY <1>3, <2>1, <2>2, <2>3, <2>4 DEF Load
<1>4. CASE Compare \/ Announce
  <2>1. record # NoRecord /\ journal' = journal
    BY <1>1, <1>4 DEF Compare, Announce, RecordJournaled, WithRecord
  <2>2. CASE Fail
    BY <2>1, <2>2, FailKeeps
  <2>3. CASE UNCHANGED <<leaseStatus, record>> /\ (At("announce") \/ At("check") \/ At("restoreMode"))
    <3>1. doing'.at \in WithRecord \ {"clear"}
      <4>1. doing'.at \in {"announce", "check", "restoreMode"}
        BY ZenonT(60), <2>3, DoingMoves DEF At
      <4>2. QED
        BY <4>1 DEF WithRecord
    <3>2. QED
      BY <2>1, <2>3, <3>1, StillKeeps
  <2>4. QED
    BY <1>4, <2>2, <2>3 DEF Compare, Announce
<1>5. CASE Check
  <2>1. record # NoRecord /\ journal' = journal /\ settings' = settings
    BY <1>1, <1>5 DEF Check, RecordJournaled, WithRecord, outside
  <2>2. CASE Fail
    BY <2>1, <2>2, FailKeeps
  <2>3. CASE ~Owns(record) /\ At("clear") /\ UNCHANGED <<leaseStatus, record>>
    <3>1. doing'.at = "clear" /\ ~Owns(record)'
      BY <2>1, <2>3, DoingMoves DEF At, Owns
    <3>2. QED
      BY <1>1, <2>1, <2>3, <3>1 DEF RecordJournaled, Recordless
  <2>4. QED
    BY <1>5, <2>2, <2>3 DEF Check
<1>6. CASE Clear
  <2>1. CASE Fail /\ journal' = journal
    BY <2>1, FailKeeps
  <2>2. CASE /\ journal' = NoRecord /\ doing.op = "acquire" /\ leaseStatus' = "acquiring" /\ record' = NoRecord
             /\ doing' = [doing EXCEPT !.at = "capture", !.changed = FALSE]
    <3>1. doing'.at = "capture" /\ doing'.op = "acquire"
      BY <2>2, DoingMoves
    <3>2. QED
      BY <2>2, <3>1 DEF RecordJournaled, WithRecord
  <2>3. CASE FinishIdle(calls)
    BY <2>3, DoingMoves DEF FinishIdle, RecordJournaled, WithRecord, Recordless
  <2>4. QED
    BY <1>6, <2>1, <2>2, <2>3 DEF Clear
<1>7. QED
  BY <1>2, <1>3, <1>4, <1>5, <1>6 DEF Restores

LEMMA AcquiresKeep ==
  ASSUME TakeoverInv, Acquires
  PROVE  RecordJournaled'
<1>1. RecordJournaled
  BY DEF TakeoverInv
<1>2. CASE ApplyBlob \/ ApplyServer \/ ApplyMode
  BY <1>2, WritesKeep DEF ApplyBlob, ApplyServer, ApplyMode, WithRecord
<1>3. CASE Capture
  <2>1. CASE Fail
    BY <1>3, <2>1, FailKeeps DEF Capture
  <2>2. CASE At("save") /\ draft' = [id |-> doing.id, target |-> doing.target, original |-> settings]
             /\ UNCHANGED <<leaseStatus, record>>
    <3>1. doing'.at = "save" /\ doing'.op = doing.op
      BY <2>2, DoingMoves DEF At
    <3>2. journal' = journal /\ journal = NoRecord /\ record = NoRecord /\ doing.op = "acquire"
      BY <1>1, <1>3 DEF Capture, RecordJournaled, Recordless
    <3>3. draft' # NoRecord
      <4>1. doing \in Call /\ Complete(doing) /\ settings \in Settings
        BY DEF TakeoverInv, LeaseTypes, Complete
      <4>2. doing.target \in Endpoint /\ doing.id \in 1..MaxLeases
        BY <3>2, <4>1, LeaseConstants DEF Complete, Call
      <4>3. QED
        BY <2>2, <4>1, <4>2, LeaseConstants DEF LeaseRecord
    <3>4. QED
      BY <1>1, <2>2, <3>1, <3>2, <3>3 DEF RecordJournaled, WithRecord
  <2>3. QED
    BY <1>3, <2>1, <2>2 DEF Capture
<1>4. CASE Save
  <2>1. record = NoRecord
    BY <1>1, <1>4 DEF Save, RecordJournaled, Recordless
  <2>2. CASE Fail
    BY <2>1, <2>2, FailKeeps
  <2>3. CASE journal' = draft /\ record' = draft /\ At("applyBlob") /\ UNCHANGED leaseStatus
    <3>1. doing'.at = "applyBlob" /\ draft # NoRecord
      BY <1>1, <1>4, <2>3, DoingMoves DEF At, Save, RecordJournaled
    <3>2. QED
      BY <2>3, <3>1 DEF RecordJournaled, WithRecord, Recordless
  <2>4. QED
    BY <1>4, <2>2, <2>3 DEF Save
<1>5. CASE Notify
  <2>1. record # NoRecord /\ journal' = journal
    BY <1>1, <1>5 DEF Notify, RecordJournaled, WithRecord
  <2>2. CASE Fail
    BY <2>1, <2>2, FailKeeps
  <2>3. CASE At("confirm") /\ UNCHANGED <<leaseStatus, record>>
    <3>1. doing'.at \in WithRecord \ {"clear"}
      BY <2>3, DoingMoves DEF At, WithRecord
    <3>2. QED
      BY <2>1, <2>3, <3>1, StillKeeps
  <2>4. QED
    BY <1>5, <2>2, <2>3 DEF Notify
<1>6. CASE Confirm
  <2>1. record # NoRecord /\ journal' = journal
    BY <1>1, <1>6 DEF Confirm, RecordJournaled, WithRecord
  <2>2. CASE Fail
    BY <2>1, <2>2, FailKeeps
  <2>3. CASE Ends /\ UNCHANGED record
    <3>1. doing'.at = "called"
      BY <2>3, DoingMoves DEF Ends
    <3>2. QED
      BY <2>1, <2>3, <3>1, StillKeeps DEF WithRecord, Recordless
  <2>4. QED
    BY <1>6, <2>2, <2>3 DEF Confirm
<1>7. QED
  BY <1>2, <1>3, <1>4, <1>5, <1>6 DEF Acquires

LEMMA RecordJournaledStep ==
  ASSUME TakeoverInv, LeaseNext
  PROVE  RecordJournaled'
<1>1. RecordJournaled
  BY DEF TakeoverInv
<1>2. CASE Observe
  <2>1. doing'.at \in {"drifted", "applied"}
    BY ZenonT(60), <1>2, DoingMoves DEF Observe, At
  <2>2. UNCHANGED <<journal, record, leaseStatus>>
    BY <1>2 DEF Observe
  <2>3. QED
    BY <1>1, <2>1, <2>2, StillKeeps DEF RecordJournaled, WithRecord, Recordless
<1>3. CASE Settle
  <2>1. doing'.at = "called" /\ UNCHANGED <<journal, record>> /\ leaseStatus' \in {leaseStatus, "error"}
    BY <1>3, DoingMoves DEF Settle, Fail, Ends
  <2>2. QED
    BY <1>1, <2>1, StillKeeps DEF RecordJournaled, WithRecord, Recordless
<1>4. CASE Calls \/ MonitorFires \/ Starting \/ Started
  <2>1. UNCHANGED <<settings, journal, record, leaseStatus, draft>>
    BY <1>4 DEF Calls, CallAcquire, CallVerify, CallRecover, CallRelease, StartMonitoring, MonitorFires, Starting,
       Started, outside, memory
  <2>2. doing'.at = doing.at /\ doing'.op = doing.op
    BY <1>4, DoingMoves DEF Calls, CallAcquire, CallVerify, CallRecover, CallRelease, StartMonitoring, MonitorFires,
       Starting, Started, memory
  <2>3. QED
    BY <1>1, <2>1, <2>2, StillKeeps DEF RecordJournaled
<1>5. CASE ProcessDies
  <2>1. doing'.at = "called" /\ record' = NoRecord /\ leaseStatus' = "idle"
    BY <1>5, DoingMoves DEF ProcessDies
  <2>2. QED
    BY <2>1 DEF RecordJournaled, WithRecord, Recordless
<1>6. ASSUME NEW p \in Foreign, NEW m \in Mode, NEW b \in {p, settings.blob}, Chooses(p, m, b)
      PROVE  RecordJournaled'
  <2>1. UNCHANGED <<journal, record, leaseStatus, draft, doing>> /\ settings' = [blob |-> b, server |-> p, mode |-> m]
    BY <1>6 DEF Chooses, memory
  <2>2. doing.at = "clear" => ~Owns(record)'
    <3>1. SUFFICES ASSUME doing.at = "clear" PROVE ~Owns(record)'
      OBVIOUS
    <3>2. record.target \in Endpoint /\ settings.blob # record.target
      BY <1>1, <3>1, KnownRecord DEF WithRecord, RecordJournaled, Owns
    <3>3. p # record.target /\ b # record.target
      BY <1>6, <3>2, LeaseConstants
    <3>4. QED
      BY <2>1, <3>3 DEF Owns
  <2>3. QED
    BY <1>1, <2>1, <2>2 DEF RecordJournaled
<1>7. QED
  BY <1>2, <1>3, <1>4, <1>5, <1>6, BeginKeeps, RestoresKeep, AcquiresKeep DEF LeaseNext, Proceeds
-----------------------------------------------------------------------------
Kept == MarksJournaled /\ ServerKept /\ AllKept

(* The stages at which nothing is claimed of the settings.                 *)
Quiet == {"called", "load", "compare", "capture", "notify", "confirm", "verify", "observe", "applied", "drifted"}

LEMMA QuietKept ==
  ASSUME TakeoverInv, UNCHANGED <<settings, journal, choice>>, draft' \in {draft, NoRecord},
         doing'.at \in Quiet \/ (doing'.at = doing.at /\ draft' = draft)
  PROVE  Kept'
<1>1. MarksJournaled /\ ServerKept /\ AllKept
  BY DEF TakeoverInv
<1>2. MarksJournaled'
  BY <1>1 DEF MarksJournaled, Unmarked
<1>3. ServerKept'
  BY <1>1 DEF ServerKept, Quiet
<1>4. AllKept'
  BY <1>1 DEF AllKept, Chosen, TakenOver, Quiet, Unmarked
<1>5. QED
  BY <1>2, <1>3, <1>4 DEF Kept

LEMMA FailQuiet ==
  ASSUME TakeoverInv, Fail, UNCHANGED <<settings, journal, choice>>, draft' \in {draft, NoRecord}
  PROVE  Kept'
<1>1. doing'.at = "called"
  BY DoingMoves DEF Fail
<1>2. QED
  BY <1>1, QuietKept DEF Quiet

(* The record of a restoration or of a change is the journal, and what it  *)
(* remembers does not point at Stone+.                                     *)
LEMMA RecordOriginal ==
  ASSUME TakeoverInv, doing.at \in WithRecord
  PROVE  /\ journal = record /\ journal # NoRecord
         /\ record.target \in Endpoint /\ record.target \notin Foreign
         /\ record.original \in Settings /\ Unmarked(record.original)
         /\ record.original.blob \in Foreign /\ record.original.server \in Foreign /\ record.original.mode \in Mode
<1>1. journal = record /\ journal # NoRecord /\ record.target \in Endpoint /\ record.original \in Settings
  BY KnownRecord
<1>2. Unmarked(record.original)
  BY <1>1 DEF TakeoverInv, MarksJournaled
<1>3. QED
  BY <1>1, <1>2, SettingsFields, LeaseConstants DEF Unmarked

LEMMA WritesMarks ==
  ASSUME TakeoverInv, doing.at \in WithRecord, UNCHANGED <<journal, draft>>,
         settings'.server \in {settings.server, record.target, record.original.server},
         settings'.blob \in {settings.blob, record.target, record.original.blob}
  PROVE  MarksJournaled'
<1>1. journal = record /\ journal # NoRecord /\ Unmarked(record.original)
  BY RecordOriginal
<1>2. QED
  BY <1>1 DEF TakeoverInv, MarksJournaled, Unmarked

(* A command writes a value, or fails before or after it is written.       *)
LEMMA WritesMove ==
  ASSUME TakeoverInv, NEW new, NEW next, Writes(new, next)
  PROVE  /\ UNCHANGED <<journal, draft, choice>>
         /\ \/ settings' = new /\ doing'.at = next
            \/ settings' \in {settings, new} /\ doing'.at = "called"
<1>1. [doing EXCEPT !.at = next, !.changed = @ \/ new # settings].at = next
  BY DEF TakeoverInv, LeaseTypes, Complete, Call
<1>2. QED
  BY <1>1, DoingMoves DEF Writes, Fail

LEMMA ClaimKnown ==
  ASSUME TakeoverInv
  PROVE  /\ choice.server # NoClaim => choice.server \in Foreign /\ choice.server \notin Endpoint
         /\ settings \in Settings
         /\ journal # NoRecord /\ choice.all # NoClaim => Chosen \/ TakenOver
  BY LeaseConstants DEF TakeoverInv, LeaseTypes, AllKept

LEMMA RestoreModeKept ==
  ASSUME TakeoverInv, RestoreMode
  PROVE  Kept'
<1> DEFINE was == record.original
           new == [settings EXCEPT !.mode = IF @ = "manual" THEN was.mode ELSE @]
<1>1. doing.at = "restoreMode" /\ Writes(new, "restoreBlob")
  BY DEF RestoreMode
<1>2. /\ journal = record /\ journal # NoRecord /\ was \in Settings /\ settings \in Settings
      /\ doing.at \in WithRecord
  BY <1>1, RecordOriginal, ClaimKnown DEF WithRecord
<1>3. /\ UNCHANGED <<journal, draft, choice>> /\ doing'.at \in {"restoreBlob", "called"}
      /\ settings' = new \/ (settings' = settings /\ doing'.at = "called")
  BY <1>1, WritesMove
<1>4. /\ new.blob = settings.blob /\ new.server = settings.server
      /\ new.mode = IF settings.mode = "manual" THEN was.mode ELSE settings.mode
  BY <1>2 DEF Settings
<1> HIDE DEF new
<1>5. MarksJournaled'
  BY <1>2, <1>3, <1>4, WritesMarks
<1>6. ServerKept'
  BY <1>1, <1>2, <1>3, <1>4 DEF TakeoverInv, ServerKept
<1>7. AllKept'
  <2>1. SUFFICES ASSUME choice.all # NoClaim PROVE TakenOver'
    BY <1>2, <1>3 DEF AllKept
  <2>2. TakenOver
    BY <1>1, <1>2, <2>1, ClaimKnown DEF Chosen
  <2>3. QED
    BY <1>1, <1>2, <1>3, <1>4, <2>2 DEF TakenOver
<1>8. QED
  BY <1>5, <1>6, <1>7 DEF Kept

LEMMA RestoreBlobKept ==
  ASSUME TakeoverInv, RestoreBlob
  PROVE  Kept'
<1> DEFINE was == record.original
           new == [settings EXCEPT !.blob = IF @ = record.target THEN was.blob ELSE @]
<1>1. doing.at = "restoreBlob" /\ Writes(new, "restoreServer")
  BY DEF RestoreBlob
<1>2. /\ journal = record /\ journal # NoRecord /\ was \in Settings /\ settings \in Settings
      /\ record.target \in Endpoint /\ doing.at \in WithRecord
  BY <1>1, RecordOriginal, ClaimKnown DEF WithRecord
<1>3. /\ UNCHANGED <<journal, draft, choice>> /\ doing'.at \in {"restoreServer", "called"}
      /\ settings' = new \/ (settings' = settings /\ doing'.at = "called")
  BY <1>1, WritesMove
<1>4. /\ new.mode = settings.mode /\ new.server = settings.server
      /\ new.blob = IF settings.blob = record.target THEN was.blob ELSE settings.blob
      /\ settings.blob # record.target => new = settings
  BY <1>2 DEF Settings
<1> HIDE DEF new
<1>5. MarksJournaled'
  BY <1>2, <1>3, <1>4, WritesMarks
<1>6. ServerKept'
  BY <1>1, <1>2, <1>3, <1>4 DEF TakeoverInv, ServerKept
<1>7. AllKept'
  <2>1. SUFFICES ASSUME choice.all # NoClaim PROVE Chosen' \/ TakenOver'
    BY <1>2, <1>3 DEF AllKept
  <2>2. CASE Chosen
    BY <1>1, <1>2, <1>3, <1>4, <2>2 DEF Chosen, Unmarked
  <2>3. CASE TakenOver
    BY <1>1, <1>2, <1>3, <1>4, <2>3 DEF TakenOver
  <2>4. QED
    BY <1>2, <2>1, <2>2, <2>3, ClaimKnown
<1>8. QED
  BY <1>5, <1>6, <1>7 DEF Kept

LEMMA RestoreServerKept ==
  ASSUME TakeoverInv, RestoreServer
  PROVE  Kept'
<1> DEFINE was == record.original
           new == [settings EXCEPT !.server = IF @ = record.target THEN was.server ELSE @]
<1>1. doing.at = "restoreServer" /\ Writes(new, "announce")
  BY DEF RestoreServer
<1>2. /\ journal = record /\ journal # NoRecord /\ was \in Settings /\ settings \in Settings
      /\ record.target \in Endpoint /\ doing.at \in WithRecord
      /\ was.server \notin Endpoint
  BY <1>1, RecordOriginal, ClaimKnown DEF WithRecord, Unmarked
<1>3. /\ UNCHANGED <<journal, draft, choice>> /\ doing'.at \in {"announce", "called"}
      /\ settings' = new \/ (settings' = settings /\ doing'.at = "called")
  BY <1>1, WritesMove
<1>4. /\ new.mode = settings.mode /\ new.blob = settings.blob /\ new \in Settings
      /\ new.server = IF settings.server = record.target THEN was.server ELSE settings.server
      /\ settings.server # record.target => new = settings
  BY <1>2 DEF Settings
<1> HIDE DEF new
<1>5. MarksJournaled'
  BY <1>2, <1>3, <1>4, WritesMarks
<1>6. ServerKept'
  <2>1. SUFFICES ASSUME choice.server # NoClaim
                 PROVE  \/ settings'.server = choice.server
                        \/ settings'.server \in Endpoint /\ journal.original.server = choice.server
    BY <1>2, <1>3 DEF ServerKept
  <2>2. choice.server \notin Endpoint
    BY <2>1, ClaimKnown
  <2>3. \/ settings.server = choice.server
        \/ settings.server \in Endpoint /\ journal.original.server = choice.server
    BY <2>1 DEF TakeoverInv, ServerKept
  <2>4. QED
    BY <1>2, <1>3, <1>4, <2>2, <2>3
<1>7. AllKept'
  <2>1. SUFFICES ASSUME choice.all # NoClaim PROVE Chosen' \/ TakenOver'
    BY <1>2, <1>3 DEF AllKept
  <2>2. CASE Chosen
    BY <1>1, <1>2, <1>3, <1>4, <2>2 DEF Chosen, Unmarked
  <2>3. CASE TakenOver
    <3>1. new.blob = was.blob /\ new.server = was.server /\ new.mode = was.mode
      BY <1>1, <1>2, <1>4, <2>3 DEF TakenOver
    <3>2. new = was
      BY <1>2, <1>4, <3>1, SettingsFields
    <3>3. QED
      BY <1>1, <1>2, <1>3, <2>3, <3>2 DEF TakenOver
  <2>4. QED
    BY <1>2, <2>1, <2>2, <2>3, ClaimKnown
<1>8. QED
  BY <1>5, <1>6, <1>7 DEF Kept

LEMMA AnnounceKept ==
  ASSUME TakeoverInv, Announce
  PROVE  Kept'
<1> DEFINE was == record.original
           new == [settings EXCEPT !.server = record.target]
<1>1. doing.at = "announce" /\ UNCHANGED <<journal, draft, choice>>
  BY DEF Announce
<1>2. /\ journal = record /\ journal # NoRecord /\ was \in Settings /\ settings \in Settings
      /\ record.target \in Endpoint /\ doing.at \in WithRecord
      /\ was.server \notin Endpoint
  BY <1>1, RecordOriginal, ClaimKnown DEF WithRecord, Unmarked
<1>3. /\ doing'.at = "check" \/ doing'.at = "called"
      /\ \/ settings' = settings
         \/ doing'.at = "called" /\ settings.server = was.server /\ settings' = new
  BY DoingMoves DEF Announce, At, Fail
<1>4. new.mode = settings.mode /\ new.blob = settings.blob /\ new.server = record.target
  BY <1>2 DEF Settings
<1> HIDE DEF new
<1>5. MarksJournaled'
  BY <1>1, <1>2, <1>3, <1>4, WritesMarks
<1>6. ServerKept'
  <2>1. SUFFICES ASSUME choice.server # NoClaim
                 PROVE  \/ settings'.server = choice.server
                        \/ settings'.server \in Endpoint /\ journal.original.server = choice.server
    BY <1>1, <1>2, <1>3 DEF ServerKept
  <2>2. \/ settings.server = choice.server
        \/ settings.server \in Endpoint /\ journal.original.server = choice.server
    BY <2>1 DEF TakeoverInv, ServerKept
  <2>3. QED
    BY <1>2, <1>3, <1>4, <2>2
<1>7. AllKept'
  <2>1. SUFFICES ASSUME choice.all # NoClaim PROVE Chosen' \/ TakenOver'
    BY <1>1, <1>2 DEF AllKept
  <2>2. CASE Chosen
    <3>1. settings' = settings
      BY <1>2, <1>3, <2>2 DEF Chosen
    <3>2. QED
      BY <1>1, <1>3, <2>2, <3>1 DEF Chosen, Unmarked
  <2>3. CASE TakenOver
    <3>1. settings = was
      BY <1>1, <1>2, <2>3 DEF TakenOver
    <3>2. QED
      BY <1>1, <1>2, <1>3, <1>4, <2>3, <3>1 DEF TakenOver
  <2>4. QED
    BY <1>2, <2>1, <2>2, <2>3, ClaimKnown
<1>8. QED
  BY <1>5, <1>6, <1>7 DEF Kept

LEMMA ApplyKept ==
  ASSUME TakeoverInv, ApplyBlob \/ ApplyServer \/ ApplyMode
  PROVE  Kept'
<1> DEFINE was == record.original
           target == record.target
           withBlob == [settings EXCEPT !.blob = target]
           withServer == [settings EXCEPT !.server = target]
           withMode == [settings EXCEPT !.mode = "manual"]
<1>1. doing.at \in {"applyBlob", "applyServer", "applyMode"}
  BY DEF ApplyBlob, ApplyServer, ApplyMode
<1>2. /\ journal = record /\ journal # NoRecord /\ was \in Settings /\ settings \in Settings
      /\ target \in Endpoint /\ doing.at \in WithRecord
  BY <1>1, RecordOriginal, ClaimKnown DEF WithRecord
<1>3. UNCHANGED <<journal, draft, choice>>
  BY WritesMove DEF ApplyBlob, ApplyServer, ApplyMode
<1>4. /\ withBlob.blob = target /\ withBlob.server = settings.server /\ withBlob.mode = settings.mode
      /\ withServer.blob = settings.blob /\ withServer.server = target /\ withServer.mode = settings.mode
      /\ withMode.blob = settings.blob /\ withMode.server = settings.server /\ withMode.mode = "manual"
  BY <1>2 DEF Settings
<1>5. ASSUME choice.all # NoClaim PROVE TakenOver
  BY <1>1, <1>2, <1>5, ClaimKnown DEF Chosen
<1> HIDE DEF target, withBlob, withServer, withMode
<1>6. CASE ApplyBlob
  <2>1. /\ doing.at = "applyBlob" /\ doing'.at \in {"applyServer", "called"}
        /\ settings' = withBlob \/ (settings' = settings /\ doing'.at = "called")
    BY <1>6, WritesMove DEF ApplyBlob, withBlob, target
  <2>2. MarksJournaled'
    BY <1>2, <1>3, <1>4, <2>1, WritesMarks DEF target
  <2>3. ServerKept'
    BY <1>2, <1>3, <1>4, <2>1 DEF TakeoverInv, ServerKept
  <2>4. AllKept'
    <3>1. SUFFICES ASSUME choice.all # NoClaim PROVE TakenOver'
      BY <1>2, <1>3 DEF AllKept
    <3>2. QED
      BY <1>2, <1>3, <1>4, <1>5, <2>1, <3>1 DEF TakenOver, target
  <2>5. QED
    BY <2>2, <2>3, <2>4 DEF Kept
<1>7. CASE ApplyServer
  <2>1. /\ doing.at = "applyServer" /\ doing'.at \in {"applyMode", "called"}
        /\ settings' = withServer \/ (settings' = settings /\ doing'.at = "called")
    BY <1>7, WritesMove DEF ApplyServer, withServer, target
  <2>2. MarksJournaled'
    BY <1>2, <1>3, <1>4, <2>1, WritesMarks DEF target
  <2>3. ServerKept'
    BY <1>2, <1>3, <1>4, <2>1 DEF TakeoverInv, ServerKept
  <2>4. AllKept'
    <3>1. SUFFICES ASSUME choice.all # NoClaim PROVE TakenOver'
      BY <1>2, <1>3 DEF AllKept
    <3>2. QED
      BY <1>2, <1>3, <1>4, <1>5, <2>1, <3>1 DEF TakenOver, target
  <2>5. QED
    BY <2>2, <2>3, <2>4 DEF Kept
<1>8. CASE ApplyMode
  <2>1. /\ doing.at = "applyMode" /\ doing'.at \in {"notify", "called"}
        /\ settings' = withMode \/ (settings' = settings /\ doing'.at = "called")
    BY <1>8, WritesMove DEF ApplyMode, withMode
  <2>2. MarksJournaled'
    BY <1>2, <1>3, <1>4, <2>1, WritesMarks DEF target
  <2>3. ServerKept'
    BY <1>2, <1>3, <1>4, <2>1 DEF TakeoverInv, ServerKept
  <2>4. AllKept'
    <3>1. SUFFICES ASSUME choice.all # NoClaim PROVE TakenOver'
      BY <1>2, <1>3 DEF AllKept
    <3>2. QED
      BY <1>2, <1>3, <1>4, <1>5, <2>1, <3>1 DEF TakenOver, target
  <2>5. QED
    BY <2>2, <2>3, <2>4 DEF Kept
<1>9. QED
  BY <1>6, <1>7, <1>8

LEMMA LooksKept ==
  ASSUME TakeoverInv, Compare \/ Check
  PROVE  Kept'
<1>1. /\ doing.at \in {"compare", "check"} /\ UNCHANGED <<settings, journal, draft, choice>>
  BY DEF Compare, Check, outside
<1>2. /\ journal = record /\ journal # NoRecord /\ record.original \in Settings /\ settings \in Settings
      /\ record.target \in Endpoint
  BY <1>1, RecordOriginal, ClaimKnown DEF WithRecord
<1>3. CASE Fail
  BY <1>1, <1>3, FailQuiet
<1>4. CASE doing'.at \in {"announce", "check", "restoreMode", "clear"}
  <2>1. MarksJournaled'
    BY <1>1 DEF TakeoverInv, MarksJournaled, Unmarked
  <2>2. ServerKept'
    BY <1>1, <1>4 DEF TakeoverInv, ServerKept
  <2>3. AllKept'
    <3>1. SUFFICES ASSUME choice.all # NoClaim PROVE Chosen' \/ TakenOver'
      BY <1>1, <1>2 DEF AllKept
    <3>2. CASE Chosen
      <4>1. doing'.at # "restoreMode"
        <5>1. ~Owns(record)
          BY <1>2, <3>2 DEF Chosen, Owns, Unmarked
        <5>2. CASE Compare
          BY ZenonT(60), <1>4, <5>1, <5>2, DoingMoves DEF Compare, At, Fail
        <5>3. CASE Check
          BY <1>4, <5>3, DoingMoves DEF Check, At, Fail
        <5>4. QED
          BY <5>2, <5>3
      <4>2. QED
        BY <1>1, <1>4, <3>2, <4>1 DEF Chosen, Unmarked
    <3>3. CASE TakenOver
      <4>1. doing'.at \in {"announce", "check", "clear"} => settings = record.original
        <5>1. CASE Compare
          <6>1. ~Owns(record) => settings = record.original
            BY <1>2, <3>3, SettingsFields DEF TakenOver, Owns
          <6>2. doing'.at \in {"announce", "check", "clear"} => settings = record.original \/ ~Owns(record)
            BY ZenonT(60), <1>4, <5>1, DoingMoves DEF Compare, At, Fail
          <6>3. QED
            BY <6>1, <6>2
        <5>2. CASE Check
          BY <1>2, <3>3, <5>2 DEF TakenOver, Check
        <5>3. QED
          BY <5>1, <5>2
      <4>2. QED
        BY <1>1, <1>2, <1>4, <3>3, <4>1 DEF TakenOver
    <3>4. QED
      BY <1>2, <3>1, <3>2, <3>3, ClaimKnown
  <2>4. QED
    BY <2>1, <2>2, <2>3 DEF Kept
<1>5. \A point : At(point) => doing'.at = point
  BY DoingMoves DEF At
<1>6. QED
  BY <1>3, <1>4, <1>5 DEF Compare, Check

LEMMA ClearKept ==
  ASSUME TakeoverInv, Clear
  PROVE  Kept'
<1>1. doing.at = "clear" /\ UNCHANGED <<settings, draft, choice>>
  BY DEF Clear, outside
<1>2. /\ journal = record /\ journal # NoRecord
      /\ record.target \in Endpoint
  BY <1>1, RecordOriginal DEF WithRecord
<1>3. CASE Fail /\ UNCHANGED journal
  BY <1>1, <1>3, FailQuiet
<1>4. CASE journal' = NoRecord /\ doing'.at \in {"capture", "called"}
  <2>1. Unmarked(settings)
    BY <1>1, <1>2 DEF TakeoverInv, RecordJournaled, MarksJournaled, Owns, Unmarked
  <2>2. MarksJournaled'
    BY <1>1, <1>4, <2>1 DEF TakeoverInv, MarksJournaled, Unmarked
  <2>3. ServerKept'
    BY <1>1, <1>4, <2>1 DEF TakeoverInv, ServerKept, Unmarked
  <2>4. AllKept'
    BY <1>1, <1>2, <1>4, ClaimKnown DEF AllKept, Chosen, TakenOver
  <2>5. QED
    BY <2>2, <2>3, <2>4 DEF Kept
<1>5. [doing EXCEPT !.at = "capture", !.changed = FALSE].at = "capture" /\ Nothing.at = "called"
  BY DoingMoves
<1>6. QED
  BY <1>3, <1>4, <1>5 DEF Clear, FinishIdle

LEMMA CaptureKept ==
  ASSUME TakeoverInv, Capture
  PROVE  Kept'
<1>1. doing.at = "capture" /\ UNCHANGED <<settings, journal, choice>> /\ journal = NoRecord
  BY DEF Capture, outside, TakeoverInv, RecordJournaled
<1>2. CASE Fail /\ UNCHANGED draft
  BY <1>1, <1>2, FailQuiet
<1>3. CASE draft' = [id |-> doing.id, target |-> doing.target, original |-> settings] /\ doing'.at = "save"
  <2>1. draft'.original = settings
    BY <1>3
  <2>2. Unmarked(settings)
    BY <1>1 DEF TakeoverInv, MarksJournaled, Unmarked
  <2>3. MarksJournaled'
    BY <1>1, <2>1, <2>2 DEF MarksJournaled, Unmarked
  <2>4. ServerKept'
    BY <1>1, <1>3, <2>1 DEF TakeoverInv, ServerKept
  <2>5. AllKept'
    BY <1>1, <1>3, <2>1 DEF TakeoverInv, AllKept
  <2>6. QED
    BY <2>3, <2>4, <2>5 DEF Kept
<1>4. QED
  BY <1>2, <1>3, DoingMoves DEF Capture, At

LEMMA SaveKept ==
  ASSUME TakeoverInv, Save
  PROVE  Kept'
<1>1. /\ doing.at = "save" /\ UNCHANGED <<settings, choice>> /\ draft' = NoRecord
      /\ journal = NoRecord /\ draft # NoRecord
  BY DEF Save, outside, TakeoverInv, RecordJournaled
<1>2. CASE Fail /\ UNCHANGED journal
  BY <1>1, <1>2, FailQuiet
<1>3. CASE journal' = draft /\ doing'.at \in {"applyBlob", "called"}
  <2>1. Unmarked(settings) /\ Unmarked(draft.original)
    BY <1>1 DEF TakeoverInv, MarksJournaled, Unmarked
  <2>2. MarksJournaled'
    BY <1>1, <1>3, <2>1 DEF MarksJournaled, Unmarked
  <2>3. ServerKept'
    BY <1>1, <1>3 DEF TakeoverInv, ServerKept
  <2>4. AllKept'
    BY <1>1, <1>3 DEF TakeoverInv, AllKept, TakenOver
  <2>5. QED
    BY <2>2, <2>3, <2>4 DEF Kept
<1>4. At("applyBlob") => doing'.at = "applyBlob"
  BY DoingMoves DEF At
<1>5. Fail => doing'.at = "called"
  BY DoingMoves DEF Fail
<1>6. QED
  BY <1>2, <1>3, <1>4, <1>5 DEF Save

LEMMA ChoosesKept ==
  ASSUME TakeoverInv, NEW p \in Foreign, NEW m \in Mode, NEW b \in {p, settings.blob}, Chooses(p, m, b)
  PROVE  Kept'
<1>1. UNCHANGED <<journal, draft, doing, record>> /\ settings' = [blob |-> b, server |-> p, mode |-> m]
  BY DEF Chooses, memory
<1>2. settings'.blob = b /\ settings'.server = p /\ p \notin Endpoint
  BY <1>1, LeaseConstants
<1>3. MarksJournaled'
  BY <1>1, <1>2 DEF TakeoverInv, MarksJournaled, Unmarked
<1>4. choice'.server = IF doing.at \in {"save", "applyBlob", "applyServer"} THEN NoClaim ELSE p
  BY DEF Chooses
<1>5. ServerKept'
  BY <1>1, <1>2, <1>4 DEF ServerKept
<1>6. choice'.all # NoClaim =>
        /\ doing.at \notin {"save", "applyBlob", "applyServer", "applyMode", "restoreMode"}
        /\ b \notin Endpoint /\ choice'.all = settings'
  BY DEF Chooses
<1>7. journal # NoRecord => p # journal.original.server
  BY DEF Chooses
<1>8. AllKept'
  BY <1>1, <1>2, <1>6, <1>7 DEF AllKept, Chosen, Unmarked
<1>9. QED
  BY <1>3, <1>5, <1>8 DEF Kept

LEMMA QuietStep ==
  ASSUME TakeoverInv,
         \/ Begin \/ Load \/ Notify \/ Confirm \/ Observe \/ Settle
         \/ Calls \/ MonitorFires \/ Starting \/ Started \/ ProcessDies
  PROVE  Kept'
<1>1. \A point : At(point) => doing'.at = point
  BY DoingMoves DEF At
<1>2. Nothing.at = "called" /\ \A point : [doing EXCEPT !.at = point].at = point
  BY DoingMoves
<1>3. CASE Begin
  <2>1. calls # <<>> /\ UNCHANGED <<settings, journal, choice, draft>>
    BY <1>3 DEF Begin, BeginAcquire, BeginRelease, BeginRecover, BeginVerify, BeginWatch, Begins, outside
  <2>2. Head(calls) \in Call
    BY <2>1, QueueMoves DEF TakeoverInv, LeaseTypes, Complete
  <2>3. \A point : BeginsAt(point) => doing'.at = point
    BY <2>2 DEF BeginsAt, Call
  <2>4. doing' = Nothing \/ BeginsAt("observe") \/ BeginsAt("verify") \/ BeginsAt("compare") \/ BeginsAt("load")
    BY <1>3 DEF Begin, BeginAcquire, BeginRelease, BeginRecover, BeginVerify, BeginWatch, Advance, RefuseCall
  <2>5. doing'.at \in Quiet
    BY <1>2, <2>3, <2>4 DEF Quiet
  <2>6. QED
    BY <2>1, <2>5, QuietKept
<1>4. CASE Load
  <2>1. UNCHANGED <<settings, journal, choice, draft>>
    BY <1>4 DEF Load, outside
  <2>2. doing'.at \in {"called", "capture", "compare"}
    BY <1>1, <1>2, <1>4 DEF Load, Fail, FinishIdle
  <2>3. QED
    BY <2>1, <2>2, QuietKept DEF Quiet
<1>5. CASE Notify \/ Confirm \/ Observe \/ Settle
  <2>1. UNCHANGED <<settings, journal, choice, draft>>
    BY <1>5 DEF Notify, Confirm, Observe, Settle, outside
  <2>2. doing'.at \in {"called", "confirm", "drifted", "applied"}
    BY <1>1, <1>2, <1>5 DEF Notify, Confirm, Observe, Settle, Fail, Ends
  <2>3. QED
    BY <2>1, <2>2, QuietKept DEF Quiet
<1>6. CASE Calls \/ MonitorFires \/ Starting \/ Started
  <2>1. UNCHANGED <<settings, journal, choice, draft>>
    BY <1>6 DEF Calls, CallAcquire, CallVerify, CallRecover, CallRelease, StartMonitoring, MonitorFires, Starting,
       Started, outside, memory
  <2>2. doing'.at = doing.at
    BY <1>6, DoingMoves DEF Calls, CallAcquire, CallVerify, CallRecover, CallRelease, StartMonitoring, MonitorFires,
       Starting, Started, memory
  <2>3. QED
    BY <2>1, <2>2, QuietKept
<1>7. CASE ProcessDies
  <2>1. UNCHANGED <<settings, journal, choice>> /\ draft' = NoRecord /\ doing'.at = "called"
    BY <1>2, <1>7 DEF ProcessDies, outside
  <2>2. QED
    BY <2>1, QuietKept DEF Quiet
<1>8. QED
  BY <1>3, <1>4, <1>5, <1>6, <1>7

LEMMA TakeoverInit == LeaseInit => TakeoverInv
<1> SUFFICES ASSUME LeaseInit PROVE TakeoverInv
  OBVIOUS
<1>1. PICK p \in Foreign, m \in Mode : settings = [blob |-> p, server |-> p, mode |-> m]
  BY DEF LeaseInit
<1>2. /\ settings \in Settings /\ settings.server = p /\ settings.blob = p
      /\ choice = [server |-> p, all |-> settings]
  BY <1>1 DEF LeaseInit, Settings
<1>3. choice.server = p /\ choice.all = settings
      /\ choice \in [server : Foreign \cup {NoClaim}, all : Settings \cup {NoClaim}]
  BY <1>1, <1>2
<1>4. Complete(doing) /\ doing.at = "called" /\ Queue(calls)
  BY NothingKnown DEF LeaseInit, Queue
<1>5. LeaseTypes
  BY <1>2, <1>3, <1>4, LeaseConstants DEF LeaseInit, LeaseTypes
<1>6. RecordJournaled
  BY <1>4 DEF LeaseInit, RecordJournaled, WithRecord, Recordless
<1>7. MarksJournaled
  BY <1>1, <1>2, LeaseConstants DEF LeaseInit, MarksJournaled
<1>8. ServerKept /\ AllKept
  BY <1>2, <1>3, <1>4 DEF LeaseInit, ServerKept, AllKept
<1>9. QED
  BY <1>5, <1>6, <1>7, <1>8 DEF TakeoverInv

LEMMA TakeoverStep == TakeoverInv /\ [LeaseNext]_leaseVars => TakeoverInv'
<1>1. CASE UNCHANGED leaseVars
  BY <1>1 DEF leaseVars, TakeoverInv, LeaseTypes, Queue, RecordJournaled, Owns, MarksJournaled, Unmarked, ServerKept,
     AllKept, Chosen, TakenOver
<1>2. ASSUME TakeoverInv, LeaseNext PROVE TakeoverInv'
  <2>1. Kept'
    BY <1>2, QuietStep, RestoreModeKept, RestoreBlobKept, RestoreServerKept, AnnounceKept, ApplyKept, LooksKept,
       ClearKept, CaptureKept, SaveKept, ChoosesKept DEF LeaseNext, Proceeds, Restores, Acquires
  <2>2. QED
    BY <1>2, <2>1, LeaseTypesStep, RecordJournaledStep DEF Kept, TakeoverInv
<1>3. QED
  BY <1>1, <1>2

(* The values of the lease, its journal and its queue of operations are    *)
(* what the code says they are, after any calls, faults and deaths.        *)
THEOREM LeaseTypeCorrect == LeaseSpec => []LeaseTypeOK
<1>1. TakeoverInv => LeaseTypeOK
  BY TypesImply DEF TakeoverInv
<1>2. QED
  BY <1>1, TakeoverInit, TakeoverStep, PTL DEF LeaseSpec

(* In no moment, whatever dies or fails, do the settings point at Stone+   *)
(* without a journal that names this endpoint and says what to go back to: *)
(* the record is saved before the first value is written, and cleared      *)
(* after none of them is left.                                             *)
THEOREM EveryTakeoverJournaled == LeaseSpec => []TakeoverIsJournaled
<1>1. TakeoverInv => TakeoverIsJournaled
  BY DEF TakeoverInv, MarksJournaled, Unmarked, TakeoverIsJournaled, Marked
<1>2. QED
  BY <1>1, TakeoverInit, TakeoverStep, PTL DEF LeaseSpec

(* What the user or another program chose last is in place or remembered,  *)
(* and whole once there is no journal: a restoration changes only the      *)
(* values that are still Stone+'s own.                                     *)
THEOREM TheChoiceIsKept == LeaseSpec => []ChoiceKept
<1>1. TakeoverInv => ChoiceKept
  BY DEF TakeoverInv, ServerKept, AllKept, ChoiceKept
<1>2. QED
  BY <1>1, TakeoverInit, TakeoverStep, PTL DEF LeaseSpec
=============================================================================
