--------------------------- MODULE AccountPermits ---------------------------
(***************************************************************************)
(* What the scheduler promises about the concurrency permits of upstream   *)
(* accounts, whatever queueing, health and selection policy it runs: a     *)
(* permit is held by one slot (a physical upstream call), an account never *)
(* has more holders than its configured concurrency, and stopping the      *)
(* gateway revokes every permit at once.                                   *)
(***************************************************************************)
EXTENDS Naturals, FiniteSets

CONSTANTS Account, Slot, MaxConcurrency

VARIABLE holders      \* holders[a]: the slots that hold a permit of account a

Init == holders = [a \in Account |-> {}]

Free(h, s) == \A a \in Account : s \notin h[a]

Grant(h, a, s) == [h EXCEPT ![a] = @ \cup {s}]

Revoke(h, a, s) == [h EXCEPT ![a] = @ \ {s}]

Acquire(a, s) ==
  /\ Free(holders, s)
  /\ Cardinality(holders[a]) < MaxConcurrency[a]
  /\ holders' = Grant(holders, a, s)

Release(a, s) ==
  /\ s \in holders[a]
  /\ holders' = Revoke(holders, a, s)

(* A released permit wakes a waiter in the same step; the waiter may be    *)
(* given a permit of another account.                                      *)
HandOver(a, s, b, t) ==
  /\ s \in holders[a]
  /\ LET h == Revoke(holders, a, s)
     IN /\ Free(h, t)
        /\ Cardinality(h[b]) < MaxConcurrency[b]
        /\ holders' = Grant(h, b, t)

Reset == holders' = [a \in Account |-> {}]

Next ==
  \/ \E a \in Account, s \in Slot :
       \/ Acquire(a, s)
       \/ Release(a, s)
       \/ \E b \in Account, t \in Slot : HandOver(a, s, b, t)
  \/ Reset

Spec == Init /\ [][Next]_holders
=============================================================================
