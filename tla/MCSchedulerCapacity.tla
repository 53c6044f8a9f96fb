------------------------ MODULE MCSchedulerCapacity ------------------------
(***************************************************************************)
(* Small instances of SchedulerCapacity: two accounts, four attempts, two *)
(* pools that share an account.                                            *)
(***************************************************************************)
EXTENDS SchedulerCapacity, TLC

CONSTANTS a1, a2, r1, r2, r3, r4, p1, p2

MCPoolOf == [r \in Request |-> IF r = r4 THEN p2 ELSE p1]

(* p1 has a declared and an undeclared member, p2 only the shared one.     *)
MCVerified == [r \in Request |-> IF r = r4 THEN {a2} ELSE {a1}]
MCUnknown  == [r \in Request |-> IF r = r4 THEN {} ELSE {a2}]

MCOnePermit  == (a1 :> 1) @@ (a2 :> 1)
MCTwoPermits == (a1 :> 2) @@ (a2 :> 1)
=============================================================================
