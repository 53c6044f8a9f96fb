------------------------- MODULE MCSchedulerHealth -------------------------
(***************************************************************************)
(* Small instances of SchedulerHealth: interchangeable attempts of one     *)
(* account.                                                                *)
(***************************************************************************)
EXTENDS SchedulerHealth, TLC

Symmetry == Permutations(Attempt)
=============================================================================
