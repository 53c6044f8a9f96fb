---------------------------- MODULE MCAccountHealth ----------------------------
(***************************************************************************)
(* The two views of the health of an account: the circuit in the           *)
(* scheduler and the status in the store.  Every behaviour is one of the   *)
(* view its initial state names, and the other rests: the scheduler's      *)
(* reports are free inputs of the store, and what it takes from a row at a *)
(* start is a free input of the scheduler.                                 *)
(***************************************************************************)
EXTENDS MCSchedulerHealth, AccountProbes

CONSTANTS p1, p2

VARIABLE subject

accountVars == <<subject, vars, probeVars>>

AccountInit ==
  /\ Init /\ ProbeInit
  /\ subject \in {"scheduler", "store"}
  /\ subject = "scheduler" => account = "active"

AccountNext ==
  /\ UNCHANGED subject
  /\ \/ subject = "scheduler" /\ Next      /\ UNCHANGED probeVars
     \/ subject = "store"     /\ ProbeNext /\ UNCHANGED vars

AccountSpec == AccountInit /\ [][AccountNext]_accountVars
=============================================================================
