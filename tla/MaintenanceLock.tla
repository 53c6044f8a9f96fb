---------------------------- MODULE MaintenanceLock ----------------------------
(***************************************************************************)
(* The lock that keeps two maintenance runs off the same Codex home        *)
(* (src/main/codex/session-maintenance-lock.ts): a directory made with     *)
(* mkdir and an owner file inside.  Contenders are runs of different       *)
(* processes; every step is one call of the file system, and a process may *)
(* die between any two.                                                    *)
(***************************************************************************)
EXTENDS Naturals, FiniteSets

CONSTANTS
  Contender,
  NoOwner,     \* no owner file
  Attempts,    \* rounds of the loop, 4 in the code
  MaxCrashes   \* bound: processes that die

ASSUME LockConstants ==
  /\ IsFiniteSet(Contender) /\ NoOwner \notin Contender
  /\ Attempts \in Nat \ {0}
  /\ MaxCrashes \in Nat /\ MaxCrashes < Cardinality(Contender)

Absent == [creator |-> NoOwner, owner |-> NoOwner, old |-> FALSE]

VARIABLES
  lock,     \* what lockPath names
  pc,       \* pc[c]: the call contender c makes next
  attempt   \* attempt[c]: the round of the loop c is in

lockVars == <<lock, pc, attempt>>

Directory == [creator : Contender, owner : Contender \cup {NoOwner}, old : BOOLEAN]

exists == lock # Absent

LockTypeOK ==
  /\ lock \in Directory \cup {Absent}
  /\ pc \in [Contender -> {"idle", "mkdir", "write", "read", "stat", "rename", "held",
                           "remove", "dead"}]
  /\ attempt \in [Contender -> 1..Attempts]

LockInit ==
  /\ lock = Absent
  /\ pc = [c \in Contender |-> "idle"]
  /\ attempt = [c \in Contender |-> 1]

Goto(c, label) == pc' = [pc EXCEPT ![c] = label]

Dead(c) == pc[c] = "dead"

(* The loop goes round again, or gives up after the last attempt.          *)
Retry(c) ==
  IF attempt[c] < Attempts
    THEN Goto(c, "mkdir") /\ attempt' = [attempt EXCEPT ![c] = @ + 1]
    ELSE Goto(c, "idle") /\ UNCHANGED attempt

Start(c) ==
  /\ pc[c] = "idle"
  /\ Goto(c, "mkdir")
  /\ attempt' = [attempt EXCEPT ![c] = 1]
  /\ UNCHANGED lock

MakeDirectory(c) ==
  /\ pc[c] = "mkdir"
  /\ IF exists
       THEN Goto(c, "read") /\ UNCHANGED lock
       ELSE /\ lock' = [creator |-> c, owner |-> NoOwner, old |-> FALSE]
            /\ Goto(c, "write")
  /\ UNCHANGED attempt

(* The owner file goes into whatever directory the path names by now; when *)
(* it cannot be written, that directory is removed.                        *)
WriteOwner(c) ==
  /\ pc[c] = "write"
  /\ \/ exists /\ lock' = [lock EXCEPT !.owner = c] /\ Goto(c, "held")
     \/ lock' = Absent /\ Goto(c, "idle")
  /\ UNCHANGED attempt

(* staleMaintenanceLockOwner: a live owner keeps its lock, a dead one      *)
(* loses it, and without an owner the age of the directory decides.        *)
ReadOwner(c) ==
  /\ pc[c] = "read"
  /\ Goto(c, IF lock.owner = NoOwner THEN "stat"
             ELSE IF Dead(lock.owner) THEN "rename" ELSE "idle")
  /\ UNCHANGED <<lock, attempt>>

StatWithoutAge(c) ==
  /\ pc[c] = "stat"
  /\ Goto(c, IF ~exists THEN "rename" ELSE "idle")
  /\ UNCHANGED <<lock, attempt>>

Stat(c) ==
  /\ pc[c] = "stat"
  /\ Goto(c, IF ~exists \/ lock.old THEN "rename" ELSE "idle")
  /\ UNCHANGED <<lock, attempt>>

(* The directory the path names by now is moved aside and deleted there.   *)
Rename(c) ==
  /\ pc[c] = "rename"
  /\ lock' = Absent
  /\ Retry(c)

(* The release reads the owner file and removes the directory after it.    *)
ReleaseLock(c) ==
  /\ pc[c] = "held"
  /\ Goto(c, IF lock.owner = c THEN "remove" ELSE "idle")
  /\ UNCHANGED <<lock, attempt>>

Remove(c) ==
  /\ pc[c] = "remove"
  /\ lock' = Absent
  /\ Goto(c, "idle")
  /\ UNCHANGED attempt

LockCrash(c) ==
  /\ pc[c] \notin {"idle", "dead"}
  /\ Cardinality({d \in Contender : Dead(d)}) < MaxCrashes
  /\ Goto(c, "dead")
  /\ UNCHANGED <<lock, attempt>>

(* A directory whose maker died before it wrote its owner passes the age   *)
(* of abandonment; a live maker writes long before that.                   *)
Age ==
  /\ exists /\ lock.owner = NoOwner /\ Dead(lock.creator) /\ ~lock.old
  /\ lock' = [lock EXCEPT !.old = TRUE]
  /\ UNCHANGED <<pc, attempt>>

Step(c) == MakeDirectory(c) \/ WriteOwner(c) \/ ReadOwner(c) \/ Stat(c) \/ Rename(c)
             \/ ReleaseLock(c) \/ Remove(c)

LockNext == Age \/ \E c \in Contender : Start(c) \/ Step(c) \/ LockCrash(c)

LockSpec == LockInit /\ [][LockNext]_lockVars

(* Calls return, time passes, and maintenance keeps being asked for.       *)
FairLockSpec == LockSpec /\ WF_lockVars(Age)
                 /\ \A c \in Contender : WF_lockVars(Start(c) \/ Step(c))
-----------------------------------------------------------------------------
Orphaned ==
  /\ exists
  /\ Dead(IF lock.owner = NoOwner THEN lock.creator ELSE lock.owner)

(* A lock whose owner died, before or after it wrote its owner file, does  *)
(* not block maintenance for ever.                                         *)
OrphansAreReclaimed == Orphaned ~> ~Orphaned

Holds(c) == pc[c] = "held"

(* At most one run maintains the sessions at a time: a stale lock is moved *)
(* aside so that no contender deletes a fresh one.                         *)
MutualExclusion == \A c, d \in Contender : Holds(c) /\ Holds(d) => c = d
=============================================================================
