------------------------ MODULE MaintenanceLockProofs ------------------------
(***************************************************************************)
(* The types of the maintenance lock, for any contenders, rounds and       *)
(* crashes.                                                                *)
(***************************************************************************)
EXTENDS MaintenanceLock, TLAPS

LEMMA LockInitTypes == LockInit => LockTypeOK
  BY LockConstants DEF LockInit, LockTypeOK

LEMMA RetryTypes ==
  ASSUME LockTypeOK, NEW c \in Contender, Retry(c), lock' = lock \/ lock' = Absent
  PROVE  LockTypeOK'
  BY LockConstants DEF Retry, Goto, LockTypeOK

LEMMA OwnerTypes ==
  ASSUME LockTypeOK, NEW c \in Contender, WriteOwner(c)
  PROVE  LockTypeOK'
<1>1. CASE exists /\ lock' = [lock EXCEPT !.owner = c] /\ Goto(c, "held")
  <2>1. lock' \in Directory
    BY <1>1 DEF LockTypeOK, exists, Directory
  <2>2. QED
    BY <1>1, <2>1 DEF WriteOwner, Goto, LockTypeOK
<1>2. CASE lock' = Absent /\ Goto(c, "idle")
  BY <1>2 DEF WriteOwner, Goto, LockTypeOK
<1>3. QED
  BY <1>1, <1>2 DEF WriteOwner

LEMMA DirectoryTypes ==
  ASSUME LockTypeOK, NEW c \in Contender, MakeDirectory(c)
  PROVE  LockTypeOK'
<1>1. [creator |-> c, owner |-> NoOwner, old |-> FALSE] \in Directory
  BY DEF Directory
<1>2. QED
  BY <1>1 DEF MakeDirectory, Goto, LockTypeOK

LEMMA AgeTypes ==
  ASSUME LockTypeOK, Age
  PROVE  LockTypeOK'
<1>1. lock' \in Directory
  BY DEF Age, LockTypeOK, exists, Directory
<1>2. QED
  BY <1>1 DEF Age, LockTypeOK

LEMMA LockStep == LockTypeOK /\ [LockNext]_lockVars => LockTypeOK'
<1>1. CASE UNCHANGED lockVars
  BY <1>1 DEF lockVars, LockTypeOK
<1>2. ASSUME LockTypeOK, NEW c \in Contender, Start(c) \/ LockCrash(c) PROVE LockTypeOK'
  BY <1>2, LockConstants DEF Start, LockCrash, Goto, LockTypeOK
<1>3. ASSUME LockTypeOK, NEW c \in Contender,
             ReadOwner(c) \/ Stat(c) \/ ReleaseLock(c) \/ Remove(c)
      PROVE  LockTypeOK'
  BY <1>3 DEF ReadOwner, Stat, ReleaseLock, Remove, Goto, LockTypeOK
<1>4. ASSUME LockTypeOK, NEW c \in Contender, Rename(c) PROVE LockTypeOK'
  BY <1>4, RetryTypes DEF Rename
<1>5. QED
  BY <1>1, <1>2, <1>3, <1>4, OwnerTypes, DirectoryTypes, AgeTypes DEF LockNext, Step

(* For any contenders and any number of crashes the lock directory, its    *)
(* owner record, its age and what each contender has read keep their       *)
(* types, and no contender goes round the loop of acquire more often than  *)
(* it allows.                                                              *)
THEOREM LockTypeCorrect == LockSpec => []LockTypeOK
  BY LockInitTypes, LockStep, PTL DEF LockSpec
=============================================================================
