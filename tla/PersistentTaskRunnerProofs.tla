---------------------- MODULE PersistentTaskRunnerProofs ----------------------
(***************************************************************************)
(* What the task runner guarantees for any number of attempts, queued      *)
(* operations, refused writes and restarts: one execution at a time, final *)
(* outcomes that stay, no running task without an execution, and none left *)
(* when the shutdown has waited for them.                                  *)
(***************************************************************************)
EXTENDS PersistentTaskRunner, FiniteSetTheorems, TLAPS

OpRecord == [kind : UserOp \cup HandlerOp, exec : Nat]

AnyRow == [status : {"none", "absent", "paused", "running", "completed", "failed", "cancelled"},
           attempt : Nat, resumable : BOOLEAN, pending : BOOLEAN]

TaskTypes ==
  /\ chain \in Seq(OpRecord)
  /\ row \in AnyRow /\ writing \in AnyRow
  /\ activeExec \in Nat
  /\ DOMAIN exec = TaskAttempt

LEMMA AttemptsPositive == \A a \in TaskAttempt : a \in Nat /\ a # NoExec
  BY TaskConstants DEF TaskAttempt, NoExec

LEMMA OpType ==
  ASSUME NEW k \in UserOp \cup HandlerOp, NEW a \in Nat
  PROVE  Op(k, a) \in OpRecord
  BY DEF Op, OpRecord

LEMMA ThrowsType ==
  ASSUME NEW a \in Nat
  PROVE  Throws(a) \in OpRecord /\ Throws(a).kind \in HandlerOp /\ Throws(a).exec = a
  BY DEF Throws, Op, OpRecord, HandlerOp

(* What a chain of operations is after one joins it, and after its first   *)
(* one is done.                                                            *)
LEMMA ChainTypes ==
  ASSUME NEW c \in Seq(OpRecord), NEW e \in OpRecord
  PROVE  /\ Append(c, e) \in Seq(OpRecord)
         /\ Append(c, e) # <<>>
         /\ c # <<>> => /\ Tail(c) \in Seq(OpRecord)
                        /\ Head(c) \in OpRecord
                        /\ Append(Tail(c), e) \in Seq(OpRecord)
                        /\ <<e>> \o Tail(c) \in Seq(OpRecord)
  OBVIOUS

LEMMA HeadAndTail ==
  ASSUME TaskTypes, chain # <<>>
  PROVE  /\ Tail(chain) \in Seq(OpRecord)
         /\ Head(chain) \in OpRecord /\ Head(chain).exec \in Nat
<1>1. Tail(chain) \in Seq(OpRecord) /\ Head(chain) \in OpRecord
  BY DEF TaskTypes
<1>2. QED
  BY <1>1 DEF OpRecord

LEMMA WrittenRows ==
  ASSUME TaskTypes
  PROVE  /\ \A s \in {"absent", "paused", "failed", "cancelled"} : [row EXCEPT !.status = s] \in AnyRow
         /\ [row EXCEPT !.status = "completed", !.pending = FALSE] \in AnyRow
         /\ [row EXCEPT !.status = "paused", !.pending = TRUE] \in AnyRow
         /\ Resumed \in AnyRow /\ Restarted \in AnyRow /\ NoWrite \in AnyRow
<1>1. \A s \in {"absent", "paused", "failed", "cancelled"} : [row EXCEPT !.status = s] \in AnyRow
  BY DEF TaskTypes, AnyRow
<1>2. [row EXCEPT !.status = "completed", !.pending = FALSE] \in AnyRow
  BY DEF TaskTypes, AnyRow
<1>3. [row EXCEPT !.status = "paused", !.pending = TRUE] \in AnyRow
  BY DEF TaskTypes, AnyRow
<1>4. Resumed \in AnyRow
  BY DEF TaskTypes, AnyRow, Resumed
<1>5. Restarted \in AnyRow
  <2>1. Resumed.attempt + 1 \in Nat
    BY <1>4 DEF AnyRow
  <2>2. QED
    BY <1>4, <2>1 DEF AnyRow, Restarted
<1>6. NoWrite \in AnyRow
  BY DEF NoWrite, AnyRow
<1>7. QED
  BY <1>1, <1>2, <1>3, <1>4, <1>5, <1>6

LEMMA TaskInitTypes == TaskInit => TaskTypes
  BY DEF TaskInit, TaskTypes, AnyRow, NoWrite, NoExec

LEMMA TaskReadsTypes ==
  ASSUME TaskTypes, TaskReads
  PROVE  TaskTypes'
<1>1. CASE ReadCreate
  <2>1. PICK r \in BOOLEAN : Send([row EXCEPT !.status = "paused", !.resumable = r])
    BY <1>1 DEF ReadCreate
  <2>2. [row EXCEPT !.status = "paused", !.resumable = r] \in AnyRow
    BY DEF TaskTypes, AnyRow
  <2>3. QED
    BY <1>1, <2>1, <2>2 DEF ReadCreate, Send, TaskTypes, handlerVars
<1>2. CASE ReadPause
  <2>1. chain' = chain \/ (chain # <<>> /\ chain' = Tail(chain))
    BY <1>2 DEF ReadPause, Foremost, Send, Return
  <2>2. writing' = writing \/ writing' = [row EXCEPT !.status = "paused"]
    BY <1>2 DEF ReadPause, Send, Return
  <2>3. QED
    BY <1>2, <2>1, <2>2, WrittenRows, HeadAndTail DEF ReadPause, TaskTypes, handlerVars
<1>3. CASE ReadCancel
  <2>1. chain' = chain \/ (chain # <<>> /\ chain' = Tail(chain))
    BY <1>3 DEF ReadCancel, Foremost, Send, Return
  <2>2. writing' = writing \/ writing' = [row EXCEPT !.status = "cancelled"]
    BY <1>3 DEF ReadCancel, Send, Return
  <2>3. QED
    BY <1>3, <2>1, <2>2, WrittenRows, HeadAndTail DEF ReadCancel, TaskTypes, handlerVars
<1>4. CASE ReadResume
  <2>1. PICK k \in {"resume", "autoResume"} : Foremost(k) /\
             \/ Return
             \/ writing' = Resumed /\ chain' = <<Op(k, activeExec)>> \o Tail(chain)
             \/ Send(Restarted)
    BY <1>4, Zenon DEF ReadResume
  <2>2. Op(k, activeExec) \in OpRecord
    BY OpType DEF TaskTypes, UserOp
  <2>3. chain' \in Seq(OpRecord)
    BY <2>1, <2>2, ChainTypes DEF TaskTypes, Foremost, Send, Return
  <2>4. writing' \in AnyRow
    BY <2>1, WrittenRows DEF TaskTypes, Send, Return
  <2>5. QED
    BY <1>4, <2>3, <2>4 DEF ReadResume, TaskTypes, handlerVars
<1>5. CASE ReadCheckpoint
  <2>1. Head(chain).exec \in Nat
    BY <1>5, HeadAndTail DEF ReadCheckpoint, Foremost
  <2>2. chain # <<>> /\ Throws(Head(chain).exec) \in OpRecord
    BY <1>5, <2>1, ThrowsType DEF ReadCheckpoint, Foremost
  <2>3. chain' \in Seq(OpRecord)
    BY <1>5, <2>2, ChainTypes, HeadAndTail DEF ReadCheckpoint, Send, TaskTypes
  <2>4. writing' \in AnyRow /\ DOMAIN exec' = TaskAttempt
    BY <1>5 DEF ReadCheckpoint, Send, TaskTypes
  <2>5. QED
    BY <1>5, <2>3, <2>4 DEF ReadCheckpoint, TaskTypes
<1>6. CASE ReadComplete
  <2>1. Head(chain).exec \in Nat
    BY <1>6, HeadAndTail DEF ReadComplete, Foremost
  <2>2. chain # <<>> /\ Op("fail", Head(chain).exec) \in OpRecord
    BY <1>6, <2>1, OpType DEF ReadComplete, Foremost, HandlerOp
  <2>3. chain' \in Seq(OpRecord)
    BY <1>6, <2>2, ChainTypes DEF ReadComplete, Send, Return, TaskTypes
  <2>4. [row EXCEPT !.status = "completed", !.pending = FALSE] \in AnyRow
    BY WrittenRows
  <2>5. writing' \in AnyRow /\ DOMAIN exec' = TaskAttempt
    BY <1>6, <2>4 DEF ReadComplete, Send, Return, TaskTypes
  <2>6. QED
    BY <1>6, <2>3, <2>5 DEF ReadComplete, TaskTypes
<1>7. CASE ReadFail
  <2>1. chain' = chain \/ (chain # <<>> /\ chain' = Tail(chain))
    BY <1>7 DEF ReadFail, Foremost, Send, Return
  <2>2. /\ writing' = writing \/ writing' = [row EXCEPT !.status = "failed"]
        /\ DOMAIN exec' = DOMAIN exec
    BY <1>7 DEF ReadFail, Send, Return
  <2>3. QED
    BY <1>7, <2>1, <2>2, WrittenRows, HeadAndTail DEF ReadFail, TaskTypes
<1>8. QED
  BY <1>1, <1>2, <1>3, <1>4, <1>5, <1>6, <1>7 DEF TaskReads

LEMMA TaskStoresTypes ==
  ASSUME TaskTypes, TaskStores
  PROVE  TaskTypes'
<1>1. ASSUME NEW kinds, Stored(kinds)
      PROVE  /\ chain' \in Seq(OpRecord) /\ row' \in AnyRow /\ writing' \in AnyRow
             /\ Head(chain).exec \in Nat
  BY <1>1, HeadAndTail, WrittenRows DEF Stored, TaskTypes
<1>2. CASE StorePlain
  BY <1>1, <1>2 DEF StorePlain, TaskTypes, handlerVars
<1>3. CASE StoreResume
  <2>1. activeExec' \in Nat /\ DOMAIN exec' = TaskAttempt
    BY <1>3 DEF StoreResume, TaskTypes, AnyRow
  <2>2. QED
    BY <1>1, <1>3, <2>1 DEF StoreResume, TaskTypes
<1>4. CASE StoreCancel
  BY <1>1, <1>4 DEF StoreCancel, TaskTypes
<1>5. CASE StoreCheckpoint
  BY <1>1, <1>5 DEF StoreCheckpoint, TaskTypes
<1>6. CASE StoreOutcome
  BY <1>1, <1>6 DEF StoreOutcome, TaskTypes
<1>7. CASE WriteFails
  <2>1. Op("fail", Head(chain).exec) \in OpRecord
    BY <1>7, HeadAndTail, OpType DEF WriteFails, HandlerOp
  <2>2. chain' \in {Tail(chain), Append(Tail(chain), Op("fail", Head(chain).exec))}
    BY <1>7, HeadAndTail DEF WriteFails, OpRecord, HandlerOp
  <2>3. chain' \in Seq(OpRecord)
    BY <1>7, <2>1, <2>2, HeadAndTail, ChainTypes DEF WriteFails
  <2>4. DOMAIN exec' = TaskAttempt
    BY <1>7, HeadAndTail DEF WriteFails, TaskTypes, OpRecord, HandlerOp
  <2>5. QED
    BY <1>7, <2>3, <2>4, WrittenRows DEF WriteFails, TaskTypes
<1>8. QED
  BY <1>2, <1>3, <1>4, <1>5, <1>6, <1>7 DEF TaskStores

LEMMA WakenTypes ==
  ASSUME TaskTypes, NEW a \in Nat, NEW abort, Waken(a, abort)
  PROVE  chain' \in Seq(OpRecord) /\ DOMAIN exec' = TaskAttempt
<1>1. Op("interrupt", a) \in OpRecord /\ Op("fail", a) \in OpRecord
  BY OpType DEF HandlerOp
<1>2. chain' \in {chain, Append(chain, Op("interrupt", a)), Append(chain, Op("fail", a))}
  BY DEF Waken
<1>3. QED
  BY <1>1, <1>2, ChainTypes DEF Waken, TaskTypes

LEMMA ExecutionTypes ==
  ASSUME TaskTypes, NEW a \in TaskAttempt,
         \/ TaskContinues(a) \/ Checkpoint(a) \/ WaitIfPaused(a)
         \/ HandlerReturns(a) \/ HandlerThrows(a)
  PROVE  TaskTypes'
<1>1. a \in Nat
  BY AttemptsPositive
<1>2. CASE Wake(a) \/ AbortCancelled(a)
  <2>1. PICK abort : Waken(a, abort)
    BY <1>2 DEF Wake, AbortCancelled
  <2>2. chain' \in Seq(OpRecord) /\ DOMAIN exec' = TaskAttempt
    BY <1>1, <2>1, WakenTypes
  <2>3. QED
    BY <1>2, <2>2 DEF Wake, AbortCancelled, TaskTypes
<1>3. CASE Finally(a)
  BY <1>3 DEF Finally, TaskTypes, NoExec
<1>4. CASE Checkpoint(a) \/ HandlerReturns(a) \/ HandlerThrows(a)
  <2>1. PICK e \in OpRecord : chain' = Append(chain, e)
    BY <1>1, <1>4, OpType, ThrowsType DEF Checkpoint, HandlerReturns, HandlerThrows, HandlerOp
  <2>2. chain' \in Seq(OpRecord) /\ DOMAIN exec' = TaskAttempt
    BY <1>4, <2>1, ChainTypes DEF Checkpoint, HandlerReturns, HandlerThrows, TaskTypes
  <2>3. QED
    BY <1>4, <2>2 DEF Checkpoint, HandlerReturns, HandlerThrows, TaskTypes
<1>5. CASE WaitIfPaused(a)
  BY <1>5 DEF WaitIfPaused, TaskTypes
<1>6. QED
  BY <1>2, <1>3, <1>4, <1>5 DEF TaskContinues

LEMMA TaskRestTypes ==
  ASSUME TaskTypes,
         \/ TaskCreate \/ ClearTerminal \/ \E kind \in UserOp : TaskAsk(kind)
         \/ TaskLife \/ RegisterHandler \/ Interrupt \/ TaskExit \/ TaskStart
  PROVE  TaskTypes'
<1>1. ASSUME NEW kind \in UserOp, JoinChain(kind) PROVE chain' \in Seq(OpRecord)
  <2>1. Op(kind, NoExec) \in OpRecord
    BY OpType DEF NoExec
  <2>2. QED
    BY <1>1, <2>1, ChainTypes DEF JoinChain, TaskTypes
<1>2. CASE TaskCreate \/ \E kind \in UserOp : TaskAsk(kind)
  <2>1. PICK kind \in UserOp : Join(kind)
    BY <1>2 DEF TaskCreate, TaskAsk, UserOp
  <2>2. QED
    BY <1>1, <2>1 DEF Join, TaskTypes, handlerVars
<1>3. CASE ClearTerminal
  BY <1>3, WrittenRows DEF ClearTerminal, TaskTypes, handlerVars
<1>4. CASE RecoverTasks
  <2>1. row' \in AnyRow
    BY <1>4, WrittenRows DEF RecoverTasks, TaskTypes
  <2>2. chain' \in Seq(OpRecord)
    BY <1>1, <1>4 DEF RecoverTasks, TaskTypes, UserOp
  <2>3. QED
    BY <1>4, <2>1, <2>2 DEF RecoverTasks, TaskTypes, handlerVars
<1>5. CASE TasksRecovered \/ Interrupted \/ TaskStart
  BY <1>5 DEF TasksRecovered, Interrupted, TaskStart, TaskTypes, handlerVars
<1>6. CASE RegisterHandler
  <2>1. chain' \in Seq(OpRecord)
    BY <1>1, <1>6 DEF RegisterHandler, TaskTypes, UserOp
  <2>2. QED
    BY <1>6, <2>1 DEF RegisterHandler, TaskTypes, handlerVars
<1>7. CASE Interrupt
  <2>1. chain' \in Seq(OpRecord) /\ DOMAIN exec' = TaskAttempt
    BY <1>7, WakenTypes DEF Interrupt, TaskTypes
  <2>2. QED
    BY <1>7, <2>1 DEF Interrupt, TaskTypes
<1>8. CASE TaskExit
  BY <1>8, WrittenRows DEF TaskExit, TaskTypes, NoExec
<1>9. QED
  BY <1>2, <1>3, <1>4, <1>5, <1>6, <1>7, <1>8 DEF TaskLife

LEMMA TaskTypesStep == TaskTypes /\ [TaskNext]_taskVars => TaskTypes'
<1>1. CASE UNCHANGED taskVars
  BY <1>1 DEF taskVars, TaskTypes
<1>2. ASSUME TaskTypes, TaskNext PROVE TaskTypes'
  BY <1>2, TaskReadsTypes, TaskStoresTypes, ExecutionTypes, TaskRestTypes DEF TaskNext, UserOp
<1>3. QED
  BY <1>1, <1>2
-----------------------------------------------------------------------------
(* The operations by which an execution will settle or have its checkpoint *)
(* stored: at most one, and only while the execution waits for it.         *)
Owed(c, a) == {i \in DOMAIN c : c[i].kind \in HandlerOp /\ c[i].exec = a}
Once(c, a) == \A i, j \in Owed(c, a) : i = j

Resuming(op) == op.kind \in {"resume", "autoResume"} /\ op.exec = NoExec

ExecutionSound(a) ==
  /\ exec[a] \notin {"none", "done"} => activeExec = a
  /\ Once(chain, a)
  /\ Owed(chain, a) # {} => exec[a] \in {"checkpoint", "settling"}

(* A start is written only while no execution is active, and what comes    *)
(* before it in the chain is done.                                         *)
StartsAlone ==
  writing # NoWrite => chain # <<>> /\ (Resuming(Head(chain)) => activeExec = NoExec)

(* Nothing is being written over a final row, and a task is created only   *)
(* once.                                                                   *)
CreatesFirst(c, status) == \A i \in DOMAIN c : c[i].kind = "create" => i = 1 /\ status = "absent"

FinalUntouched == writing # NoWrite => row.status \notin {"completed", "cancelled"}

TaskInv ==
  /\ TaskTypes
  /\ \A a \in TaskAttempt : ExecutionSound(a)
  /\ StartsAlone
  /\ CreatesFirst(chain, row.status)
  /\ FinalUntouched

LEMMA JoinsLast ==
  ASSUME NEW c \in Seq(OpRecord), NEW e \in OpRecord, NEW a
  PROVE  /\ ~(e.kind \in HandlerOp /\ e.exec = a) => Owed(Append(c, e), a) = Owed(c, a)
         /\ Owed(c, a) = {} => Once(Append(c, e), a)
         /\ \A status : CreatesFirst(c, status) /\ e.kind # "create" =>
                           CreatesFirst(Append(c, e), status)
         /\ c # <<>> => Head(Append(c, e)) = Head(c)
<1>1. /\ Append(c, e) \in Seq(OpRecord) /\ Len(c) \in Nat
      /\ DOMAIN c = 1..Len(c) /\ DOMAIN Append(c, e) = 1..(Len(c) + 1)
      /\ \A i \in 1..Len(c) : Append(c, e)[i] = c[i]
      /\ Append(c, e)[Len(c) + 1] = e
  OBVIOUS
<1>2. ~(e.kind \in HandlerOp /\ e.exec = a) => Owed(Append(c, e), a) = Owed(c, a)
  BY <1>1 DEF Owed
<1>3. Owed(c, a) = {} => Once(Append(c, e), a)
  BY <1>1 DEF Owed, Once
<1>4. \A status : CreatesFirst(c, status) /\ e.kind # "create" =>
                     CreatesFirst(Append(c, e), status)
  BY <1>1 DEF CreatesFirst
<1>5. c # <<>> => Head(Append(c, e)) = Head(c)
  OBVIOUS
<1>6. QED
  BY <1>2, <1>3, <1>4, <1>5

LEMMA LeavesFirst ==
  ASSUME NEW c \in Seq(OpRecord), c # <<>>, NEW a
  PROVE  /\ Once(c, a) => Once(Tail(c), a)
         /\ Owed(Tail(c), a) # {} => Owed(c, a) # {}
         /\ Once(c, a) /\ Head(c).kind \in HandlerOp /\ Head(c).exec = a => Owed(Tail(c), a) = {}
         /\ \A old, new : CreatesFirst(c, old) => CreatesFirst(Tail(c), new)
<1>1. /\ Tail(c) \in Seq(OpRecord) /\ Len(c) \in Nat \ {0}
      /\ DOMAIN c = 1..Len(c) /\ DOMAIN Tail(c) = 1..(Len(c) - 1)
      /\ \A i \in 1..(Len(c) - 1) : Tail(c)[i] = c[i + 1]
      /\ Head(c) = c[1]
  OBVIOUS
<1>2. \A i \in Owed(Tail(c), a) : i + 1 \in Owed(c, a) /\ i \in Nat /\ i # 0
  BY <1>1 DEF Owed
<1>3. Once(c, a) => Once(Tail(c), a)
  BY <1>2 DEF Once
<1>4. Owed(Tail(c), a) # {} => Owed(c, a) # {}
  BY <1>2
<1>5. Once(c, a) /\ Head(c).kind \in HandlerOp /\ Head(c).exec = a => Owed(Tail(c), a) = {}
  <2>1. Head(c).kind \in HandlerOp /\ Head(c).exec = a => 1 \in Owed(c, a)
    BY <1>1 DEF Owed
  <2>2. QED
    BY <1>2, <2>1 DEF Once
<1>6. \A old, new : CreatesFirst(c, old) => CreatesFirst(Tail(c), new)
  BY <1>1 DEF CreatesFirst
<1>7. QED
  BY <1>3, <1>4, <1>5, <1>6

(* The first operation is noted to concern an execution.                   *)
LEMMA NotesFirst ==
  ASSUME NEW c \in Seq(OpRecord), c # <<>>, NEW e \in OpRecord, NEW a,
         e.kind \in UserOp \ {"create"}, Head(c).kind \in UserOp
  PROVE  /\ Owed(<<e>> \o Tail(c), a) = Owed(c, a)
         /\ <<e>> \o Tail(c) # <<>> /\ Head(<<e>> \o Tail(c)) = e
         /\ \A status : CreatesFirst(c, status) => CreatesFirst(<<e>> \o Tail(c), status)
<1> DEFINE d == <<e>> \o Tail(c)
<1>1. /\ d \in Seq(OpRecord) /\ Len(c) \in Nat \ {0} /\ Len(d) = Len(c)
      /\ DOMAIN c = 1..Len(c) /\ DOMAIN d = 1..Len(c)
      /\ Head(c) = c[1] /\ d[1] = e /\ Head(d) = e /\ d # <<>>
  OBVIOUS
<1>2. \A i \in 2..Len(c) : d[i] = c[i]
  OBVIOUS
<1> HIDE DEF d
<1>3. Owed(d, a) = Owed(c, a)
  BY <1>1, <1>2 DEF Owed, UserOp, HandlerOp
<1>4. \A status : CreatesFirst(c, status) => CreatesFirst(d, status)
  BY <1>1, <1>2 DEF CreatesFirst
<1>5. QED
  BY <1>1, <1>3, <1>4 DEF d
-----------------------------------------------------------------------------
(* The ways in which steps change the chain and the executions.            *)
Sound == /\ \A a \in TaskAttempt : ExecutionSound(a)
         /\ StartsAlone
         /\ CreatesFirst(chain, row.status)
         /\ FinalUntouched

ChainAtRest == UNCHANGED <<chain, exec, activeExec>>

(* The first operation sends its write.                                    *)
LEMMA FirstSends ==
  ASSUME TaskInv, ChainAtRest, UNCHANGED row, chain # <<>>,
         Resuming(Head(chain)) => activeExec = NoExec,
         row.status \notin {"completed", "cancelled"}
  PROVE  Sound'
  BY DEF TaskInv, ChainAtRest, Sound, ExecutionSound, Once, Owed, StartsAlone, CreatesFirst,
         FinalUntouched, Resuming

(* Nothing but the status of the row changes.                              *)
LEMMA RowChanges ==
  ASSUME TaskInv, ChainAtRest, UNCHANGED writing,
         row'.status = row.status \/ row.status # "absent",
         row'.status = row.status \/ row'.status \notin {"completed", "cancelled"}
  PROVE  Sound'
  BY DEF TaskInv, ChainAtRest, Sound, ExecutionSound, Once, Owed, StartsAlone, CreatesFirst,
         FinalUntouched, Resuming

LEMMA UserJoins ==
  ASSUME TaskInv, NEW e \in OpRecord, e.kind \in UserOp, chain' = Append(chain, e),
         e.kind = "create" => chain = <<>> /\ row.status = "absent",
         UNCHANGED <<exec, activeExec, writing>>,
         row'.status = row.status \/ row.status # "absent",
         row'.status = row.status \/ row'.status \notin {"completed", "cancelled"}
  PROVE  Sound'
<1>1. chain \in Seq(OpRecord) /\ e.kind \notin HandlerOp
  BY DEF TaskInv, TaskTypes, UserOp, HandlerOp
<1>2. \A a : Owed(chain', a) = Owed(chain, a)
  BY <1>1, JoinsLast
<1>3. (\A a \in TaskAttempt : ExecutionSound(a))'
  BY <1>2 DEF TaskInv, ExecutionSound, Once
<1>4. StartsAlone'
  BY <1>1, JoinsLast, ChainTypes DEF TaskInv, StartsAlone, Resuming
<1>5. CreatesFirst(chain', row'.status)
  <2>1. CASE e.kind = "create"
    BY <2>1 DEF CreatesFirst, TaskInv
  <2>2. CASE e.kind # "create"
    <3>1. CreatesFirst(chain', row.status)
      BY <1>1, <2>2, JoinsLast DEF TaskInv
    <3>2. CASE row'.status = row.status
      BY <3>1, <3>2
    <3>3. CASE row.status # "absent"
      BY <3>1, <3>3 DEF CreatesFirst
    <3>4. QED
      BY <3>2, <3>3
  <2>3. QED
    BY <2>1, <2>2
<1>6. FinalUntouched'
  BY DEF TaskInv, FinalUntouched
<1>7. QED
  BY <1>3, <1>4, <1>5, <1>6 DEF Sound, CreatesFirst

(* An execution that owed nothing asks to store a checkpoint or to settle. *)
LEMMA ExecutionJoins ==
  ASSUME TaskInv, NEW a, NEW e \in OpRecord, e.kind \in HandlerOp, e.exec = a,
         chain' = Append(chain, e), exec[a] \in {"running", "waiting"},
         NEW s \in {"checkpoint", "settling"}, exec' = [exec EXCEPT ![a] = s],
         UNCHANGED <<activeExec, writing, row>>
  PROVE  Sound'
<1>1. chain \in Seq(OpRecord) /\ DOMAIN exec = TaskAttempt /\ e.kind # "create"
  BY DEF TaskInv, TaskTypes, HandlerOp
<1>2. ASSUME NEW b \in TaskAttempt PROVE ExecutionSound(b)'
  <2>1. CASE b # a
    <3>1. Owed(chain', b) = Owed(chain, b) /\ exec'[b] = exec[b]
      BY <1>1, <2>1, JoinsLast
    <3>2. QED
      BY <3>1 DEF TaskInv, ExecutionSound, Once
  <2>2. CASE b = a
    <3>1. ExecutionSound(a) /\ exec'[a] = s
      BY <1>1, <2>2 DEF TaskInv
    <3>2. Owed(chain, a) = {}
      BY <3>1 DEF ExecutionSound
    <3>3. Once(chain', a)
      BY <1>1, <3>2, JoinsLast
    <3>4. QED
      BY <2>2, <3>1, <3>3 DEF ExecutionSound, Once
  <2>3. QED
    BY <2>1, <2>2
<1>3. StartsAlone'
  BY <1>1, JoinsLast, ChainTypes DEF TaskInv, StartsAlone, Resuming
<1>4. CreatesFirst(chain', row'.status)
  BY <1>1, JoinsLast DEF TaskInv
<1>5. FinalUntouched'
  BY DEF TaskInv, FinalUntouched
<1>6. QED
  BY <1>2, <1>3, <1>4, <1>5 DEF Sound, CreatesFirst

(* The first operation is done.                                            *)
LEMMA FirstUserDone ==
  ASSUME TaskInv, chain # <<>>, chain' = Tail(chain), writing' = NoWrite,
         UNCHANGED <<exec, activeExec>>
  PROVE  Sound'
<1>1. chain \in Seq(OpRecord)
  BY DEF TaskInv, TaskTypes
<1>2. \A a : (Once(chain, a) => Once(chain', a)) /\ (Owed(chain', a) # {} => Owed(chain, a) # {})
  BY <1>1, LeavesFirst
<1>3. ASSUME NEW a \in TaskAttempt PROVE ExecutionSound(a)'
  BY <1>2 DEF TaskInv, ExecutionSound, Once
<1>4. CreatesFirst(chain', row'.status)
  BY <1>1, LeavesFirst DEF TaskInv
<1>5. StartsAlone' /\ FinalUntouched'
  BY DEF StartsAlone, FinalUntouched, NoWrite
<1>6. QED
  BY <1>3, <1>4, <1>5 DEF Sound, CreatesFirst

LEMMA FirstHandlerDone ==
  ASSUME TaskInv, NEW a, chain # <<>>, Head(chain).kind \in HandlerOp, Head(chain).exec = a,
         chain' = Tail(chain), writing' = NoWrite, UNCHANGED activeExec,
         NEW s \in {"running", "ending"}, exec' = [exec EXCEPT ![a] = s]
  PROVE  Sound'
<1>1. chain \in Seq(OpRecord) /\ DOMAIN exec = TaskAttempt
  BY DEF TaskInv, TaskTypes
<1>2. ASSUME NEW b \in TaskAttempt PROVE ExecutionSound(b)'
  <2>1. CASE b # a
    <3>1. /\ Once(chain, b) => Once(chain', b)
          /\ Owed(chain', b) # {} => Owed(chain, b) # {}
          /\ exec'[b] = exec[b]
      BY <1>1, <2>1, LeavesFirst
    <3>2. QED
      BY <3>1 DEF TaskInv, ExecutionSound, Once
  <2>2. CASE b = a
    <3>1. ExecutionSound(a) /\ exec'[a] = s
      BY <1>1, <2>2 DEF TaskInv
    <3>2. 1 \in Owed(chain, a)
      BY <1>1 DEF Owed
    <3>3. activeExec = a /\ Once(chain, a)
      BY <3>1, <3>2 DEF ExecutionSound
    <3>4. Owed(chain', a) = {}
      BY <1>1, <3>3, LeavesFirst
    <3>5. QED
      BY <2>2, <3>1, <3>3, <3>4 DEF ExecutionSound, Once
  <2>3. QED
    BY <2>1, <2>2
<1>3. CreatesFirst(chain', row'.status)
  BY <1>1, LeavesFirst DEF TaskInv
<1>4. StartsAlone' /\ FinalUntouched'
  BY DEF StartsAlone, FinalUntouched, NoWrite
<1>5. QED
  BY <1>2, <1>3, <1>4 DEF Sound, CreatesFirst

(* The first operation could not be done: its execution asks to be failed. *)
LEMMA FirstFails ==
  ASSUME TaskInv, NEW a, NEW e \in OpRecord, e.kind \in HandlerOp, e.exec = a,
         chain # <<>>, Head(chain).kind \in HandlerOp, Head(chain).exec = a,
         chain' = Append(Tail(chain), e), writing' = NoWrite, UNCHANGED <<activeExec, row>>,
         exec' = exec \/ exec' = [exec EXCEPT ![a] = "settling"]
  PROVE  Sound'
<1>1. /\ chain \in Seq(OpRecord) /\ DOMAIN exec = TaskAttempt /\ e.kind # "create"
      /\ Tail(chain) \in Seq(OpRecord)
  BY ChainTypes DEF TaskInv, TaskTypes, HandlerOp
<1>2. ASSUME NEW b \in TaskAttempt PROVE ExecutionSound(b)'
  <2>1. CASE b # a
    <3>1. /\ Once(chain, b) => Once(Tail(chain), b)
          /\ Owed(Tail(chain), b) # {} => Owed(chain, b) # {}
      BY <1>1, LeavesFirst
    <3>2. Owed(chain', b) = Owed(Tail(chain), b)
      BY <1>1, <2>1, JoinsLast
    <3>3. exec'[b] = exec[b]
      BY <1>1, <2>1
    <3>4. QED
      BY <3>1, <3>2, <3>3 DEF TaskInv, ExecutionSound, Once
  <2>2. CASE b = a
    <3>1. ExecutionSound(a) /\ exec'[a] \in {exec[a], "settling"}
      BY <1>1, <2>2 DEF TaskInv
    <3>2. 1 \in Owed(chain, a)
      BY <1>1 DEF Owed
    <3>3. activeExec = a /\ Once(chain, a) /\ exec[a] \in {"checkpoint", "settling"}
      BY <3>1, <3>2 DEF ExecutionSound
    <3>4. Owed(Tail(chain), a) = {}
      BY <1>1, <3>3, LeavesFirst
    <3>5. Once(chain', a)
      BY <1>1, <3>4, JoinsLast
    <3>6. QED
      BY <2>2, <3>1, <3>3, <3>5 DEF ExecutionSound, Once
  <2>3. QED
    BY <2>1, <2>2
<1>3. CreatesFirst(chain', row'.status)
  <2>1. CreatesFirst(Tail(chain), row.status)
    BY <1>1, LeavesFirst DEF TaskInv
  <2>2. QED
    BY <1>1, <2>1, JoinsLast
<1>4. StartsAlone' /\ FinalUntouched'
  BY DEF StartsAlone, FinalUntouched, NoWrite
<1>5. QED
  BY <1>2, <1>3, <1>4 DEF Sound, CreatesFirst
-----------------------------------------------------------------------------
LEMMA TaskInitSound == TaskInit => TaskInv
  BY TaskInitTypes DEF TaskInit, TaskInv, ExecutionSound, Once, Owed, StartsAlone, CreatesFirst,
     FinalUntouched

LEMMA TaskReadsSound ==
  ASSUME TaskInv, TaskReads
  PROVE  Sound'
<1>1. TaskTypes
  BY DEF TaskInv
<1>2. CASE ReadCreate
  <2>1. chain # <<>> /\ Head(chain).kind = "create"
    BY <1>2 DEF ReadCreate, Foremost
  <2>2. row.status = "absent"
    <3>1. 1 \in DOMAIN chain /\ chain[1] = Head(chain)
      BY <1>1, <2>1 DEF TaskTypes
    <3>2. QED
      BY <2>1, <3>1 DEF TaskInv, CreatesFirst
  <2>3. QED
    BY <1>2, <2>1, <2>2, FirstSends DEF ReadCreate, Send, ChainAtRest, handlerVars, Resuming
<1>3. ASSUME NEW k \in {"pause", "cancel"}, Foremost(k), UNCHANGED <<row, handlerVars>>,
             Return \/ \E new : Send(new) /\ row.status \notin {"completed", "cancelled"}
      PROVE  Sound'
  <2>1. chain # <<>> /\ Head(chain).kind = k /\ writing = NoWrite
    BY <1>3 DEF Foremost
  <2>2. CASE Return
    BY <1>3, <2>1, <2>2, FirstUserDone DEF Return, handlerVars
  <2>3. CASE \E new : Send(new) /\ row.status \notin {"completed", "cancelled"}
    BY <1>3, <2>1, <2>3, FirstSends DEF Send, ChainAtRest, handlerVars, Resuming
  <2>4. QED
    BY <1>3, <2>2, <2>3
<1>4. CASE ReadPause
  <2>1. Return \/ \E new : Send(new) /\ row.status \notin {"completed", "cancelled"}
    BY <1>4 DEF ReadPause
  <2>2. QED
    BY <1>3, <1>4, <2>1 DEF ReadPause
<1>5. CASE ReadCancel
  <2>1. Return \/ \E new : Send(new) /\ row.status \notin {"completed", "cancelled"}
    BY <1>5 DEF ReadCancel, terminal
  <2>2. QED
    BY <1>3, <1>5, <2>1 DEF ReadCancel
<1>6. CASE ReadResume
  <2>1. PICK k \in {"resume", "autoResume"} : Foremost(k) /\
             IF row.status \in {"absent", "completed", "cancelled"} THEN Return
             ELSE IF activeExec # NoExec
               THEN IF row.status # "paused" THEN Return
                    ELSE writing' = Resumed /\ chain' = <<Op(k, activeExec)>> \o Tail(chain)
               ELSE IF registered # "no" THEN Send(Restarted) ELSE Return
    BY <1>6, Zenon DEF ReadResume
  <2>2. /\ chain # <<>> /\ Head(chain).kind = k /\ writing = NoWrite
        /\ UNCHANGED <<row, exec, activeExec>>
    BY <1>6, <2>1 DEF Foremost, ReadResume, handlerVars
  <2>3. CASE Return
    BY <2>2, <2>3, FirstUserDone DEF Return
  <2>4. CASE Send(Restarted) /\ activeExec = NoExec /\ row.status \notin {"completed", "cancelled"}
    BY <2>2, <2>4, FirstSends DEF Send, ChainAtRest
  <2>5. CASE /\ activeExec # NoExec /\ row.status = "paused"
             /\ chain' = <<Op(k, activeExec)>> \o Tail(chain)
    <3>1. /\ Op(k, activeExec) \in OpRecord /\ Op(k, activeExec).kind = k
          /\ Op(k, activeExec).exec = activeExec
      BY <1>1, OpType DEF TaskTypes, UserOp, Op
    <3>2. chain \in Seq(OpRecord)
      BY <1>1 DEF TaskTypes
    <3>3. /\ \A a : Owed(chain', a) = Owed(chain, a)
          /\ chain' # <<>> /\ Head(chain') = Op(k, activeExec)
          /\ \A status : CreatesFirst(chain, status) => CreatesFirst(chain', status)
      BY <2>2, <2>5, <3>1, <3>2, NotesFirst DEF UserOp
    <3>4. (\A a \in TaskAttempt : ExecutionSound(a))'
      BY <2>2, <3>3 DEF TaskInv, ExecutionSound, Once
    <3>5. StartsAlone'
      BY <2>2, <2>5, <3>1, <3>3 DEF StartsAlone, Resuming
    <3>6. CreatesFirst(chain', row'.status)
      BY <2>2, <3>3 DEF TaskInv
    <3>7. FinalUntouched'
      BY <2>2, <2>5 DEF FinalUntouched
    <3>8. QED
      BY <3>4, <3>5, <3>6, <3>7 DEF Sound, CreatesFirst
  <2>6. QED
    BY <2>1, <2>3, <2>4, <2>5
<1>7. ASSUME NEW k \in HandlerOp, Foremost(k)
      PROVE  /\ chain # <<>> /\ Head(chain).kind \in HandlerOp /\ writing = NoWrite
             /\ Head(chain).exec \in Nat /\ ~Resuming(Head(chain))
  BY <1>1, <1>7, HeadAndTail DEF Foremost, Resuming, HandlerOp
<1>8. CASE ReadCheckpoint
  <2> DEFINE a == Head(chain).exec
  <2>1. /\ chain # <<>> /\ Head(chain).kind \in HandlerOp /\ writing = NoWrite
        /\ a \in Nat /\ ~Resuming(Head(chain)) /\ UNCHANGED <<row, activeExec>>
    BY <1>7, <1>8 DEF ReadCheckpoint, HandlerOp
  <2>2. CASE /\ chain' = Append(Tail(chain), Throws(a)) /\ UNCHANGED writing
             /\ exec' = [exec EXCEPT ![a] = "settling"]
    <3>1. Throws(a) \in OpRecord /\ Throws(a).kind \in HandlerOp /\ Throws(a).exec = a
      BY <2>1, ThrowsType
    <3>2. QED
      BY <2>1, <2>2, <3>1, FirstFails
  <2>3. CASE Send(row) /\ UNCHANGED exec /\ ~terminal(row)
    BY <2>1, <2>3, FirstSends DEF Send, ChainAtRest, terminal
  <2>4. QED
    BY <1>8, <2>2, <2>3 DEF ReadCheckpoint
<1>9. CASE ReadComplete
  <2> DEFINE a == Head(chain).exec
  <2>1. /\ chain # <<>> /\ Head(chain).kind \in HandlerOp /\ writing = NoWrite
        /\ a \in Nat /\ ~Resuming(Head(chain)) /\ UNCHANGED <<row, activeExec>>
    BY <1>7, <1>9 DEF ReadComplete, HandlerOp
  <2>2. CASE chain' = Append(Tail(chain), Op("fail", a)) /\ UNCHANGED <<writing, exec>>
    <3>1. Op("fail", a) \in OpRecord /\ Op("fail", a).kind \in HandlerOp /\ Op("fail", a).exec = a
      BY <2>1, OpType DEF HandlerOp, Op
    <3>2. QED
      BY <2>1, <2>2, <3>1, FirstFails
  <2>3. CASE Return /\ exec' = [exec EXCEPT ![a] = "ending"]
    BY <2>1, <2>3, FirstHandlerDone DEF Return
  <2>4. CASE ChainAtRest /\ ~terminal(row)
    BY <2>1, <2>4, FirstSends DEF terminal
  <2>5. QED
    BY <1>9, <2>1, <2>2, <2>3, <2>4 DEF ReadComplete, Send, ChainAtRest
<1>10. CASE ReadFail
  <2> DEFINE a == Head(chain).exec
  <2>1. PICK k \in {"fail", "interrupt"} : Foremost(k)
    BY <1>10 DEF ReadFail
  <2>2. /\ chain # <<>> /\ Head(chain).kind \in HandlerOp /\ writing = NoWrite
        /\ a \in Nat /\ ~Resuming(Head(chain)) /\ UNCHANGED <<row, activeExec>>
    BY <1>7, <1>10, <2>1 DEF ReadFail, HandlerOp
  <2>3. CASE Return /\ exec' = [exec EXCEPT ![a] = "ending"]
    BY <2>2, <2>3, FirstHandlerDone DEF Return
  <2>4. CASE ChainAtRest /\ ~terminal(row)
    BY <2>2, <2>4, FirstSends DEF terminal
  <2>5. QED
    BY <1>10, <2>2, <2>3, <2>4 DEF ReadFail, Send, ChainAtRest
<1>11. QED
  BY <1>2, <1>4, <1>5, <1>6, <1>8, <1>9, <1>10 DEF TaskReads

LEMMA TaskStoresSound ==
  ASSUME TaskInv, TaskStores
  PROVE  Sound'
<1>1. chain \in Seq(OpRecord) /\ DOMAIN exec = TaskAttempt
  BY DEF TaskInv, TaskTypes
<1>2. CASE StorePlain \/ StoreCancel
  BY <1>2, FirstUserDone DEF StorePlain, StoreCancel, Stored, handlerVars
<1>3. CASE StoreResume
  <2>1. /\ chain # <<>> /\ chain' = Tail(chain) /\ writing # NoWrite /\ writing' = NoWrite
        /\ Head(chain).kind \in {"resume", "autoResume"}
    BY <1>3 DEF StoreResume, Stored
  <2>2. CASE Head(chain).exec # NoExec
    BY <1>3, <2>1, <2>2, FirstUserDone DEF StoreResume
  <2>3. CASE Head(chain).exec = NoExec
    <3>1. activeExec = NoExec
      BY <2>1, <2>3 DEF TaskInv, StartsAlone, Resuming
    <3>2. /\ activeExec' = writing.attempt
          /\ exec' = [exec EXCEPT ![writing.attempt] = "running"]
      BY <1>3, <2>3 DEF StoreResume
    <3>3. ASSUME NEW a \in TaskAttempt PROVE ExecutionSound(a)'
      <4>1. ExecutionSound(a) /\ a # activeExec
        BY <3>1, AttemptsPositive DEF TaskInv
      <4>2. Owed(chain, a) = {} /\ exec[a] \in {"none", "done"}
        BY <4>1 DEF ExecutionSound
      <4>3. Owed(chain', a) = {}
        BY <1>1, <2>1, <4>2, LeavesFirst
      <4>4. exec'[a] = IF a = activeExec' THEN "running" ELSE exec[a]
        BY <1>1, <3>2
      <4>5. QED
        BY <4>2, <4>3, <4>4 DEF ExecutionSound, Once
    <3>4. CreatesFirst(chain', row'.status)
      BY <1>1, <2>1, LeavesFirst DEF TaskInv
    <3>5. StartsAlone' /\ FinalUntouched'
      BY <2>1 DEF StartsAlone, FinalUntouched
    <3>6. QED
      BY <3>3, <3>4, <3>5 DEF Sound, CreatesFirst
  <2>4. QED
    BY <2>2, <2>3
<1>4. CASE StoreCheckpoint
  BY <1>4, FirstHandlerDone DEF StoreCheckpoint, Stored, HandlerOp
<1>5. CASE StoreOutcome
  BY <1>5, FirstHandlerDone DEF StoreOutcome, Stored, HandlerOp
<1>6. CASE WriteFails
  <2> DEFINE a == Head(chain).exec
  <2>1. chain # <<>> /\ writing' = NoWrite /\ UNCHANGED <<row, activeExec>>
    BY <1>6 DEF WriteFails
  <2>2. CASE Head(chain).kind \in HandlerOp /\ chain' = Append(Tail(chain), Op("fail", a))
             /\ (exec' = exec \/ exec' = [exec EXCEPT ![a] = "settling"])
    <3>1. Op("fail", a) \in OpRecord /\ Op("fail", a).kind \in HandlerOp /\ Op("fail", a).exec = a
      BY <2>1, HeadAndTail, OpType DEF HandlerOp, Op, TaskInv
    <3>2. QED
      BY <2>1, <2>2, <3>1, FirstFails
  <2>3. CASE Head(chain).kind \in HandlerOp /\ chain' = Tail(chain)
             /\ exec' = [exec EXCEPT ![a] = "ending"]
    BY <2>1, <2>3, FirstHandlerDone
  <2>4. CASE chain' = Tail(chain) /\ UNCHANGED exec
    BY <2>1, <2>4, FirstUserDone
  <2>5. QED
    BY <1>6, <2>2, <2>3, <2>4 DEF WriteFails, HandlerOp
<1>7. QED
  BY <1>2, <1>3, <1>4, <1>5, <1>6 DEF TaskStores

LEMMA WakenSound ==
  ASSUME TaskInv, NEW a \in Nat, NEW abort, Waken(a, abort), UNCHANGED <<activeExec, writing, row>>
  PROVE  Sound'
<1>1. CASE exec[a] # "waiting"
  BY <1>1, RowChanges DEF Waken, ChainAtRest
<1>2. CASE exec[a] = "waiting" /\ AfterWait(a, abort) = "settling"
  <2>1. PICK e \in {Op("interrupt", a), Op("fail", a)} : chain' = Append(chain, e)
    BY <1>2 DEF Waken
  <2>2. e \in OpRecord /\ e.kind \in HandlerOp /\ e.exec = a
    BY <2>1, OpType DEF HandlerOp, Op
  <2>3. exec' = [exec EXCEPT ![a] = "settling"]
    BY <1>2 DEF Waken
  <2>4. QED
    BY <1>2, <2>1, <2>2, <2>3, ExecutionJoins
<1>3. CASE exec[a] = "waiting" /\ AfterWait(a, abort) # "settling"
  <2>1. PICK s \in {"waiting", "running"} : exec' = [exec EXCEPT ![a] = s]
    BY <1>3 DEF Waken, AfterWait
  <2>2. chain' = chain
    BY <1>3 DEF Waken
  <2>3. ASSUME NEW b \in TaskAttempt PROVE ExecutionSound(b)'
    <3>1. ExecutionSound(b) /\ exec'[b] = IF b = a THEN s ELSE exec[b]
      BY <2>1 DEF TaskInv, TaskTypes
    <3>2. QED
      BY <1>3, <2>2, <3>1 DEF ExecutionSound, Once
  <2>4. QED
    BY <2>2, <2>3 DEF TaskInv, Sound, StartsAlone, CreatesFirst, FinalUntouched, Resuming
<1>4. QED
  BY <1>1, <1>2, <1>3

LEMMA ExecutionStepSound ==
  ASSUME TaskInv, NEW a \in TaskAttempt,
         \/ TaskContinues(a) \/ Checkpoint(a) \/ WaitIfPaused(a)
         \/ HandlerReturns(a) \/ HandlerThrows(a)
  PROVE  Sound'
<1>1. a \in Nat /\ a # NoExec /\ ExecutionSound(a) /\ DOMAIN exec = TaskAttempt
  BY AttemptsPositive DEF TaskInv, TaskTypes
<1>2. CASE Wake(a) \/ AbortCancelled(a)
  <2>1. PICK abort : Waken(a, abort)
    BY <1>2 DEF Wake, AbortCancelled
  <2>2. QED
    BY <1>1, <1>2, <2>1, WakenSound DEF Wake, AbortCancelled
<1>3. CASE Finally(a)
  <2>1. activeExec = a /\ Owed(chain, a) = {}
    BY <1>1, <1>3 DEF Finally, ExecutionSound
  <2>2. activeExec' = NoExec /\ UNCHANGED <<chain, writing, row>>
    BY <1>3, <2>1 DEF Finally
  <2>3. ASSUME NEW b \in TaskAttempt PROVE ExecutionSound(b)'
    <3>1. ExecutionSound(b) /\ exec'[b] = IF b = a THEN "done" ELSE exec[b]
      BY <1>3 DEF Finally, TaskInv, TaskTypes
    <3>2. QED
      BY <2>1, <2>2, <3>1 DEF ExecutionSound, Once
  <2>4. QED
    BY <2>2, <2>3 DEF TaskInv, Sound, StartsAlone, CreatesFirst, FinalUntouched, Resuming
<1>4. CASE Checkpoint(a) \/ HandlerReturns(a) \/ HandlerThrows(a)
  <2>1. PICK e \in {Op("checkpoint", a), Op("complete", a), Op("fail", a), Throws(a)} :
          chain' = Append(chain, e)
    BY <1>4 DEF Checkpoint, HandlerReturns, HandlerThrows
  <2>2. e \in OpRecord /\ e.kind \in HandlerOp /\ e.exec = a
    <3>1. CASE e = Throws(a)
      BY <1>1, <3>1, ThrowsType
    <3>2. CASE e # Throws(a)
      <4>1. PICK k \in HandlerOp : e = Op(k, a)
        BY <2>1, <3>2 DEF HandlerOp
      <4>2. e \in OpRecord
        BY <1>1, <4>1, OpType
      <4>3. QED
        BY <4>1, <4>2 DEF Op
    <3>3. QED
      BY <3>1, <3>2
  <2>3. PICK s \in {"checkpoint", "settling"} : exec' = [exec EXCEPT ![a] = s]
    BY <1>4 DEF Checkpoint, HandlerReturns, HandlerThrows
  <2>4. exec[a] = "running" /\ UNCHANGED <<activeExec, writing, row>>
    BY <1>4 DEF Checkpoint, HandlerReturns, HandlerThrows
  <2>5. QED
    BY <2>1, <2>2, <2>3, <2>4, ExecutionJoins
<1>5. CASE WaitIfPaused(a)
  <2>1. ASSUME NEW b \in TaskAttempt PROVE ExecutionSound(b)'
    <3>1. ExecutionSound(b) /\ exec'[b] = IF b = a THEN "waiting" ELSE exec[b]
      BY <1>5 DEF WaitIfPaused, TaskInv, TaskTypes
    <3>2. QED
      BY <1>5, <3>1 DEF WaitIfPaused, ExecutionSound, Once
  <2>2. QED
    BY <1>5, <2>1 DEF WaitIfPaused, TaskInv, Sound, StartsAlone, CreatesFirst, FinalUntouched, Resuming
<1>6. QED
  BY <1>2, <1>3, <1>4, <1>5 DEF TaskContinues

LEMMA TaskRestSound ==
  ASSUME TaskInv,
         \/ TaskCreate \/ ClearTerminal \/ \E kind \in {"pause", "resume", "cancel"} : TaskAsk(kind)
         \/ TaskLife \/ RegisterHandler \/ Interrupt \/ TaskExit \/ TaskStart
  PROVE  Sound'
<1>1. \A k \in UserOp : Op(k, NoExec) \in OpRecord /\ Op(k, NoExec).kind = k
  BY OpType DEF NoExec, Op
<1>2. CASE TaskCreate
  <2>1. chain' = Append(chain, Op("create", NoExec)) /\ UNCHANGED <<row, exec, activeExec, writing>>
    BY <1>2 DEF TaskCreate, Join, JoinChain, handlerVars
  <2>2. chain = <<>> /\ row.status = "absent"
    BY <1>2 DEF TaskCreate
  <2>3. QED
    BY <1>1, <2>1, <2>2, UserJoins DEF UserOp
<1>3. CASE \E kind \in {"pause", "resume", "cancel"} : TaskAsk(kind)
  <2>1. PICK k \in {"pause", "resume", "cancel"} : TaskAsk(k)
    BY <1>3
  <2>2. chain' = Append(chain, Op(k, NoExec)) /\ UNCHANGED <<row, exec, activeExec, writing>>
    BY <2>1 DEF TaskAsk, Join, JoinChain, handlerVars
  <2>3. QED
    BY <1>1, <2>2, UserJoins DEF UserOp
<1>4. CASE ClearTerminal
  <2>1. row'.status = "absent" /\ row.status # "absent"
    BY <1>4 DEF ClearTerminal, terminal, TaskInv, TaskTypes, AnyRow
  <2>2. QED
    BY <1>4, <2>1, RowChanges DEF ClearTerminal, ChainAtRest, handlerVars
<1>5. CASE RecoverTasks
  <2>1. \/ UNCHANGED row
        \/ row.status = "running" /\ row'.status \in {"paused", "failed"}
    BY <1>5 DEF RecoverTasks, TaskInv, TaskTypes, AnyRow
  <2>2. CASE UNCHANGED chain
    BY <1>5, <2>1, <2>2, RowChanges DEF RecoverTasks, ChainAtRest, handlerVars
  <2>3. CASE chain' = Append(chain, Op("resume", NoExec))
    BY <1>1, <1>5, <2>1, <2>3, UserJoins DEF RecoverTasks, handlerVars, UserOp
  <2>4. QED
    BY <1>5, <2>2, <2>3 DEF RecoverTasks, JoinChain
<1>6. CASE TasksRecovered \/ Interrupted \/ TaskStart
  BY <1>6, RowChanges DEF TasksRecovered, Interrupted, TaskStart, ChainAtRest, handlerVars
<1>7. CASE RegisterHandler
  <2>1. CASE UNCHANGED chain
    BY <1>7, <2>1, RowChanges DEF RegisterHandler, ChainAtRest, handlerVars
  <2>2. CASE chain' = Append(chain, Op("autoResume", NoExec))
    BY <1>1, <1>7, <2>2, UserJoins DEF RegisterHandler, handlerVars, UserOp
  <2>3. QED
    BY <1>7, <2>1, <2>2 DEF RegisterHandler, JoinChain
<1>8. CASE Interrupt
  <2>1. CASE UNCHANGED <<exec, chain>>
    BY <1>8, <2>1, RowChanges DEF Interrupt, ChainAtRest
  <2>2. CASE Waken(activeExec, "interrupted")
    BY <1>8, <2>2, WakenSound DEF Interrupt, TaskInv, TaskTypes
  <2>3. QED
    BY <1>8, <2>1, <2>2 DEF Interrupt
<1>9. CASE TaskExit
  <2>1. ASSUME NEW a \in TaskAttempt PROVE ExecutionSound(a)'
    <3>1. exec'[a] \in {"none", "done"} /\ chain' = <<>>
      BY <1>9 DEF TaskExit, Live
    <3>2. QED
      BY <3>1 DEF ExecutionSound, Once, Owed
  <2>2. QED
    BY <1>9, <2>1 DEF TaskExit, Sound, StartsAlone, CreatesFirst, FinalUntouched
<1>10. QED
  BY <1>2, <1>3, <1>4, <1>5, <1>6, <1>7, <1>8, <1>9 DEF TaskLife

LEMMA TaskStep == TaskInv /\ [TaskNext]_taskVars => TaskInv'
<1>1. CASE UNCHANGED taskVars
  BY <1>1 DEF taskVars, TaskInv, TaskTypes, ExecutionSound, Once, Owed, StartsAlone, CreatesFirst,
     FinalUntouched, Resuming
<1>2. ASSUME TaskInv, TaskNext PROVE TaskInv'
  <2>1. Sound'
    BY <1>2, TaskReadsSound, TaskStoresSound, ExecutionStepSound, TaskRestSound DEF TaskNext
  <2>2. TaskTypes'
    BY <1>2, TaskTypesStep DEF TaskInv
  <2>3. QED
    BY <2>1, <2>2 DEF Sound, TaskInv
<1>3. QED
  BY <1>1, <1>2

(* No task has two executions whose handler may still run: an execution is *)
(* started by a transition that found none in the map of active ones, and  *)
(* the transitions of a row run one after the other.                       *)
THEOREM OneExecutionAtATime == TaskSpec => []OneExecution
<1>1. TaskInv => OneExecution
  <2>1. SUFFICES ASSUME TaskInv PROVE OneExecution
    OBVIOUS
  <2>2. Live \subseteq {activeExec}
    BY <2>1 DEF TaskInv, ExecutionSound, Live
  <2>3. /\ IsFiniteSet({activeExec}) /\ Cardinality({activeExec}) = 1
    BY FS_Singleton
  <2>4. Cardinality(Live) <= Cardinality({activeExec})
    BY <2>2, <2>3, FS_Subset
  <2>5. QED
    BY <2>3, <2>4 DEF OneExecution
<1>2. QED
  BY <1>1, TaskInitSound, TaskStep, PTL DEF TaskSpec

(* A task that has completed, failed or been cancelled stays so: every     *)
(* write of a transition was decided on a row that was not final, and no   *)
(* other write comes between its read and its store.                       *)
THEOREM FinalOutcomesStay == TaskSpec => FinalStaysFinal
<1> DEFINE A == row.status \in {"completed", "cancelled"} => row'.status \in {row.status, "absent"}
<1>1. ASSUME TaskInv, TaskNext PROVE A
  <2>1. SUFFICES ASSUME row.status \in {"completed", "cancelled"}
                 PROVE  row' = row \/ row'.status = "absent"
    OBVIOUS
  <2>2. writing = NoWrite
    BY <1>1, <2>1 DEF TaskInv, FinalUntouched
  <2>3. CASE TaskReads
    BY <2>3 DEF TaskReads, ReadCreate, ReadPause, ReadResume, ReadCancel, ReadCheckpoint,
                ReadComplete, ReadFail
  <2>4. CASE TaskStores
    BY <2>2, <2>4 DEF TaskStores, StorePlain, StoreResume, StoreCancel, StoreCheckpoint,
                      StoreOutcome, WriteFails, Stored
  <2>5. CASE ClearTerminal
    BY <1>1, <2>5 DEF ClearTerminal, TaskInv, TaskTypes, AnyRow
  <2>6. CASE TaskCreate \/ \E kind \in {"pause", "resume", "cancel"} : TaskAsk(kind)
    BY <2>6 DEF TaskCreate, TaskAsk, Join
  <2>7. CASE TaskLife
    BY <2>1, <2>7 DEF TaskLife, RecoverTasks, TasksRecovered, Interrupted
  <2>8. CASE RegisterHandler \/ Interrupt \/ TaskExit \/ TaskStart
    BY <2>8 DEF RegisterHandler, Interrupt, TaskExit, TaskStart
  <2>9. CASE \E a \in TaskAttempt : \/ TaskContinues(a) \/ Checkpoint(a) \/ WaitIfPaused(a)
                                     \/ HandlerReturns(a) \/ HandlerThrows(a)
    BY <2>9 DEF TaskContinues, Wake, AbortCancelled, Finally, Checkpoint, WaitIfPaused,
                HandlerReturns, HandlerThrows
  <2>10. QED
    BY <1>1, <2>3, <2>4, <2>5, <2>6, <2>7, <2>8, <2>9 DEF TaskNext
<1>2. TaskInv /\ [TaskNext]_taskVars => [A]_taskVars
  BY <1>1
<1>3. QED
  BY <1>2, TaskInitSound, TaskStep, PTL DEF TaskSpec, FinalStaysFinal
-----------------------------------------------------------------------------
(* While the program is up, and until it has stopped.                      *)
Stopping == program \in {"stopping", "stopped"}

Over(r) == r.status \in {"absent", "completed", "failed", "cancelled"}

(* The row that is being written belongs to the first operation, which has *)
(* read the row as it still is; a start is the next attempt.               *)
WriteSound ==
  writing # NoWrite =>
    /\ ~Over(row) \/ Resuming(Head(chain)) \/ Head(chain).kind = "create"
    /\ writing.attempt = IF Resuming(Head(chain)) THEN row.attempt + 1 ELSE row.attempt
    /\ Head(chain).kind = "checkpoint" => writing = row
    /\ Head(chain).kind \in {"create", "pause"} => writing.status = "paused"
    /\ Head(chain).kind \in {"cancel", "complete", "fail"} => Over(writing)
    /\ Head(chain).kind \in {"resume", "autoResume"} /\ Head(chain).exec # NoExec =>
         \/ activeExec # NoExec /\ \A a \in TaskAttempt : exec[a] # "ending"
         \/ orphaned \/ Stopping

(* An execution that ends has left an outcome in the row, unless neither   *)
(* could be stored or the program is stopping.                             *)
EndsWithOutcome ==
  \A a \in TaskAttempt :
    exec[a] = "ending" => Over(row) \/ orphaned \/ Stopping

(* Only the shutdown interrupts, and handlers are those of attempts.       *)
InterruptsWhenStopping ==
  ~Stopping => /\ \A a \in TaskAttempt : signal[a] # "interrupted"
               /\ \A i \in DOMAIN chain :
                    chain[i].kind # "interrupt" /\ (chain[i].kind \in HandlerOp => chain[i].exec \in TaskAttempt)

(* A resume that has found an execution is the first operation, and its    *)
(* write is under way.                                                     *)
Finding(op) == op.kind \in {"resume", "autoResume"} /\ op.exec # NoExec
Found(c) == {i \in DOMAIN c : Finding(c[i])}

FindsWhenFirst == Found(chain) \subseteq {1} /\ (writing = NoWrite => Found(chain) = {})

RunningExecutes ==
  program \in {"up", "resuming"} /\ row.status = "running" => activeExec # NoExec \/ orphaned

(* Before the recovery and after the end there is nothing but the row.     *)
StartsEmpty ==
  program \in {"recovering", "down"} => chain = <<>> /\ writing = NoWrite /\ activeExec = NoExec

CreatedUnused ==
  /\ activeExec # NoExec => row.attempt # 0
  /\ chain # <<>> /\ Head(chain).kind = "create" => activeExec = NoExec

(* Once the shutdown has looked nothing starts any more, except what was   *)
(* being written then.                                                     *)
StopsFor ==
  Stopping /\ ~lateStart =>
    /\ registered = "no" /\ Live \subseteq {awaited}
    /\ ~(writing # NoWrite /\ Resuming(Head(chain)))
    /\ program = "stopped" => Live = {}

Accounted ==
  /\ WriteSound /\ EndsWithOutcome /\ InterruptsWhenStopping /\ FindsWhenFirst
  /\ RunningExecutes /\ StartsEmpty /\ CreatedUnused /\ StopsFor

WorkInv == TaskInv /\ Accounted

(* Without an active execution none is live; the execution that the first  *)
(* operation belongs to is the active one.                                 *)
LEMMA NoneActive ==
  ASSUME TaskInv, activeExec = NoExec
  PROVE  \A a \in TaskAttempt : exec[a] \in {"none", "done"}
  BY AttemptsPositive DEF TaskInv, ExecutionSound

LEMMA FirstIsOfActive ==
  ASSUME TaskInv, chain # <<>>, Head(chain).kind \in HandlerOp, Head(chain).exec \in TaskAttempt
  PROVE  exec[Head(chain).exec] \in {"checkpoint", "settling"} /\ activeExec = Head(chain).exec
<1> DEFINE a == Head(chain).exec
<1>1. 1 \in DOMAIN chain /\ chain[1] = Head(chain)
  BY DEF TaskInv, TaskTypes
<1>2. 1 \in Owed(chain, a)
  BY <1>1 DEF Owed
<1>3. QED
  BY <1>2 DEF TaskInv, ExecutionSound

LEMMA RunningExecutesStep ==
  ASSUME WorkInv, TaskNext
  PROVE  RunningExecutes'
<1>1. CASE TaskReads
  <2>1. UNCHANGED <<row, activeExec, program, orphaned>>
    BY <1>1 DEF TaskReads, ReadCreate, ReadPause, ReadResume, ReadCancel, ReadCheckpoint,
                ReadComplete, ReadFail, handlerVars, processVars, historyVars
  <2>2. QED
    BY <2>1 DEF WorkInv, Accounted, RunningExecutes
<1>2. CASE StorePlain \/ StoreCancel \/ StoreOutcome
  <2>1. row'.status # "running"
    <3>1. writing # NoWrite /\ row' = writing
          /\ Head(chain).kind \in {"create", "pause", "cancel", "complete", "fail"}
      BY <1>2 DEF StorePlain, StoreCancel, StoreOutcome, Stored
    <3>2. QED
      BY <3>1 DEF WorkInv, Accounted, WriteSound, Over
  <2>2. QED
    BY <2>1 DEF RunningExecutes
<1>3. CASE StoreResume
  <2>1. /\ writing # NoWrite /\ row' = writing /\ Head(chain).kind \in {"resume", "autoResume"}
        /\ UNCHANGED <<program, orphaned>>
    BY <1>3 DEF StoreResume, Stored, processVars, historyVars
  <2>2. CASE Head(chain).exec = NoExec
    <3>1. activeExec' = row.attempt + 1 /\ row.attempt \in Nat
      BY <1>3, <2>1, <2>2 DEF StoreResume, WorkInv, Accounted, WriteSound, Resuming, TaskInv, TaskTypes, AnyRow
    <3>2. activeExec' # NoExec
      BY <3>1 DEF NoExec
    <3>3. QED
      BY <3>2 DEF RunningExecutes
  <2>3. CASE Head(chain).exec # NoExec
    <3>1. activeExec' = activeExec
      BY <1>3, <2>3 DEF StoreResume
    <3>2. QED
      BY <2>1, <2>3, <3>1 DEF WorkInv, Accounted, WriteSound, RunningExecutes, Stopping
  <2>4. QED
    BY <2>2, <2>3
<1>4. CASE StoreCheckpoint
  <2>1. /\ writing # NoWrite /\ row' = writing /\ Head(chain).kind = "checkpoint"
        /\ UNCHANGED <<program, orphaned, activeExec>>
    BY <1>4 DEF StoreCheckpoint, Stored, processVars, historyVars
  <2>2. QED
    BY <2>1 DEF WorkInv, Accounted, WriteSound, RunningExecutes
<1>5. CASE WriteFails
  <2>1. UNCHANGED <<row, activeExec, program>> /\ (orphaned => orphaned')
    BY <1>5 DEF WriteFails, processVars
  <2>2. QED
    BY <2>1 DEF WorkInv, Accounted, RunningExecutes
<1>6. ASSUME NEW a \in TaskAttempt, Finally(a) PROVE RunningExecutes'
  <2>1. exec[a] = "ending" /\ UNCHANGED <<row, program, orphaned>>
    BY <1>6 DEF Finally, processVars, historyVars
  <2>2. QED
    BY <2>1 DEF WorkInv, Accounted, RunningExecutes, EndsWithOutcome, Stopping, Over
<1>7. ASSUME NEW a \in TaskAttempt,
             \/ Wake(a) \/ AbortCancelled(a) \/ Checkpoint(a) \/ WaitIfPaused(a)
             \/ HandlerReturns(a) \/ HandlerThrows(a)
      PROVE  RunningExecutes'
  <2>1. UNCHANGED <<row, activeExec, program, orphaned>>
    BY <1>7 DEF Wake, AbortCancelled, Checkpoint, WaitIfPaused, HandlerReturns, HandlerThrows,
                processVars, historyVars
  <2>2. QED
    BY <2>1 DEF WorkInv, Accounted, RunningExecutes
<1>8. CASE ClearTerminal \/ RecoverTasks
  <2>1. row'.status # "running"
    BY <1>8 DEF ClearTerminal, RecoverTasks, WorkInv, TaskInv, TaskTypes, AnyRow
  <2>2. QED
    BY <2>1 DEF RunningExecutes
<1>9. CASE TaskCreate \/ (\E kind \in {"pause", "resume", "cancel"} : TaskAsk(kind))
           \/ TasksRecovered \/ RegisterHandler
  <2>1. UNCHANGED <<row, activeExec, orphaned>> /\ (program' = program \/ program = "resuming")
    BY <1>9 DEF TaskCreate, TaskAsk, Join, TasksRecovered, RegisterHandler, processVars,
                historyVars, handlerVars
  <2>2. QED
    BY <2>1 DEF WorkInv, Accounted, RunningExecutes
<1>10. CASE Interrupt \/ Interrupted \/ TaskExit \/ TaskStart
  BY <1>10 DEF Interrupt, Interrupted, TaskExit, TaskStart, RunningExecutes
<1>11. QED
  BY <1>1, <1>2, <1>3, <1>4, <1>5, <1>6, <1>7, <1>8, <1>9, <1>10
     DEF TaskNext, TaskStores, TaskContinues, TaskLife

(* How a step changes the chain: operations join it, and the first leaves  *)
(* it or is replaced by the one that stores the failure.                   *)
Moves(e) ==
  \/ chain' = chain \/ chain' = <<>>
  \/ chain # <<>> /\ chain' = Tail(chain)
  \/ chain' = Append(chain, e)
  \/ chain # <<>> /\ (chain' = Append(Tail(chain), e) \/ chain' = <<e>> \o Tail(chain))

Joining(e) ==
  /\ e.kind = "create" => chain = <<>> /\ row.attempt = 0 /\ UNCHANGED <<row, activeExec>>
  /\ e.kind = "interrupt" \/ (e.kind \in HandlerOp /\ e.exec \notin TaskAttempt) => Stopping'
  /\ Finding(e) => writing' # NoWrite /\ chain # <<>> /\ chain' = <<e>> \o Tail(chain)

LEMMA ThrowsJoins ==
  ASSUME WorkInv, NEW a \in Nat, a \in TaskAttempt \/ Stopping', Stopping => Stopping'
  PROVE  Throws(a) \in OpRecord /\ Joining(Throws(a))
<1>1. Throws(a) \in OpRecord /\ Throws(a).exec = a
  BY ThrowsType
<1>2. Throws(a).kind \in {"interrupt", "fail"} /\ (Throws(a).kind = "interrupt" => signal[a] = "interrupted")
  BY DEF Throws, Op
<1>3. QED
  BY <1>1, <1>2 DEF WorkInv, Accounted, InterruptsWhenStopping, Joining, Finding

LEMMA OpJoins ==
  ASSUME NEW k \in UserOp \cup HandlerOp, k \notin {"create", "interrupt"}, NEW a \in Nat,
         k \in UserOp \/ a \in TaskAttempt \/ Stopping',
         \/ k \notin {"resume", "autoResume"} \/ a = NoExec
         \/ writing' # NoWrite /\ chain # <<>> /\ chain' = <<Op(k, a)>> \o Tail(chain)
  PROVE  Op(k, a) \in OpRecord /\ Joining(Op(k, a))
<1>1. Op(k, a) \in OpRecord
  BY OpType
<1>2. Op(k, a).kind = k /\ Op(k, a).exec = a /\ (k \in UserOp => k \notin HandlerOp)
  BY DEF Op, UserOp, HandlerOp
<1>3. QED
  BY <1>1, <1>2 DEF Joining, Finding

LEMMA WakenMoves ==
  ASSUME NEW a \in Nat, NEW abort, Waken(a, abort), abort = "interrupted" => Stopping',
         a \in TaskAttempt \/ Stopping'
  PROVE  \E e \in OpRecord : Joining(e) /\ Moves(e)
<1>1. Op("fail", a) \in OpRecord /\ Joining(Op("fail", a))
  BY OpJoins DEF HandlerOp
<1>2. CASE chain' = chain
  BY <1>1, <1>2 DEF Moves
<1>3. CASE chain' = Append(chain, Op("fail", a))
  BY <1>1, <1>3 DEF Moves
<1>4. CASE abort = "interrupted" /\ chain' = Append(chain, Op("interrupt", a))
  <2>1. Op("interrupt", a) \in OpRecord
    BY OpType DEF HandlerOp
  <2>2. Joining(Op("interrupt", a))
    BY <1>4 DEF Joining, Op, Finding
  <2>3. QED
    BY <1>4, <2>1, <2>2 DEF Moves
<1>5. QED
  BY <1>2, <1>3, <1>4 DEF Waken

LEMMA FirstKnown ==
  ASSUME WorkInv, chain # <<>>, UNCHANGED program
  PROVE  /\ Head(chain).exec \in Nat /\ (Stopping => Stopping')
         /\ Head(chain).kind \in HandlerOp => Head(chain).exec \in TaskAttempt \/ Stopping'
<1>1. Head(chain) = chain[1] /\ 1 \in DOMAIN chain /\ Head(chain).exec \in Nat
  BY HeadAndTail DEF WorkInv, TaskInv, TaskTypes
<1>2. Stopping => Stopping'
  BY DEF Stopping
<1>3. QED
  BY <1>1, <1>2 DEF WorkInv, Accounted, InterruptsWhenStopping

LEMMA ChainMoves ==
  ASSUME WorkInv, TaskNext
  PROVE  \E e \in OpRecord : Joining(e) /\ Moves(e)
<1>1. ASSUME NEW k \in UserOp \cup HandlerOp, k \notin {"create", "interrupt"}, NEW a \in Nat,
             k \in UserOp \/ a \in TaskAttempt \/ Stopping', Moves(Op(k, a)),
             \/ k \notin {"resume", "autoResume"} \/ a = NoExec
             \/ writing' # NoWrite /\ chain # <<>> /\ chain' = <<Op(k, a)>> \o Tail(chain)
      PROVE  \E e \in OpRecord : Joining(e) /\ Moves(e)
  BY <1>1, OpJoins
<1>2. ASSUME \A e : Moves(e) PROVE \E e \in OpRecord : Joining(e) /\ Moves(e)
  <2>1. 0 \in Nat /\ "pause" \in UserOp
    BY DEF UserOp
  <2>2. QED
    BY <1>1, <1>2, <2>1
<1>3. CASE TaskReads
  <2>1. CASE ReadCreate \/ ReadPause \/ ReadCancel \/ ReadFail
    <3>1. chain' = chain \/ (chain # <<>> /\ chain' = Tail(chain))
      BY <2>1 DEF ReadCreate, ReadPause, ReadCancel, ReadFail, Foremost, Send, Return
    <3>2. QED
      BY <1>2, <3>1 DEF Moves
  <2>2. CASE ReadResume
    <3>1. PICK k \in {"resume", "autoResume"} : Foremost(k) /\
               \/ Return
               \/ writing' = Resumed /\ chain' = <<Op(k, activeExec)>> \o Tail(chain)
               \/ Send(Restarted)
      BY <2>2, Zenon DEF ReadResume
    <3>6. CASE Return \/ Send(Restarted)
      BY <1>2, <3>1, <3>6 DEF Moves, Return, Send, Foremost
    <3>7. Resumed # NoWrite
      BY DEF Resumed, NoWrite, WorkInv, TaskInv, TaskTypes, AnyRow
    <3>2. activeExec \in Nat /\ k \in UserOp /\ k # "create"
      BY DEF WorkInv, TaskInv, TaskTypes, UserOp
    <3>4. k # "interrupt"
      OBVIOUS
    <3>3. CASE writing' = Resumed /\ chain' = <<Op(k, activeExec)>> \o Tail(chain)
      <4>1. Moves(Op(k, activeExec)) /\ chain # <<>> /\ writing' # NoWrite
        BY <3>1, <3>3, <3>7 DEF Moves, Foremost
      <4>2. QED
        BY <1>1, <3>2, <3>3, <3>4, <4>1
    <3>5. QED
      BY <3>1, <3>3, <3>6
  <2>3. CASE ReadCheckpoint
    <3> DEFINE a == Head(chain).exec
    <3>1. chain # <<>> /\ Head(chain).kind \in HandlerOp /\ UNCHANGED program
      BY <2>3 DEF ReadCheckpoint, Foremost, HandlerOp, processVars
    <3>2. a \in Nat /\ (a \in TaskAttempt \/ Stopping') /\ (Stopping => Stopping')
      BY <3>1, FirstKnown
    <3>3. CASE chain' = Append(Tail(chain), Throws(a))
      <4>1. Throws(a) \in OpRecord /\ Joining(Throws(a))
        BY <3>2, ThrowsJoins
      <4>2. Moves(Throws(a))
        BY <3>1, <3>3 DEF Moves
      <4>3. QED
        BY <4>1, <4>2
    <3>4. CASE chain' = chain
      BY <1>2, <3>4 DEF Moves
    <3>5. QED
      BY <2>3, <3>3, <3>4 DEF ReadCheckpoint, Send
  <2>4. CASE ReadComplete
    <3> DEFINE a == Head(chain).exec
    <3>1. chain # <<>> /\ Head(chain).kind \in HandlerOp /\ UNCHANGED program
      BY <2>4 DEF ReadComplete, Foremost, HandlerOp, processVars
    <3>2. a \in Nat /\ (a \in TaskAttempt \/ Stopping')
      BY <3>1, FirstKnown
    <3>3. Moves(Op("fail", a))
      BY <2>4, <3>1 DEF ReadComplete, Send, Return, Moves
    <3>4. QED
      BY <1>1, <3>2, <3>3 DEF HandlerOp
  <2>5. QED
    BY <1>3, <2>1, <2>2, <2>3, <2>4 DEF TaskReads
<1>4. CASE StorePlain \/ StoreResume \/ StoreCancel \/ StoreCheckpoint \/ StoreOutcome
  <2>1. chain # <<>> /\ chain' = Tail(chain)
    BY <1>4 DEF StorePlain, StoreResume, StoreCancel, StoreCheckpoint, StoreOutcome, Stored
  <2>2. QED
    BY <1>2, <2>1 DEF Moves
<1>5. CASE WriteFails
  <2> DEFINE a == Head(chain).exec
  <2>1. chain # <<>> /\ UNCHANGED program
    BY <1>5 DEF WriteFails, processVars
  <2>2. CASE chain' = Tail(chain)
    BY <1>2, <2>1, <2>2 DEF Moves
  <2>3. CASE Head(chain).kind \in HandlerOp /\ chain' = Append(Tail(chain), Op("fail", a))
    <3>1. a \in Nat /\ (a \in TaskAttempt \/ Stopping')
      BY <2>1, <2>3, FirstKnown
    <3>2. Moves(Op("fail", a))
      BY <2>1, <2>3 DEF Moves
    <3>3. QED
      BY <1>1, <3>1, <3>2 DEF HandlerOp
  <2>4. QED
    BY <1>5, <2>2, <2>3 DEF WriteFails, HandlerOp
<1>6. ASSUME NEW a \in TaskAttempt, Wake(a) \/ AbortCancelled(a)
      PROVE  \E e \in OpRecord : Joining(e) /\ Moves(e)
  <2>1. PICK abort : Waken(a, abort) /\ (abort = "interrupted" => signal[a] = "interrupted")
    BY <1>6 DEF Wake, AbortCancelled
  <2>2. a \in Nat /\ UNCHANGED program
    BY <1>6, AttemptsPositive DEF Wake, AbortCancelled, processVars
  <2>3. abort = "interrupted" => Stopping'
    BY <2>1, <2>2 DEF WorkInv, Accounted, InterruptsWhenStopping, Stopping
  <2>4. QED
    BY <2>1, <2>2, <2>3, WakenMoves
<1>7. ASSUME NEW a \in TaskAttempt,
             Finally(a) \/ Checkpoint(a) \/ WaitIfPaused(a) \/ HandlerReturns(a) \/ HandlerThrows(a)
      PROVE  \E e \in OpRecord : Joining(e) /\ Moves(e)
  <2>1. a \in Nat /\ UNCHANGED program /\ (Stopping => Stopping')
    BY <1>7, AttemptsPositive DEF Finally, Checkpoint, WaitIfPaused, HandlerReturns, HandlerThrows,
       processVars, Stopping
  <2>2. CASE Finally(a) \/ WaitIfPaused(a)
    BY <1>2, <2>2 DEF Finally, WaitIfPaused, Moves
  <2>3. CASE \E k \in {"checkpoint", "complete", "fail"} : chain' = Append(chain, Op(k, a))
    <3>1. PICK k \in {"checkpoint", "complete", "fail"} : chain' = Append(chain, Op(k, a))
      BY <2>3
    <3>2. k \in HandlerOp /\ k \notin {"create", "interrupt"} /\ Moves(Op(k, a))
      BY <3>1 DEF HandlerOp, Moves
    <3>3. QED
      BY <1>1, <2>1, <3>2
  <2>4. CASE chain' = Append(chain, Throws(a))
    <3>1. Throws(a) \in OpRecord /\ Joining(Throws(a))
      BY <2>1, ThrowsJoins
    <3>2. QED
      BY <2>4, <3>1 DEF Moves
  <2>5. QED
    BY <1>7, <2>2, <2>3, <2>4 DEF Checkpoint, HandlerReturns, HandlerThrows
<1>8. CASE TaskCreate
  <2>1. /\ chain = <<>> /\ row.attempt = 0 /\ UNCHANGED <<row, activeExec>>
        /\ chain' = Append(chain, Op("create", NoExec))
    BY <1>8 DEF TaskCreate, Join, JoinChain, handlerVars
  <2>2. Op("create", NoExec) \in OpRecord
    BY OpType DEF UserOp, NoExec
  <2>3. Op("create", NoExec).kind = "create" /\ "create" \notin HandlerOp
    BY DEF Op, HandlerOp
  <2>4. QED
    BY <2>1, <2>2, <2>3 DEF Joining, Moves, Finding, Op
<1>9. ASSUME NEW k \in {"pause", "resume", "autoResume", "cancel"}, chain' = Append(chain, Op(k, NoExec))
      PROVE  \E e \in OpRecord : Joining(e) /\ Moves(e)
  <2>1. k \in UserOp /\ k \notin {"create", "interrupt"} /\ NoExec \in Nat
    BY DEF UserOp, NoExec
  <2>2. QED
    BY <1>1, <1>9, <2>1 DEF Moves
<1>10. CASE \E kind \in {"pause", "resume", "cancel"} : TaskAsk(kind)
  BY <1>9, <1>10 DEF TaskAsk, Join, JoinChain
<1>11. CASE RecoverTasks \/ RegisterHandler
  <2>1. chain' = chain \/ \E k \in {"resume", "autoResume"} : chain' = Append(chain, Op(k, NoExec))
    BY <1>11 DEF RecoverTasks, RegisterHandler, JoinChain
  <2>2. QED
    BY <1>2, <1>9, <2>1 DEF Moves
<1>12. CASE Interrupt
  <2>1. Stopping' /\ activeExec \in Nat
    BY <1>12 DEF Interrupt, Stopping, WorkInv, TaskInv, TaskTypes
  <2>2. CASE chain' = chain
    BY <1>2, <2>2 DEF Moves
  <2>3. CASE Waken(activeExec, "interrupted")
    BY <2>1, <2>3, WakenMoves
  <2>4. QED
    BY <1>12, <2>2, <2>3 DEF Interrupt
<1>13. CASE ClearTerminal \/ TasksRecovered \/ Interrupted \/ TaskExit \/ TaskStart
  BY <1>2, <1>13 DEF ClearTerminal, TasksRecovered, Interrupted, TaskExit, TaskStart, Moves
<1>14. QED
  BY <1>3, <1>4, <1>5, <1>6, <1>7, <1>8, <1>10, <1>11, <1>12, <1>13
     DEF TaskNext, TaskStores, TaskContinues, TaskLife

LEMMA MovedElements ==
  ASSUME NEW e \in OpRecord, chain \in Seq(OpRecord), Moves(e)
  PROVE  /\ \A i \in DOMAIN chain' : chain'[i] = e \/ \E j \in DOMAIN chain : chain'[i] = chain[j]
         /\ chain' # <<>> => \/ Head(chain') = e
                             \/ chain # <<>> /\ Head(chain') = Head(chain)
                             \/ \E j \in DOMAIN chain : j # 1 /\ Head(chain') = chain[j]
<1> DEFINE Goal(c) ==
             /\ \A i \in DOMAIN c : c[i] = e \/ \E j \in DOMAIN chain : c[i] = chain[j]
             /\ c # <<>> => \/ Head(c) = e
                            \/ chain # <<>> /\ Head(c) = Head(chain)
                            \/ \E j \in DOMAIN chain : j # 1 /\ Head(c) = chain[j]
<1>1. /\ Len(chain) \in Nat /\ DOMAIN chain = 1..Len(chain)
      /\ DOMAIN <<>> = {}
      /\ DOMAIN Append(chain, e) = 1..(Len(chain) + 1)
      /\ \A i \in 1..(Len(chain) + 1) :
           Append(chain, e)[i] = IF i <= Len(chain) THEN chain[i] ELSE e
  OBVIOUS
<1>2. Goal(chain) /\ Goal(<<>>)
  BY <1>1
<1>3. Goal(Append(chain, e))
  <2>1. \A i \in 1..(Len(chain) + 1) : i <= Len(chain) => i \in DOMAIN chain
    BY <1>1
  <2>2. Head(Append(chain, e)) = IF chain = <<>> THEN e ELSE Head(chain)
    OBVIOUS
  <2>3. QED
    BY <1>1, <2>1, <2>2
<1>4. ASSUME chain # <<>>
      PROVE  Goal(Tail(chain)) /\ Goal(Append(Tail(chain), e)) /\ Goal(<<e>> \o Tail(chain))
  <2> DEFINE t == Tail(chain)
  <2>1. /\ t \in Seq(OpRecord) /\ Len(t) \in Nat /\ DOMAIN t = 1..Len(t)
        /\ \A i \in 1..Len(t) : t[i] = chain[i + 1] /\ i + 1 \in DOMAIN chain /\ i + 1 # 1
        /\ t # <<>> => Head(t) = t[1] /\ 1 \in 1..Len(t)
    BY <1>1, <1>4
  <2>2. Goal(t)
    BY <2>1
  <2> HIDE DEF t
  <2>3. /\ DOMAIN Append(t, e) = 1..(Len(t) + 1)
        /\ \A i \in 1..(Len(t) + 1) : Append(t, e)[i] = IF i <= Len(t) THEN t[i] ELSE e
        /\ \A i \in 1..(Len(t) + 1) : i <= Len(t) => i \in 1..Len(t)
        /\ Head(Append(t, e)) = IF t = <<>> THEN e ELSE Head(t)
    BY <2>1
  <2>4. Goal(Append(t, e))
    BY <2>1, <2>2, <2>3
  <2>5. /\ DOMAIN (<<e>> \o t) = 1..(Len(t) + 1)
        /\ \A i \in 1..(Len(t) + 1) : (<<e>> \o t)[i] = IF i = 1 THEN e ELSE t[i - 1]
        /\ \A i \in 1..(Len(t) + 1) : i # 1 => i - 1 \in 1..Len(t)
        /\ Head(<<e>> \o t) = e
    BY <2>1
  <2>6. Goal(<<e>> \o t)
    BY <2>1, <2>2, <2>5
  <2>7. QED
    BY <2>2, <2>4, <2>6 DEF t
<1>5. ASSUME NEW c, c = chain', Goal(c) PROVE Goal(chain')
  BY <1>5
<1> HIDE DEF Goal
<1>6. Goal(chain')
  BY <1>2, <1>3, <1>4, <1>5, Zenon DEF Moves
<1>7. QED
  BY <1>6 DEF Goal

LEMMA InterruptsStep ==
  ASSUME WorkInv, TaskNext
  PROVE  InterruptsWhenStopping'
<1>1. CASE Stopping'
  BY <1>1 DEF InterruptsWhenStopping
<1>2. CASE TaskExit
  BY <1>2 DEF TaskExit, InterruptsWhenStopping
<1>3. CASE ~Stopping' /\ ~TaskExit
  <2>1. ~Stopping
    BY <1>3 DEF Stopping, TaskNext, TaskCreate, ClearTerminal, TaskReads, TaskStores, TaskAsk, Join,
       TaskContinues, Wake, AbortCancelled, Finally, Checkpoint, WaitIfPaused, HandlerReturns, HandlerThrows,
       TaskLife, RecoverTasks, TasksRecovered, Interrupted, RegisterHandler, Interrupt, TaskStart,
       ReadCreate, ReadPause, ReadResume, ReadCancel, ReadCheckpoint, ReadComplete, ReadFail,
       StorePlain, StoreResume, StoreCancel, StoreCheckpoint, StoreOutcome, WriteFails, processVars
  <2>2. \A a \in TaskAttempt : signal'[a] # "interrupted"
    <3>1. \A a \in TaskAttempt : signal[a] # "interrupted"
      BY <2>1 DEF WorkInv, Accounted, InterruptsWhenStopping
    <3>2. CASE \E b \in TaskAttempt : AbortCancelled(b)
      BY <3>1, <3>2 DEF AbortCancelled
    <3>3. CASE Interrupt
      BY <1>3, <3>3 DEF Interrupt, Stopping
    <3>4. CASE UNCHANGED signal
      BY <3>1, <3>4
    <3>5. QED
      BY <1>3, <3>2, <3>3, <3>4 DEF TaskNext, TaskCreate, ClearTerminal, TaskReads, TaskStores, TaskAsk, Join,
       TaskContinues, Wake, Finally, Checkpoint, WaitIfPaused, HandlerReturns, HandlerThrows,
       TaskLife, RecoverTasks, TasksRecovered, Interrupted, RegisterHandler, TaskStart,
       ReadCreate, ReadPause, ReadResume, ReadCancel, ReadCheckpoint, ReadComplete, ReadFail,
       StorePlain, StoreResume, StoreCancel, StoreCheckpoint, StoreOutcome, WriteFails, handlerVars
  <2>3. PICK e \in OpRecord : Joining(e) /\ Moves(e)
    BY ChainMoves
  <2>4. /\ chain \in Seq(OpRecord)
        /\ \A j \in DOMAIN chain :
             chain[j].kind # "interrupt" /\ (chain[j].kind \in HandlerOp => chain[j].exec \in TaskAttempt)
    BY <2>1 DEF WorkInv, TaskInv, TaskTypes, Accounted, InterruptsWhenStopping
  <2>5. e.kind # "interrupt" /\ (e.kind \in HandlerOp => e.exec \in TaskAttempt)
    BY <1>3, <2>3 DEF Joining
  <2>6. \A i \in DOMAIN chain' : chain'[i] = e \/ \E j \in DOMAIN chain : chain'[i] = chain[j]
    BY <2>3, <2>4, MovedElements
  <2>7. \A i \in DOMAIN chain' :
          chain'[i].kind # "interrupt" /\ (chain'[i].kind \in HandlerOp => chain'[i].exec \in TaskAttempt)
    BY <2>4, <2>5, <2>6
  <2>8. QED
    BY <2>2, <2>7 DEF InterruptsWhenStopping
<1>4. QED
  BY <1>1, <1>2, <1>3

(* The attempts of the row and the active execution change together.       *)
LEMMA AttemptsCount ==
  ASSUME WorkInv, TaskNext
  PROVE  \/ (activeExec' = activeExec \/ activeExec' = NoExec) /\ row'.attempt = row.attempt
         \/ row'.attempt = row.attempt + 1 /\ StoreResume
<1>1. row \in AnyRow
  BY DEF WorkInv, TaskInv, TaskTypes
<1>2. ASSUME NEW kinds, Stored(kinds)
      PROVE  row'.attempt = IF Resuming(Head(chain)) THEN row.attempt + 1 ELSE row.attempt
  BY <1>2 DEF WorkInv, Accounted, WriteSound, Stored
<1>3. CASE StoreResume
  <2>1. ~Resuming(Head(chain)) => activeExec' = activeExec
    BY <1>3 DEF StoreResume, Stored, Resuming
  <2>2. row'.attempt = IF Resuming(Head(chain)) THEN row.attempt + 1 ELSE row.attempt
    BY <1>2, <1>3 DEF StoreResume
  <2>3. QED
    BY <1>3, <2>1, <2>2
<1>4. CASE StorePlain \/ StoreCancel \/ StoreCheckpoint \/ StoreOutcome
  <2>1. ~Resuming(Head(chain)) /\ activeExec' = activeExec
    BY <1>4 DEF StorePlain, StoreCancel, StoreCheckpoint, StoreOutcome, Stored, Resuming, handlerVars
  <2>2. row'.attempt = IF Resuming(Head(chain)) THEN row.attempt + 1 ELSE row.attempt
    BY <1>2, <1>4 DEF StorePlain, StoreCancel, StoreCheckpoint, StoreOutcome
  <2>3. QED
    BY <2>1, <2>2
<1>5. CASE ClearTerminal \/ RecoverTasks
  BY <1>1, <1>5 DEF ClearTerminal, RecoverTasks, AnyRow, handlerVars
<1>6. CASE WriteFails \/ TaskReads \/ TaskCreate \/ (\E kind \in {"pause", "resume", "cancel"} : TaskAsk(kind))
  BY <1>6 DEF WriteFails, TaskReads, ReadCreate, ReadPause, ReadResume, ReadCancel, ReadCheckpoint,
     ReadComplete, ReadFail, TaskCreate, TaskAsk, Join, handlerVars
<1>7. CASE \E a \in TaskAttempt : \/ TaskContinues(a) \/ Checkpoint(a) \/ WaitIfPaused(a)
                                   \/ HandlerReturns(a) \/ HandlerThrows(a)
  BY <1>7 DEF TaskContinues, Wake, AbortCancelled, Finally, Checkpoint, WaitIfPaused, HandlerReturns,
     HandlerThrows
<1>8. CASE TasksRecovered \/ Interrupted \/ RegisterHandler \/ Interrupt \/ TaskExit \/ TaskStart
  BY <1>8 DEF TasksRecovered, Interrupted, RegisterHandler, Interrupt, TaskExit, TaskStart, handlerVars
<1>9. QED
  BY <1>3, <1>4, <1>5, <1>6, <1>7, <1>8 DEF TaskNext, TaskStores, TaskLife

LEMMA CreatedUnusedStep ==
  ASSUME WorkInv, TaskNext
  PROVE  CreatedUnused'
<1>1. row.attempt \in Nat /\ chain \in Seq(OpRecord)
  BY DEF WorkInv, TaskInv, TaskTypes, AnyRow
<1>2. activeExec' # NoExec => row'.attempt # 0
  BY <1>1, AttemptsCount DEF WorkInv, Accounted, CreatedUnused
<1>3. ASSUME chain' # <<>>, Head(chain').kind = "create"
      PROVE  activeExec' = NoExec
  <2>1. PICK e \in OpRecord : Joining(e) /\ Moves(e)
    BY ChainMoves
  <2>2. \/ Head(chain') = e
        \/ chain # <<>> /\ Head(chain') = Head(chain)
        \/ \E j \in DOMAIN chain : j # 1 /\ Head(chain') = chain[j]
    BY <1>1, <1>3, <2>1, MovedElements
  <2>3. CASE Head(chain') = e
    BY <1>3, <2>1, <2>3 DEF Joining, WorkInv, Accounted, CreatedUnused
  <2>4. CASE chain # <<>> /\ Head(chain') = Head(chain)
    <3>1. activeExec = NoExec /\ ~StoreResume
      BY <1>3, <2>4 DEF StoreResume, Stored, WorkInv, Accounted, CreatedUnused
    <3>2. QED
      BY <3>1, AttemptsCount
  <2>5. ~\E j \in DOMAIN chain : j # 1 /\ Head(chain') = chain[j]
    BY <1>3 DEF WorkInv, TaskInv, CreatesFirst
  <2>6. QED
    BY <2>2, <2>3, <2>4, <2>5
<1>4. QED
  BY <1>2, <1>3 DEF CreatedUnused

LEMMA StartsEmptyStep ==
  ASSUME WorkInv, TaskNext
  PROVE  StartsEmpty'
<1>1. CASE TaskExit
  BY <1>1 DEF TaskExit, StartsEmpty
<1>2. CASE TaskStart
  BY <1>2 DEF TaskStart, WorkInv, Accounted, StartsEmpty, handlerVars
<1>3. CASE program \notin {"recovering", "down"}
  <2>1. TaskExit \/ program' \notin {"recovering", "down"}
    BY <1>3 DEF TaskNext, TaskCreate, ClearTerminal, TaskReads, TaskStores, TaskAsk, Join,
       TaskContinues, Wake, AbortCancelled, Finally, Checkpoint, WaitIfPaused, HandlerReturns, HandlerThrows,
       TaskLife, RecoverTasks, TasksRecovered, Interrupted, RegisterHandler, Interrupt, TaskStart,
       ReadCreate, ReadPause, ReadResume, ReadCancel, ReadCheckpoint, ReadComplete, ReadFail,
       StorePlain, StoreResume, StoreCancel, StoreCheckpoint, StoreOutcome, WriteFails, processVars
  <2>2. QED
    BY <1>1, <2>1 DEF StartsEmpty
<1>4. CASE program \in {"recovering", "down"}
  <2>1. chain = <<>> /\ writing = NoWrite /\ activeExec = NoExec
    BY <1>4 DEF WorkInv, Accounted, StartsEmpty
  <2>2. \A a \in TaskAttempt : exec[a] \in {"none", "done"}
    BY <2>1, NoneActive DEF WorkInv
  <2>3. CASE RecoverTasks
    BY <2>3 DEF RecoverTasks, StartsEmpty
  <2>4. CASE RegisterHandler
    BY <1>4, <2>1, <2>4 DEF RegisterHandler, StartsEmpty, handlerVars
  <2>5. CASE \E a \in TaskAttempt : Wake(a) \/ AbortCancelled(a)
    BY <2>1, <2>2, <2>5 DEF Wake, AbortCancelled, Waken, StartsEmpty
  <2>6. CASE \E a \in TaskAttempt : Finally(a) \/ Checkpoint(a) \/ WaitIfPaused(a) \/ HandlerReturns(a) \/ HandlerThrows(a)
    BY <2>2, <2>6 DEF Finally, Checkpoint, WaitIfPaused, HandlerReturns, HandlerThrows
  <2>7. ~TaskReads /\ ~TaskStores
    BY <2>1 DEF TaskReads, TaskStores, ReadCreate, ReadPause, ReadResume, ReadCancel, ReadCheckpoint,
       ReadComplete, ReadFail, Foremost, StorePlain, StoreResume, StoreCancel, StoreCheckpoint,
       StoreOutcome, WriteFails, Stored
  <2>8. ~TaskCreate /\ ~ClearTerminal /\ (\A kind : ~TaskAsk(kind)) /\ ~TasksRecovered /\ ~Interrupted /\ ~Interrupt
    BY <1>4 DEF TaskCreate, ClearTerminal, TaskAsk, TasksRecovered, Interrupted, Interrupt, awake
  <2>9. QED
    BY <1>1, <1>2, <2>3, <2>4, <2>5, <2>6, <2>7, <2>8 DEF TaskNext, TaskLife, TaskContinues
<1>5. QED
  BY <1>3, <1>4

(* What the program is doing and whether an outcome was lost are kept      *)
(* until the program ends.                                                 *)
LEMMA ExcusesStay ==
  ASSUME WorkInv, TaskNext
  PROVE  TaskExit \/ ((orphaned => orphaned') /\ (Stopping => Stopping'))
<1>1. TaskExit \/ (orphaned => orphaned')
  BY DEF TaskNext, TaskCreate, ClearTerminal, TaskReads, TaskStores, TaskAsk, Join,
     TaskContinues, Wake, AbortCancelled, Finally, Checkpoint, WaitIfPaused, HandlerReturns, HandlerThrows,
     TaskLife, RecoverTasks, TasksRecovered, Interrupted, RegisterHandler, Interrupt, TaskStart,
     ReadCreate, ReadPause, ReadResume, ReadCancel, ReadCheckpoint, ReadComplete, ReadFail,
     StorePlain, StoreResume, StoreCancel, StoreCheckpoint, StoreOutcome, WriteFails, historyVars
<1>2. TaskExit \/ (Stopping => Stopping')
  BY DEF Stopping, TaskNext, TaskCreate, ClearTerminal, TaskReads, TaskStores, TaskAsk, Join,
     TaskContinues, Wake, AbortCancelled, Finally, Checkpoint, WaitIfPaused, HandlerReturns, HandlerThrows,
     TaskLife, RecoverTasks, TasksRecovered, Interrupted, RegisterHandler, Interrupt, TaskStart,
     ReadCreate, ReadPause, ReadResume, ReadCancel, ReadCheckpoint, ReadComplete, ReadFail,
     StorePlain, StoreResume, StoreCancel, StoreCheckpoint, StoreOutcome, WriteFails, processVars
<1>3. QED
  BY <1>1, <1>2

(* The executions that a woken or interrupted waiter may get to.           *)
LEMMA WakenLive ==
  ASSUME DOMAIN exec = TaskAttempt, NEW a, NEW abort, Waken(a, abort)
  PROVE  \A b \in TaskAttempt :
           /\ exec'[b] = "ending" => exec[b] = "ending"
           /\ exec'[b] \notin {"none", "done"} => exec[b] \notin {"none", "done"}
<1>1. AfterWait(a, abort) \in {"settling", "waiting", "running"}
  BY DEF AfterWait
<1>2. CASE exec[a] = "waiting" /\ exec' = [exec EXCEPT ![a] = AfterWait(a, abort)]
  BY <1>1, <1>2
<1>3. CASE exec' = exec
  BY <1>3
<1>4. QED
  BY <1>2, <1>3 DEF Waken

LEMMA FirstEnds ==
  ASSUME WorkInv, TaskNext, NEW a \in TaskAttempt, exec'[a] = "ending", exec[a] # "ending"
  PROVE  StoreOutcome \/ ReadComplete \/ ReadFail \/ WriteFails
<1>1. DOMAIN exec = TaskAttempt
  BY DEF WorkInv, TaskInv, TaskTypes
<1>2. CASE ReadCheckpoint
  BY <1>1, <1>2 DEF ReadCheckpoint
<1>3. CASE StoreResume \/ StoreCheckpoint
  BY <1>1, <1>3 DEF StoreResume, StoreCheckpoint
<1>4. ASSUME NEW b \in TaskAttempt, Wake(b) \/ AbortCancelled(b) PROVE FALSE
  BY <1>1, <1>4, WakenLive DEF Wake, AbortCancelled
<1>5. CASE \E b \in TaskAttempt : Finally(b) \/ Checkpoint(b) \/ WaitIfPaused(b) \/ HandlerReturns(b) \/ HandlerThrows(b)
  BY <1>1, <1>5 DEF Finally, Checkpoint, WaitIfPaused, HandlerReturns, HandlerThrows
<1>6. CASE Interrupt
  BY <1>1, <1>6, WakenLive DEF Interrupt
<1>7. CASE TaskExit
  BY <1>7 DEF TaskExit, Live
<1>8. CASE \/ ReadCreate \/ ReadPause \/ ReadResume \/ ReadCancel \/ StorePlain \/ StoreCancel
           \/ TaskCreate \/ ClearTerminal \/ (\E kind \in {"pause", "resume", "cancel"} : TaskAsk(kind))
           \/ TaskLife \/ RegisterHandler \/ TaskStart
  BY <1>8 DEF ReadCreate, ReadPause, ReadResume, ReadCancel, StorePlain, StoreCancel, TaskCreate, ClearTerminal,
     TaskAsk, Join, TaskLife, RecoverTasks, TasksRecovered, Interrupted, RegisterHandler, TaskStart, handlerVars
<1>9. QED
  BY <1>2, <1>3, <1>4, <1>5, <1>6, <1>7, <1>8 DEF TaskNext, TaskReads, TaskStores, TaskContinues

LEMMA EndsWithOutcomeStep ==
  ASSUME WorkInv, TaskNext
  PROVE  EndsWithOutcome'
<1>1. SUFFICES ASSUME NEW a \in TaskAttempt, exec'[a] = "ending"
               PROVE  Over(row') \/ orphaned' \/ Stopping'
  BY DEF EndsWithOutcome
<1>2. ~TaskExit
  BY <1>1 DEF TaskExit, Live
<1>3. (orphaned => orphaned') /\ (Stopping => Stopping')
  BY <1>2, ExcusesStay
<1>4. CASE exec[a] = "ending"
  <2>1. SUFFICES ASSUME Over(row), ~orphaned, ~Stopping
                 PROVE  Over(row')
    BY <1>3, <1>4 DEF WorkInv, Accounted, EndsWithOutcome
  <2>2. activeExec = a /\ a # NoExec
    BY <1>4, AttemptsPositive DEF WorkInv, TaskInv, ExecutionSound
  <2>3. writing = NoWrite
    BY <2>1, <2>2 DEF WorkInv, TaskInv, StartsAlone, Accounted, WriteSound, CreatedUnused
  <2>4. CASE TaskStores
    BY <2>3, <2>4 DEF TaskStores, StorePlain, StoreResume, StoreCancel, StoreCheckpoint, StoreOutcome,
       WriteFails, Stored
  <2>5. CASE ClearTerminal
    BY <2>5 DEF ClearTerminal, Over, WorkInv, TaskInv, TaskTypes, AnyRow
  <2>6. CASE RecoverTasks
    BY <2>1, <2>6 DEF RecoverTasks, Over
  <2>7. CASE row' = row
    BY <2>1, <2>7
  <2>8. QED
    BY <1>2, <2>4, <2>5, <2>6, <2>7 DEF TaskNext, TaskCreate, TaskReads, TaskAsk, Join,
     TaskContinues, Wake, AbortCancelled, Finally, Checkpoint, WaitIfPaused, HandlerReturns, HandlerThrows,
     TaskLife, TasksRecovered, Interrupted, RegisterHandler, Interrupt, TaskStart,
     ReadCreate, ReadPause, ReadResume, ReadCancel, ReadCheckpoint, ReadComplete, ReadFail
<1>5. CASE exec[a] # "ending"
  <2>1. CASE StoreOutcome
    BY <2>1 DEF StoreOutcome, Stored, WorkInv, Accounted, WriteSound
  <2>2. CASE ReadComplete
    BY <1>1, <1>5, <2>2 DEF ReadComplete, terminal, Over
  <2>3. CASE ReadFail
    <3>1. PICK kind \in {"fail", "interrupt"} :
            /\ Foremost(kind)
            /\ exec' = exec \/ terminal(row) \/ row.status = "absent" \/ kind = "interrupt"
      BY <2>3 DEF ReadFail
    <3>2. kind = "interrupt" => Stopping
      <4>1. chain # <<>> => 1 \in DOMAIN chain /\ chain[1] = Head(chain)
        BY DEF WorkInv, TaskInv, TaskTypes
      <4>2. QED
        BY <3>1, <4>1 DEF Foremost, WorkInv, Accounted, InterruptsWhenStopping
    <3>3. row' = row
      BY <2>3 DEF ReadFail
    <3>4. QED
      BY <1>1, <1>3, <1>5, <3>1, <3>2, <3>3 DEF terminal, Over
  <2>4. CASE WriteFails
    BY <1>1, <1>5, <2>4 DEF WriteFails, WorkInv, TaskInv, TaskTypes
  <2>5. QED
    BY <1>1, <1>5, <2>1, <2>2, <2>3, <2>4, FirstEnds
<1>6. QED
  BY <1>4, <1>5

LEMMA HeadStays ==
  ASSUME chain \in Seq(OpRecord), chain # <<>>, NEW e, chain' = chain \/ chain' = Append(chain, e)
  PROVE  chain' # <<>> /\ Head(chain') = Head(chain)
  OBVIOUS

(* While the first operation awaits the store, other steps only add to the *)
(* chain.                                                                  *)
LEMMA WriteKept ==
  ASSUME WorkInv, TaskNext, writing # NoWrite, writing' # NoWrite
  PROVE  /\ ~TaskReads /\ ~TaskStores /\ ~TaskExit /\ ~RecoverTasks
         /\ writing' = writing
         /\ chain # <<>> /\ chain' # <<>> /\ Head(chain') = Head(chain)
<1>1. ~TaskReads
  BY DEF TaskReads, ReadCreate, ReadPause, ReadResume, ReadCancel, ReadCheckpoint, ReadComplete, ReadFail, Foremost
<1>2. ~TaskStores /\ ~TaskExit
  BY DEF TaskStores, StorePlain, StoreResume, StoreCancel, StoreCheckpoint, StoreOutcome, WriteFails, Stored, TaskExit
<1>3. ~RecoverTasks
  BY DEF RecoverTasks, WorkInv, Accounted, StartsEmpty
<1>4. chain # <<>> /\ chain \in Seq(OpRecord)
  BY DEF WorkInv, TaskInv, TaskTypes, StartsAlone
<1>5. writing' = writing
  BY <1>1, <1>2, <1>3 DEF TaskNext, TaskCreate, ClearTerminal, TaskAsk, Join, TaskContinues, Wake, AbortCancelled,
     Finally, Checkpoint, WaitIfPaused, HandlerReturns, HandlerThrows, TaskLife, TasksRecovered, Interrupted,
     RegisterHandler, Interrupt, TaskStart
<1>6. ASSUME NEW a, NEW abort, Waken(a, abort)
      PROVE  \E e : chain' = chain \/ chain' = Append(chain, e)
  BY <1>6 DEF Waken
<1>7. \E e : chain' = chain \/ chain' = Append(chain, e)
  <2>1. CASE TaskCreate \/ (\E kind \in {"pause", "resume", "cancel"} : TaskAsk(kind)) \/ RegisterHandler
    BY <2>1 DEF TaskCreate, TaskAsk, Join, JoinChain, RegisterHandler
  <2>2. CASE \E a \in TaskAttempt : Wake(a) \/ AbortCancelled(a)
    BY <1>6, <2>2 DEF Wake, AbortCancelled
  <2>3. CASE Interrupt
    BY <1>6, <2>3 DEF Interrupt
  <2>4. CASE \E a \in TaskAttempt : Checkpoint(a) \/ HandlerReturns(a) \/ HandlerThrows(a)
    BY <2>4 DEF Checkpoint, HandlerReturns, HandlerThrows
  <2>5. CASE \/ ClearTerminal \/ TasksRecovered \/ Interrupted \/ TaskStart
             \/ \E a \in TaskAttempt : Finally(a) \/ WaitIfPaused(a)
    BY <2>5 DEF ClearTerminal, TasksRecovered, Interrupted, TaskStart, Finally, WaitIfPaused
  <2>6. QED
    BY <1>1, <1>2, <1>3, <2>1, <2>2, <2>3, <2>4, <2>5 DEF TaskNext, TaskContinues, TaskLife
<1>8. QED
  BY <1>1, <1>2, <1>3, <1>4, <1>5, <1>7, HeadStays

LEMMA SentSound ==
  ASSUME WorkInv, TaskReads, writing = NoWrite, writing' # NoWrite
  PROVE  WriteSound'
<1>1. row \in AnyRow /\ row' = row /\ activeExec' = activeExec /\ UNCHANGED <<program, orphaned>>
  BY DEF TaskReads, ReadCreate, ReadPause, ReadResume, ReadCancel, ReadCheckpoint, ReadComplete, ReadFail,
     handlerVars, processVars, historyVars, WorkInv, TaskInv, TaskTypes
<1>2. CASE ReadCreate
  <2>1. PICK r \in BOOLEAN : Foremost("create") /\ Send([row EXCEPT !.status = "paused", !.resumable = r])
    BY <1>2 DEF ReadCreate
  <2>2. chain' = chain /\ Head(chain).kind = "create" /\ ~Resuming(Head(chain))
    BY <2>1 DEF Foremost, Send, Resuming
  <2>3. writing'.attempt = row.attempt /\ writing'.status = "paused"
    BY <1>1, <2>1 DEF Send, AnyRow
  <2>4. QED
    BY <1>1, <2>2, <2>3 DEF WriteSound
<1>3. CASE ReadPause
  <2>1. /\ chain' = chain /\ Head(chain).kind = "pause" /\ row.status = "running"
        /\ writing' = [row EXCEPT !.status = "paused"]
    BY <1>3 DEF ReadPause, Foremost, Send, Return
  <2>2. writing'.attempt = row.attempt /\ writing'.status = "paused"
    BY <1>1, <2>1 DEF AnyRow
  <2>3. QED
    BY <1>1, <2>1, <2>2 DEF WriteSound, Resuming, Over
<1>4. CASE ReadCancel
  <2>1. /\ chain' = chain /\ Head(chain).kind = "cancel" /\ ~Over(row)
        /\ writing' = [row EXCEPT !.status = "cancelled"]
    BY <1>4 DEF ReadCancel, Foremost, Send, Return, terminal, Over
  <2>2. writing'.attempt = row.attempt /\ writing'.status = "cancelled"
    BY <1>1, <2>1 DEF AnyRow
  <2>3. QED
    BY <1>1, <2>1, <2>2 DEF WriteSound, Resuming, Over
<1>5. CASE ReadComplete
  <2>1. /\ chain' = chain /\ Head(chain).kind = "complete" /\ ~Over(row)
        /\ writing' = [row EXCEPT !.status = "completed", !.pending = FALSE]
    BY <1>5 DEF ReadComplete, Foremost, Send, Return, terminal, Over
  <2>2. writing'.attempt = row.attempt /\ writing'.status = "completed"
    BY <1>1, <2>1 DEF AnyRow
  <2>3. QED
    BY <1>1, <2>1, <2>2 DEF WriteSound, Resuming, Over
<1>6. CASE ReadFail
  <2>1. /\ chain' = chain /\ Head(chain).kind = "fail" /\ ~Over(row)
        /\ writing' = [row EXCEPT !.status = "failed"]
    BY <1>6 DEF ReadFail, Foremost, Send, Return, terminal, Over
  <2>2. writing'.attempt = row.attempt /\ writing'.status = "failed"
    BY <1>1, <2>1 DEF AnyRow
  <2>3. QED
    BY <1>1, <2>1, <2>2 DEF WriteSound, Resuming, Over
<1>7. CASE ReadCheckpoint
  <2>1. /\ chain' = chain /\ Head(chain).kind = "checkpoint" /\ ~Over(row) /\ writing' = row
    BY <1>7 DEF ReadCheckpoint, Foremost, Send, terminal, Over
  <2>2. QED
    BY <1>1, <2>1 DEF WriteSound, Resuming
<1>8. CASE ReadResume
  <2>1. PICK kind \in {"resume", "autoResume"} :
          /\ Foremost(kind)
          /\ \/ /\ activeExec # NoExec /\ row.status = "paused" /\ writing' = Resumed
                /\ chain' = <<Op(kind, activeExec)>> \o Tail(chain)
             \/ activeExec = NoExec /\ Send(Restarted)
    BY <1>8, Zenon DEF ReadResume, Return
  <2>2. CASE activeExec = NoExec /\ Send(Restarted)
    <3>1. chain' = chain /\ writing' = Restarted /\ Head(chain).kind \in {"resume", "autoResume"} /\ chain # <<>>
      BY <2>1, <2>2 DEF Send, Foremost
    <3>2. writing'.attempt = row.attempt + 1
      <4>1. Resumed \in AnyRow /\ Resumed.attempt = row.attempt
        BY <1>1 DEF AnyRow, Resumed
      <4>2. QED
        BY <3>1, <4>1 DEF Restarted, AnyRow
    <3>3. Head(chain).exec = NoExec
      <4>1. 1 \in DOMAIN chain /\ chain[1] = Head(chain)
        BY <3>1 DEF WorkInv, TaskInv, TaskTypes
      <4>2. QED
        BY <3>1, <4>1 DEF WorkInv, Accounted, FindsWhenFirst, Found, Finding
    <3>4. QED
      BY <1>1, <3>1, <3>2, <3>3 DEF WriteSound, Resuming
  <2>3. CASE activeExec # NoExec /\ row.status = "paused" /\ writing' = Resumed
             /\ chain' = <<Op(kind, activeExec)>> \o Tail(chain)
    <3>1. Head(chain') = Op(kind, activeExec)
      BY <2>1, <2>3 DEF Foremost, WorkInv, TaskInv, TaskTypes
    <3>2. Head(chain').kind = kind /\ Head(chain').exec = activeExec /\ ~Resuming(Head(chain'))
      BY <2>3, <3>1 DEF Op, Resuming
    <3>3. writing'.attempt = row.attempt /\ ~Over(row)
      BY <1>1, <2>3 DEF Resumed, AnyRow, Over
    <3>4. exec' = exec
      BY <1>8 DEF ReadResume, handlerVars
    <3>5. (\A a \in TaskAttempt : exec[a] # "ending") \/ orphaned \/ Stopping
      BY <3>3 DEF WorkInv, Accounted, EndsWithOutcome
    <3>6. (\A a \in TaskAttempt : exec'[a] # "ending") \/ orphaned' \/ Stopping'
      BY <1>1, <3>4, <3>5 DEF Stopping
    <3>7. QED
      BY <1>1, <2>1, <2>3, <3>2, <3>3, <3>6 DEF WriteSound
  <2>4. QED
    BY <2>1, <2>2, <2>3
<1>9. QED
  BY <1>2, <1>3, <1>4, <1>5, <1>6, <1>7, <1>8 DEF TaskReads

LEMMA FoundMoves ==
  ASSUME NEW c \in Seq(OpRecord), NEW e \in OpRecord, Found(c) \subseteq {1}
  PROVE  /\ ~Finding(e) => Found(Append(c, e)) = Found(c)
         /\ c # <<>> => Found(Tail(c)) = {} /\ Found(<<e>> \o Tail(c)) \subseteq {1}
<1>1. /\ Len(c) \in Nat /\ DOMAIN c = 1..Len(c) /\ DOMAIN Append(c, e) = 1..(Len(c) + 1)
      /\ \A i \in 1..(Len(c) + 1) : Append(c, e)[i] = IF i <= Len(c) THEN c[i] ELSE e
  OBVIOUS
<1>2. ~Finding(e) => Found(Append(c, e)) = Found(c)
  BY <1>1 DEF Found
<1>3. ASSUME c # <<>> PROVE Found(Tail(c)) = {} /\ Found(<<e>> \o Tail(c)) \subseteq {1}
  <2> DEFINE t == Tail(c)
  <2>1. /\ t \in Seq(OpRecord) /\ Len(t) \in Nat /\ DOMAIN t = 1..Len(t)
        /\ \A i \in 1..Len(t) : t[i] = c[i + 1] /\ i + 1 \in DOMAIN c /\ i + 1 # 1
    BY <1>1, <1>3
  <2>2. Found(t) = {}
    BY <2>1 DEF Found
  <2> HIDE DEF t
  <2>3. /\ DOMAIN (<<e>> \o t) = 1..(Len(t) + 1)
        /\ \A i \in 1..(Len(t) + 1) : i # 1 => (<<e>> \o t)[i] = t[i - 1] /\ i - 1 \in DOMAIN t
    BY <2>1
  <2>4. Found(<<e>> \o t) \subseteq {1}
    BY <2>2, <2>3 DEF Found
  <2>5. QED
    BY <2>2, <2>4 DEF t
<1>4. QED
  BY <1>2, <1>3

LEMMA FindsStep ==
  ASSUME WorkInv, TaskNext
  PROVE  FindsWhenFirst'
<1>1. /\ chain \in Seq(OpRecord) /\ Found(chain) \subseteq {1}
      /\ writing = NoWrite => Found(chain) = {}
  BY DEF WorkInv, TaskInv, TaskTypes, Accounted, FindsWhenFirst
<1> SUFFICES Found(chain') \subseteq {1} /\ (writing' = NoWrite => Found(chain') = {})
  BY DEF FindsWhenFirst, Found
<1>2. Found(<<>>) = {}
  BY DEF Found
<1>3. CASE TaskStores
  <2>1. chain # <<>> /\ (chain' = Tail(chain) \/ chain' = Append(Tail(chain), Op("fail", Head(chain).exec)))
    BY <1>3 DEF TaskStores, StorePlain, StoreResume, StoreCancel, StoreCheckpoint, StoreOutcome, WriteFails, Stored
  <2>2. Op("fail", Head(chain).exec) \in OpRecord /\ Tail(chain) \in Seq(OpRecord)
    BY <2>1, HeadAndTail, OpType DEF WorkInv, TaskInv, HandlerOp
  <2>3. ~Finding(Op("fail", Head(chain).exec))
    BY DEF Finding, Op
  <2>4. Found(Tail(chain)) = {}
    BY <1>1, <2>1, <2>2, FoundMoves
  <2>5. Found(Append(Tail(chain), Op("fail", Head(chain).exec))) = {}
    BY <2>2, <2>3, <2>4, FoundMoves
  <2>6. QED
    BY <2>1, <2>4, <2>5
<1>4. CASE TaskExit
  BY <1>2, <1>4 DEF TaskExit
<1>5. CASE ~TaskStores /\ ~TaskExit
  <2>1. writing' = NoWrite => writing = NoWrite
    <3>1. CASE writing = NoWrite
      BY <3>1
    <3>2. CASE writing # NoWrite
      <4>1. ~TaskReads
        BY <3>2 DEF TaskReads, ReadCreate, ReadPause, ReadResume, ReadCancel, ReadCheckpoint, ReadComplete, ReadFail, Foremost
      <4>2. QED
        BY <1>5, <3>2, <4>1 DEF TaskNext, TaskCreate, ClearTerminal, TaskAsk, Join, TaskContinues, Wake,
           AbortCancelled, Finally, Checkpoint, WaitIfPaused, HandlerReturns, HandlerThrows, TaskLife,
           RecoverTasks, TasksRecovered, Interrupted, RegisterHandler, Interrupt, TaskStart
    <3>3. QED
      BY <3>1, <3>2
  <2>2. PICK e \in OpRecord : Joining(e) /\ Moves(e)
    BY ChainMoves
  <2>3. CASE Finding(e)
    BY <1>1, <2>2, <2>3, FoundMoves DEF Joining
  <2>4. CASE ~Finding(e)
    <3>1. Found(chain') = Found(chain) \/ Found(chain') = {}
      <4>1. ASSUME chain # <<>> PROVE Tail(chain) \in Seq(OpRecord) /\ Found(Tail(chain)) = {}
        <5>1. Tail(chain) \in Seq(OpRecord)
          BY <1>1, <4>1
        <5>2. Found(Tail(chain)) = {}
          BY <1>1, <2>2, <4>1, FoundMoves
        <5>3. QED
          BY <5>1, <5>2
      <4>2. CASE chain' = chain \/ chain' = <<>> \/ chain' = Append(chain, e)
        <5>1. Found(Append(chain, e)) = Found(chain)
          BY <1>1, <2>2, <2>4, FoundMoves
        <5>2. QED
          BY <1>2, <4>2, <5>1, Zenon
      <4>3. CASE chain # <<>> /\ (chain' = Tail(chain) \/ chain' = Append(Tail(chain), e))
        <5>1. Tail(chain) \in Seq(OpRecord) /\ Found(Tail(chain)) = {}
          BY <4>1, <4>3
        <5>2. Found(Append(Tail(chain), e)) = Found(Tail(chain))
          BY <2>2, <2>4, <5>1, FoundMoves
        <5>3. QED
          BY <4>3, <5>1, <5>2, Zenon
      <4>4. CASE chain # <<>> /\ chain' = <<e>> \o Tail(chain)
        <5> DEFINE t == Tail(chain)
        <5>1. t \in Seq(OpRecord) /\ Found(t) = {} /\ Len(t) \in Nat /\ DOMAIN t = 1..Len(t)
          BY <4>1, <4>4
        <5> HIDE DEF t
        <5>2. /\ DOMAIN (<<e>> \o t) = 1..(Len(t) + 1)
              /\ \A i \in 1..(Len(t) + 1) : i # 1 => (<<e>> \o t)[i] = t[i - 1] /\ i - 1 \in DOMAIN t
              /\ (<<e>> \o t)[1] = e
          BY <5>1
        <5>3. Found(<<e>> \o t) = {}
          BY <2>4, <5>1, <5>2 DEF Found
        <5>4. QED
          BY <4>4, <5>3 DEF t
      <4>5. QED
        BY <2>2, <4>2, <4>3, <4>4 DEF Moves
    <3>2. QED
      BY <1>1, <2>1, <3>1
  <2>5. QED
    BY <2>3, <2>4
<1>6. QED
  BY <1>3, <1>4, <1>5

LEMMA WriteSoundStep ==
  ASSUME WorkInv, TaskNext
  PROVE  WriteSound'
<1>1. CASE writing' = NoWrite
  BY <1>1 DEF WriteSound
<1>2. CASE writing = NoWrite /\ writing' # NoWrite
  <2>1. TaskReads
    BY <1>2 DEF TaskNext, TaskCreate, ClearTerminal, TaskStores, TaskAsk, Join,
     TaskContinues, Wake, AbortCancelled, Finally, Checkpoint, WaitIfPaused, HandlerReturns, HandlerThrows,
     TaskLife, RecoverTasks, TasksRecovered, Interrupted, RegisterHandler, Interrupt, TaskStart, TaskExit,
     StorePlain, StoreResume, StoreCancel, StoreCheckpoint, StoreOutcome, WriteFails, Stored
  <2>2. QED
    BY <1>2, <2>1, SentSound
<1>3. CASE writing # NoWrite /\ writing' # NoWrite
  <2>1. /\ ~TaskReads /\ ~TaskStores /\ ~TaskExit /\ ~RecoverTasks
        /\ writing' = writing /\ Head(chain') = Head(chain) /\ chain # <<>>
    BY <1>3, WriteKept
  <2>2. WriteSound /\ row \in AnyRow
    BY DEF WorkInv, Accounted, TaskInv, TaskTypes
  <2>3. (orphaned => orphaned') /\ (Stopping => Stopping')
    BY <2>1, ExcusesStay
  <2>4. CASE \E a \in TaskAttempt : exec[a] = "ending"
    <3>1. orphaned \/ Stopping \/ Over(row)
      BY <2>4 DEF WorkInv, Accounted, EndsWithOutcome
    <3>2. activeExec # NoExec
      BY <2>4, AttemptsPositive DEF WorkInv, TaskInv, ExecutionSound
    <3>3. orphaned \/ Stopping
      BY <1>3, <2>1, <2>2, <3>1, <3>2 DEF WriteSound, WorkInv, TaskInv, StartsAlone, Accounted, CreatedUnused
    <3>4. row' = row
      <4>1. CASE ClearTerminal
        BY <1>3, <2>1, <2>2, <3>2, <4>1 DEF ClearTerminal, terminal, WriteSound, WorkInv, TaskInv, StartsAlone,
           Accounted, CreatedUnused, Over
      <4>2. QED
        BY <2>1, <4>1 DEF TaskNext, TaskCreate, TaskAsk, Join, TaskContinues, Wake, AbortCancelled, Finally,
           Checkpoint, WaitIfPaused, HandlerReturns, HandlerThrows, TaskLife, TasksRecovered, Interrupted,
           RegisterHandler, Interrupt, TaskStart
    <3>5. QED
      BY <1>3, <2>1, <2>2, <2>3, <3>3, <3>4 DEF WriteSound
  <2>5. CASE \A a \in TaskAttempt : exec[a] # "ending"
    <3>1. \A a \in TaskAttempt : exec'[a] # "ending"
      BY <2>1, <2>5, FirstEnds DEF TaskReads, TaskStores
    <3>2. activeExec' = activeExec
      BY <2>1, <2>5 DEF TaskNext, TaskCreate, ClearTerminal, TaskAsk, Join, TaskContinues, Wake, AbortCancelled,
         Finally, Checkpoint, WaitIfPaused, HandlerReturns, HandlerThrows, TaskLife, TasksRecovered, Interrupted,
         RegisterHandler, Interrupt, TaskStart, handlerVars
    <3>3. CASE ClearTerminal
      <4>1. Resuming(Head(chain))
        <5>1. 1 \in DOMAIN chain /\ chain[1] = Head(chain)
          BY <2>1 DEF WorkInv, TaskInv, TaskTypes
        <5>2. row.status # "absent" /\ Over(row)
          BY <3>3 DEF ClearTerminal, terminal, Over
        <5>3. Head(chain).kind # "create"
          BY <5>1, <5>2 DEF WorkInv, TaskInv, CreatesFirst
        <5>4. QED
          BY <1>3, <2>2, <5>2, <5>3 DEF WriteSound
      <4>2. row'.attempt = row.attempt
        BY <2>2, <3>3 DEF ClearTerminal, AnyRow
      <4>3. QED
        BY <1>3, <2>1, <2>2, <4>1, <4>2 DEF WriteSound, Resuming
    <3>4. CASE row' = row
      BY <1>3, <2>1, <2>2, <2>3, <3>1, <3>2, <3>4 DEF WriteSound
    <3>5. QED
      BY <2>1, <3>3, <3>4 DEF TaskNext, TaskCreate, TaskAsk, Join, TaskContinues, Wake, AbortCancelled, Finally,
         Checkpoint, WaitIfPaused, HandlerReturns, HandlerThrows, TaskLife, TasksRecovered, Interrupted,
         RegisterHandler, Interrupt, TaskStart
  <2>6. QED
    BY <2>4, <2>5
<1>4. QED
  BY <1>1, <1>2, <1>3

(* Only the store of a start makes an execution live.                      *)
LEMMA LiveStep ==
  ASSUME WorkInv, TaskNext, ~(writing # NoWrite /\ Resuming(Head(chain)))
  PROVE  Live' \subseteq Live
<1>1. DOMAIN exec = TaskAttempt
  BY DEF WorkInv, TaskInv, TaskTypes
<1>2. ASSUME NEW a \in TaskAttempt, exec[a] \notin {"none", "done"}, NEW s, exec' = exec \/ exec' = [exec EXCEPT ![a] = s]
      PROVE  Live' \subseteq Live
  BY <1>1, <1>2 DEF Live
<1>3. ASSUME NEW a, NEW abort, Waken(a, abort)
      PROVE  Live' \subseteq Live
  BY <1>1, <1>3, WakenLive DEF Live
<1>4. CASE exec' = exec
  BY <1>4 DEF Live
<1>5. ASSUME chain # <<>>, Head(chain).kind \in HandlerOp, NEW s,
             exec' = exec \/ exec' = [exec EXCEPT ![Head(chain).exec] = s]
      PROVE  Live' \subseteq Live
  <2>1. CASE Head(chain).exec \in TaskAttempt
    <3>1. exec[Head(chain).exec] \notin {"none", "done"}
      BY <1>5, <2>1, FirstIsOfActive DEF WorkInv
    <3>2. QED
      BY <1>2, <1>5, <2>1, <3>1
  <2>2. CASE Head(chain).exec \notin TaskAttempt
    <3>1. \A a \in TaskAttempt : exec'[a] = exec[a]
      BY <1>1, <1>5, <2>2
    <3>2. QED
      BY <3>1 DEF Live
  <2>3. QED
    BY <2>1, <2>2
<1>6. CASE ReadCheckpoint \/ ReadComplete \/ ReadFail
  <2>1. chain # <<>> /\ Head(chain).kind \in HandlerOp
    BY <1>6 DEF ReadCheckpoint, ReadComplete, ReadFail, Foremost, HandlerOp
  <2>2. \E s : exec' = exec \/ exec' = [exec EXCEPT ![Head(chain).exec] = s]
    BY <1>6 DEF ReadCheckpoint, ReadComplete, ReadFail
  <2>3. QED
    BY <1>5, <2>1, <2>2
<1>7. CASE StoreCheckpoint \/ StoreOutcome
  <2>1. chain # <<>> /\ Head(chain).kind \in HandlerOp
    BY <1>7 DEF StoreCheckpoint, StoreOutcome, Stored, HandlerOp
  <2>2. \E s : exec' = exec \/ exec' = [exec EXCEPT ![Head(chain).exec] = s]
    BY <1>7 DEF StoreCheckpoint, StoreOutcome
  <2>3. QED
    BY <1>5, <2>1, <2>2
<1>8. CASE WriteFails
  <2>1. exec' = exec \/ (chain # <<>> /\ Head(chain).kind \in HandlerOp
                         /\ \E s : exec' = exec \/ exec' = [exec EXCEPT ![Head(chain).exec] = s])
    BY <1>8 DEF WriteFails, HandlerOp
  <2>2. QED
    BY <1>4, <1>5, <2>1
<1>9. CASE StoreResume
  <2>1. exec' = exec
    BY <1>9 DEF StoreResume, Stored, Resuming
  <2>2. QED
    BY <1>4, <2>1
<1>10. CASE \E a \in TaskAttempt : Wake(a) \/ AbortCancelled(a)
  BY <1>3, <1>10 DEF Wake, AbortCancelled
<1>11. CASE Interrupt
  BY <1>3, <1>4, <1>11 DEF Interrupt
<1>12. ASSUME NEW a \in TaskAttempt,
              Finally(a) \/ Checkpoint(a) \/ WaitIfPaused(a) \/ HandlerReturns(a) \/ HandlerThrows(a)
       PROVE  Live' \subseteq Live
  BY <1>2, <1>12 DEF Finally, Checkpoint, WaitIfPaused, HandlerReturns, HandlerThrows
<1>13. CASE TaskExit
  BY <1>13 DEF TaskExit, Live
<1>14. CASE \/ ReadCreate \/ ReadPause \/ ReadResume \/ ReadCancel \/ StorePlain \/ StoreCancel
            \/ TaskCreate \/ ClearTerminal \/ (\E kind \in {"pause", "resume", "cancel"} : TaskAsk(kind))
            \/ TaskLife \/ RegisterHandler \/ TaskStart
  BY <1>4, <1>14 DEF ReadCreate, ReadPause, ReadResume, ReadCancel, StorePlain, StoreCancel, TaskCreate,
     ClearTerminal, TaskAsk, Join, TaskLife, RecoverTasks, TasksRecovered, Interrupted, RegisterHandler,
     TaskStart, handlerVars
<1>15. QED
  BY <1>6, <1>7, <1>8, <1>9, <1>10, <1>11, <1>12, <1>13, <1>14 DEF TaskNext, TaskReads, TaskStores, TaskContinues

LEMMA NoStartSent ==
  ASSUME WorkInv, TaskNext, registered = "no", ~(writing # NoWrite /\ Resuming(Head(chain)))
  PROVE  ~(writing' # NoWrite /\ Resuming(Head(chain')))
<1>1. SUFFICES ASSUME writing' # NoWrite PROVE ~Resuming(Head(chain'))
  OBVIOUS
<1>2. CASE writing # NoWrite
  BY <1>1, <1>2, WriteKept
<1>3. CASE writing = NoWrite
  <2>1. TaskReads
    BY <1>1, <1>3 DEF TaskNext, TaskCreate, ClearTerminal, TaskStores, TaskAsk, Join,
     TaskContinues, Wake, AbortCancelled, Finally, Checkpoint, WaitIfPaused, HandlerReturns, HandlerThrows,
     TaskLife, RecoverTasks, TasksRecovered, Interrupted, RegisterHandler, Interrupt, TaskStart, TaskExit,
     StorePlain, StoreResume, StoreCancel, StoreCheckpoint, StoreOutcome, WriteFails, Stored
  <2>2. CASE ReadResume
    <3>1. PICK kind \in {"resume", "autoResume"} :
            chain # <<>> /\ activeExec # NoExec /\ chain' = <<Op(kind, activeExec)>> \o Tail(chain)
      BY <1>1, <1>3, <2>2, Zenon DEF ReadResume, Foremost, Return
    <3>2. Head(chain') = Op(kind, activeExec)
      BY <3>1 DEF WorkInv, TaskInv, TaskTypes
    <3>3. QED
      BY <3>1, <3>2 DEF Op, Resuming
  <2>3. CASE ReadCreate \/ ReadPause \/ ReadCancel \/ ReadCheckpoint \/ ReadComplete \/ ReadFail
    <3>1. chain' = chain /\ Head(chain).kind \notin {"resume", "autoResume"}
      BY <1>1, <1>3, <2>3 DEF ReadCreate, ReadPause, ReadCancel, ReadCheckpoint, ReadComplete, ReadFail,
         Foremost, Send, Return
    <3>2. QED
      BY <3>1 DEF Resuming
  <2>4. QED
    BY <2>1, <2>2, <2>3 DEF TaskReads
<1>4. QED
  BY <1>2, <1>3

LEMMA StopsForStep ==
  ASSUME WorkInv, TaskNext
  PROVE  StopsFor'
<1>1. SUFFICES ASSUME Stopping', ~lateStart' PROVE StopsFor'
  BY DEF StopsFor
<1>2. ~TaskExit
  BY <1>1 DEF TaskExit, Stopping
<1>3. CASE Interrupt
  <2>1. ~(writing.attempt > row.attempt) /\ row.attempt \in Nat /\ writing' = writing
    BY <1>1, <1>3 DEF Interrupt, WorkInv, TaskInv, TaskTypes, AnyRow
  <2>2. ~(writing # NoWrite /\ Resuming(Head(chain)))
    BY <2>1 DEF WorkInv, Accounted, WriteSound
  <2>3. Live' \subseteq Live
    BY <2>2, LiveStep
  <2>4. Live \subseteq {activeExec}
    BY DEF WorkInv, TaskInv, ExecutionSound, Live
  <2>5. writing' # NoWrite => Head(chain') = Head(chain)
    BY <2>1, WriteKept
  <2>6. registered' = "no" /\ awaited' = activeExec /\ program' = "stopping"
    BY <1>3 DEF Interrupt
  <2>7. QED
    BY <2>1, <2>2, <2>3, <2>4, <2>5, <2>6 DEF StopsFor, Resuming
<1>4. CASE ~Interrupt
  <2>1. Stopping
    BY <1>1, <1>2, <1>4 DEF Stopping, TaskNext, TaskCreate, ClearTerminal, TaskReads, TaskStores, TaskAsk, Join,
     TaskContinues, Wake, AbortCancelled, Finally, Checkpoint, WaitIfPaused, HandlerReturns, HandlerThrows,
     TaskLife, RecoverTasks, TasksRecovered, Interrupted, RegisterHandler, TaskStart,
     ReadCreate, ReadPause, ReadResume, ReadCancel, ReadCheckpoint, ReadComplete, ReadFail,
     StorePlain, StoreResume, StoreCancel, StoreCheckpoint, StoreOutcome, WriteFails, processVars
  <2>7. ~lateStart
    BY <1>1, <1>2, <1>4 DEF TaskNext, TaskCreate, ClearTerminal, TaskReads, TaskStores, TaskAsk, Join,
     TaskContinues, Wake, AbortCancelled, Finally, Checkpoint, WaitIfPaused, HandlerReturns, HandlerThrows,
     TaskLife, RecoverTasks, TasksRecovered, Interrupted, RegisterHandler, TaskStart,
     ReadCreate, ReadPause, ReadResume, ReadCancel, ReadCheckpoint, ReadComplete, ReadFail,
     StorePlain, StoreResume, StoreCancel, StoreCheckpoint, StoreOutcome, WriteFails, historyVars
  <2>2. /\ registered = "no" /\ Live \subseteq {awaited} /\ ~(writing # NoWrite /\ Resuming(Head(chain)))
        /\ program = "stopped" => Live = {}
    BY <2>1, <2>7 DEF WorkInv, Accounted, StopsFor
  <2>3. Live' \subseteq Live /\ ~(writing' # NoWrite /\ Resuming(Head(chain')))
    BY <2>2, LiveStep, NoStartSent
  <2>4. UNCHANGED <<registered, awaited>>
    BY <1>2, <1>4, <2>1 DEF Stopping, TaskNext, TaskCreate, ClearTerminal, TaskReads, TaskStores, TaskAsk, Join,
     TaskContinues, Wake, AbortCancelled, Finally, Checkpoint, WaitIfPaused, HandlerReturns, HandlerThrows,
     TaskLife, RecoverTasks, TasksRecovered, Interrupted, RegisterHandler, TaskStart,
     ReadCreate, ReadPause, ReadResume, ReadCancel, ReadCheckpoint, ReadComplete, ReadFail,
     StorePlain, StoreResume, StoreCancel, StoreCheckpoint, StoreOutcome, WriteFails, processVars
  <2>5. program' = "stopped" => program = "stopped" \/ awaited \notin Live
    BY <1>2, <1>4 DEF TaskNext, TaskCreate, ClearTerminal, TaskReads, TaskStores, TaskAsk, Join,
     TaskContinues, Wake, AbortCancelled, Finally, Checkpoint, WaitIfPaused, HandlerReturns, HandlerThrows,
     TaskLife, RecoverTasks, TasksRecovered, Interrupted, RegisterHandler, TaskStart,
     ReadCreate, ReadPause, ReadResume, ReadCancel, ReadCheckpoint, ReadComplete, ReadFail,
     StorePlain, StoreResume, StoreCancel, StoreCheckpoint, StoreOutcome, WriteFails, processVars
  <2>6. QED
    BY <2>2, <2>3, <2>4, <2>5 DEF StopsFor, Resuming
<1>5. QED
  BY <1>3, <1>4

LEMMA WorkInit == TaskInit => WorkInv
<1>1. SUFFICES ASSUME TaskInit PROVE WorkInv
  OBVIOUS
<1>2. TaskInv
  BY <1>1, TaskInitSound
<1>3. Accounted
  BY <1>1 DEF TaskInit, Accounted, WriteSound, EndsWithOutcome, InterruptsWhenStopping, FindsWhenFirst, Found,
     RunningExecutes, StartsEmpty, CreatedUnused, StopsFor, Stopping
<1>4. QED
  BY <1>2, <1>3 DEF WorkInv

LEMMA WorkStep == WorkInv /\ [TaskNext]_taskVars => WorkInv'
<1>1. CASE UNCHANGED taskVars
  BY <1>1, TaskStep DEF taskVars, WorkInv, Accounted, WriteSound, EndsWithOutcome, InterruptsWhenStopping,
     FindsWhenFirst, Found, RunningExecutes, StartsEmpty, CreatedUnused, StopsFor, Stopping, Live, Resuming,
     Finding, Over
<1>2. ASSUME WorkInv, TaskNext PROVE WorkInv'
  <2>1. TaskInv'
    BY <1>2, TaskStep DEF WorkInv
  <2>2. QED
    BY <1>2, <2>1, WriteSoundStep, EndsWithOutcomeStep, InterruptsStep, FindsStep, RunningExecutesStep,
       StartsEmptyStep, CreatedUnusedStep, StopsForStep DEF WorkInv, Accounted
<1>3. QED
  BY <1>1, <1>2

(* A task that is running in the store has an execution, unless neither    *)
(* its result nor its failure could be stored: whoever marks the row       *)
(* running starts or holds an execution, and the executions end after the  *)
(* outcome.                                                                *)
THEOREM RunningIsExecuted == TaskSpec => []RunningHasExecution
<1>1. WorkInv => RunningHasExecution
  BY DEF WorkInv, Accounted, RunningExecutes, RunningHasExecution
<1>2. QED
  BY <1>1, WorkInit, WorkStep, PTL DEF TaskSpec

(* When the shutdown has waited for the executions of the runner and goes  *)
(* on to close the store, none is left and none can start, except the one  *)
(* whose start was being written when it looked.                           *)
THEOREM ShutdownLeavesNone == TaskSpec => []ShutdownStops
<1>1. WorkInv => ShutdownStops
  BY DEF WorkInv, Accounted, StopsFor, Stopping, ShutdownStops
<1>2. QED
  BY <1>1, WorkInit, WorkStep, PTL DEF TaskSpec
=============================================================================
