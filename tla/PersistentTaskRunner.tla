-------------------------- MODULE PersistentTaskRunner --------------------------
(***************************************************************************)
(* One durable background task (src/main/tasks/persistent-task-runner.ts): *)
(* its row in the store, the chain of transitions that change the row, one *)
(* after the other and each a read and a write, and the executions of its  *)
(* handler, one per attempt.  The row survives the program; all else does  *)
(* not.                                                                    *)
(***************************************************************************)
EXTENDS Naturals, Sequences, FiniteSets

CONSTANTS
  MaxAttempts,  \* bound: executions of the task
  MaxChain,     \* bound: operations of users that wait in the chain
  MaxFailures,  \* bound: writes the store refuses
  MaxStarts     \* bound: starts of the program

ASSUME TaskConstants ==
  /\ {MaxAttempts, MaxChain, MaxFailures} \subseteq Nat
  /\ MaxStarts \in Nat \ {0}

TaskAttempt == 1..MaxAttempts
NoExec  == 0

TaskRow == [status : {"absent", "paused", "running", "completed", "failed", "cancelled"},
            attempt : 0..MaxAttempts, resumable : BOOLEAN,
            pending : BOOLEAN]   \* the error says that the task waits for its handler

NoWrite == [status |-> "none", attempt |-> 0, resumable |-> FALSE, pending |-> FALSE]

UserOp == {"create", "pause", "resume", "autoResume", "cancel"}
HandlerOp == {"checkpoint", "complete", "fail", "interrupt"}

VARIABLES
  row,         \* durable: the row of the task
  chain,       \* transitions.get(id): the operations, the first one under way
  writing,     \* the row the first operation has sent to the store
  exec,        \* exec[a]: where execution a is
  signal,      \* signal[a]: its abort signal
  activeExec,  \* the entry of the map of active executions
  effects,     \* what callers still owe executions: wakes and aborts
  registered,  \* whether the handler is, since before or after the recovery
  program,     \* the program: recovering, resuming, up, stopping, stopped, down
  awaited,     \* the execution the shutdown waits for
  starts,      \* times the program has started
  failures,    \* writes refused so far
  orphaned,    \* history: an execution ended although neither outcome was stored
  swallowed,   \* history: a background resume failed
  lateStart    \* history: a start was under way when the shutdown looked

taskVars == <<row, chain, writing, exec, signal, activeExec, effects, registered, program, awaited,
              starts, failures, orphaned, swallowed, lateStart>>

terminal(r) == r.status \in {"completed", "failed", "cancelled"}

TaskTypeOK ==
  /\ row \in TaskRow
  /\ chain \in Seq([kind : UserOp \cup HandlerOp, exec : TaskAttempt \cup {NoExec}])
  /\ writing \in TaskRow \cup {NoWrite}
  /\ exec \in [TaskAttempt -> {"none", "running", "checkpoint", "waiting", "settling", "ending", "done"}]
  /\ signal \in [TaskAttempt -> {"clear", "cancelled", "interrupted"}]
  /\ activeExec \in TaskAttempt \cup {NoExec}
  /\ effects \subseteq [kind : {"wake", "abort"}, exec : TaskAttempt]
  /\ registered \in {"no", "early", "late"}
  /\ program \in {"recovering", "resuming", "up", "stopping", "stopped", "down"}
  /\ awaited \in TaskAttempt \cup {NoExec}
  /\ starts \in 1..MaxStarts /\ failures \in 0..MaxFailures
  /\ orphaned \in BOOLEAN /\ swallowed \in BOOLEAN /\ lateStart \in BOOLEAN

TaskInit ==
  /\ row = [status |-> "absent", attempt |-> 0, resumable |-> FALSE, pending |-> FALSE]
  /\ chain = <<>> /\ writing = NoWrite
  /\ exec = [a \in TaskAttempt |-> "none"] /\ signal = [a \in TaskAttempt |-> "clear"]
  /\ activeExec = NoExec /\ effects = {}
  /\ registered = "no" /\ awaited = NoExec
  /\ program = "recovering" /\ starts = 1 /\ failures = 0
  /\ orphaned = FALSE /\ swallowed = FALSE /\ lateStart = FALSE

historyVars  == <<orphaned, swallowed, lateStart>>
processVars  == <<registered, program, awaited, starts>>
handlerVars == <<exec, signal, activeExec, effects>>

Op(kind, a) == [kind |-> kind, exec |-> a]
Live == {a \in TaskAttempt : exec[a] \notin {"none", "done"}}

(* Continuations of finished transitions run before anything new comes in. *)
turnOver == effects = {} /\ \A a \in TaskAttempt : exec[a] # "ending"
awake == program \in {"up", "stopping", "stopped"}
-----------------------------------------------------------------------------
(* Requests: each only joins the chain.                                    *)
JoinChain(kind) == chain' = Append(chain, Op(kind, NoExec))

Join(kind) ==
  /\ JoinChain(kind)
  /\ UNCHANGED <<row, writing, handlerVars, processVars, failures, historyVars>>

resumesAhead == Cardinality({i \in DOMAIN chain : chain[i].kind \in {"resume", "autoResume"}})
mayResume == row.attempt + resumesAhead < MaxAttempts

TaskCreate ==
  /\ program = "up" /\ turnOver
  /\ row.status = "absent" /\ row.attempt = 0 /\ chain = <<>>
  /\ Join("create")

(* pause, resume and cancel of a task that has been created.               *)
TaskAsk(kind) ==
  /\ awake /\ turnOver /\ Len(chain) < MaxChain
  /\ row.status # "absent"
  /\ kind = "resume" => mayResume
  /\ Join(kind)

(* clearTerminalTasks and the pruning go past the chain of the task.       *)
ClearTerminal ==
  /\ awake /\ terminal(row)
  /\ row' = [row EXCEPT !.status = "absent"]
  /\ UNCHANGED <<chain, writing, handlerVars, processVars, failures, historyVars>>
-----------------------------------------------------------------------------
(* The first operation of the chain reads the row and decides.             *)
Foremost(kind) == chain # <<>> /\ Head(chain).kind = kind /\ writing = NoWrite

Send(new) == writing' = new /\ UNCHANGED chain
Return    == chain' = Tail(chain) /\ UNCHANGED writing

ReadCreate ==
  /\ Foremost("create")
  /\ \E r \in BOOLEAN : Send([row EXCEPT !.status = "paused", !.resumable = r])
  /\ UNCHANGED <<row, handlerVars, processVars, failures, historyVars>>

ReadPause ==
  /\ Foremost("pause")
  /\ IF row.status = "running" THEN Send([row EXCEPT !.status = "paused"]) ELSE Return
  /\ UNCHANGED <<row, handlerVars, processVars, failures, historyVars>>

ReadCancel ==
  /\ Foremost("cancel")
  /\ IF terminal(row) \/ row.status = "absent" THEN Return
                                               ELSE Send([row EXCEPT !.status = "cancelled"])
  /\ UNCHANGED <<row, handlerVars, processVars, failures, historyVars>>

(* With an execution at hand only its pause is lifted; without one a new   *)
(* attempt is written, which starts once it is durable.                    *)
Resumed == [row EXCEPT !.status = "running", !.pending = FALSE]

Restarted == [Resumed EXCEPT !.attempt = @ + 1]

ReadResumeUnchecked ==
  /\ \E kind \in {"resume", "autoResume"} :
       /\ Foremost(kind)
       /\ IF row.status \in {"absent", "completed", "cancelled"} THEN Return
          ELSE IF activeExec # NoExec /\ row.status = "paused"
            THEN writing' = Resumed /\ chain' = <<Op(kind, activeExec)>> \o Tail(chain)
            ELSE IF registered # "no" THEN Send(Restarted) ELSE Return
  /\ UNCHANGED <<row, handlerVars, processVars, failures, historyVars>>

ReadResume ==
  /\ \E kind \in {"resume", "autoResume"} :
       /\ Foremost(kind)
       /\ IF row.status \in {"absent", "completed", "cancelled"} THEN Return
          ELSE IF activeExec # NoExec
            THEN IF row.status # "paused" THEN Return
                 ELSE writing' = Resumed /\ chain' = <<Op(kind, activeExec)>> \o Tail(chain)
            ELSE IF registered # "no" THEN Send(Restarted) ELSE Return
  /\ UNCHANGED <<row, handlerVars, processVars, failures, historyVars>>

(* An execution whose checkpoint or outcome cannot be stored throws: into  *)
(* its handler, or into the catch that stores the failure instead.         *)
Throws(a) == IF signal[a] = "interrupted" THEN Op("interrupt", a) ELSE Op("fail", a)

ReadCheckpointBlind ==
  /\ Foremost("checkpoint")
  /\ Send([row EXCEPT !.status = "running"])
  /\ UNCHANGED <<row, handlerVars, processVars, failures, historyVars>>

ReadCheckpoint ==
  /\ Foremost("checkpoint")
  /\ LET a == Head(chain).exec
     IN IF signal[a] # "clear" \/ terminal(row) \/ row.status = "absent"
          THEN /\ chain' = Append(Tail(chain), Throws(a)) /\ UNCHANGED writing
               /\ exec' = [exec EXCEPT ![a] = "settling"]
          ELSE Send(row) /\ UNCHANGED exec
  /\ UNCHANGED <<row, signal, activeExec, effects, processVars, failures, historyVars>>

ReadComplete ==
  /\ Foremost("complete")
  /\ LET a == Head(chain).exec
     IN IF row.status = "absent"
          THEN /\ chain' = Append(Tail(chain), Op("fail", a))
               /\ UNCHANGED <<writing, exec>>
        ELSE IF terminal(row)
          THEN Return /\ exec' = [exec EXCEPT ![a] = "ending"]
          ELSE Send([row EXCEPT !.status = "completed", !.pending = FALSE]) /\ UNCHANGED exec
  /\ UNCHANGED <<row, signal, activeExec, effects, processVars, failures, historyVars>>

(* An interruption leaves the row as it is, for the next start to recover. *)
ReadFail ==
  /\ \E kind \in {"fail", "interrupt"} :
       /\ Foremost(kind)
       /\ LET a == Head(chain).exec
          IN IF terminal(row) \/ row.status = "absent" \/ kind = "interrupt"
               THEN Return /\ exec' = [exec EXCEPT ![a] = "ending"]
               ELSE Send([row EXCEPT !.status = "failed"]) /\ UNCHANGED exec
  /\ UNCHANGED <<row, signal, activeExec, effects, processVars, failures, historyVars>>
-----------------------------------------------------------------------------
(* The store answers the write of the first operation.                     *)
Stored(kinds) ==
  /\ writing # NoWrite /\ chain # <<>> /\ Head(chain).kind \in kinds
  /\ row' = writing /\ writing' = NoWrite /\ chain' = Tail(chain)

StorePlain ==
  /\ Stored({"create", "pause"})
  /\ UNCHANGED <<handlerVars, processVars, failures, historyVars>>

StoreResume ==
  /\ Stored({"resume", "autoResume"})
  /\ LET a == Head(chain).exec
     IN IF a = NoExec
          THEN /\ activeExec' = writing.attempt
               /\ exec' = [exec EXCEPT ![writing.attempt] = "running"]
               /\ UNCHANGED effects
          ELSE effects' = effects \cup {Op("wake", a)} /\ UNCHANGED <<activeExec, exec>>
  /\ UNCHANGED <<signal, processVars, failures, historyVars>>

StoreCancel ==
  /\ Stored({"cancel"})
  /\ effects' = effects \cup {Op("abort", a) : a \in {activeExec} \ {NoExec}}
  /\ UNCHANGED <<exec, signal, activeExec, processVars, failures, historyVars>>

StoreCheckpoint ==
  /\ Stored({"checkpoint"})
  /\ exec' = [exec EXCEPT ![Head(chain).exec] = "running"]
  /\ UNCHANGED <<signal, activeExec, effects, processVars, failures, historyVars>>

StoreOutcome ==
  /\ Stored({"complete", "fail"})
  /\ exec' = [exec EXCEPT ![Head(chain).exec] = "ending"]
  /\ UNCHANGED <<signal, activeExec, effects, processVars, failures, historyVars>>

WriteFails ==
  /\ writing # NoWrite /\ chain # <<>> /\ failures < MaxFailures
  /\ failures' = failures + 1
  /\ writing' = NoWrite
  /\ LET op == Head(chain)
     IN \/ /\ op.kind = "checkpoint"
           /\ chain' = Append(Tail(chain), Op("fail", op.exec))
           /\ exec' = [exec EXCEPT ![op.exec] = "settling"]
           /\ UNCHANGED <<orphaned, swallowed>>
        \/ /\ op.kind = "complete"
           /\ chain' = Append(Tail(chain), Op("fail", op.exec))
           /\ UNCHANGED <<exec, orphaned, swallowed>>
        \/ /\ op.kind = "fail"
           /\ chain' = Tail(chain)
           /\ exec' = [exec EXCEPT ![op.exec] = "ending"]
           /\ orphaned' = TRUE /\ UNCHANGED swallowed
        \/ /\ op.kind \in UserOp
           /\ chain' = Tail(chain)
           /\ swallowed' = (swallowed \/ op.kind = "autoResume")
           /\ UNCHANGED <<exec, orphaned>>
  /\ UNCHANGED <<row, signal, activeExec, effects, processVars, lateStart>>
-----------------------------------------------------------------------------
(* What the caller of a finished transition does with the execution.  A    *)
(* woken waiter looks at the row again and goes on waiting or throws.      *)
AfterWait(a, abort) ==
  IF row.status = "absent" THEN "settling"
  ELSE IF abort # "clear" THEN "settling"
  ELSE IF row.status = "paused" THEN "waiting" ELSE "running"

Waken(a, abort) ==
  IF exec[a] = "waiting"
    THEN /\ exec' = [exec EXCEPT ![a] = AfterWait(a, abort)]
         /\ chain' = IF AfterWait(a, abort) # "settling" THEN chain
                     ELSE Append(chain, IF abort = "interrupted" THEN Op("interrupt", a)
                                                                 ELSE Op("fail", a))
    ELSE UNCHANGED <<exec, chain>>

Wake(a) ==
  /\ Op("wake", a) \in effects
  /\ effects' = effects \ {Op("wake", a)}
  /\ Waken(a, signal[a])
  /\ UNCHANGED <<row, writing, signal, activeExec, processVars, failures, historyVars>>

AbortCancelledOnly(a) ==
  /\ Op("abort", a) \in effects
  /\ effects' = effects \ {Op("abort", a)}
  /\ signal' = [signal EXCEPT ![a] = IF @ = "clear" THEN "cancelled" ELSE @]
  /\ UNCHANGED <<row, chain, writing, exec, activeExec, processVars, failures, historyVars>>

AbortCancelled(a) ==
  /\ Op("abort", a) \in effects
  /\ effects' = effects \ {Op("abort", a)}
  /\ LET abort == IF signal[a] = "clear" THEN "cancelled" ELSE signal[a]
     IN signal' = [signal EXCEPT ![a] = abort] /\ Waken(a, abort)
  /\ UNCHANGED <<row, writing, activeExec, processVars, failures, historyVars>>

(* The finally of an execution.                                            *)
Finally(a) ==
  /\ exec[a] = "ending"
  /\ exec' = [exec EXCEPT ![a] = "done"]
  /\ activeExec' = IF activeExec = a THEN NoExec ELSE activeExec
  /\ UNCHANGED <<row, chain, writing, signal, effects, processVars, failures, historyVars>>
-----------------------------------------------------------------------------
(* The handler, which cooperates: it stores progress, asks whether it is   *)
(* paused, and ends.                                                       *)
Checkpoint(a) ==
  /\ exec[a] = "running"
  /\ exec' = [exec EXCEPT ![a] = "checkpoint"]
  /\ chain' = Append(chain, Op("checkpoint", a))
  /\ UNCHANGED <<row, writing, signal, activeExec, effects, processVars, failures, historyVars>>

WaitIfPaused(a) ==
  /\ exec[a] = "running" /\ row.status = "paused" /\ signal[a] = "clear"
  /\ exec' = [exec EXCEPT ![a] = "waiting"]
  /\ UNCHANGED <<row, chain, writing, signal, activeExec, effects, processVars, failures, historyVars>>

HandlerReturns(a) ==
  /\ exec[a] = "running"
  /\ exec' = [exec EXCEPT ![a] = "settling"]
  /\ chain' = Append(chain, Op("complete", a))
  /\ UNCHANGED <<row, writing, signal, activeExec, effects, processVars, failures, historyVars>>

(* With the reason of its abort, or with an error of its own.              *)
HandlerThrows(a) ==
  /\ exec[a] = "running"
  /\ exec' = [exec EXCEPT ![a] = "settling"]
  /\ \E op \in {Op("fail", a), Throws(a)} : chain' = Append(chain, op)
  /\ UNCHANGED <<row, writing, signal, activeExec, effects, processVars, failures, historyVars>>
-----------------------------------------------------------------------------
(* recover, before anything else uses the runner: an interrupted task is   *)
(* resumed if its handler is there, and left to it or failed otherwise.    *)
waitsForHandler == row.status = "paused" /\ row.pending

RecoverTasksForgets ==
  /\ program = "recovering"
  /\ IF row.status # "running" \/ registered = "no" THEN program' = "up" /\ UNCHANGED <<row, chain>>
     ELSE /\ row' = [row EXCEPT !.status = "paused", !.pending = TRUE]
          /\ mayResume /\ JoinChain("resume") /\ program' = "resuming"
  /\ UNCHANGED <<writing, handlerVars, registered, awaited, starts, failures, historyVars>>

RecoverTasks ==
  /\ program = "recovering"
  /\ IF row.status # "running" THEN program' = "up" /\ UNCHANGED <<row, chain>>
     ELSE IF row.resumable
       THEN /\ row' = [row EXCEPT !.status = "paused", !.pending = TRUE]
            /\ IF registered # "no"
                 THEN mayResume /\ JoinChain("resume") /\ program' = "resuming"
                 ELSE program' = "up" /\ UNCHANGED chain
       ELSE row' = [row EXCEPT !.status = "failed"] /\ program' = "up" /\ UNCHANGED chain
  /\ UNCHANGED <<writing, handlerVars, registered, awaited, starts, failures, historyVars>>

(* A resume that fails fails the recovery, and the start with it.          *)
TasksRecovered ==
  /\ program = "resuming" /\ resumesAhead = 0 /\ ~waitsForHandler
  /\ program' = "up"
  /\ UNCHANGED <<row, chain, writing, handlerVars, registered, awaited, starts, failures, historyVars>>

RegisterHandlerOnly ==
  /\ program \in {"recovering", "up"} /\ registered = "no" /\ turnOver
  /\ registered' = IF program = "up" THEN "late" ELSE "early"
  /\ UNCHANGED <<row, chain, writing, handlerVars, program, awaited, starts, failures, historyVars>>

(* A handler that registers late takes up what waits for it.               *)
RegisterHandler ==
  /\ program \in {"recovering", "up"} /\ registered = "no" /\ turnOver
  /\ registered' = IF program = "up" THEN "late" ELSE "early"
  /\ IF program = "up" /\ waitsForHandler THEN mayResume /\ JoinChain("autoResume")
                                       ELSE UNCHANGED chain
  /\ UNCHANGED <<row, writing, handlerVars, program, awaited, starts, failures, historyVars>>

InterruptRegistered ==
  /\ program = "up" /\ turnOver
  /\ program' = "stopping" /\ awaited' = activeExec
  /\ lateStart' = (writing.attempt > row.attempt)
  /\ IF activeExec = NoExec \/ signal[activeExec] # "clear"
       THEN UNCHANGED <<signal, exec, chain>>
       ELSE /\ signal' = [signal EXCEPT ![activeExec] = "interrupted"]
            /\ Waken(activeExec, "interrupted")
  /\ UNCHANGED <<row, writing, activeExec, effects, registered, starts, failures, orphaned, swallowed>>

(* interruptAllForShutdown, after the handler was unregistered: what is in *)
(* the map by now is aborted, woken and waited for.                        *)
Interrupt ==
  /\ program = "up" /\ turnOver
  /\ program' = "stopping" /\ registered' = "no" /\ awaited' = activeExec
  /\ lateStart' = (writing.attempt > row.attempt)
  /\ IF activeExec = NoExec \/ signal[activeExec] # "clear"
       THEN UNCHANGED <<signal, exec, chain>>
       ELSE /\ signal' = [signal EXCEPT ![activeExec] = "interrupted"]
            /\ Waken(activeExec, "interrupted")
  /\ UNCHANGED <<row, writing, activeExec, effects, starts, failures, orphaned, swallowed>>

Interrupted ==
  /\ program = "stopping" /\ awaited \notin Live
  /\ program' = "stopped"
  /\ UNCHANGED <<row, chain, writing, handlerVars, registered, awaited, starts, failures, historyVars>>

(* The program ends, at any moment; the row is what remains.               *)
TaskExit ==
  /\ program # "down"
  /\ program' = "down"
  /\ chain' = <<>> /\ writing' = NoWrite
  /\ exec' = [a \in TaskAttempt |-> IF a \in Live THEN "done" ELSE exec[a]]
  /\ signal' = [a \in TaskAttempt |-> "clear"]
  /\ activeExec' = NoExec /\ effects' = {} /\ awaited' = NoExec
  /\ registered' = "no"
  /\ orphaned' = FALSE /\ swallowed' = FALSE /\ lateStart' = FALSE
  /\ UNCHANGED <<row, starts, failures>>

TaskStart ==
  /\ program = "down" /\ starts < MaxStarts
  /\ program' = "recovering" /\ starts' = starts + 1
  /\ UNCHANGED <<row, chain, writing, handlerVars, registered, awaited, failures, historyVars>>
-----------------------------------------------------------------------------
TaskReads == \/ ReadCreate \/ ReadPause \/ ReadResume \/ ReadCancel
             \/ ReadCheckpoint \/ ReadComplete \/ ReadFail
TaskStores == \/ StorePlain \/ StoreResume \/ StoreCancel \/ StoreCheckpoint \/ StoreOutcome
              \/ WriteFails
TaskContinues(a) == Wake(a) \/ AbortCancelled(a) \/ Finally(a)
TaskLife == RecoverTasks \/ TasksRecovered \/ Interrupted

TaskNext ==
  \/ TaskCreate \/ ClearTerminal \/ TaskReads \/ TaskStores
  \/ \E kind \in {"pause", "resume", "cancel"} : TaskAsk(kind)
  \/ \E a \in TaskAttempt : \/ TaskContinues(a) \/ Checkpoint(a) \/ WaitIfPaused(a)
                            \/ HandlerReturns(a) \/ HandlerThrows(a)
  \/ TaskLife \/ RegisterHandler \/ Interrupt \/ TaskExit \/ TaskStart

TaskSpec == TaskInit /\ [][TaskNext]_taskVars

(* Continuations run, the store answers, and a handler that was aborted    *)
(* ends; that a handler which was not aborted ever ends is not assumed.    *)
AbortedHandlerEnds(a) == signal[a] # "clear" /\ HandlerThrows(a)

FairTaskSpec ==
  /\ TaskSpec
  /\ WF_taskVars(TaskReads) /\ WF_taskVars(TaskStores) /\ WF_taskVars(TaskLife)
  /\ \A a \in TaskAttempt : WF_taskVars(TaskContinues(a)) /\ WF_taskVars(AbortedHandlerEnds(a))
-----------------------------------------------------------------------------
(* A task has one execution at a time, whatever order resumes, failures    *)
(* and the end of the previous execution come in.                          *)
OneExecution == Cardinality(Live) <= 1

(* While the program is up, a task that is running has an execution, or    *)
(* lost one whose result and failure the store both refused.               *)
RunningHasExecution ==
  program = "up" /\ row.status = "running" => activeExec # NoExec \/ orphaned

(* A late checkpoint or outcome never changes a task that was cancelled or *)
(* completed; only the clearing of the history removes it.                 *)
FinalStaysFinal ==
  [][row.status \in {"completed", "cancelled"} => row'.status \in {row.status, "absent"}]_taskVars

(* When the shutdown goes on to close the store, no execution is left,     *)
(* except one whose start was being written when the shutdown began.       *)
ShutdownStops == program = "stopped" => Live = {} \/ lateStart

(* An execution that waits for the end of a pause goes on when it ends.    *)
Waits == \E a \in Live : exec[a] = "waiting"

PauseIsLifted == (Waits /\ row.status # "paused") ~> (~Waits \/ row.status = "paused")

(* A cancelled task stops executing, in a pause too.                       *)
CancelEnds == (row.status = "cancelled" /\ Live # {}) ~> Live = {}

(* Both: no execution stays behind in a pause that has ended or in a task  *)
(* that was cancelled.                                                     *)
NoneStaysPaused == PauseIsLifted /\ CancelEnds

(* A task that waits for its handler is taken up when the handler          *)
(* registers, unless the write of that background resume fails.            *)
LateHandlerResumes ==
  (registered = "late" /\ waitsForHandler) ~> (~waitsForHandler \/ swallowed \/ program # "up")
=============================================================================
