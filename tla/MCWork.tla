-------------------------------- MODULE MCWork --------------------------------
(***************************************************************************)
(* Three kinds of work that is retried, explored by one run: requests in   *)
(* the failover loop, a background task and the refreshes of an OAuth      *)
(* endpoint.  Every behaviour is one of the kind its initial state names,  *)
(* and the others rest.                                                    *)
(***************************************************************************)
EXTENDS RequestFailover, PersistentTaskRunner, OAuthRefreshGate, TLC

CONSTANTS s1, s2, q1, q2

VARIABLE subject

workVars == <<subject, failoverVars, taskVars, vars>>

(* A compaction, a web session, and a plain request beside the             *)
(* continuation of a tool call.                                            *)
NoCall == [r \in Call |-> "none"]
MCMixes ==
  {NoCall,
   q1 :> "compact" @@ q2 :> "none",
   q1 :> "webWm" @@ q2 :> "none",
   q1 :> "plain" @@ q2 :> "toolResult"}

WorkInit ==
  /\ FailoverInit /\ TaskInit /\ Init
  /\ subject \in {"failover", "tasks", "gate"}
  /\ subject = "failover" <=> kind # NoCall

WorkNext ==
  /\ UNCHANGED subject
  /\ \/ subject = "failover" /\ FailoverNext /\ UNCHANGED <<taskVars, vars>>
     \/ subject = "tasks"    /\ TaskNext     /\ UNCHANGED <<failoverVars, vars>>
     \/ subject = "gate"     /\ Next         /\ UNCHANGED <<failoverVars, taskVars>>

(* The fairness of FairFailoverSpec, FairTaskSpec and GateFairness.        *)
WorkSpec ==
  /\ WorkInit /\ [][WorkNext]_workVars
  /\ \A r \in Call : /\ SF_failoverVars(subject = "failover" /\ Choose(r))
                     /\ []<>(subject = "failover" => ~UnderWay(r))
  /\ WF_taskVars(subject = "tasks" /\ TaskReads)
  /\ WF_taskVars(subject = "tasks" /\ TaskStores)
  /\ WF_taskVars(subject = "tasks" /\ TaskLife)
  /\ \A a \in TaskAttempt :
       /\ WF_taskVars(subject = "tasks" /\ TaskContinues(a))
       /\ WF_taskVars(subject = "tasks" /\ AbortedHandlerEnds(a))
  /\ WF_vars(subject = "gate" /\ Tick)
  /\ \A r \in Request :
       WF_vars(subject = "gate" /\ (Reserve(r) \/ DelayEnds(r) \/ Settles(r) \/ Leave(r)))
=============================================================================
