--------------------------- MODULE MCStorageLock ---------------------------
(***************************************************************************)
(* Two waiting protocols checked for progress in one run: threads of two   *)
(* processes that share one storage root, and the executions of a session  *)
(* under a shutdown.  A behaviour belongs to one of the two and the other  *)
(* stays in its initial state, where no fair action of it is enabled.      *)
(***************************************************************************)
EXTENDS StorageLock, NamespaceExecution, TLC

CONSTANTS t1, t2, t3, t4, p1, p2, e1, e2, w1

VARIABLE subject

TwoProcesses == [t \in Threads |-> IF t = t4 THEN p2 ELSE p1]
OneSession == e1 :> w1 @@ e2 :> w1

LockOrExecutionsInit ==
  /\ LockInit /\ Init
  /\ subject \in {"lock", "executions"}
  /\ subject = "lock" => engine.commands
  /\ engine.async = engine.commands   \* bound: commands on a task, set-up requests on a thread
  /\ subject = "lock" => engine.started
LockOrExecutionsNext ==
  /\ UNCHANGED subject
  /\ \/ subject = "lock" /\ LockNext /\ UNCHANGED vars
     \/ subject = "executions" /\ Next /\ UNCHANGED lockVars

LockOrExecutionsSpec ==
  /\ LockOrExecutionsInit /\ [][LockOrExecutionsNext]_<<vars, lockVars, subject>>
  /\ LockFairness /\ Fairness
=============================================================================
