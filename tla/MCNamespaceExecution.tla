------------------------ MODULE MCNamespaceExecution ------------------------
(***************************************************************************)
(* The execution engine with two executions of one session, and one live   *)
(* remount with two tasks of the session and two masked paths, in one      *)
(* run: a behaviour belongs to one of the two, and the other stays in its  *)
(* initial state.                                                          *)
(***************************************************************************)
EXTENDS NamespaceExecution, LiveRemount, TLC

CONSTANTS e1, e2, w1, k1, k2

VARIABLE subject

OneSession == e1 :> w1 @@ e2 :> w1

EngineOrRemountInit ==
  /\ Init /\ RemountInit
  /\ engine.commands \/ engine.one_shot = {}   \* a set-up request belongs to no session
  /\ engine.max_active = 1 => engine.async     \* bound
  /\ \/ subject = "engine" /\ cgroup /\ task = [t \in Tasks |-> "new"]
     \/ subject = "remount" /\ engine = [commands |-> TRUE, async |-> TRUE, started |-> TRUE,
                                         max_active |-> 1, one_shot |-> {}]
EngineOrRemountNext ==
  /\ UNCHANGED subject
  /\ \/ subject = "engine" /\ Next /\ UNCHANGED liveVars
     \/ subject = "remount" /\ RemountNext /\ UNCHANGED vars

EngineOrRemountSpec == EngineOrRemountInit /\ [][EngineOrRemountNext]_<<vars, liveVars, subject>>

Symmetry == Permutations(Tasks) \cup Permutations(Execs)
=============================================================================
