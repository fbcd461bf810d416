-------------------------- MODULE WorkspaceSession --------------------------
(***************************************************************************)
(* The life of one workspace session                                       *)
(* (operation/src/workspace_session/service, command/service/exec_command).*)
(*                                                                         *)
(* The calls of several clients, the completions of commands and the       *)
(* holder-exit dispatcher meet on one session id.  Each takes the session's*)
(* admission gate, a mutex that is looked up in the gates map and created  *)
(* on demand, so that a thread may hold a gate that is no longer the one   *)
(* in the map.  A teardown is a destroy flight: its leader runs it and     *)
(* publishes the result, everybody else waits for it.  A raw flight is run *)
(* under the gate by whoever claims it; a holder flight, of a session whose*)
(* namespace holder is dead, cancels and joins the commands without the    *)
(* gate and then takes it again.                                           *)
(*                                                                         *)
(* Session ids are never reused, so one id is enough.  A thread stands for *)
(* one client: its call, and after an exec the completion of its command.  *)
(***************************************************************************)
EXTENDS Naturals, FiniteSets

CONSTANTS
  Clients, Dispatcher,
  Nobody,        \* the owner of a gate that is not locked
  Ops,           \* the calls clients make
  MaxGates, MaxFlights,  \* mutexes and flights alive at a time
  MaxGen,        \* remounts that give the session a new handle
  MaxPasses,     \* reconcile passes per wake of the dispatcher (4 in the code)
  MaxTries,      \* rounds of shutdown_session (8 in the code)
  Undisturbed    \* nothing happens to a session until the exec that created it is admitted

Threads == Clients \cup {Dispatcher}
Gates == 1 .. MaxGates
Flights == 1 .. MaxFlights
Calls == {"create", "implicit", "exec", "destroy", "publish", "file", "remount", "reconcile", "shutdown"}

ASSUME SessionAssumption ==
  /\ Dispatcher \notin Clients /\ Nobody \notin Threads
  /\ Ops \subseteq Calls
  /\ {MaxGates, MaxFlights, MaxGen, MaxPasses, MaxTries} \subseteq Nat
  /\ Undisturbed \in BOOLEAN

VARIABLES
  session,       \* "none", "creating", "open" (in the sessions map), "gone"
  s,             \* the WorkspaceSession record
  fate,          \* what became of the work in a session that publishes
  published,     \* publishes of the session's work that were committed
  live, doomed,  \* the holder is alive; its termination has been asked for
  wake,          \* the dispatcher's one-slot channel
  gateMap,       \* the gates map's entry for the id, 0 if there is none
  owner,         \* who has locked each gate
  flightMap,     \* the entry of the flights map, 0 if there is none
  flight,        \* the flights themselves
  pc, op,        \* each thread's position, and the operation it runs
  gate, fl,      \* the gate and the flight it has a reference to
  res, plan,     \* the result of the flight it leads; the commands it must join
  left,          \* its remaining passes or rounds
  cancelled, resolved  \* commands that were cancelled; commands whose promise is resolved

sessionVars == <<session, s, fate, published>>
holderVars == <<live, doomed, wake>>
gateVars == <<gateMap, owner>>
flightVars == <<flightMap, flight>>
commandVars == <<cancelled, resolved>>
vars == <<session, s, fate, published, live, doomed, wake, gateMap, owner, flightMap, flight,
          pc, op, gate, fl, res, plan, left, cancelled, resolved>>

NoFlight == [kind |-> "none", gen |-> 0, result |-> "none"]

NewSession(p) ==
  [policy |-> p, state |-> "Active", ledger |-> {}, gen |-> 0,
   raw |-> FALSE, cgroup |-> FALSE, quiesced |-> FALSE, terminal |-> FALSE]

Init ==
  /\ session = "none" /\ s = NewSession("noop") /\ fate = "none" /\ published = 0
  /\ live = FALSE /\ doomed = FALSE /\ wake = "none"
  /\ gateMap = 0 /\ owner = [g \in Gates |-> Nobody]
  /\ flightMap = 0 /\ flight = [f \in Flights |-> NoFlight]
  /\ pc = [t \in Threads |-> "idle"] /\ op = [t \in Threads |-> "none"]
  /\ gate = [t \in Threads |-> 0] /\ fl = [t \in Threads |-> 0]
  /\ res = [t \in Threads |-> "none"] /\ plan = [t \in Threads |-> {}]
  /\ left = [t \in Threads |-> 0]
  /\ cancelled = {} /\ resolved = {}

(***************************************************************************)
(* Gates and flights.  A mutex or a flight that nobody refers to any more  *)
(* is free again.                                                          *)
(***************************************************************************)
GateInUse(g) == g = gateMap \/ owner[g] # Nobody \/ \E t \in Threads : gate[t] = g
FreshGate(g) == ~GateInUse(g) /\ \A h \in Gates : h < g => GateInUse(h)
FlightInUse(f) == f = flightMap \/ \E t \in Threads : fl[t] = f
FreshFlight(f) == ~FlightInUse(f) /\ \A h \in Flights : h < f => FlightInUse(h)

Open == session = "open"

\* existing_destroy_flight (by id), existing_destroy_flight_for_handler (the
\* handler of a create is that of generation 0); a reconcile pass joins
\* holder flights only, and only before it has the gate.
FlightFor(t) ==
  /\ flightMap # 0
  /\ op[t] \in {"create", "implicit", "cleanup"} => flight[flightMap].gen = 0
  /\ op[t] = "reconcile" => flight[flightMap].kind = "holder"

Rechecks == {"create", "implicit", "cleanup", "destroy", "shutdown"}
Rejoins(t) == op[t] \in Rechecks /\ FlightFor(t)

\* holder_cleanup_is_pending
Pending ==
  ~live /\ ~s.terminal /\ (~s.quiesced \/ s.state = "FinalizeFailed")

Goto(t, l) == pc' = [pc EXCEPT ![t] = l]
Unlock(t) == owner' = [owner EXCEPT ![gate[t]] = Nobody]

\* The end of a call: every guard is dropped.  The completion of a command
\* resolves its promise last.
Return(t) ==
  /\ Goto(t, IF t = Dispatcher THEN "idle" ELSE "done")
  /\ owner' = [g \in Gates |-> IF owner[g] = t THEN Nobody ELSE owner[g]]
  /\ gate' = [gate EXCEPT ![t] = 0] /\ fl' = [fl EXCEPT ![t] = 0]
  /\ res' = [res EXCEPT ![t] = "none"] /\ plan' = [plan EXCEPT ![t] = {}]
  /\ left' = [left EXCEPT ![t] = 0]
  /\ resolved' = IF op[t] = "complete" THEN resolved \cup {t} ELSE resolved
  /\ UNCHANGED <<op, cancelled>>

\* The end of a reconcile pass: the dispatcher runs another one after a
\* retryable failure, if it has one left.
PassEnd(t, failed) ==
  IF t = Dispatcher /\ failed /\ left[t] > 1
  THEN /\ left' = [left EXCEPT ![t] = @ - 1] /\ Goto(t, "list")
       /\ gate' = [gate EXCEPT ![t] = 0] /\ fl' = [fl EXCEPT ![t] = 0]
       /\ res' = [res EXCEPT ![t] = "none"] /\ plan' = [plan EXCEPT ![t] = {}]
       /\ UNCHANGED <<owner, op, cancelled, resolved>>
  ELSE Return(t)

\* The next round of shutdown_session.
NextTry(t) ==
  IF left[t] > 1
  THEN /\ left' = [left EXCEPT ![t] = @ - 1] /\ Goto(t, "check")
       /\ gate' = [gate EXCEPT ![t] = 0] /\ fl' = [fl EXCEPT ![t] = 0]
       /\ plan' = [plan EXCEPT ![t] = {}]
       /\ UNCHANGED <<owner, op, res, cancelled, resolved>>
  ELSE Return(t)

DiscardResurrectedGate(t) ==
  gateMap' = IF gateMap = gate[t] /\ ~Open THEN 0 ELSE gateMap

\* claim_destroy_flight: at the start of the transaction the session becomes
\* Finalizing.  Work that nothing has captured is given up.
RawClaim(t) ==
  \E f \in Flights :
    /\ FreshFlight(f)
    /\ flightMap' = f /\ fl' = [fl EXCEPT ![t] = f]
    /\ flight' = [flight EXCEPT ![f] = [kind |-> "raw", gen |-> s.gen, result |-> "none"]]
    /\ s' = [s EXCEPT !.state = "Finalizing"]
    /\ Goto(t, "teardown")
    /\ UNCHANGED <<session, holderVars, gateVars, op, gate, res, plan, left, commandVars>>

\* destroy_session_under_gate: a flight that exists already is an error, the
\* session stays behind as finalize_failed.
DestroyUnderGate(t) ==
  IF flightMap = 0 THEN RawClaim(t)
  ELSE /\ s' = [s EXCEPT !.state = "FinalizeFailed"] /\ Return(t)
       /\ UNCHANGED <<session, holderVars, gateMap, flightVars>>

\* claim_holder_destroy_flight: the plan is the ledger at this moment; the
\* gate is dropped.  A holder flight that has failed and is still in the map
\* is joined.
HolderClaim(t) ==
  IF flightMap # 0
  THEN /\ fl' = [fl EXCEPT ![t] = flightMap]
       /\ Unlock(t) /\ Goto(t, "wait")
       /\ UNCHANGED <<s, flightVars, plan, cancelled>>
  ELSE \E f \in Flights :
         /\ FreshFlight(f)
         /\ flightMap' = f /\ fl' = [fl EXCEPT ![t] = f]
         /\ flight' = [flight EXCEPT ![f] = [kind |-> "holder", gen |-> s.gen, result |-> "none"]]
         /\ s' = [s EXCEPT !.state = "Finalizing"]
         /\ plan' = [plan EXCEPT ![t] = s.ledger] /\ cancelled' = cancelled \cup s.ledger
         /\ Unlock(t) /\ Goto(t, "join")

(***************************************************************************)
(* Calls, and the way to the gate.                                         *)
(***************************************************************************)
BeingCreated == \E t \in Clients : op[t] \in {"implicit", "admit"} /\ pc[t] # "done"

Call(c) ==
  /\ pc[c] = "idle"
  /\ \E o \in Ops :
       /\ IF o \in {"create", "implicit"} THEN session = "none"
          ELSE session \in {"open", "gone"} /\ (Undisturbed => ~BeingCreated)
       /\ o = "shutdown" => Open
       /\ op' = [op EXCEPT ![c] = o]
       /\ session' = IF session = "none" THEN "creating" ELSE session
       /\ s' = IF o = "implicit" THEN NewSession("publish") ELSE s
       /\ left' = [left EXCEPT ![c] = IF o = "shutdown" THEN MaxTries ELSE 0]
       /\ Goto(c, CASE o \in {"create", "implicit"} -> "build"
                    [] o = "reconcile" -> "list"
                    [] o = "shutdown" -> "check"
                    [] OTHER -> "fetch")
  /\ UNCHANGED <<fate, published, holderVars, gateVars, flightVars, gate, fl, res, plan, commandVars>>

\* create_workspace and the workload cgroup.
Build(c) ==
  /\ pc[c] = "build" /\ live' = TRUE /\ Goto(c, "insert")
  /\ UNCHANGED <<sessionVars, doomed, wake, gateVars, flightVars, op, gate, fl, res, plan, left, commandVars>>

\* The workspace cannot be created, or what was created is rolled back.
BuildFails(c) ==
  /\ pc[c] = "build" /\ session' = "gone" /\ Return(c)
  /\ UNCHANGED <<s, fate, published, holderVars, gateMap, flightVars>>

\* The rollback fails as well: the session is kept for its cleanup.
BuildRetained(c) ==
  /\ pc[c] = "build" /\ session' = "open"
  /\ \E raw, cgroup \in BOOLEAN :
       /\ ~(raw /\ cgroup)
       /\ s' = [s EXCEPT !.state = "FinalizeFailed", !.raw = raw, !.cgroup = cgroup]
       /\ live' \in IF raw THEN {FALSE} ELSE BOOLEAN
  /\ doomed' = TRUE
  /\ Return(c)
  /\ UNCHANGED <<fate, published, wake, gateMap, flightVars>>

Insert(c) ==
  /\ pc[c] = "insert" /\ session' = "open" /\ Goto(c, "check")
  /\ UNCHANGED <<s, fate, published, holderVars, gateVars, flightVars, op, gate, fl, res, plan, left, commandVars>>

\* The dispatcher wakes and starts its first pass.
Wake ==
  /\ pc[Dispatcher] = "idle" /\ wake = "set"
  /\ wake' = "none"
  /\ op' = [op EXCEPT ![Dispatcher] = "reconcile"]
  /\ left' = [left EXCEPT ![Dispatcher] = MaxPasses]
  /\ Goto(Dispatcher, "list")
  /\ UNCHANGED <<sessionVars, live, doomed, gateVars, flightVars, gate, fl, res, plan, commandVars>>

\* reconcile_holder_exits lists the sessions whose cleanup is pending.
List(t) ==
  /\ pc[t] = "list"
  /\ IF Open /\ Pending
     THEN Goto(t, "check") /\ UNCHANGED <<owner, op, gate, fl, res, plan, left, commandVars>>
     ELSE PassEnd(t, FALSE)
  /\ UNCHANGED <<sessionVars, holderVars, gateMap, flightVars>>

\* Join a flight before asking for the gate.
Check(t) ==
  /\ pc[t] = "check"
  /\ IF FlightFor(t)
     THEN fl' = [fl EXCEPT ![t] = flightMap] /\ Goto(t, "wait")
     ELSE UNCHANGED fl /\ Goto(t, IF op[t] = "destroy" THEN "lock" ELSE "fetch")
  /\ UNCHANGED <<sessionVars, holderVars, gateVars, flightVars, op, gate, res, plan, left, commandVars>>

\* session_gate.  guarded_destroy gets its gate before it looks for a flight.
Fetch(t) ==
  /\ pc[t] \in {"fetch", "refetch"}
  /\ \E g \in Gates :
       /\ IF gateMap = 0 THEN FreshGate(g) ELSE g = gateMap
       /\ gateMap' = g /\ gate' = [gate EXCEPT ![t] = g]
  /\ Goto(t, CASE pc[t] = "refetch" -> "relock"
               [] op[t] = "destroy" -> "check"
               [] OTHER -> "lock")
  /\ UNCHANGED <<sessionVars, holderVars, owner, flightVars, op, fl, res, plan, left, commandVars>>

Lock(t) ==
  /\ pc[t] \in {"lock", "relock"} /\ owner[gate[t]] = Nobody
  /\ owner' = [owner EXCEPT ![gate[t]] = t]
  /\ Goto(t, IF pc[t] = "relock" THEN "verify" ELSE "held")
  /\ UNCHANGED <<sessionVars, holderVars, gateMap, flightVars, op, gate, fl, res, plan, left, commandVars>>

(***************************************************************************)
(* Under the gate: the session is missing, or a flight has come first.     *)
(***************************************************************************)
Discards == {"exec", "admit", "complete", "destroy", "publish", "file", "remount", "faulty", "shutdown"}

\* A failed admission of the exec that created the session goes on to
\* cleanup_implicit_session - while its guard is still in scope.
Refuse(t) ==
  IF op[t] = "admit"
  THEN /\ op' = [op EXCEPT ![t] = "cleanup"] /\ Goto(t, "check")
       /\ UNCHANGED <<owner, gate, fl, res, plan, left, commandVars>>
  ELSE Return(t)

Missing(t) ==
  /\ pc[t] = "held" /\ ~Open /\ ~Rejoins(t)
  /\ IF op[t] \in Discards THEN DiscardResurrectedGate(t) ELSE UNCHANGED gateMap
  /\ Refuse(t)
  /\ UNCHANGED <<sessionVars, holderVars, flightVars>>

Rejoin(t) ==
  /\ pc[t] = "held" /\ Rejoins(t)
  /\ fl' = [fl EXCEPT ![t] = flightMap]
  /\ Unlock(t) /\ Goto(t, "wait")
  /\ UNCHANGED <<sessionVars, holderVars, gateMap, flightVars, op, gate, res, plan, left, commandVars>>

Held(t, ops) == pc[t] = "held" /\ op[t] \in ops /\ Open /\ ~Rejoins(t)

(***************************************************************************)
(* Commands.                                                               *)
(***************************************************************************)
Admit(t) ==
  /\ Held(t, {"exec", "admit"})
  /\ IF live /\ s.state = "Active"
     THEN /\ s' = [s EXCEPT !.ledger = @ \cup {t}] /\ Goto(t, "launch")
          /\ UNCHANGED <<owner, op, gate, fl, res, plan, left, commandVars>>
     ELSE UNCHANGED s /\ Refuse(t)
  /\ UNCHANGED <<session, fate, published, holderVars, gateMap, flightVars>>

Launch(t) ==
  /\ pc[t] = "launch"
  /\ Unlock(t) /\ Goto(t, "running") /\ gate' = [gate EXCEPT ![t] = 0]
  /\ UNCHANGED <<sessionVars, holderVars, gateMap, flightVars, op, fl, res, plan, left, commandVars>>

\* complete_admitted: the command cannot be started, its entry is completed
\* under the guard that admitted it.
LaunchFails(t) ==
  /\ pc[t] = "launch"
  /\ op' = [op EXCEPT ![t] = "complete"] /\ Goto(t, "held")
  /\ UNCHANGED <<sessionVars, holderVars, gateVars, flightVars, gate, fl, res, plan, left, commandVars>>

\* The completion worker handles one command at a time.  If the wait for the
\* process fails, the promise is resolved before the completion runs.
CommandExit(t) ==
  /\ pc[t] = "running"
  /\ \A u \in Clients : op[u] = "complete" => pc[u] = "done"
  /\ op' = [op EXCEPT ![t] = "complete"] /\ Goto(t, "fetch")
  /\ resolved' \in {resolved, resolved \cup {t}}
  /\ UNCHANGED <<sessionVars, holderVars, gateVars, flightVars, gate, fl, res, plan, left, cancelled>>

\* complete_under_gate: the last command of a session that publishes starts
\* its finalization.
Complete(t) ==
  /\ Held(t, {"complete"})
  /\ IF s.ledger = {t} /\ s.policy = "publish" /\ s.state = "Active"
     THEN /\ s' = [s EXCEPT !.ledger = {}, !.state = "Finalizing"] /\ Goto(t, "quiesce")
          /\ UNCHANGED <<owner, op, gate, fl, res, plan, left, commandVars>>
     ELSE s' = [s EXCEPT !.ledger = @ \ {t}] /\ Return(t)
  /\ UNCHANGED <<session, fate, published, holderVars, gateMap, flightVars>>

(***************************************************************************)
(* Finalization.                                                           *)
(***************************************************************************)
\* quiesce_session_holder, Quiesced: the holder's planned end does not wake
\* the dispatcher.
Quiesce(t) ==
  /\ pc[t] = "quiesce" /\ live
  /\ live' = FALSE /\ s' = [s EXCEPT !.quiesced = TRUE] /\ Goto(t, "finalize")
  /\ UNCHANGED <<session, fate, published, doomed, wake, gateVars, flightVars, op, gate, fl, res, plan, left, commandVars>>

\* The holder is dead already: its teardown is claimed, and run without the
\* gate.
QuiesceExited(t) ==
  /\ pc[t] = "quiesce" /\ ~live
  /\ HolderClaim(t)
  /\ UNCHANGED <<session, fate, published, holderVars, gateMap, op, gate, res, left, resolved>>

\* No answer after three attempts; the supervisor may still carry out the
\* termination it was asked for.
QuiesceUnknown(t) ==
  /\ pc[t] = "quiesce"
  /\ s' = [s EXCEPT !.state = "FinalizeFailed"] /\ doomed' \in {doomed, TRUE}
  /\ Return(t)
  /\ UNCHANGED <<session, fate, published, live, wake, gateMap, flightVars>>

\* finalize_session_snapshot: whatever capture and publish say, the session
\* is then destroyed.
Finalize(t) ==
  /\ pc[t] = "finalize"
  /\ fate' \in {"empty", "published", "rejected", "recovered", "lost"}
  /\ published' = IF fate' = "published" THEN published + 1 ELSE published
  /\ DestroyUnderGate(t)

(***************************************************************************)
(* The other operations.                                                   *)
(***************************************************************************)
\* publish_workspace_session.
Publish(t) ==
  /\ Held(t, {"publish"})
  /\ IF live /\ s.state = "Active" /\ s.policy = "noop" /\ s.ledger = {}
     THEN /\ s' = [s EXCEPT !.state = "Finalizing"] /\ Goto(t, "capture")
          /\ UNCHANGED <<owner, op, gate, fl, res, plan, left, commandVars>>
     ELSE UNCHANGED s /\ Return(t)
  /\ UNCHANGED <<session, fate, published, holderVars, gateMap, flightVars>>

PublishCommitted(t) ==
  /\ pc[t] = "capture" /\ live
  /\ published' = published + 1 /\ UNCHANGED fate
  /\ DestroyUnderGate(t)

PublishFails(t) ==
  /\ pc[t] = "capture"
  /\ s' = [s EXCEPT !.state = "Active"] /\ Return(t)
  /\ UNCHANGED <<session, fate, published, holderVars, gateMap, flightVars>>

\* run_file_op, isolated_ip: with_gated_session and nothing else.
File(t) ==
  /\ Held(t, {"file"}) /\ Return(t)
  /\ UNCHANGED <<sessionVars, holderVars, gateMap, flightVars>>

\* remount_session: a switch gives the session a new handle.
Remount(t) ==
  /\ Held(t, {"remount"})
  /\ s' \in IF live /\ s.state = "Active" /\ s.gen < MaxGen THEN {s, [s EXCEPT !.gen = @ + 1]} ELSE {s}
  /\ Return(t)
  /\ UNCHANGED <<session, fate, published, holderVars, gateMap, flightVars>>

\* A remount that leaves the mounts in doubt: the caller destroys the session
\* in a second step, under the gate but without regard to its commands.
RemountFaulty(t) ==
  /\ Held(t, {"remount"}) /\ live /\ s.state = "Active"
  /\ Unlock(t) /\ op' = [op EXCEPT ![t] = "faulty"] /\ Goto(t, "fetch")
  /\ gate' = [gate EXCEPT ![t] = 0]
  /\ UNCHANGED <<sessionVars, holderVars, gateMap, flightVars, fl, res, plan, left, commandVars>>

Discarded == fate' = IF s.policy = "publish" /\ fate = "none" THEN "discarded" ELSE fate

Faulty(t) ==
  /\ Held(t, {"faulty"})
  /\ IF live /\ flightMap = 0
     THEN RawClaim(t) /\ Discarded /\ UNCHANGED published
     ELSE Return(t) /\ UNCHANGED <<sessionVars, holderVars, gateMap, flightVars>>

\* guarded_destroy, and destroy_session for the handler of generation 0.
Destroy(t) ==
  /\ Held(t, {"destroy", "cleanup"})
  /\ IF IF op[t] = "destroy" THEN live /\ s.ledger # {} ELSE s.gen # 0
     THEN Return(t) /\ UNCHANGED <<sessionVars, holderVars, gateMap, flightVars>>
     ELSE IF live THEN RawClaim(t) /\ Discarded /\ UNCHANGED published
     ELSE HolderClaim(t) /\ UNCHANGED <<session, fate, published, holderVars, gateMap, op, gate, res, left, resolved>>

\* commit_created_session.
CommitCreated(t) ==
  /\ Held(t, {"create", "implicit"})
  /\ IF live /\ s.state = "Active" /\ s.gen = 0 /\ op[t] = "implicit"
     THEN /\ Unlock(t) /\ op' = [op EXCEPT ![t] = "admit"] /\ Goto(t, "fetch")
          /\ gate' = [gate EXCEPT ![t] = 0]
          /\ UNCHANGED <<s, flightVars, fl, res, plan, left, commandVars>>
     ELSE IF ~live /\ s.state = "Active" /\ s.gen = 0
     THEN HolderClaim(t) /\ UNCHANGED <<op, gate, res, left, resolved>>
     ELSE Return(t) /\ UNCHANGED <<s, flightVars>>
  /\ UNCHANGED <<session, fate, published, holderVars, gateMap>>

Reconcile(t) ==
  /\ Held(t, {"reconcile"})
  /\ IF Pending THEN HolderClaim(t) /\ UNCHANGED <<op, gate, res, left, resolved>>
     ELSE Return(t) /\ UNCHANGED <<s, flightVars>>
  /\ UNCHANGED <<session, fate, published, holderVars, gateMap>>

\* shutdown_session.
Shutdown(t) ==
  /\ Held(t, {"shutdown"})
  /\ IF ~live THEN HolderClaim(t) /\ UNCHANGED <<session, fate, published, holderVars, gateMap, op, gate, res, left, resolved>>
     ELSE IF s.ledger # {}
     THEN /\ plan' = [plan EXCEPT ![t] = s.ledger] /\ cancelled' = cancelled \cup s.ledger
          /\ Unlock(t) /\ Goto(t, "cancel")
          /\ UNCHANGED <<sessionVars, holderVars, gateMap, flightVars, op, gate, fl, res, left, resolved>>
     ELSE IF s.policy = "publish" /\ s.state = "Active"
     THEN /\ s' = [s EXCEPT !.state = "Finalizing"] /\ Goto(t, "quiesce")
          /\ UNCHANGED <<session, fate, published, holderVars, gateVars, flightVars, op, gate, fl, res, plan, left, commandVars>>
     ELSE RawClaim(t) /\ Discarded /\ UNCHANGED published

\* cancel_and_join_commands of a shutdown, with and without success.
Cancel(t) ==
  /\ pc[t] = "cancel"
  /\ \/ plan[t] \subseteq resolved /\ NextTry(t)
     \/ Return(t)
  /\ UNCHANGED <<sessionVars, holderVars, gateMap, flightVars>>

(***************************************************************************)
(* The leader of a flight.                                                 *)
(***************************************************************************)
Kind(t) == flight[fl[t]].kind

\* run_holder_destroy: the commands of the plan are joined without the gate.
Join(t) ==
  /\ pc[t] = "join"
  /\ \/ plan[t] \subseteq resolved /\ Goto(t, "refetch") /\ UNCHANGED res
     \/ plan[t] # {} /\ res' = [res EXCEPT ![t] = "err"] /\ Goto(t, "mark")
  /\ UNCHANGED <<sessionVars, holderVars, gateVars, flightVars, op, gate, fl, plan, left, commandVars>>

Verify_NoArtifact(t) ==
  /\ pc[t] = "verify"
  /\ Open /\ s.gen = flight[fl[t]].gen /\ s.ledger = {}
  /\ Goto(t, "teardown")
  /\ UNCHANGED <<sessionVars, holderVars, gateVars, flightVars, op, gate, fl, res, plan, left, commandVars>>

\* With the gate again: the session is still the one of the plan and no
\* command is left; the work of a session that publishes is saved.
Verify(t) ==
  /\ pc[t] = "verify"
  /\ Open /\ s.gen = flight[fl[t]].gen /\ s.ledger = {}
  /\ fate' = IF s.policy = "publish" /\ fate \notin {"published", "empty"} THEN "recovered" ELSE fate
  /\ Goto(t, "teardown")
  /\ UNCHANGED <<session, s, published, holderVars, gateVars, flightVars, op, gate, fl, res, plan, left, commandVars>>

VerifyFails(t) ==
  /\ pc[t] = "verify"
  /\ ~(Open /\ s.gen = flight[fl[t]].gen /\ s.ledger = {}) \/ s.policy = "publish"
  /\ res' = [res EXCEPT ![t] = "err"] /\ Unlock(t) /\ Goto(t, "mark")
  /\ UNCHANGED <<sessionVars, holderVars, gateMap, flightVars, op, gate, fl, plan, left, commandVars>>

\* destroy_snapshot: the steps that have not succeeded before; one failing
\* does not stop the other.  The session leaves the map when both are done.
Teardown(t) ==
  /\ pc[t] = "teardown"
  /\ \E raw \in {s.raw, TRUE}, cgroup \in {s.cgroup, TRUE} :
       /\ s' = [s EXCEPT !.raw = raw, !.cgroup = cgroup]
       /\ live' \in IF s.raw THEN {live} ELSE IF raw THEN {FALSE} ELSE {live, FALSE}
       /\ doomed' = (doomed \/ ~s.raw)
       /\ IF raw /\ cgroup
          THEN /\ session' = "gone" /\ res' = [res EXCEPT ![t] = "ok"]
               /\ Goto(t, "ungate") /\ UNCHANGED owner
          ELSE /\ UNCHANGED session /\ res' = [res EXCEPT ![t] = "err"]
               /\ Goto(t, "mark")
               /\ IF Kind(t) = "holder" THEN Unlock(t) ELSE UNCHANGED owner
  /\ UNCHANGED <<fate, published, wake, gateMap, flightVars, op, gate, fl, plan, left, commandVars>>

\* drop_session_gate: the last step of the transaction.  The leader of a
\* holder flight then unlocks.
Ungate(t) ==
  /\ pc[t] = "ungate"
  /\ gateMap' = 0
  /\ IF Kind(t) = "holder" THEN Unlock(t) ELSE UNCHANGED owner
  /\ Goto(t, "settle")
  /\ UNCHANGED <<sessionVars, holderVars, flightVars, op, gate, fl, res, plan, left, commandVars>>

\* mark_destroy_failed.
Mark(t) ==
  /\ pc[t] = "mark"
  /\ s' = IF Open /\ s.gen = flight[fl[t]].gen THEN [s EXCEPT !.state = "FinalizeFailed"] ELSE s
  /\ Goto(t, "settle")
  /\ UNCHANGED <<session, fate, published, holderVars, gateVars, flightVars, op, gate, fl, res, plan, left, commandVars>>

Settle_OnlySuccess(t) ==
  /\ pc[t] = "settle"
  /\ flight' = IF res[t] = "ok" THEN [flight EXCEPT ![fl[t]].result = res[t]] ELSE flight
  /\ Goto(t, "unmap")
  /\ UNCHANGED <<sessionVars, holderVars, gateVars, flightMap, op, gate, fl, res, plan, left, commandVars>>

\* publish_destroy_flight: the waiters are told, then the map entry goes.
Settle(t) ==
  /\ pc[t] = "settle"
  /\ flight' = [flight EXCEPT ![fl[t]].result = res[t]]
  /\ Goto(t, "unmap")
  /\ UNCHANGED <<sessionVars, holderVars, gateVars, flightMap, op, gate, fl, res, plan, left, commandVars>>

\* ... and what the caller does with the result.
Unmap(t) ==
  /\ pc[t] = "unmap"
  /\ flightMap' = IF flightMap = fl[t] THEN 0 ELSE flightMap
  /\ s' = IF op[t] = "publish" /\ res[t] = "err" THEN [s EXCEPT !.terminal = TRUE] ELSE s
  /\ IF op[t] = "reconcile" THEN PassEnd(t, res[t] = "err") ELSE Return(t)
  /\ UNCHANGED <<session, fate, published, holderVars, gateMap, flight>>

Wait(t) ==
  /\ pc[t] = "wait" /\ flight[fl[t]].result # "none"
  /\ CASE op[t] = "reconcile" -> PassEnd(t, flight[fl[t]].result = "err")
       [] op[t] = "shutdown" /\ flight[fl[t]].result = "ok" -> NextTry(t)
       [] OTHER -> Return(t)
  /\ UNCHANGED <<sessionVars, holderVars, gateMap, flightVars>>

(***************************************************************************)
(* The holder.  Its exit is visible before the dispatcher is woken; an exit*)
(* that was asked for wakes nobody.                                        *)
(***************************************************************************)
HolderExit ==
  /\ live /\ (Undisturbed => ~BeingCreated)
  /\ live' = FALSE /\ wake' = IF doomed THEN wake ELSE "pending"
  /\ UNCHANGED <<sessionVars, doomed, gateVars, flightVars, pc, op, gate, fl, res, plan, left, commandVars>>

Notify ==
  /\ wake = "pending" /\ wake' = "set"
  /\ UNCHANGED <<sessionVars, live, doomed, gateVars, flightVars, pc, op, gate, fl, res, plan, left, commandVars>>

Step(t) ==
  \/ List(t) \/ Check(t) \/ Fetch(t) \/ Lock(t) \/ Missing(t) \/ Rejoin(t)
  \/ Admit(t) \/ Launch(t) \/ LaunchFails(t) \/ Complete(t)
  \/ Quiesce(t) \/ QuiesceExited(t) \/ QuiesceUnknown(t) \/ Finalize(t)
  \/ Publish(t) \/ PublishCommitted(t) \/ PublishFails(t)
  \/ File(t) \/ Remount(t) \/ RemountFaulty(t) \/ Faulty(t)
  \/ Destroy(t) \/ CommitCreated(t) \/ Reconcile(t) \/ Shutdown(t) \/ Cancel(t)
  \/ Join(t) \/ Verify(t) \/ VerifyFails(t) \/ Teardown(t) \/ Ungate(t) \/ Mark(t)
  \/ Settle(t) \/ Unmap(t) \/ Wait(t)

Idle == pc[Dispatcher] = "idle" /\ wake = "none"
AllDone == (\A c \in Clients : pc[c] \in {"idle", "done"}) /\ Idle

Next ==
  \/ \E c \in Clients : Call(c) \/ Build(c) \/ BuildFails(c) \/ BuildRetained(c) \/ Insert(c) \/ CommandExit(c)
  \/ \E t \in Threads : Step(t)
  \/ Wake \/ HolderExit \/ Notify

Spec == Init /\ [][Next]_vars

\* Calls, the dispatcher and the supervisor go on; a command ends when it is
\* cancelled, and with its holder or session.
CommandEnds(c) == CommandExit(c) /\ (c \in cancelled \/ ~live \/ ~Open)
InCall(t) == pc[t] \notin {"idle", "running", "done"}
Fairness ==
  /\ \A c \in Clients : WF_vars(Build(c) \/ BuildFails(c) \/ BuildRetained(c) \/ Insert(c)) /\ WF_vars(CommandEnds(c))
  /\ \A t \in Threads : WF_vars(InCall(t) /\ Step(t))
  /\ WF_vars(Wake) /\ WF_vars(Notify)
FairSpec == Spec /\ Fairness

(***************************************************************************)
(* Properties.                                                             *)
(***************************************************************************)
Positions ==
  {"idle", "build", "insert", "list", "check", "fetch", "lock", "held", "launch", "running", "quiesce", "finalize",
   "capture", "cancel", "join", "refetch", "relock", "verify", "teardown", "ungate", "mark", "settle", "unmap", "wait", "done"}

\* The types.
TypeOK ==
  /\ session \in {"none", "creating", "open", "gone"}
  /\ s \in [policy : {"noop", "publish"}, state : {"Active", "Finalizing", "FinalizeFailed"},
            ledger : SUBSET Clients, gen : 0 .. MaxGen,
            raw : BOOLEAN, cgroup : BOOLEAN, quiesced : BOOLEAN, terminal : BOOLEAN]
  /\ fate \in {"none", "empty", "published", "rejected", "recovered", "lost", "discarded"}
  /\ published \in Nat
  /\ live \in BOOLEAN /\ doomed \in BOOLEAN /\ wake \in {"none", "pending", "set"}
  /\ gateMap \in {0} \cup Gates /\ owner \in [Gates -> Threads \cup {Nobody}]
  /\ flightMap \in {0} \cup Flights
  /\ flight \in [Flights -> [kind : {"none", "raw", "holder"}, gen : 0 .. MaxGen, result : {"none", "ok", "err"}]]
  /\ pc \in [Threads -> Positions]
  /\ op \in [Threads -> Calls \cup {"none", "admit", "cleanup", "complete", "faulty"}]
  /\ gate \in [Threads -> {0} \cup Gates] /\ fl \in [Threads -> {0} \cup Flights]
  /\ res \in [Threads -> {"none", "ok", "err"}] /\ plan \in [Threads -> SUBSET Clients]
  /\ left \in [Threads -> Nat]
  /\ cancelled \subseteq Clients /\ resolved \subseteq Clients

\* Where a thread reads or changes the session under its gate.
InSection(t) == pc[t] \in {"held", "launch", "quiesce", "finalize", "capture", "verify", "teardown", "ungate"}

\* The gate serializes: although gates are looked up, dropped from the map
\* and created again, no two threads are ever at work on the session that is
\* in the sessions map (session_gate).
Serialized ==
  Open => \A t, u \in Threads : InSection(t) /\ InSection(u) => t = u

\* A flight has one leader: no two threads ever run a teardown of the
\* session, from the claim to the removal of the map entry
\* (claim_destroy_flight, claim_holder_destroy_flight).
Leads(t) == pc[t] \in {"join", "refetch", "relock", "verify", "teardown", "ungate", "mark", "settle", "unmap"}
OneLeader == \A t, u \in Threads : Leads(t) /\ Leads(u) => t = u

\* Whoever waits for a flight waits for a result that is there, or for a
\* leader that is still at work (publish_destroy_flight).
WaitersAreLed ==
  \A t \in Threads :
    pc[t] = "wait" =>
      flight[fl[t]].result # "none" \/ \E u \in Threads : Leads(u) /\ fl[u] = fl[t]

\* The session has one thread at work on it and its teardown one leader, who
\* answers for all that wait (session_gate, claim_destroy_flight).
OneAtWork == TypeOK /\ Serialized /\ OneLeader /\ WaitersAreLed

\* Nothing is torn down under a command that is still in the ledger, except
\* by the destroy of a faulty session, which says so.
NoTeardownUnderCommands ==
  \A t \in Threads : pc[t] = "teardown" /\ op[t] # "faulty" => s.ledger = {}

\* Work is published at most once, and a session whose work has been
\* published never accepts work again, whatever fails afterwards
\* (publish_workspace_session, finalize_session_snapshot).
PublishedOnce == published <= 1 /\ (published = 1 /\ Open => s.state # "Active")

\* A teardown comes after the last command, and work is published once.
OrderedEnd == NoTeardownUnderCommands /\ PublishedOnce

\* A session that publishes and that nobody asked to destroy does not go
\* without its work being published, found empty, refused, saved for
\* recovery, or at least tried (finalize_session_snapshot,
\* run_holder_destroy).
WorkSurvives ==
  ~Open /\ s.policy = "publish" /\ s.raw /\ s.cgroup
    /\ ~(\E t \in Threads : op[t] \in {"destroy", "shutdown", "faulty"})
  => fate \notin {"none", "discarded"}

\* However calls, completions and the death of the holder interleave, a
\* session is worked on by one thread, ends in order, and keeps its work.
SessionSafe == OneAtWork /\ OrderedEnd /\ WorkSurvives

\* Every call returns, and every completion is finished.
CallsReturn ==
  \A c \in Clients : InCall(c) ~> pc[c] \in {"running", "done"}

\* A session whose holder has died does not stay as it is: it goes, or it is
\* kept as finalize_failed for another attempt.
HolderExitHandled == Open /\ ~live ~> ~Open \/ s.state = "FinalizeFailed"

\* No call and no dead holder is left waiting for ever: neither gates nor
\* flights deadlock.
SessionProgress == CallsReturn /\ HolderExitHandled
=============================================================================
