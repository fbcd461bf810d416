------------------------- MODULE NamespaceExecution -------------------------
(***************************************************************************)
(* The execution engine of crates/sandbox-runtime/namespace-execution and  *)
(* the command service that drives it.  An execution is reserved in the    *)
(* bounded registry, spawned, handed to the completion supervisor, and     *)
(* attached; the supervisor's one worker takes the queued jobs as a batch, *)
(* polls each child once, puts the pending ones back, and runs the         *)
(* completion callbacks: finalize, terminal entry, promise, in that order. *)
(* A command's launch holds its session's gate until it is attached, and   *)
(* finalize releases the command's token under the same gate.              *)
(*                                                                         *)
(* An engine either runs commands or the set-up requests of the workspace  *)
(* manager (mounts, remounts, file operations), which carry a setup        *)
(* timeout, no token and no attached value, and retain no terminal entry.  *)
(***************************************************************************)
EXTENDS Naturals, Sequences, FiniteSets, Functions

CONSTANTS
  Execs,         \* execution ids; allocate_id never returns one twice
  Sessions,      \* workspace sessions
  SessionOf,     \* the session each command runs in
  Policies,      \* the sets considered of sessions destroyed when their last command ends
  Caps,          \* the values of caps.max_active considered
  Retained,      \* caps.max_terminal_entries of the command engine
  MaxFaults,     \* bound: failed spawns, reads and callbacks, leftover descendants
  None

ASSUME ExecAssumption ==
  /\ SessionOf \in [Execs -> Sessions]
  /\ Policies \subseteq SUBSET Sessions
  /\ Caps \subseteq Nat \ {0}
  /\ Retained \in Nat \ {0}
  /\ MaxFaults \in Nat
  /\ None \notin Execs

VARIABLES
  engine,        \* what the engine runs, on what worker, caps.max_active, one-shot sessions
  pc,            \* the thread that launches each execution
  entry, value, active, order,                       \* ExecutionRegistry
  jobs, shutdown, deadline, running, busy, stopped, failure, timeouts,
                                                     \* SupervisorQueue
  wpc, batch, timed, pending, completed,             \* the worker
  callback,      \* executions whose job carries a completion callback
  outcome,       \* what a completed job's poll returned
  proc, pipe, sig, reaped, shut, expired,            \* ForkRunnerChild
  promise,       \* CompletionPromise: the result it resolved to
  answer,        \* what the launching call returned
  token, gate, dir, sess,                            \* the command's session
  spc,           \* the thread in shutdown_and_join
  unread,        \* children given up on because their pipe could not be read
  faults

registry == <<entry, value, active, order>>
queue == <<jobs, shutdown, deadline, running, busy, stopped, failure, timeouts>>
worker == <<wpc, batch, timed, pending, completed, outcome>>
child == <<proc, pipe, sig, reaped, shut, expired>>
session == <<token, gate, dir, sess>>
caller == <<pc, answer>>
vars == <<engine, caller, registry, queue, worker, callback, child, promise,
          session, spc, unread, faults>>

MaxTerminal == IF engine.commands THEN Retained ELSE 0

Goto(e, l) == pc' = [pc EXCEPT ![e] = l] /\ UNCHANGED answer
Return(e, l, a) == pc' = [pc EXCEPT ![e] = l] /\ answer' = [answer EXCEPT ![e] = a]

Ledger(s) == {e \in Execs : SessionOf[e] = s /\ token[e] = "held"}

----------------------------------------------------------------------------
(* ExecutionRegistry *)

\* Variant: evicts at the retention, not beyond it.
Evicted_AtCap(ord) == {ord[i] : i \in {k \in 1 .. Len(ord) : Len(ord) >= MaxTerminal
                                                          /\ k <= Len(ord) - MaxTerminal + 1}}

\* complete: the entry turns terminal and the oldest terminal entries beyond
\* the retention leave, and their values with them.
Evicted(ord) == IF Len(ord) > MaxTerminal
                  THEN {ord[i] : i \in 1 .. Len(ord) - MaxTerminal} ELSE {}

Complete(e) ==
  IF entry[e] = "live"
    THEN LET ord == Append(order, e)
             out == Evicted(ord)
         IN /\ entry' = [x \in Execs |-> CASE x \in out -> "none"
                                           [] x = e /\ x \notin out -> "terminal"
                                           [] OTHER -> entry[x]]
            /\ value' = [x \in Execs |-> value[x] /\ x \notin out]
            /\ dir' = [x \in Execs |-> dir[x] /\ ~(x \in out /\ value[x])]
            /\ active' = active - 1
            /\ order' = SubSeq(ord, 1 + Cardinality(out), Len(ord))
    ELSE UNCHANGED <<entry, value, dir, active, order>>

\* abort: a reservation that is not terminal is given back.
Abort(e) ==
  IF entry[e] = "live"
    THEN /\ entry' = [entry EXCEPT ![e] = "none"]
         /\ value' = [value EXCEPT ![e] = FALSE]
         /\ active' = active - 1
         /\ UNCHANGED order
    ELSE UNCHANGED registry

\* remove_terminal_values: the terminal entries with a value of session s.
Released(s) == {e \in Execs : entry[e] = "terminal" /\ value[e] /\ SessionOf[e] = s}

ReleaseTerminal(s) ==
  LET out == Released(s)
  IN /\ entry' = [e \in Execs |-> IF e \in out THEN "none" ELSE entry[e]]
     /\ value' = [e \in Execs |-> value[e] /\ e \notin out]
     /\ order' = SelectSeq(order, LAMBDA e : e \notin out)
     /\ UNCHANGED active

\* The token's end: the ledger loses the command, and a one-shot session whose
\* ledger is now empty is destroyed, which releases its terminal commands.
\* gone: commands whose scratch directory the caller has removed already.
DropToken(e, gone) ==
  LET s == SessionOf[e]
      last == s \in engine.one_shot /\ Ledger(s) = {e} /\ sess[s] = "open"
  IN /\ token' = [token EXCEPT ![e] = "released"]
     /\ sess' = IF last THEN [sess EXCEPT ![s] = "destroyed"] ELSE sess
     /\ dir' = [x \in Execs |-> dir[x] /\ x \notin gone /\ ~(last /\ x \in Released(s))]
     /\ IF last THEN ReleaseTerminal(s) ELSE UNCHANGED registry

GateFree(e) == gate[SessionOf[e]] = None

----------------------------------------------------------------------------
(* Launching *)

\* CompletionSupervisor::new: a task of the runtime it is built in, or a thread,
\* which may fail to start.
Init ==
  /\ engine \in [commands : BOOLEAN, async : BOOLEAN, started : BOOLEAN,
                max_active : Caps, one_shot : Policies]
  /\ engine.async => engine.started
  /\ pc = [e \in Execs |-> "idle"]
  /\ entry = [e \in Execs |-> "none"]
  /\ value = [e \in Execs |-> FALSE]
  /\ active = 0 /\ order = << >>
  /\ jobs = << >> /\ deadline = "none" /\ busy = FALSE /\ timeouts = 0
  /\ running = engine.started
  /\ shutdown = ~engine.started /\ stopped = ~engine.started /\ failure = ~engine.started
  /\ wpc = IF engine.started THEN "loop" ELSE "gone"
  /\ batch = << >> /\ timed = FALSE /\ pending = << >> /\ completed = << >>
  /\ callback = {}
  /\ outcome = [e \in Execs |-> "none"]
  /\ proc = [e \in Execs |-> "none"]
  /\ pipe = [e \in Execs |-> "none"]
  /\ sig = [e \in Execs |-> "none"]
  /\ reaped = [e \in Execs |-> FALSE]
  /\ shut = [e \in Execs |-> FALSE]
  /\ expired = [e \in Execs |-> FALSE]
  /\ promise = [e \in Execs |-> "none"]
  /\ answer = [e \in Execs |-> "none"]
  /\ token = [e \in Execs |-> "none"]
  /\ gate = [s \in Sessions |-> None]
  /\ dir = [e \in Execs |-> FALSE]
  /\ sess = [s \in Sessions |-> "open"]
  /\ spc = "idle" /\ unread = {} /\ faults = 0

Fault == faults < MaxFaults /\ faults' = faults + 1

\* exec_command up to the launch: a command is admitted under its session's
\* gate, which it keeps, and its scratch directory is made.  A set-up request
\* has neither.
Admit(e) ==
  /\ pc[e] = "idle"
  /\ IF engine.commands
       THEN /\ GateFree(e) /\ sess[SessionOf[e]] = "open"
            /\ token' = [token EXCEPT ![e] = "held"]
            /\ gate' = [gate EXCEPT ![SessionOf[e]] = e]
            /\ dir' = [dir EXCEPT ![e] = TRUE]
       ELSE UNCHANGED <<token, gate, dir>>
  /\ Goto(e, "ensure")
  /\ UNCHANGED <<engine, registry, queue, worker, callback, child, promise,
                 sess, spc, unread, faults>>

\* ensure_accepting
EnsureAccepting(e) ==
  /\ pc[e] = "ensure"
  /\ Goto(e, IF shutdown THEN "fail" ELSE "reserve")
  /\ UNCHANGED <<engine, registry, queue, worker, callback, child, promise,
                 session, spc, unread, faults>>

\* try_reserve
TryReserve(e) ==
  /\ pc[e] = "reserve"
  /\ IF active >= engine.max_active
       THEN Goto(e, "fail") /\ UNCHANGED <<entry, active>>
       ELSE /\ entry' = [entry EXCEPT ![e] = "live"]
            /\ active' = active + 1
            /\ Goto(e, "spawn")
  /\ UNCHANGED <<engine, value, order, queue, worker, callback, child, promise,
                 session, spc, unread, faults>>

\* The launcher spawns the runner and writes its request.
Spawn(e) ==
  /\ pc[e] = "spawn"
  /\ proc' = [proc EXCEPT ![e] = "running"]
  /\ pipe' = [pipe EXCEPT ![e] = "open"]
  /\ Goto(e, "submit")
  /\ UNCHANGED <<engine, registry, queue, worker, callback, sig, reaped, shut, expired,
                 promise, session, spc, unread, faults>>

\* A spawn, a placement or a request write that fails leaves no runner: the
\* child is killed and waited for before the error is returned.
SpawnFails(e) ==
  /\ pc[e] = "spawn" /\ Fault
  /\ Goto(e, "abort")
  /\ UNCHANGED <<engine, registry, queue, worker, callback, child, promise,
                 session, spc, unread>>

\* submit: after a shutdown the job is refused.  It is queued without its
\* callback while the worker can still reap it, and otherwise killed here.
Submit(e) ==
  /\ pc[e] = "submit"
  /\ \/ /\ ~shutdown
        /\ jobs' = Append(jobs, e)
        /\ callback' = callback \cup {e}
        /\ Goto(e, IF engine.commands THEN "attach" ELSE "wait")
        /\ UNCHANGED <<sig, shut>>
     \/ /\ shutdown /\ ~stopped
        /\ jobs' = Append(jobs, e)
        /\ Goto(e, "abort")
        /\ UNCHANGED <<callback, sig, shut>>
     \/ /\ shutdown /\ stopped
        /\ sig' = [sig EXCEPT ![e] = "kill"]
        /\ shut' = [shut EXCEPT ![e] = TRUE]
        /\ Goto(e, "rejected")
        /\ UNCHANGED <<jobs, callback>>
  /\ UNCHANGED <<engine, registry, shutdown, deadline, running, busy, stopped, failure,
                 timeouts, worker, proc, pipe, reaped, expired, promise, session, spc,
                 unread, faults>>

\* terminate_rejected: polls until the runner is gone or a second has passed.
TerminateRejected(e) ==
  /\ pc[e] = "rejected"
  /\ Goto(e, "abort")
  /\ UNCHANGED <<engine, registry, queue, worker, callback, child, promise,
                 session, spc, unread, faults>>

\* A refused or failed launch gives its reservation back.
AbortLaunch(e) ==
  /\ pc[e] = "abort"
  /\ Abort(e)
  /\ Goto(e, "fail")
  /\ UNCHANGED <<engine, queue, worker, callback, child, promise, session, spc, unread, faults>>

\* The error path of exec_command: the scratch directory goes, and the token is
\* completed under the gate the thread holds.
Fail(e) ==
  /\ pc[e] = "fail"
  /\ IF engine.commands
       THEN /\ DropToken(e, {e})
            /\ gate' = [gate EXCEPT ![SessionOf[e]] = None]
       ELSE UNCHANGED <<session, registry>>
  /\ Return(e, "refused", "refused")
  /\ UNCHANGED <<engine, queue, worker, callback, child, promise, spc, unread, faults>>

\* Variant: the directory of a value that finds no entry stays.
Attach_Leaks(e) ==
  /\ pc[e] = "attach"
  /\ value' = [value EXCEPT ![e] = entry[e] # "none"]
  /\ gate' = [gate EXCEPT ![SessionOf[e]] = None]
  /\ Goto(e, "yield")
  /\ UNCHANGED <<engine, entry, active, order, queue, worker, callback, child, promise,
                 token, dir, sess, spc, unread, faults>>

\* attach: the value is dropped, and the directory with it, when the entry is
\* gone already.  The gate is released.
Attach(e) ==
  /\ pc[e] = "attach"
  /\ value' = [value EXCEPT ![e] = entry[e] # "none"]
  /\ dir' = [dir EXCEPT ![e] = entry[e] # "none"]
  /\ gate' = [gate EXCEPT ![SessionOf[e]] = None]
  /\ Goto(e, "yield")
  /\ UNCHANGED <<engine, entry, active, order, queue, worker, callback, child, promise,
                 token, sess, spc, unread, faults>>

----------------------------------------------------------------------------
(* The completion worker *)

\* supervise and supervise_async: the queue is taken as one batch, with the
\* shutdown deadline as it stands now.
TakeBatch ==
  /\ wpc = "loop" /\ jobs # << >> /\ ~stopped
  /\ batch' = jobs /\ jobs' = << >>
  /\ timed' = (deadline # "none")
  /\ busy' = TRUE
  /\ wpc' = "poll"
  /\ UNCHANGED <<engine, caller, registry, shutdown, deadline, running, stopped, failure, timeouts,
                 pending, completed, outcome, callback, child, promise, session, spc, unread, faults>>

WorkerStops ==
  /\ wpc = "loop" /\ (stopped \/ (jobs = << >> /\ shutdown))
  /\ running' = FALSE /\ busy' = FALSE /\ stopped' = TRUE
  /\ wpc' = "gone"
  /\ UNCHANGED <<engine, caller, registry, jobs, shutdown, deadline, failure, timeouts, batch, timed,
                 pending, completed, outcome, callback, child, promise, session, spc, unread, faults>>

\* terminate: a runner not known to have exited is killed, once.
Kills(e) == timed /\ ~reaped[e] /\ ~shut[e]

\* Variant: the exit of the runner is enough.
Over_AtExit(e) == proc[e] = "gone"

\* try_wait_completion returns a result once the runner is reaped and its
\* result pipe has reached its end: an error when the runner was terminated or
\* timed out, and otherwise what the runner's envelope and status say.
Over(e) == proc[e] = "gone" /\ pipe[e] = "eof"

Results(e) ==
  IF shut'[e] \/ expired[e] THEN {"err"} ELSE {"ok", "err"}

\* enforce_termination_deadline: a set-up request that outlives its timeout
\* gets SIGTERM, and SIGKILL at a later poll.
Enforce(e) ==
  IF proc[e] = "running" /\ ~engine.commands
    THEN \/ UNCHANGED expired /\ sig' = [sig EXCEPT ![e] = IF Kills(e) THEN "kill" ELSE @]
         \/ /\ expired' = [expired EXCEPT ![e] = TRUE]
            /\ sig' = [sig EXCEPT ![e] = IF expired[e] \/ Kills(e) THEN "kill"
                                         ELSE IF @ = "none" THEN "term" ELSE @]
    ELSE UNCHANGED expired /\ sig' = [sig EXCEPT ![e] = IF Kills(e) THEN "kill" ELSE @]

\* poll_jobs, one job: terminate it under a shutdown deadline, then see whether
\* it is over.  A job still pending when the deadline has passed is given up.
PollJob ==
  /\ wpc = "poll" /\ batch # << >>
  /\ LET e == Head(batch)
     IN /\ shut' = [shut EXCEPT ![e] = @ \/ Kills(e)]
        /\ \/ /\ Over(e)
              /\ \E r \in Results(e) : outcome' = [outcome EXCEPT ![e] = r]
              /\ completed' = Append(completed, e)
              /\ reaped' = [reaped EXCEPT ![e] = TRUE]
              /\ UNCHANGED <<pending, timeouts, sig, expired, unread, faults>>
           \/ /\ ~Over(e)
              /\ reaped' = [reaped EXCEPT ![e] = proc[e] = "gone"]
              /\ Enforce(e)
              /\ IF timed /\ deadline = "past"
                   THEN /\ timeouts' = timeouts + 1
                        /\ completed' = Append(completed, e)
                        /\ outcome' = [outcome EXCEPT ![e] = "err"]
                        /\ UNCHANGED pending
                   ELSE /\ pending' = Append(pending, e)
                        /\ UNCHANGED <<timeouts, completed, outcome>>
              /\ UNCHANGED <<unread, faults>>
           \/ /\ Fault     \* the result pipe or the wait fails
              /\ unread' = unread \cup {e}
              /\ completed' = Append(completed, e)
              /\ outcome' = [outcome EXCEPT ![e] = "err"]
              /\ sig' = [sig EXCEPT ![e] = IF Kills(e) THEN "kill" ELSE @]
              /\ UNCHANGED <<pending, timeouts, reaped, expired>>
  /\ batch' = Tail(batch)
  /\ UNCHANGED <<engine, caller, registry, jobs, shutdown, deadline, running, busy, stopped, failure,
                 wpc, timed, callback, proc, pipe, promise, session, spc>>

\* Variant: the pending jobs replace the queue.
RequeuePending_Overwrites ==
  /\ wpc = "poll" /\ batch = << >>
  /\ jobs' = IF pending = << >> THEN jobs ELSE pending
  /\ pending' = << >>
  /\ wpc' = "complete"
  /\ UNCHANGED <<engine, caller, registry, shutdown, deadline, running, busy, stopped, failure, timeouts,
                 batch, timed, completed, outcome, callback, child, promise, session, spc, unread, faults>>

\* The pending jobs go back to the queue.
RequeuePending ==
  /\ wpc = "poll" /\ batch = << >>
  /\ jobs' = jobs \o pending /\ pending' = << >>
  /\ wpc' = "complete"
  /\ UNCHANGED <<engine, caller, registry, shutdown, deadline, running, busy, stopped, failure, timeouts,
                 batch, timed, completed, outcome, callback, child, promise, session, spc, unread, faults>>

\* The child handles of finished jobs are dropped; a runner still alive goes on
\* unwatched.
DropChildren(es) ==
  /\ reaped' = [e \in Execs |-> reaped[e] /\ e \notin es]
  /\ shut' = [e \in Execs |-> shut[e] /\ e \notin es]
  /\ expired' = [e \in Execs |-> expired[e] /\ e \notin es]
  /\ sig' = [e \in Execs |-> IF e \in es /\ proc[e] = "gone" THEN "none" ELSE sig[e]]
  /\ UNCHANGED <<proc, pipe>>

\* complete_jobs: the callback of the next job.  A result is finalized first,
\* which takes the command's token and ends it under the session's gate; a job
\* without a callback is dropped.
Finalize ==
  /\ wpc = "complete" /\ completed # << >>
  /\ LET e == Head(completed)
     IN IF e \notin callback
          THEN /\ completed' = Tail(completed)
               /\ DropChildren({e})
               /\ UNCHANGED <<wpc, registry, session>>
          ELSE /\ wpc' = "entry"
               /\ UNCHANGED <<completed, child>>
               /\ IF engine.commands /\ outcome[e] = "ok" /\ token[e] = "held"
                    THEN GateFree(e) /\ DropToken(e, {}) /\ UNCHANGED gate
                    ELSE UNCHANGED <<registry, session>>
  /\ UNCHANGED <<engine, caller, queue, batch, timed, pending, outcome, callback, promise, spc,
                 unread, faults>>

\* terminal_release and registry.complete
CompleteEntry ==
  /\ wpc = "entry"
  /\ Complete(Head(completed))
  /\ wpc' = "resolve"
  /\ UNCHANGED <<engine, caller, queue, batch, timed, pending, completed, outcome, callback, child,
                 promise, token, gate, sess, spc, unread, faults>>

ResolvePromise ==
  /\ wpc = "resolve"
  /\ promise' = [promise EXCEPT ![Head(completed)] = outcome[Head(completed)]]
  /\ wpc' = "drop"
  /\ UNCHANGED <<engine, caller, registry, queue, batch, timed, pending, completed, outcome, callback,
                 child, session, spc, unread, faults>>

\* The callback is dropped, and with it an unfinalized token, unless the call
\* that launched the command still shares it.
DropCallback ==
  /\ wpc = "drop"
  /\ LET e == Head(completed)
     IN /\ IF token[e] = "held" /\ pc[e] = "returned"
             THEN GateFree(e) /\ DropToken(e, {}) /\ UNCHANGED gate
             ELSE UNCHANGED <<registry, session>>
        /\ callback' = callback \ {e}
        /\ DropChildren({e})
  /\ completed' = Tail(completed)
  /\ wpc' = "complete"
  /\ UNCHANGED <<engine, caller, queue, batch, timed, pending, outcome, promise, spc, unread, faults>>

\* A callback that panics: the rest of the batch is dropped with it.  The async
\* worker records the failure and goes on as in a shutdown; the thread dies.
CallbackPanics ==
  /\ wpc = "complete" /\ completed # << >> /\ Head(completed) \in callback
  /\ Fault
  /\ callback' = callback \ Range(completed)
  /\ DropChildren(Range(completed))
  /\ completed' = << >>
  /\ IF engine.async
       THEN /\ failure' = TRUE /\ shutdown' = TRUE /\ deadline' = "set"
            /\ wpc' = "complete"
       ELSE wpc' = "panicked" /\ UNCHANGED <<failure, shutdown, deadline>>
  /\ UNCHANGED <<engine, caller, registry, jobs, running, busy, stopped, timeouts, batch, timed, pending,
                 outcome, promise, session, spc, unread>>

\* finish_batch
FinishBatch ==
  /\ wpc = "complete" /\ completed = << >>
  /\ busy' = FALSE
  /\ wpc' = "loop"
  /\ UNCHANGED <<engine, caller, registry, jobs, shutdown, deadline, running, stopped, failure, timeouts,
                 batch, timed, pending, completed, outcome, callback, child, promise, session, spc,
                 unread, faults>>

----------------------------------------------------------------------------
(* The launching call's answer *)

\* wait_for_command_yield: the entry is looked up until the promise is resolved
\* or the yield time is over.
Yield(e) ==
  /\ pc[e] = "yield"
  /\ \/ ~value[e] /\ Return(e, "leave", "not_found")
     \/ value[e] /\ promise[e] # "none" /\ Goto(e, "read")
     \/ value[e] /\ promise[e] = "none" /\ Return(e, "leave", "running")
  /\ UNCHANGED <<engine, registry, queue, worker, callback, child, promise, session, spc, unread, faults>>

\* completed_command_output looks the entry up again.
ReadResult(e) ==
  /\ pc[e] = "read"
  /\ Return(e, "leave", IF value[e] THEN promise[e] ELSE "not_found")
  /\ UNCHANGED <<engine, registry, queue, worker, callback, child, promise, session, spc, unread, faults>>

\* The call returns, and drops its share of the token.
Leave(e) ==
  /\ pc[e] = "leave"
  /\ IF token[e] = "held" /\ e \notin callback
       THEN GateFree(e) /\ DropToken(e, {}) /\ UNCHANGED gate
       ELSE UNCHANGED <<registry, session>>
  /\ Goto(e, "returned")
  /\ UNCHANGED <<engine, queue, worker, callback, child, promise, spc, unread, faults>>

\* A token lost with a panicked batch goes with the batch.
DropLost(e) ==
  /\ pc[e] = "returned" /\ token[e] = "held" /\ e \notin callback
  /\ GateFree(e) /\ DropToken(e, {}) /\ UNCHANGED gate
  /\ UNCHANGED <<engine, caller, queue, worker, callback, child, promise, spc, unread, faults>>

\* ExecutionHandle::wait of a set-up request
Wait(e) ==
  /\ pc[e] = "wait" /\ promise[e] # "none"
  /\ Return(e, "returned", promise[e])
  /\ UNCHANGED <<engine, registry, queue, worker, callback, child, promise, session, spc, unread, faults>>

\* write_command_stdin with a kill input, and the cancellation of a session's
\* teardown: SIGTERM and then SIGKILL to the runner's process group.
Cancel(e) ==
  /\ pc[e] = "returned" /\ value[e] /\ promise[e] = "none"
  /\ sig' = [sig EXCEPT ![e] = "kill"]
  /\ UNCHANGED <<engine, caller, registry, queue, worker, callback, proc, pipe, reaped, shut, expired,
                 promise, session, spc, unread, faults>>

\* The session is destroyed, under its gate and without active commands.
Destroy(s) ==
  /\ engine.commands /\ sess[s] = "open" /\ gate[s] = None /\ Ledger(s) = {}
  /\ sess' = [sess EXCEPT ![s] = "destroyed"]
  /\ dir' = [e \in Execs |-> dir[e] /\ e \notin Released(s)]
  /\ ReleaseTerminal(s)
  /\ UNCHANGED <<engine, caller, queue, worker, callback, child, promise, token, gate, spc, unread, faults>>

----------------------------------------------------------------------------
(* The runners *)

\* A runner exits.  A descendant of a command may live on and hold the result
\* pipe, which is inherited.
Exit(e) ==
  /\ proc[e] = "running"
  /\ proc' = [proc EXCEPT ![e] = "gone"]
  /\ \/ pipe' = [pipe EXCEPT ![e] = "eof"] /\ UNCHANGED faults
     \/ engine.commands /\ Fault /\ pipe' = [pipe EXCEPT ![e] = "held"]
  /\ UNCHANGED <<engine, caller, registry, queue, worker, callback, sig, reaped, shut, expired,
                 promise, session, spc, unread>>

DescendantExits(e) ==
  /\ pipe[e] = "held"
  /\ pipe' = [pipe EXCEPT ![e] = "eof"]
  /\ UNCHANGED <<engine, caller, registry, queue, worker, callback, proc, sig, reaped, shut, expired,
                 promise, session, spc, unread, faults>>

----------------------------------------------------------------------------
(* Shutting down *)

BeginShutdown ==
  /\ spc = "idle"
  /\ shutdown' = TRUE
  /\ deadline' = IF shutdown THEN deadline ELSE "set"
  /\ IF ~running \/ (engine.async /\ jobs = << >> /\ ~busy)
       THEN running' = FALSE /\ stopped' = TRUE
       ELSE UNCHANGED <<running, stopped>>
  /\ spc' = "join"
  /\ UNCHANGED <<engine, caller, registry, jobs, busy, failure, timeouts, worker, callback, child,
                 promise, session, unread, faults>>

DeadlinePasses ==
  /\ deadline = "set"
  /\ deadline' = "past"
  /\ UNCHANGED <<engine, caller, registry, jobs, shutdown, running, busy, stopped, failure, timeouts,
                 worker, callback, child, promise, session, spc, unread, faults>>

\* The thread is joined, or the stop of the task awaited.
Join ==
  /\ spc = "join"
  /\ IF engine.async \/ ~engine.started THEN stopped ELSE wpc \in {"gone", "panicked"}
  /\ failure' = (failure \/ wpc = "panicked")
  /\ stopped' = TRUE
  /\ running' = FALSE
  /\ busy' = (busy /\ wpc # "panicked")
  /\ spc' = IF failure' \/ timeouts > 0 THEN "err" ELSE "ok"
  /\ UNCHANGED <<engine, caller, registry, jobs, shutdown, deadline, timeouts, worker, callback,
                 child, promise, session, unread, faults>>

Launch(e) ==
  \/ EnsureAccepting(e) \/ TryReserve(e) \/ Spawn(e) \/ Submit(e) \/ TerminateRejected(e)
  \/ AbortLaunch(e) \/ Fail(e) \/ Attach(e) \/ Yield(e) \/ ReadResult(e) \/ Leave(e)
  \/ DropLost(e) \/ Wait(e)

Worker ==
  \/ TakeBatch \/ WorkerStops \/ PollJob \/ RequeuePending \/ Finalize \/ CompleteEntry
  \/ ResolvePromise \/ DropCallback \/ FinishBatch

Next ==
  \/ \E e \in Execs : Admit(e) \/ Launch(e) \/ SpawnFails(e) \/ Cancel(e)
                        \/ Exit(e) \/ DescendantExits(e)
  \/ \E s \in Sessions : Destroy(s)
  \/ Worker \/ CallbackPanics
  \/ BeginShutdown \/ DeadlinePasses \/ Join

\* A call that has started runs on, and so do the worker and the shutdown; a
\* killed runner dies, a deadline passes, and so does a set-up request's timeout
\* under a worker that keeps polling it.  A command is free to run, and to
\* leave a descendant, for ever.
Fairness ==
  /\ \A e \in Execs : /\ WF_vars(Launch(e))
                       /\ WF_vars(sig[e] = "kill" /\ Exit(e))
  /\ WF_vars(Worker) /\ WF_vars(Join) /\ WF_vars(DeadlinePasses)
  /\ SF_vars(PollJob /\ sig' # sig)

Spec == Init /\ [][Next]_vars /\ Fairness

----------------------------------------------------------------------------
TypeOK ==
  /\ pc \in [Execs -> {"idle", "ensure", "reserve", "spawn", "submit", "rejected", "abort", "fail",
                       "refused", "attach", "yield", "read", "leave", "wait", "returned"}]
  /\ entry \in [Execs -> {"none", "live", "terminal"}]
  /\ value \in [Execs -> BOOLEAN] /\ dir \in [Execs -> BOOLEAN]
  /\ active \in Nat
  /\ \A q \in {order, jobs, batch, pending, completed} : q \in Seq(Execs)
  /\ shutdown \in BOOLEAN /\ running \in BOOLEAN /\ busy \in BOOLEAN
  /\ stopped \in BOOLEAN /\ failure \in BOOLEAN /\ timed \in BOOLEAN
  /\ deadline \in {"none", "set", "past"} /\ timeouts \in Nat
  /\ wpc \in {"loop", "poll", "complete", "entry", "resolve", "drop", "gone", "panicked"}
  /\ callback \subseteq Execs /\ unread \subseteq Execs
  /\ \A f \in {outcome, promise} : f \in [Execs -> {"none", "ok", "err"}]
  /\ answer \in [Execs -> {"none", "refused", "not_found", "running", "ok", "err"}]
  /\ proc \in [Execs -> {"none", "running", "gone"}]
  /\ pipe \in [Execs -> {"none", "open", "held", "eof"}]
  /\ sig \in [Execs -> {"none", "term", "kill"}]
  /\ \A f \in {reaped, shut, expired} : f \in [Execs -> BOOLEAN]
  /\ token \in [Execs -> {"none", "held", "released"}]
  /\ gate \in [Sessions -> Execs \cup {None}]
  /\ sess \in [Sessions -> {"open", "destroyed"}]
  /\ spc \in {"idle", "join", "ok", "err"} /\ faults \in 0 .. MaxFaults

\* ExecutionRegistry: the active count is the number of live entries, never
\* more than max_active; terminal_order lists the terminal entries once each,
\* never more than the retention.  A slot is neither leaked nor given back
\* twice on any of the launch's error paths.
CountsExact ==
  /\ active = Cardinality({e \in Execs : entry[e] = "live"}) /\ active <= engine.max_active
  /\ Range(order) = {e \in Execs : entry[e] = "terminal"}
  /\ Len(order) = Cardinality(Range(order)) /\ Len(order) <= MaxTerminal

\* CommandExecValue: a listed command has its scratch directory, and a directory
\* outlives its command's launch only as long as the entry that owns it.
ScratchOwned ==
  \A e \in Execs :
    /\ value[e] => dir[e] /\ entry[e] # "none"
    /\ dir[e] => value[e] \/ pc[e] \in {"ensure", "reserve", "spawn", "submit", "rejected", "abort",
                                        "fail", "attach"}

\* A slot or a directory is held by exactly the execution that still needs it.
RegistryExact == TypeOK /\ CountsExact /\ ScratchOwned

\* A promise that is resolved (is_finished, and the join of a teardown) comes
\* last: the entry is no longer live, and a result means that the runner has
\* exited, its output pipe is at its end, and the command has left its session's
\* ledger.  A failure without an exit is a read error or a shutdown timeout.
ResolvedMeansOver ==
  \A e \in Execs : promise[e] # "none" =>
    /\ entry[e] # "live"
    /\ promise[e] = "ok" => pipe[e] = "eof" /\ token[e] # "held"
    /\ pipe[e] # "eof" => e \in unread \/ timeouts > 0

\* exec_command on a session of its own gets the result of its command: the
\* session's end, which releases the session's terminal commands, comes before
\* the command is one of them.  Only the retention can take the result away.
OwnAnswerKept ==
  \A e \in Execs :
    answer[e] = "not_found" =>
      \/ SessionOf[e] \notin engine.one_shot
      \/ \E x \in Execs \ {e} : SessionOf[x] = SessionOf[e] /\ token[x] # "none"
      \/ Cardinality({x \in Execs : outcome[x] # "none"}) > Retained

\* shutdown_and_join that reports success leaves no job behind, and no runner
\* but one still being launched (which submit will kill), one it has killed, and
\* one whose pipe could not be read.
ShutdownClean ==
  spc = "ok" =>
    /\ jobs = << >> /\ callback = {}
    /\ \A e \in Execs : proc[e] = "running" => pc[e] = "submit" \/ sig[e] = "kill" \/ e \in unread

\* Who is told that an execution, or all of them, is over is told the truth
\* (resolve_promise, shutdown_and_join).
OverMeansOver == ResolvedMeansOver /\ ShutdownClean

\* The worker died in a callback, or recorded that one did.
Broken == failure \/ wpc = "panicked"

Quiet(e) ==
  /\ pc[e] \in {"idle", "returned", "refused"}
  /\ proc[e] # "running" /\ e \notin callback

\* shutdown_and_join returns, and by then or soon after no call is left waiting,
\* no runner alive and no callback unrun: a job that races the shutdown is
\* killed by the worker or by its own submit.
ShutdownSettles ==
  spc = "join" ~> spc \in {"ok", "err"} /\ \A e \in Execs : Quiet(e) \/ e \in unread \/ Broken

\* The promise of a finished runner is resolved: no job is lost between the
\* queue, the batch and the pending jobs, and the worker never waits for ever
\* on the gate that a launch holds.
FinishedResolve ==
  \A e \in Execs : e \in callback /\ pipe[e] = "eof" ~> promise[e] # "none" \/ Broken

\* Every job comes to its end, by its runner's exit or by the shutdown
\* (run_worker, shutdown_and_join).
JobsSettle == ShutdownSettles /\ FinishedResolve
=============================================================================
