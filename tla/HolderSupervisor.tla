-------------------------- MODULE HolderSupervisor --------------------------
(***************************************************************************)
(* The supervisor of the namespace holders (workspace/src/namespace/       *)
(* holder.rs): one thread owns every holder process from its spawn to its  *)
(* reaping, and serves the daemon's other threads through a bounded queue. *)
(* Between two commands it polls every record: it reaps what has exited,   *)
(* carries terminations from TERM to KILL, and deals with holders nobody   *)
(* claimed and with processes it can no longer wait for.                   *)
(*                                                                         *)
(* A caller makes one call.  A holder stands for one generation of one     *)
(* workspace.                                                              *)
(***************************************************************************)
EXTENDS Naturals, Sequences, FiniteSets

CONSTANTS
  Holders, Callers, None,
  Spawners,      \* the callers that spawn; the others make the other calls
  Capacity,      \* of the command queue (64 in the code)
  WaitLimit,     \* WAIT_ERROR_LIMIT (3 in the code)
  MaxFaults      \* failed waits, signals and identity checks

ASSUME SupervisorAssumption ==
  /\ None \notin Holders /\ Spawners \subseteq Callers
  /\ {Capacity, WaitLimit, MaxFaults} \subseteq Nat /\ Capacity > 0 /\ WaitLimit > 0

VARIABLES
  life,          \* the worker as its lifecycle mutex sees it: "running", "joining", "stopped"
  at,            \* where the worker is: [where, h (the record), todo (records left)]
  queue,         \* callers whose command is in the channel
  rec,           \* the worker's record of each holder
  claim,         \* the spawn claim channel: "none", "open", "claimed", "dropped"
  slot,          \* the exit event of each registration
  sub, wake,     \* the exit subscription is taken; its one-slot channel
  noticed,       \* holders whose exit the listener has been woken for
  proc,          \* the processes
  due,           \* the deadline of a record's termination phase has passed
  pc, call, reply,  \* each caller: where it is, what it asked for, what it was told
  faults

workerVars == <<life, at>>
callerVars == <<queue, pc, call, reply>>
exitVars == <<slot, wake>>
vars == <<workerVars, rec, claim, exitVars, sub, noticed, proc, due, callerVars, faults>>

Ops == {"spawn", "terminate", "probe", "quiesce"}
Running == {"alive", "termed", "killed"}
NoRecord == [here |-> FALSE, claimed |-> FALSE, unclaimed |-> FALSE, phase |-> "none", waiters |-> {},
             destroy |-> FALSE, errs |-> 0, terminal |-> FALSE, killTried |-> FALSE]
Here == {h \in Holders : rec[h].here}
Where(w, h, todo) == [where |-> w, h |-> h, todo |-> todo]
Recv == Where("recv", None, {})

Init ==
  /\ life = "running" /\ at = Recv /\ queue = <<>>
  /\ rec = [h \in Holders |-> NoRecord] /\ claim = [h \in Holders |-> "none"]
  /\ slot = [h \in Holders |-> "none"] /\ sub = FALSE /\ wake = FALSE /\ noticed = {}
  /\ proc = [h \in Holders |-> "none"] /\ due = [h \in Holders |-> FALSE]
  /\ pc = [c \in Callers |-> "idle"] /\ call = [c \in Callers |-> [op |-> "none", h |-> None]]
  /\ reply = [c \in Callers |-> "none"]
  /\ faults = 0

-----------------------------------------------------------------------------
(* Callers *)

(* try_command clones the sender under the lifecycle lock and sends after. *)
Call(c, op, h) ==
  /\ pc[c] = "idle" /\ (op = "spawn" <=> c \in Spawners)
  /\ IF op = "spawn" THEN proc[h] = "none" /\ \A b \in Callers : call[b].h # h ELSE claim[h] = "claimed"
  /\ call' = [call EXCEPT ![c] = [op |-> op, h |-> h]]
  /\ IF life = "running" THEN pc' = [pc EXCEPT ![c] = "send"] /\ UNCHANGED reply
     ELSE pc' = [pc EXCEPT ![c] = "done"] /\ reply' = [reply EXCEPT ![c] = "unavailable"]
  /\ UNCHANGED <<workerVars, queue, rec, claim, exitVars, sub, noticed, proc, due, faults>>

Send(c) ==
  /\ pc[c] = "send"
  /\ IF Len(queue) < Capacity
     THEN queue' = Append(queue, c) /\ pc' = [pc EXCEPT ![c] = "wait"] /\ UNCHANGED reply
     ELSE pc' = [pc EXCEPT ![c] = "done"] /\ reply' = [reply EXCEPT ![c] = "overloaded"] /\ UNCHANGED queue
  /\ UNCHANGED <<workerVars, rec, claim, exitVars, sub, noticed, proc, due, call, faults>>

(* recv_timeout of a probe or a finalization.                              *)
TimeOut(c) ==
  /\ pc[c] = "wait" /\ call[c].op \in {"probe", "quiesce"}
  /\ pc' = [pc EXCEPT ![c] = "done"] /\ reply' = [reply EXCEPT ![c] = "timedOut"]
  /\ UNCHANGED <<workerVars, queue, rec, claim, exitVars, sub, noticed, proc, due, call, faults>>

(* The caller of a spawn has the registration and claims it, or it is gone *)
(* before it could.  A claim nobody holds the other end of is an error.    *)
Claim(c) ==
  LET h == call[c].h IN
  /\ pc[c] = "claim"
  /\ pc' = [pc EXCEPT ![c] = "done"]
  /\ claim' = [claim EXCEPT ![h] = IF rec[h].here THEN "claimed" ELSE "dropped"]
  /\ reply' = [reply EXCEPT ![c] = IF rec[h].here THEN "ok" ELSE "unavailable"]
  /\ UNCHANGED <<workerVars, queue, rec, exitVars, sub, noticed, proc, due, call, faults>>

Abandon(c) ==
  /\ pc[c] \in {"wait", "claim"} /\ call[c].op = "spawn"
  /\ pc' = [pc EXCEPT ![c] = "done"]
  /\ claim' = [claim EXCEPT ![call[c].h] = "dropped"]
  /\ UNCHANGED <<workerVars, queue, rec, exitVars, sub, noticed, proc, due, call, reply, faults>>

Shutdown ==
  /\ life = "running"
  /\ life' = "joining"
  /\ UNCHANGED <<at, rec, claim, exitVars, sub, noticed, proc, due, callerVars, faults>>

(* The dispatcher takes the one subscription, and is woken.                *)
Subscribe ==
  /\ ~sub /\ sub' = TRUE
  /\ wake' = \E h \in Holders : slot[h] \in {"unexpected", "waitError"}
  /\ UNCHANGED <<workerVars, rec, claim, slot, noticed, proc, due, callerVars, faults>>

Listen ==
  /\ sub /\ wake /\ wake' = FALSE
  /\ noticed' = {h \in Holders : slot[h] # "none"}
  /\ UNCHANGED <<workerVars, rec, claim, slot, sub, proc, due, callerVars, faults>>

-----------------------------------------------------------------------------
(* The processes.  TERM may be ignored, KILL is not.                       *)

Exit(h) ==
  /\ proc[h] \in Running
  /\ proc' = [proc EXCEPT ![h] = "zombie"]
  /\ UNCHANGED <<workerVars, rec, claim, exitVars, sub, noticed, due, callerVars, faults>>

Deadline(h) ==
  /\ rec[h].phase # "none" /\ ~due[h]
  /\ due' = [due EXCEPT ![h] = TRUE]
  /\ UNCHANGED <<workerVars, rec, claim, exitVars, sub, noticed, proc, callerVars, faults>>

-----------------------------------------------------------------------------
(* What the worker's steps are made of *)

Faults(n) == faults + n <= MaxFaults /\ faults' = faults + n

(* The first exit event of a registration stays; only exits that nobody    *)
(* asked for wake the dispatcher.                                          *)
Publish(h, reason) ==
  IF slot[h] # "none" THEN UNCHANGED exitVars
  ELSE /\ slot' = [slot EXCEPT ![h] = reason]
       /\ wake' = (wake \/ (sub /\ reason # "destroy"))

(* What a waiter is told of a termination: a finalization needs an exit    *)
(* event that says the holder was destroyed.                               *)
Told(c, final) == IF call[c].op = "terminate" THEN "ok" ELSE IF final = "destroy" THEN "quiesced" ELSE "failed"

(* Callers that have timed out are not there to be told.                   *)
Answers(v) ==
  LET S == {c \in DOMAIN v : pc[c] = "wait"} IN
  /\ reply' = [c \in Callers |-> IF c \in S THEN v[c] ELSE reply[c]]
  /\ pc' = [c \in Callers |-> IF c \in S THEN "done" ELSE pc[c]]
Answer(c, v) == Answers([b \in {c} |-> v])
Silent == UNCHANGED <<pc, reply>>

Final(h, reason) == IF slot[h] = "none" THEN reason ELSE slot[h]
ToldAll(S, h, reason) == [c \in S |-> Told(c, Final(h, reason))]

(* finish_record, and the removal of the record.                           *)
Finish(h, reason) ==
  /\ Publish(h, reason)
  /\ rec' = [rec EXCEPT ![h] = NoRecord]
  /\ proc' = [proc EXCEPT ![h] = "reaped"]

Reason(r) == IF r.destroy THEN "destroy" ELSE "unexpected"

(* observe_wait_error: the third error in a row is published as an exit.   *)
WaitErr(r) ==
  LET n == IF r.errs < WaitLimit THEN r.errs + 1 ELSE r.errs
  IN [r EXCEPT !.errs = n, !.terminal = @ \/ n >= WaitLimit]
PublishIfTerminal(h, r) == IF r.terminal THEN Publish(h, "waitError") ELSE UNCHANGED exitVars

Signalled(h, sig) ==
  [proc EXCEPT ![h] = IF @ \notin Running THEN @ ELSE IF sig = "KILL" THEN "killed" ELSE IF @ = "alive" THEN "termed" ELSE @]

(* A record after a try_wait that saw no exit; err: the wait failed.        *)
Waited(r, err) == IF err THEN WaitErr(r) ELSE [r EXCEPT !.errs = 0]
Exited(h, err) == proc[h] = "zombie" /\ ~err
Count(b) == IF b THEN 1 ELSE 0
First(r, reason) == IF r.terminal THEN "waitError" ELSE reason

(* Variant: a process that cannot be waited for is given up. *)
Keep_GivesUp(h, r) == rec' = [rec EXCEPT ![h] = IF r.terminal THEN NoRecord ELSE r] /\ PublishIfTerminal(h, r)

Keep(h, r) == rec' = [rec EXCEPT ![h] = r] /\ PublishIfTerminal(h, r)

(* start_termination, for the callers S, with the deadline passed or not;  *)
(* the record after the wait before it is r.                               *)
StartTermination(h, r, S, zero, n) ==
  \E err \in BOOLEAN :
    LET r1 == Waited(r, err) IN
    \/ /\ Exited(h, err) /\ Finish(h, First(r, "destroy")) /\ Answers([c \in S |-> "ok"])
       /\ Faults(n) /\ UNCHANGED due
    \/ /\ ~Exited(h, err)
       /\ Keep(h, [r1 EXCEPT !.phase = "grace", !.waiters = S, !.destroy = TRUE, !.unclaimed = FALSE])
       /\ proc' = Signalled(h, "TERM") /\ due' = [due EXCEPT ![h] = zero]
       /\ Silent /\ Faults(n + Count(err))
    \/ /\ ~Exited(h, err) /\ Keep(h, r1) /\ Answers([c \in S |-> "failed"])
       /\ Faults(n + 1 + Count(err)) /\ UNCHANGED <<proc, due>>

-----------------------------------------------------------------------------
(* Commands.  The worker takes one and then polls every record.            *)

Caller == Head(queue)
Target == call[Caller].h
After(S) == IF S = {} THEN Recv ELSE Where("poll", None, S)

Takes(op) ==
  /\ at.where = "recv" /\ queue # <<>> /\ call[Caller].op = op
  /\ queue' = Tail(queue)
  /\ UNCHANGED <<life, sub, noticed, call>>

HandleSpawn ==
  LET c == Caller
      h == Target IN
  /\ Takes("spawn")
  /\ \/ /\ proc' = [proc EXCEPT ![h] = "alive"]
        /\ rec' = [rec EXCEPT ![h] = [NoRecord EXCEPT !.here = TRUE]]
        /\ IF pc[c] = "wait" THEN pc' = [pc EXCEPT ![c] = "claim"] /\ claim' = [claim EXCEPT ![h] = "open"]
           ELSE UNCHANGED <<pc, claim>>
        /\ Faults(0) /\ UNCHANGED reply
     \/ Answer(c, "failed") /\ Faults(1) /\ UNCHANGED <<proc, rec, claim>>
  /\ at' = After({g \in Holders : rec'[g].here})
  /\ UNCHANGED <<exitVars, due>>

HandleTerminate ==
  LET c == Caller
      h == Target
      r == rec[h] IN
  /\ Takes("terminate")
  /\ IF ~r.here
     THEN Answer(c, IF slot[h] # "none" THEN "ok" ELSE "unknown") /\ UNCHANGED <<rec, proc, exitVars, due, faults>>
     ELSE IF r.phase # "none"
     THEN Keep(h, [r EXCEPT !.waiters = @ \cup {c}]) /\ Silent /\ UNCHANGED <<proc, due, faults>>
     ELSE StartTermination(h, r, {c}, FALSE, 0)
  /\ at' = After({g \in Holders : rec'[g].here})
  /\ UNCHANGED claim

HandleProbe ==
  LET c == Caller
      h == Target
      r == rec[h] IN
  /\ Takes("probe")
  /\ IF slot[h] # "none" \/ ~r.here
     THEN Answer(c, IF slot[h] # "none" THEN "exited" ELSE "unknown") /\ UNCHANGED <<rec, proc, exitVars, faults>>
     ELSE \E err \in BOOLEAN :
       LET r1 == Waited(r, err) IN
       IF Exited(h, err)
       THEN /\ Finish(h, Reason(r)) /\ Faults(0)
            /\ Answers([b \in r.waiters \cup {c} |-> IF b = c THEN "exited" ELSE Told(b, Reason(r))])
       ELSE /\ Keep(h, r1) /\ Faults(Count(err)) /\ UNCHANGED proc
            /\ Answer(c, IF ~err THEN "running" ELSE IF r1.terminal THEN "exited" ELSE "unknown")
  /\ at' = After({g \in Holders : rec'[g].here})
  /\ UNCHANGED <<claim, due>>

(* Variant: the proof is made of an exit event found. *)
Settled_Proof(h) == IF slot[h] = "destroy" THEN "quiesced" ELSE IF slot[h] # "none" THEN "exited" ELSE "failed"

(* A finalization wants the holder gone and a proof of it.  The signal is  *)
(* followed by KILL at the next poll; where it cannot be sent the holder   *)
(* may be found to have exited by itself.                                  *)
Settled(h) == IF slot[h] # "none" THEN "exited" ELSE "failed"

HandleQuiesce ==
  LET c == Caller
      h == Target
      r == rec[h]
      Waits(r1, n) == /\ Keep(h, r1) /\ Faults(n) /\ UNCHANGED <<proc, due>>
                      /\ Answer(c, IF r1.terminal THEN "exited" ELSE "failed") IN
  /\ Takes("quiesce")
  /\ IF slot[h] # "none" \/ ~r.here \/ r.phase # "none" \/ r.destroy
     THEN Answer(c, Settled(h)) /\ UNCHANGED <<rec, proc, exitVars, due, faults>>
     ELSE IF proc[h] = "zombie"
     THEN \/ Finish(h, "unexpected") /\ Answer(c, "exited") /\ Faults(0) /\ UNCHANGED due
          \/ Waits(WaitErr(r), 1)
     ELSE \/ Waits(WaitErr(r), 1)
          \/ Waits([r EXCEPT !.errs = 0], 1)
          \/ Waits(WaitErr([r EXCEPT !.errs = 0]), 2)
          \/ Finish(h, "destroy") /\ Answer(c, "quiesced") /\ Faults(1) /\ UNCHANGED due
          \/ /\ Keep(h, [r EXCEPT !.errs = 0, !.destroy = TRUE, !.phase = "grace", !.waiters = {c}])
             /\ proc' = Signalled(h, "TERM") /\ due' = [due EXCEPT ![h] = TRUE]
             /\ Silent /\ Faults(0)
  /\ at' = After({g \in Holders : rec'[g].here})
  /\ UNCHANGED claim

-----------------------------------------------------------------------------
(* Polling *)

Disconnected == life = "joining" /\ queue = <<>> /\ \A c \in Callers : pc[c] # "send"

PollTimeout ==
  /\ at.where = "recv" /\ queue = <<>> /\ ~Disconnected /\ Here # {}
  /\ at' = After(Here)
  /\ UNCHANGED <<life, rec, claim, exitVars, sub, noticed, proc, due, callerVars, faults>>

(* observe_spawn_claim *)
Observed(h) ==
  LET r == rec[h] IN
  IF r.claimed \/ claim[h] = "open" THEN r
  ELSE IF claim[h] = "claimed" THEN [r EXCEPT !.claimed = TRUE]
  ELSE [r EXCEPT !.claimed = TRUE, !.unclaimed = TRUE, !.destroy = TRUE]

(* poll_holder_record, up to a blocking wait.                              *)
Poll(h) ==
  LET r0 == Observed(h)
      Goes == at' = After(at.todo \ {h})
      Reaps(w) == at' = Where(w, h, at.todo \ {h}) IN
  /\ at.where = "poll" /\ h \in at.todo
  /\ \E err \in BOOLEAN :
       LET r == Waited(r0, err) IN
       IF Exited(h, err)
       THEN /\ Finish(h, Reason(r0)) /\ Answers(ToldAll(r0.waiters, h, Reason(r0)))
            /\ Goes /\ Faults(0) /\ UNCHANGED due
       ELSE IF r.unclaimed /\ r.phase = "none"
       THEN StartTermination(h, r, {}, TRUE, Count(err)) /\ Goes
       ELSE IF err /\ r.terminal /\ ~r.killTried /\ r.phase = "none"
       THEN /\ Keep(h, [r EXCEPT !.killTried = TRUE]) /\ Silent /\ UNCHANGED due
            /\ \/ Faults(2) /\ Goes /\ UNCHANGED proc
               \/ Faults(1) /\ Reaps("reapLost") /\ proc' = Signalled(h, "KILL")
       ELSE IF r.phase = "grace" /\ due[h]
       THEN \/ /\ Keep(h, [r EXCEPT !.phase = "kill"]) /\ proc' = Signalled(h, "KILL")
               /\ due' = [due EXCEPT ![h] = FALSE]
               /\ Silent /\ Goes /\ Faults(Count(err))
            \/ /\ Keep(h, [r EXCEPT !.phase = "none", !.waiters = {}]) /\ Answers([c \in r.waiters |-> "failed"])
               /\ Goes /\ Faults(1 + Count(err)) /\ UNCHANGED <<proc, due>>
       ELSE /\ Keep(h, r) /\ Silent /\ Faults(Count(err)) /\ UNCHANGED <<proc, due>>
            /\ IF r.phase = "kill" /\ due[h] THEN Reaps("reap") ELSE Goes
  /\ UNCHANGED <<life, queue, claim, sub, noticed, call>>

(* wait_reap_owned: the worker is blocked until the process has exited, or *)
(* the wait has failed as often as it is retried.                          *)
Reap ==
  LET h == at.h
      W == rec[h].waiters
      reason == IF at.where = "reap" THEN "destroy" ELSE "waitError" IN
  /\ at.where \in {"reap", "reapLost"}
  /\ \/ /\ proc[h] = "zombie" /\ Finish(h, reason) /\ Answers(ToldAll(W, h, reason))
        /\ Faults(0) /\ UNCHANGED due
     \/ /\ Keep(h, [rec[h] EXCEPT !.phase = "kill", !.waiters = {}]) /\ due' = [due EXCEPT ![h] = FALSE]
        /\ Answers([c \in W |-> "failed"])
        /\ Faults(1) /\ UNCHANGED proc
  /\ at' = After(at.todo)
  /\ UNCHANGED <<life, queue, claim, sub, noticed, call>>

-----------------------------------------------------------------------------
(* Shutdown: every sender is gone and the queue is drained.                *)

(* Variant: the worker leaves only when it owns nothing. *)
Drain_WhenEmpty ==
  /\ at.where = "recv" /\ Disconnected /\ Here = {}
  /\ IF Here = {} THEN life' = "stopped" /\ UNCHANGED at ELSE at' = Where("drain", None, Here) /\ UNCHANGED life
  /\ UNCHANGED <<rec, claim, exitVars, sub, noticed, proc, due, callerVars, faults>>

Drain ==
  /\ at.where = "recv" /\ Disconnected
  /\ IF Here = {} THEN life' = "stopped" /\ UNCHANGED at ELSE at' = Where("drain", None, Here) /\ UNCHANGED life
  /\ UNCHANGED <<rec, claim, exitVars, sub, noticed, proc, due, callerVars, faults>>

(* The first two loops of shutdown_holder_records, record by record: what  *)
(* has exited is finished, what has not is killed if it can be.            *)
DrainKill(h) ==
  LET todo == at.todo \ {h} IN
  /\ at.where = "drain" /\ h \in at.todo
  /\ \E err, lost \in BOOLEAN :
       IF Exited(h, err)
       THEN Finish(h, "destroy") /\ Answers(ToldAll(rec[h].waiters, h, "destroy")) /\ Faults(0)
       ELSE /\ Keep(h, [Waited(rec[h], err) EXCEPT !.destroy = TRUE]) /\ Silent
            /\ proc' = (IF lost THEN proc ELSE Signalled(h, "KILL"))
            /\ Faults(Count(err) + Count(lost))
  /\ at' = IF todo # {} THEN Where("drain", None, todo)
           ELSE Where("drainReap", None, {g \in Holders : rec'[g].here})
  /\ UNCHANGED <<life, queue, claim, sub, noticed, call, due>>

DrainReap(h) ==
  LET W == rec[h].waiters IN
  /\ at.where = "drainReap" /\ h \in at.todo
  /\ \/ proc[h] = "zombie" /\ Finish(h, "destroy") /\ Answers(ToldAll(W, h, "destroy")) /\ Faults(0)
     \/ /\ Publish(h, "waitError") /\ rec' = [rec EXCEPT ![h] = NoRecord]
        /\ Answers([c \in W |-> "failed"]) /\ Faults(1) /\ UNCHANGED proc
  /\ at' = [at EXCEPT !.todo = @ \ {h}]
  /\ UNCHANGED <<life, queue, claim, sub, noticed, call, due>>

Joined ==
  /\ at.where = "drainReap" /\ at.todo = {}
  /\ life' = "stopped" /\ at' = Recv
  /\ UNCHANGED <<rec, claim, exitVars, sub, noticed, proc, due, callerVars, faults>>

-----------------------------------------------------------------------------
Worker ==
  \/ HandleSpawn \/ HandleTerminate \/ HandleProbe \/ HandleQuiesce
  \/ PollTimeout \/ Reap \/ Drain \/ Joined
  \/ \E h \in Holders : Poll(h) \/ DrainKill(h) \/ DrainReap(h)

Next ==
  \/ Worker
  \/ \E c \in Callers, op \in Ops, h \in Holders : Call(c, op, h)
  \/ \E c \in Callers : Send(c) \/ TimeOut(c) \/ Claim(c) \/ Abandon(c)
  \/ Shutdown \/ Subscribe \/ Listen
  \/ \E h \in Holders : Exit(h) \/ Deadline(h)

Spec == Init /\ [][Next]_vars

(* The worker thread runs, callers finish what they have begun, clocks     *)
(* advance, a killed process exits and the listener listens.  Nothing says *)
(* that a holder exits on TERM.                                            *)
Fairness ==
  /\ WF_vars(Worker) /\ WF_vars(Listen)
  /\ WF_vars(\E c \in Callers : Send(c) \/ (pc[c] = "claim" /\ (Claim(c) \/ Abandon(c))))
  /\ \A h \in Holders : WF_vars(Deadline(h)) /\ WF_vars(proc[h] = "killed" /\ Exit(h))

FairSpec == Spec /\ Fairness

-----------------------------------------------------------------------------
(* Types of the supervisor's state.                                        *)
TypeOK ==
  /\ life \in {"running", "joining", "stopped"}
  /\ at \in [where : {"recv", "poll", "reap", "reapLost", "drain", "drainReap"}, h : Holders \cup {None}, todo : SUBSET Here]
  /\ queue \in Seq(Callers) /\ Len(queue) <= Capacity
  /\ rec \in [Holders -> [here : BOOLEAN, claimed : BOOLEAN, unclaimed : BOOLEAN, phase : {"none", "grace", "kill"},
                          waiters : SUBSET Callers, destroy : BOOLEAN, errs : 0..WaitLimit,
                          terminal : BOOLEAN, killTried : BOOLEAN]]
  /\ claim \in [Holders -> {"none", "open", "claimed", "dropped"}]
  /\ slot \in [Holders -> {"none", "destroy", "unexpected", "waitError"}]
  /\ {sub, wake} \subseteq BOOLEAN /\ noticed \subseteq Holders
  /\ proc \in [Holders -> {"none", "zombie", "reaped"} \cup Running]
  /\ due \in [Holders -> BOOLEAN]
  /\ pc \in [Callers -> {"idle", "send", "wait", "claim", "done"}]
  /\ faults \in 0..MaxFaults

(* A terminate that returns Ok has no process left behind it, whichever of *)
(* the seven places that answer it did so.                                 *)
TerminateOkMeansReaped ==
  \A c \in Callers : call[c].op = "terminate" /\ reply[c] = "ok" => proc[call[c].h] = "reaped"

(* A finalization proof is of a holder that is reaped and whose exit event *)
(* says the daemon destroyed it, also where the waits failed on the way.   *)
QuiescedMeansDestroyed ==
  \A c \in Callers : reply[c] = "quiesced" => proc[call[c].h] = "reaped" /\ slot[call[c].h] = "destroy"

(* One finalization of a holder gets the proof: a second one is refused    *)
(* while the first is under way, and finds the exit event after it.        *)
OneFinalizer ==
  \A c, b \in Callers : reply[c] = "quiesced" /\ reply[b] = "quiesced" /\ call[c].h = call[b].h => c = b

(* What a caller is told of a holder is true (handle_supervisor_command,   *)
(* notify_termination_success).                                            *)
AnswersTrue == TypeOK /\ TerminateOkMeansReaped /\ QuiescedMeansDestroyed /\ OneFinalizer

(* While the supervisor is up a process that is not reaped has its record: *)
(* none of the failures of waits and signals loses it.                     *)
OwnedUntilReaped ==
  \A h \in Holders : life = "running" /\ proc[h] \notin {"none", "reaped"} => rec[h].here

(* An exit nobody asked for is never lost by the one-slot wake channel:    *)
(* the listener has seen it or a wake is pending.                          *)
LossNotified ==
  \A h \in Holders : sub /\ slot[h] \in {"unexpected", "waitError"} => wake \/ h \in noticed

(* No holder is lost sight of, alive or dead (poll_holder_record,          *)
(* SupervisorLog).                                                         *)
HoldersWatched == OwnedUntilReaped /\ LossNotified

(* A holder whose KILL could not be sent when the supervisor shuts down:   *)
(* the worker waits for it for as long as it lives.                        *)
Survivor == at.where = "drainReap" /\ \E h \in at.todo : proc[h] \in {"alive", "termed"}

(* Every call returns: terminate and spawn wait without a timeout.         *)
CallsReturn == \A c \in Callers : pc[c] \in {"send", "wait", "claim"} ~> (pc[c] = "done" \/ Survivor)

(* A holder whose claim was dropped is sent TERM, however often its        *)
(* identity check or the signal fails.                                     *)
UnclaimedTermed == \A h \in Holders : (claim[h] = "dropped" /\ rec[h].here) ~> (proc[h] # "alive" \/ life = "stopped" \/ Survivor)

(* A holder that exits is reaped although the worker blocks on others, and *)
(* the listener hears of it unless it was destroyed.                       *)
ExitHeard ==
  \A h \in Holders : (proc[h] = "zombie" /\ sub) ~> (slot[h] = "destroy" \/ h \in noticed \/ life # "running")

(* The poll attends to every record: exits are heard of and unclaimed      *)
(* holders are sent TERM.                                                  *)
RecordsAttended == ExitHeard /\ UnclaimedTermed

(* shutdown returns unless a holder survives.                              *)
ShutdownStops == life = "joining" ~> (life = "stopped" \/ Survivor)

(* The worker serves its callers, its records and its shutdown, though one *)
(* thread does it all and every system call of its may fail.               *)
SupervisorProgress == CallsReturn /\ RecordsAttended /\ ShutdownStops
=============================================================================
