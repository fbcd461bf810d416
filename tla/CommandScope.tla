---------------------------- MODULE CommandScope ----------------------------
(***************************************************************************)
(* How a shell runner waits for its command (namespace-process, runner/    *)
(* shell_exec/wait.rs).  The command is more than the child the runner     *)
(* spawned: it is the child's process group, and it is over only when no   *)
(* member of the group is alive.  Nothing tells the runner so: it lists    *)
(* /proc and reads one stat file after another while the members fork,     *)
(* exit and leave.  A request to stop, or the deadline, makes it signal    *)
(* the group, wait, and signal again.                                      *)
(*                                                                         *)
(* Process identifiers are handed out in increasing order, as the kernel   *)
(* does until they wrap around; that they wrap during one wait is left     *)
(* out.  The runner itself is in no state of the table: it skips itself.   *)
(***************************************************************************)
EXTENDS Naturals, FiniteSets, FiniteSetsExt

CONSTANTS MaxPid,      \* bound: the child and the processes descended from it
          MaxBlind     \* bound: listings of /proc that fail

ASSUME ScopeBounds == MaxPid \in Nat \ {0} /\ MaxBlind \in Nat

VARIABLES proc,        \* what becomes of each identifier: unused, live, zombie, reaped
          inGroup,     \* the processes of the child's group
          signalOf,   \* the strongest signal pending at each process
          runnerAt,    \* the step of the runner
          rootReaped,  \* try_wait has answered
          requested,   \* TERMINATION_REQUESTED
          deadline,    \* of the command: "none", "ahead" or "passed"
          graceOver,   \* the grace period being waited for is over
          reason,      \* why the scope is being terminated, and what it will answer
          signal,      \* the signal sent last
          listing,     \* the names one getdents returned, not yet looked at
          position,    \* the position in the directory
          seen,        \* the live members found so far
          scanFor,     \* what the scan is for
          blind,       \* listings that failed
          scopeAnswer

groupVars   == <<proc, inGroup, signalOf>>
scanVars   == <<listing, position, seen, scanFor, blind>>
clockVars  == <<requested, deadline, graceOver>>
scopeVars  == <<groupVars, scanVars, clockVars, runnerAt, rootReaped, reason, signal, scopeAnswer>>

ScopePids == 1 .. MaxPid
Child == 1
Live == {p \in ScopePids : proc[p] = "live"}
Members == Live \cap inGroup
Exists(p) == proc[p] \in {"live", "zombie"}

ScopeInit ==
  /\ proc = [p \in ScopePids |-> IF p = Child THEN "live" ELSE "unused"]
  /\ inGroup = {Child}
  /\ signalOf = [p \in ScopePids |-> "none"]
  /\ runnerAt = "poll" /\ rootReaped = FALSE
  /\ requested = FALSE /\ deadline \in {"none", "ahead"} /\ graceOver = FALSE
  /\ reason = "none" /\ signal = "none"
  /\ listing = {} /\ position = 0 /\ seen = {} /\ scanFor = "none" /\ blind = 0
  /\ scopeAnswer = "none"

(***************************************************************************)
(* The processes of the command.  A process a SIGKILL waits for does       *)
(* nothing more; when it dies is the kernel's to say.  A zombie counts as  *)
(* little as one its parent has reaped, so that only the child is reaped;  *)
(* and what happens after the answer is not followed.                      *)
(***************************************************************************)

Fork(p) ==
  /\ scopeAnswer = "none" /\ p \in Live /\ signalOf[p] # "kill"
  /\ \E q \in ScopePids :
       /\ proc[q] = "unused" /\ \A o \in 1 .. (q - 1) : proc[o] # "unused"
       /\ proc' = [proc EXCEPT ![q] = "live"]
       /\ inGroup' = IF p \in inGroup THEN inGroup \cup {q} ELSE inGroup
  /\ UNCHANGED <<signalOf, scanVars, clockVars, runnerAt, rootReaped, reason, signal, scopeAnswer>>

ExitProcess(p) ==
  /\ scopeAnswer = "none" /\ p \in Live
  /\ proc' = [proc EXCEPT ![p] = "zombie"]
  /\ signalOf' = [signalOf EXCEPT ![p] = "none"]
  /\ UNCHANGED <<inGroup, scanVars, clockVars, runnerAt, rootReaped, reason,
                 signal, scopeAnswer>>

\* setsid or setpgid: the process is no longer the command's.
LeaveGroup(p) ==
  /\ scopeAnswer = "none" /\ p \in Members /\ signalOf[p] # "kill"
  /\ inGroup' = inGroup \ {p}
  /\ UNCHANGED <<proc, signalOf, scanVars, clockVars, runnerAt, rootReaped, reason, signal,
                 scopeAnswer>>

\* A handler returns, or the signal is ignored.
OutliveTerm(p) ==
  /\ scopeAnswer = "none" /\ p \in Live /\ signalOf[p] = "term"
  /\ signalOf' = [signalOf EXCEPT ![p] = "none"]
  /\ UNCHANGED <<proc, inGroup, scanVars, clockVars, runnerAt, rootReaped, reason, signal,
                 scopeAnswer>>

\* The daemon signals the runner.
mark_termination_requested ==
  /\ ~requested /\ scopeAnswer = "none"
  /\ requested' = TRUE
  /\ UNCHANGED <<groupVars, scanVars, deadline, graceOver, runnerAt, rootReaped, reason,
                 signal, scopeAnswer>>

\* Time passes.
DeadlinePasses ==
  /\ deadline = "ahead" /\ scopeAnswer = "none"
  /\ deadline' = "passed"
  /\ UNCHANGED <<groupVars, scanVars, requested, graceOver, runnerAt, rootReaped, reason,
                 signal, scopeAnswer>>

GracePasses ==
  /\ reason # "none" /\ scopeAnswer = "none" /\ ~graceOver
  /\ graceOver' = TRUE
  /\ UNCHANGED <<groupVars, scanVars, requested, deadline, runnerAt, rootReaped, reason,
                 signal, scopeAnswer>>

(***************************************************************************)
(* The runner                                                              *)
(***************************************************************************)

\* try_wait collects the child if it is a zombie.
TryWait ==
  /\ rootReaped' = (rootReaped \/ proc[Child] = "zombie")
  /\ proc' = IF proc[Child] = "zombie" THEN [proc EXCEPT ![Child] = "reaped"] ELSE proc

\* live_pids_in_pgid opens the directory; a failure finds no process.
StartScan(for) ==
  /\ listing' = {} /\ position' = 0 /\ seen' = {} /\ scanFor' = for
  /\ \/ runnerAt' = "scan" /\ UNCHANGED blind
     \/ blind < MaxBlind /\ blind' = blind + 1 /\ runnerAt' = "scanned"

EndScan ==
  /\ seen' = {} /\ scanFor' = "none" /\ UNCHANGED <<listing, position, blind>>

Poll ==
  /\ runnerAt = "poll" /\ TryWait
  /\ IF rootReaped'
     THEN StartScan("exit")
     ELSE runnerAt' = "check" /\ UNCHANGED scanVars
  /\ UNCHANGED <<inGroup, signalOf, clockVars, reason, signal, scopeAnswer>>

\* getdents returns the names above the position; the directory ends where it
\* returns none.
ListNames ==
  /\ runnerAt = "scan" /\ listing = {}
  /\ listing' = {p \in ScopePids : p > position /\ Exists(p)}
  /\ position' = IF listing' = {} THEN 0 ELSE Max(listing')
  /\ runnerAt' = IF listing' = {} THEN "scanned" ELSE "scan"
  /\ UNCHANGED <<groupVars, seen, scanFor, blind, clockVars, rootReaped, reason, signal,
                 scopeAnswer>>

\* One stat file is read: a zombie, another group's process and a file that is
\* gone do not count.
ReadStat ==
  /\ runnerAt = "scan" /\ listing # {}
  /\ LET p == Min(listing) IN
       /\ listing' = listing \ {p}
       /\ seen' = IF p \in Members THEN seen \cup {p} ELSE seen
  /\ UNCHANGED <<groupVars, position, scanFor, blind, clockVars, runnerAt, rootReaped, reason,
                 signal, scopeAnswer>>

\* The child has exited: it is over if nothing else lives.
ScannedForExit ==
  /\ runnerAt = "scanned" /\ scanFor = "exit"
  /\ IF seen = {} THEN scopeAnswer' = "exit" /\ runnerAt' = "over"
                  ELSE runnerAt' = "check" /\ UNCHANGED scopeAnswer
  /\ EndScan
  /\ UNCHANGED <<groupVars, clockVars, rootReaped, reason, signal>>

\* A request to stop is looked at before the deadline.
CheckStop ==
  /\ runnerAt = "check"
  /\ IF requested \/ deadline = "passed"
     THEN /\ reason' = IF requested THEN "cancelled" ELSE "timed_out"
          /\ signal' = "term" /\ runnerAt' = "signal"
     ELSE runnerAt' = "poll" /\ UNCHANGED <<reason, signal>>
  /\ UNCHANGED <<groupVars, scanVars, clockVars, rootReaped, scopeAnswer>>

\* SIGKILL is not taken back by a SIGTERM sent later.
Sent(pids, sig) ==
  [p \in ScopePids |-> IF p \in pids /\ proc[p] = "live" /\ signalOf[p] # "kill"
                       THEN sig ELSE signalOf[p]]

\* signal_execution_scope with the processes of one scan instead of the group.
SignalGroup_ListedOnly ==
  /\ runnerAt = "signal"
  /\ signalOf' = Sent({Child}, signal)
  /\ StartScan("signal")
  /\ UNCHANGED <<proc, inGroup, clockVars, rootReaped, reason, signal, scopeAnswer>>

\* kill(-pgid) reaches every member at once; then the child by its own number.
SignalGroup ==
  /\ runnerAt = "signal"
  /\ signalOf' = Sent(inGroup \cup {Child}, signal)
  /\ StartScan("signal")
  /\ UNCHANGED <<proc, inGroup, clockVars, rootReaped, reason, signal, scopeAnswer>>

\* Then each process the scan found, by its number.
SignalListed ==
  /\ runnerAt = "scanned" /\ scanFor = "signal"
  /\ signalOf' = Sent(seen, signal)
  /\ graceOver' = FALSE /\ runnerAt' = "grace"
  /\ EndScan
  /\ UNCHANGED <<proc, inGroup, requested, deadline, rootReaped, reason, signal,
                 scopeAnswer>>

GracePoll ==
  /\ runnerAt = "grace" /\ TryWait /\ StartScan("grace")
  /\ UNCHANGED <<inGroup, signalOf, clockVars, reason, signal, scopeAnswer>>

\* wait_for_scope_exit without a deadline: it looks until the scope is gone.
ScannedForGrace_UntilGone ==
  /\ runnerAt = "scanned" /\ scanFor = "grace"
  /\ IF rootReaped /\ seen = {}
     THEN scopeAnswer' = reason /\ runnerAt' = "over"
     ELSE runnerAt' = "grace" /\ UNCHANGED scopeAnswer
  /\ EndScan
  /\ UNCHANGED <<groupVars, clockVars, reason, signal, rootReaped>>

\* The scope is gone, the grace period goes on, or it is over: then SIGKILL
\* follows SIGTERM, and after SIGKILL the runner gives up.
ScannedForGrace ==
  /\ runnerAt = "scanned" /\ scanFor = "grace"
  /\ \/ /\ rootReaped /\ seen = {}
        /\ scopeAnswer' = reason /\ runnerAt' = "over"
        /\ UNCHANGED <<signal, signalOf, proc, rootReaped>>
     \/ /\ ~(rootReaped /\ seen = {}) /\ ~graceOver
        /\ runnerAt' = "grace" /\ UNCHANGED <<signal, signalOf, proc, rootReaped, scopeAnswer>>
     \/ /\ ~(rootReaped /\ seen = {}) /\ graceOver /\ signal = "term"
        /\ signal' = "kill" /\ runnerAt' = "signal"
        /\ UNCHANGED <<signalOf, proc, rootReaped, scopeAnswer>>
     \/ /\ ~(rootReaped /\ seen = {}) /\ graceOver /\ signal = "kill"
        /\ signalOf' = IF rootReaped THEN signalOf ELSE Sent({Child}, "kill")
        /\ TryWait
        /\ scopeAnswer' = reason /\ runnerAt' = "over" /\ UNCHANGED signal
  /\ EndScan
  /\ UNCHANGED <<inGroup, clockVars, reason>>

RunnerSteps ==
  \/ Poll \/ ListNames \/ ReadStat \/ ScannedForExit \/ CheckStop
  \/ SignalGroup \/ SignalListed \/ GracePoll \/ ScannedForGrace

ScopeNext ==
  \/ \E p \in ScopePids :
       Fork(p) \/ ExitProcess(p) \/ LeaveGroup(p) \/ OutliveTerm(p)
  \/ mark_termination_requested \/ DeadlinePasses \/ GracePasses
  \/ RunnerSteps

\* The runner's thread runs and its clock advances; nothing is assumed of the
\* command.
ScopeFairness == WF_scopeVars(RunnerSteps) /\ WF_scopeVars(GracePasses)

\* While /proc can be read: the runner reports an exit (wait.rs:49-55) only when
\* the child has exited and no member of its group is alive, and it reports a
\* cancellation or a timeout (56-63) only when every member left has a SIGKILL
\* to die of.  A member may fork and exit between two reads of a scan.
ScopeTrue ==
  blind = 0 =>
    /\ scopeAnswer = "exit" => rootReaped /\ Members = {}
    /\ scopeAnswer \in {"cancelled", "timed_out"} => \A p \in Members : signalOf[p] = "kill"

\* A command that was asked to stop, or whose deadline has passed, is answered
\* whatever its processes do; one that is over by itself is answered as well.
ScopeAnswers ==
  (requested \/ deadline = "passed" \/ Live = {}) ~> scopeAnswer # "none"
=============================================================================
