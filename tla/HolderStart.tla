----------------------------- MODULE HolderStart -----------------------------
(***************************************************************************)
(* Starting the process that holds a session's namespaces.  Three          *)
(* processes take part: the daemon's create call, the holder it spawns     *)
(* (ns-holder), and the init the holder forks into the new PID namespace.  *)
(* The daemon and the holder talk through two pipes; a pipe ends for its   *)
(* reader when the last copy of its write end is closed, and the ends are  *)
(* copied by every fork.  The holder asks the kernel to be killed when its *)
(* parent dies, and the init asks the same of the holder, each some steps  *)
(* into its life.                                                          *)
(*                                                                         *)
(* How the supervisor keeps the holder once it is there is                 *)
(* HolderSupervisor's; the create call's other resources and its rollback  *)
(* are WorkspaceManager's.                                                 *)
(***************************************************************************)
EXTENDS Naturals, Sequences

CONSTANT MaxStartFaults    \* bound: steps that fail or processes killed

VARIABLES network,       \* "shared" or "isolated"
          call,          \* where the create call is
          setupDue,      \* the deadline of the line being expected
          holder,        \* where the holder is
          pidInit,       \* where the PID namespace's init is
          readiness,     \* lines in the pipe to the daemon
          control,       \* lines in the pipe to the holder
          sibling,       \* a process spawned meanwhile copied the child's ends
          startFaults

startVars == <<network, call, setupDue, holder, pidInit, readiness, control, sibling,
               startFaults>>

StartInit ==
  /\ network \in {"shared", "isolated"}
  /\ call = "spawn" /\ setupDue = FALSE /\ holder = "none" /\ pidInit = "none"
  /\ readiness = <<>> /\ control = <<>> /\ sibling = FALSE /\ startFaults = 0

StartFault == startFaults < MaxStartFaults /\ startFaults' = startFaults + 1

HolderAlive == holder \notin {"none", "dead"}
CallEnded == call \in {"done", "failed", "uncleaned", "gone"}
InitGone == pidInit \in {"none", "dead"}

\* The daemon keeps its ends until the call has failed or it dies itself.
DaemonEndsOpen == call \notin {"failed", "uncleaned", "gone"}

\* The holder's ends: in the holder, in an init that has not closed them yet, in
\* a process spawned while they could be inherited, in the daemon before that.
ChildEndsOpen == call = "spawn" \/ HolderAlive \/ pidInit = "forked" \/ sibling

(***************************************************************************)
(* The daemon                                                              *)
(***************************************************************************)

\* spawn_linux_holder_process: the process cannot be started; or it is, and
\* cannot be inspected, so that it is killed and collected at once; or it is
\* registered, and the call waits for its first line.
spawn_ns_holder ==
  /\ call = "spawn"
  /\ \/ StartFault /\ call' = "failed" /\ UNCHANGED holder
     \/ StartFault /\ call' = "inspect" /\ holder' = "exec"
     \/ call' = "ns_up" /\ holder' = "exec" /\ UNCHANGED startFaults
  /\ setupDue' = FALSE
  /\ UNCHANGED <<network, pidInit, readiness, control, sibling>>

\* Another thread spawns a process between clear_cloexec and the drop of the ends.
InheritEnds ==
  /\ call = "spawn" /\ ~sibling /\ StartFault
  /\ sibling' = TRUE
  /\ UNCHANGED <<network, call, setupDue, holder, pidInit, readiness, control>>

SiblingExits ==
  /\ sibling
  /\ sibling' = FALSE
  /\ UNCHANGED <<network, call, setupDue, holder, pidInit, readiness, control, startFaults>>

\* A wait that relies on the end of the pipe alone.
ExpectFails_NoDeadline(line) ==
  \/ readiness = <<>> /\ ~ChildEndsOpen
  \/ readiness # <<>> /\ Head(readiness) # line

\* One round of expect_line that ends it: past the deadline, at the end of the
\* pipe, or with everything the pipe holds, of which the first line counts.
ExpectFails(line) ==
  \/ setupDue
  \/ readiness = <<>> /\ ~ChildEndsOpen
  \/ readiness # <<>> /\ Head(readiness) # line

ExpectLine(line, ok, error) ==
  \/ ExpectFails(line) /\ call' = error /\ UNCHANGED readiness
  \/ ~setupDue /\ readiness # <<>> /\ Head(readiness) = line
     /\ call' = ok /\ readiness' = <<>>

ExpectNsUp ==
  /\ call = "ns_up" /\ ExpectLine("ns-up", "open", "startup_error")
  /\ UNCHANGED <<network, setupDue, holder, pidInit, control, sibling, startFaults>>

\* The namespaces are opened under the holder's number, the network and the
\* overlay are set up in them; any of it may fail.
SetUpNamespaces ==
  /\ call = "open"
  /\ \/ HolderAlive /\ UNCHANGED startFaults
        /\ call' = IF network = "isolated" THEN "net_ready" ELSE "done"
     \/ ~HolderAlive /\ UNCHANGED startFaults /\ call' = "rollback"
     \/ StartFault /\ call' = "rollback"
  /\ UNCHANGED <<network, setupDue, holder, pidInit, readiness, control, sibling>>

\* A pipe nobody can read refuses the line.
signal_net_ready ==
  /\ call = "net_ready"
  /\ IF ChildEndsOpen THEN control' = Append(control, "net-ready") /\ call' = "ready"
                      ELSE call' = "rollback" /\ UNCHANGED control
  /\ setupDue' = FALSE
  /\ UNCHANGED <<network, holder, pidInit, readiness, sibling, startFaults>>

ExpectReady ==
  /\ call = "ready" /\ ExpectLine("ready", "done", "rollback")
  /\ UNCHANGED <<network, setupDue, holder, pidInit, control, sibling, startFaults>>

\* The holder is killed and collected; a failed start then reads what it wrote
\* to its standard error.  The supervisor may fail to terminate it: the call
\* then fails as well, drops its ends of the pipes, and reads nothing.
KillHolder ==
  /\ call \in {"inspect", "startup_error", "rollback"}
  /\ \/ /\ holder' = "dead" /\ UNCHANGED startFaults
        /\ call' = IF call = "rollback" THEN "failed" ELSE "stderr"
     \/ /\ call # "inspect" /\ StartFault
        /\ call' = "uncleaned" /\ UNCHANGED holder
  /\ UNCHANGED <<network, setupDue, pidInit, readiness, control, sibling>>

\* The pipe ends when no process holds it: the init has inherited it as well.
read_child_stderr ==
  /\ call = "stderr" /\ ~HolderAlive /\ InitGone
  /\ call' = "failed"
  /\ UNCHANGED <<network, setupDue, holder, pidInit, readiness, control, sibling, startFaults>>

SetupDeadline ==
  /\ call \in {"ns_up", "ready"} /\ ~setupDue
  /\ setupDue' = TRUE
  /\ UNCHANGED <<network, call, holder, pidInit, readiness, control, sibling, startFaults>>

\* The daemon dies: the kernel kills a holder that has asked for it.
DaemonDies ==
  /\ call # "gone" /\ StartFault
  /\ call' = "gone"
  /\ holder' = IF holder \in {"none", "exec"} THEN holder ELSE "dead"
  /\ UNCHANGED <<network, setupDue, pidInit, readiness, control, sibling>>

DaemonSteps ==
  \/ spawn_ns_holder \/ ExpectNsUp \/ SetUpNamespaces \/ signal_net_ready \/ ExpectReady
  \/ KillHolder \/ read_child_stderr

(***************************************************************************)
(* The holder                                                              *)
(***************************************************************************)

\* A step of the holder fails: the init is sent a SIGTERM on the way out, which
\* the first process of a namespace does not notice before it has a handler.
HolderFails ==
  /\ holder' = "dead"
  /\ pidInit' = IF pidInit = "armed" THEN "dead" ELSE pidInit
  /\ UNCHANGED <<network, call, setupDue, readiness, control, sibling>>

HolderGoes(to) ==
  /\ holder' = to /\ UNCHANGED <<network, call, setupDue, sibling, startFaults>>

\* Without it nothing but the pipes tells the holder that its daemon is gone.
install_parent_death_signal ==
  /\ holder = "exec" /\ HolderGoes("setup") /\ UNCHANGED <<pidInit, readiness, control>>

unshare_namespace_stack ==
  /\ holder = "setup"
  /\ \/ HolderGoes("forked") /\ pidInit' = "forked" /\ UNCHANGED <<readiness, control>>
     \/ StartFault /\ HolderFails

HoldNamespaces ==
  /\ holder = "forked"
  /\ \/ HolderGoes("ns_up") /\ UNCHANGED <<pidInit, readiness, control>>
     \/ StartFault /\ HolderFails

\* Shared: there is no network to wait for.
signal_ns_up ==
  /\ holder = "ns_up"
  /\ IF DaemonEndsOpen
     THEN /\ HolderGoes(IF network = "isolated" THEN "await" ELSE "finish")
          /\ readiness' = Append(readiness, "ns-up") /\ UNCHANGED <<pidInit, control>>
     ELSE HolderFails /\ UNCHANGED startFaults

await_net_ready ==
  /\ holder = "await"
  /\ \/ /\ control # <<>>
        /\ HolderGoes("finish") /\ control' = Tail(control) /\ UNCHANGED <<pidInit, readiness>>
     \/ /\ control = <<>> /\ ~DaemonEndsOpen
        /\ HolderFails /\ UNCHANGED startFaults

\* Configuring the interface may fail; then the second line.
finish_ready ==
  /\ holder = "finish"
  /\ \/ /\ DaemonEndsOpen
        /\ HolderGoes("paused")
        /\ readiness' = Append(readiness, "ready") /\ UNCHANGED <<pidInit, control>>
     \/ /\ ~DaemonEndsOpen
        /\ HolderFails /\ UNCHANGED startFaults
     \/ network = "isolated" /\ StartFault /\ HolderFails

\* Something else kills it.
HolderKilled ==
  /\ HolderAlive /\ StartFault
  /\ holder' = "dead"
  /\ UNCHANGED <<network, call, setupDue, pidInit, readiness, control, sibling>>

HolderSteps ==
  \/ install_parent_death_signal \/ unshare_namespace_stack \/ HoldNamespaces
  \/ signal_ns_up \/ await_net_ready \/ finish_ready

(***************************************************************************)
(* The init: it closes its copies of the pipes, installs its handlers and  *)
(* chains itself to the holder.  The parent it compares with 1 afterwards  *)
(* is outside its namespace and reads as 0, dead or alive.                 *)
(***************************************************************************)

run_pid_namespace_init ==
  /\ \/ pidInit = "forked" /\ pidInit' = "closed"
     \/ pidInit = "closed" /\ pidInit' = "armed"
     \/ pidInit = "armed" /\ pidInit' = IF HolderAlive THEN "chained" ELSE "orphan"
     \/ pidInit = "chained" /\ ~HolderAlive /\ pidInit' = "dead"
  /\ UNCHANGED <<network, call, setupDue, holder, readiness, control, sibling, startFaults>>

StartNext ==
  \/ DaemonSteps \/ HolderSteps \/ run_pid_namespace_init
  \/ SetupDeadline \/ InheritEnds \/ SiblingExits \/ DaemonDies \/ HolderKilled

\* Each process runs and the daemon's clock advances; a sibling may live on.
StartFairness ==
  /\ WF_startVars(DaemonSteps) /\ WF_startVars(HolderSteps)
  /\ WF_startVars(run_pid_namespace_init) /\ WF_startVars(SetupDeadline)

\* The daemon opens the namespaces only once all of them exist, PID namespace
\* included; the line it expects second is not swallowed with the first (fds.rs:
\* 113-118 reads whatever the pipe holds); a call that succeeds with an isolated
\* network has a configured holder.
HandshakeTrue ==
  /\ call \in {"open", "net_ready", "ready", "done"} => pidInit # "none"
  /\ network = "isolated" /\ call = "ready" /\ holder = "paused" => readiness = <<"ready">>
  /\ network = "isolated" /\ call = "done" => holder \in {"paused", "dead"}

\* A create call comes back, whichever process dies or stalls meanwhile, unless
\* the holder died before its init had chained itself to it: that init lives on
\* and keeps the pipe open that a failed start reads to its end.  A call that
\* fails leaves no holder: one that could not be terminated meets the end of a
\* pipe at its next line, and only one that has written its last line by then
\* stays, with the supervisor.  And a holder does not outlive its daemon
\* (holder/mod.rs:150-152), even one the daemon's death finds before its first
\* act.
HandshakeEnds ==
  /\ call = "spawn" ~> CallEnded \/ pidInit = "orphan"
  /\ call \in {"failed", "uncleaned"} ~> ~HolderAlive \/ (call = "uncleaned" /\ holder = "paused")
  /\ call = "gone" ~> ~HolderAlive
=============================================================================
