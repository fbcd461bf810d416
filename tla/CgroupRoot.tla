----------------------------- MODULE CgroupRoot -----------------------------
(***************************************************************************)
(* Preparing the delegated cgroup when the daemon starts (sandbox-daemon,  *)
(* cgroup_setup.rs): every process directly in the root is moved into the  *)
(* daemon's leaf, since the kernel lets a cgroup hand controllers to its   *)
(* children only while it holds no process itself; then the controllers    *)
(* are enabled and the limits of the workloads written.                    *)
(*                                                                         *)
(* Processes are named by number everywhere, and numbers are used again.   *)
(* A process is its start time here; a number is what the daemon reads,    *)
(* checks and writes, one system call after another, while processes       *)
(* exit and start around it.                                               *)
(***************************************************************************)
EXTENDS Naturals, FiniteSets, FiniteSetsExt

CONSTANTS RootPids,       \* process numbers
          DaemonPid,      \* the daemon's
          MaxDirectPids,  \* DIRECT_ROOT_PROCS_MAX_PIDS
          MaxArrivals,    \* bound: processes started meanwhile
          MaxRootFaults   \* bound: reads and writes that fail

ASSUME RootAssumption ==
  /\ IsFiniteSet(RootPids) /\ RootPids = 1 .. Cardinality(RootPids) /\ DaemonPid \in RootPids
  /\ MaxDirectPids \in Nat /\ MaxArrivals \in Nat /\ MaxRootFaults \in Nat

VARIABLES occupant,     \* number -> start time of the process that has it, 0 for none
          place,        \* start time -> the cgroup the process is in
          clock,        \* the next start time
          prepareAt,    \* the step of the preparation
          direct,       \* numbers still to be pinned
          pinned,       \* number -> the start time pinned for it
          toMove,       \* pinned numbers still to be moved
          handled,      \* the number being pinned or moved
          taken,        \* processes moved out of the workloads
          enabled,      \* the root's children have their controllers
          limits,       \* how many of the policy files are written
          rootFaults

rootVars == <<occupant, place, clock, prepareAt, direct, pinned, toMove, handled, taken,
              enabled, limits, rootFaults>>
kernelVars == <<occupant, place, clock>>

StartTimes == 1 .. (Cardinality(RootPids) + MaxArrivals)
DirectPids == {p \in RootPids : occupant[p] # 0 /\ place[occupant[p]] = "root"}

\* The policy files, in the order they are written: the protection of the
\* daemon's leaf, the weight and limits of the workloads, their controllers.
PolicyFiles == 3

\* The daemon, and processes that came with the container or an earlier daemon.
RootInit ==
  /\ \E before \in SUBSET (RootPids \ {DaemonPid}) :
       /\ occupant = [p \in RootPids |-> IF p \in before \cup {DaemonPid} THEN p ELSE 0]
       /\ place \in [StartTimes -> {"root", "workloads"}]
       /\ \A t \in StartTimes : t = DaemonPid \/ t \notin before => place[t] = "root"
  /\ clock = Cardinality(RootPids) + 1
  /\ prepareAt = "list" /\ direct = {} /\ pinned = [p \in RootPids |-> 0] /\ toMove = {}
  /\ handled = 0 /\ taken = {} /\ enabled = FALSE /\ limits = 0 /\ rootFaults = 0

(***************************************************************************)
(* The other processes                                                     *)
(***************************************************************************)

ProcessExits(p) ==
  /\ p # DaemonPid /\ occupant[p] # 0
  /\ occupant' = [occupant EXCEPT ![p] = 0]
  /\ UNCHANGED <<place, clock, prepareAt, direct, pinned, toMove, handled, taken, enabled,
                 limits, rootFaults>>

\* A process starts under a free number: in the root as long as the kernel lets
\* it, in the daemon's leaf, or among the workloads.
ProcessStarts(p) ==
  /\ occupant[p] = 0 /\ clock \in StartTimes
  /\ occupant' = [occupant EXCEPT ![p] = clock]
  /\ \E cgroup \in {"root", "leaf", "workloads"} :
       /\ cgroup = "root" => ~enabled
       /\ place' = [place EXCEPT ![clock] = cgroup]
  /\ clock' = clock + 1
  /\ UNCHANGED <<prepareAt, direct, pinned, toMove, handled, taken, enabled, limits, rootFaults>>

(***************************************************************************)
(* evacuate_direct_root_processes                                          *)
(***************************************************************************)

Fails == prepareAt' = "failed" /\ UNCHANGED rootFaults

\* A system call fails by itself.
RootFault ==
  /\ rootFaults < MaxRootFaults /\ rootFaults' = rootFaults + 1 /\ prepareAt' = "failed"

GoesOn(to) == prepareAt' = to /\ UNCHANGED rootFaults

read_direct_pids ==
  /\ prepareAt = "list"
  /\ \/ Cardinality(DirectPids) <= MaxDirectPids /\ direct' = DirectPids /\ GoesOn("pin")
     \/ Cardinality(DirectPids) > MaxDirectPids /\ Fails /\ UNCHANGED direct
     \/ RootFault /\ UNCHANGED direct
  /\ UNCHANGED <<kernelVars, pinned, toMove, handled, taken, enabled, limits>>

\* A number is opened and its start time read: whoever has it now.
PinProcess ==
  /\ prepareAt = "pin" /\ direct # {}
  /\ handled' = Min(direct) /\ direct' = direct \ {handled'}
  /\ IF occupant[handled'] = 0
     THEN Fails /\ UNCHANGED <<pinned, toMove>>
     ELSE /\ pinned' = [pinned EXCEPT ![handled'] = occupant[handled']]
          /\ toMove' = toMove \cup {handled'} /\ GoesOn("pinned")
  /\ UNCHANGED <<kernelVars, taken, enabled, limits>>

\* validate_identity: the same start time under the number, in the cgroup
\* expected.
SameProcess(p, cgroup) == occupant[p] # 0 /\ occupant[p] = pinned[p] /\ place[pinned[p]] = cgroup

CheckPinned ==
  /\ prepareAt = "pinned"
  /\ IF SameProcess(handled, "root") THEN GoesOn("pin") ELSE Fails
  /\ UNCHANGED <<kernelVars, direct, pinned, toMove, handled, taken, enabled, limits>>

CheckBeforeMove ==
  /\ prepareAt = "pin" /\ direct = {} /\ toMove # {}
  /\ handled' = Min(toMove) /\ toMove' = toMove \ {handled'}
  /\ IF SameProcess(handled', "root") THEN GoesOn("move") ELSE Fails
  /\ UNCHANGED <<kernelVars, direct, pinned, taken, enabled, limits>>

\* The write moves whoever has the number.
WriteProcs ==
  /\ prepareAt = "move"
  /\ \/ occupant[handled] # 0
        /\ place' = [place EXCEPT ![occupant[handled]] = "leaf"] /\ GoesOn("moved")
        /\ taken' = taken \cup {t \in {occupant[handled]} : place[t] = "workloads"}
     \/ occupant[handled] = 0 /\ Fails /\ UNCHANGED <<place, taken>>
     \/ RootFault /\ UNCHANGED <<place, taken>>
  /\ UNCHANGED <<occupant, clock, direct, pinned, toMove, handled, enabled, limits>>

\* move_process without the second validation.
CheckAfterMove_Trusting ==
  /\ prepareAt = "moved" /\ GoesOn("pin")
  /\ UNCHANGED <<kernelVars, direct, pinned, toMove, handled, taken, enabled, limits>>

CheckAfterMove ==
  /\ prepareAt = "moved"
  /\ IF SameProcess(handled, "leaf") THEN GoesOn("pin") ELSE Fails
  /\ UNCHANGED <<kernelVars, direct, pinned, toMove, handled, taken, enabled, limits>>

\* A process that has come meanwhile is not chased.
ReadResidual ==
  /\ prepareAt = "pin" /\ direct = {} /\ toMove = {}
  /\ \/ DirectPids = {} /\ GoesOn("self")
     \/ DirectPids # {} /\ Fails
     \/ RootFault
  /\ UNCHANGED <<kernelVars, direct, pinned, toMove, handled, taken, enabled, limits>>

validate_current_process ==
  /\ prepareAt = "self"
  /\ IF place[occupant[DaemonPid]] = "leaf" THEN GoesOn("enable") ELSE Fails
  /\ UNCHANGED <<kernelVars, direct, pinned, toMove, handled, taken, enabled, limits>>

\* The kernel refuses while a process is in the root; a controller that was not
\* delegated is a refusal as well.
enable_subtree_controllers ==
  /\ prepareAt = "enable"
  /\ \/ DirectPids = {} /\ enabled' = TRUE /\ GoesOn("policy")
     \/ DirectPids # {} /\ UNCHANGED enabled /\ Fails
     \/ RootFault /\ UNCHANGED enabled
  /\ UNCHANGED <<kernelVars, direct, pinned, toMove, handled, taken, limits>>

WritePolicy ==
  /\ prepareAt = "policy"
  /\ \/ limits' = limits + 1 /\ GoesOn(IF limits' = PolicyFiles THEN "ready" ELSE "policy")
     \/ RootFault /\ UNCHANGED limits
  /\ UNCHANGED <<kernelVars, direct, pinned, toMove, handled, taken, enabled>>

RootNext ==
  \/ \E p \in RootPids : ProcessExits(p) \/ ProcessStarts(p)
  \/ read_direct_pids \/ PinProcess \/ CheckPinned \/ CheckBeforeMove \/ WriteProcs
  \/ CheckAfterMove \/ ReadResidual \/ validate_current_process
  \/ enable_subtree_controllers \/ WritePolicy

\* The workloads' subtree is used (cgroup_setup.rs:68-100) only when the daemon is
\* in its leaf, the root is empty with every limit written, and no process was
\* taken along that was not in the root when it was pinned: a number used again
\* between a check and the write ends the preparation.
RootVacated ==
  prepareAt = "ready" =>
    /\ enabled /\ DirectPids = {} /\ limits = PolicyFiles
    /\ place[occupant[DaemonPid]] = "leaf"
    /\ \A p \in RootPids : pinned[p] # 0 => place[pinned[p]] = "leaf"
    /\ taken = {}
=============================================================================
