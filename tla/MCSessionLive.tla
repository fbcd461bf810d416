--------------------------- MODULE MCSessionLive ---------------------------
(***************************************************************************)
(* What the callers of a session wait for: the session's own operations,   *)
(* the start of its holder, and a runner that waits for its command.  The  *)
(* three are checked side by side: a behaviour is about one of them, its   *)
(* subject, and the others rest.                                           *)
(***************************************************************************)
EXTENDS WorkspaceSession, CommandScope, HolderStart, TLC

CONSTANTS c1, c2, d

VARIABLE subject

\* A command whose runner has answered, and a start that has failed.
ScopeRest ==
  /\ proc = [p \in ScopePids |-> "reaped"] /\ inGroup = {}
  /\ signalOf = [p \in ScopePids |-> "none"]
  /\ runnerAt = "over" /\ rootReaped = TRUE /\ requested = FALSE
  /\ deadline = "none" /\ graceOver = FALSE
  /\ reason = "none" /\ signal = "none" /\ scopeAnswer = "exit"
  /\ listing = {} /\ position = 0 /\ seen = {} /\ scanFor = "none" /\ blind = 0
StartRest ==
  /\ network = "shared" /\ call = "failed" /\ setupDue = FALSE
  /\ holder = "none" /\ pidInit = "none"
  /\ readiness = <<>> /\ control = <<>> /\ sibling = FALSE /\ startFaults = MaxStartFaults

\* A session nobody has created rests where it starts.
LiveInit ==
  /\ subject \in {"session", "scope", "start"}
  /\ Init
  /\ IF subject = "scope" THEN ScopeInit ELSE ScopeRest
  /\ IF subject = "start" THEN StartInit ELSE StartRest

LiveNext ==
  /\ UNCHANGED subject
  /\ \/ subject = "session" /\ Next /\ UNCHANGED <<scopeVars, startVars>>
     \/ subject = "scope" /\ ScopeNext /\ UNCHANGED <<vars, startVars>>
     \/ subject = "start" /\ StartNext /\ UNCHANGED <<vars, scopeVars>>

LiveSpec ==
  /\ LiveInit /\ [][LiveNext]_<<vars, scopeVars, startVars, subject>>
  /\ Fairness /\ ScopeFairness /\ StartFairness

\* A runner answers for its command, and a create call for its holder, whatever
\* the processes they wait for do (wait.rs, holder.rs); and what the two ends of
\* a start believe of each other is true.
ProcessesAnswer == ScopeAnswers /\ HandshakeEnds /\ []HandshakeTrue
=============================================================================
