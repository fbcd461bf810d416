--------------------------- MODULE MCSandboxParts ---------------------------
(***************************************************************************)
(* Inside a sandbox: the cgroup its daemon prepares, the base its layers   *)
(* start from, the artifact a failed finalization leaves, spans, event     *)
(* logs and diagnostics, commands and their transcripts, side by side.     *)
(* They share no state, so a behaviour is about one of them, its subject,  *)
(* and the others rest.                                                    *)
(***************************************************************************)
EXTENDS CgroupRoot, WorkspaceBase, RecoveryArtifact, EventLog, TraceSpans,
        DiagnosticTracker, Transcript, CommandScope, TLC

VARIABLE subject

\* The daemon's sink and a runner's, which do not have the same budget.
UnequalCaps == CHOOSE caps \in [Producers -> {3, 5}] : {caps[p] : p \in Producers} = {3, 5}

\* The upper directories a bounded walk meets: a depth below a directory only.
SomeEntries == [depth : 0 .. 2, kind : {"file"}, bytes : 0 .. 2]
                 \cup [depth : 0 .. 2, kind : {"dir", "link"}, bytes : {0}]
SomeUpperdirs ==
  {u \in BoundedSeq(SomeEntries, 3) :
     \A i \in DOMAIN u : u[i].depth <=
       IF i = 1 THEN 0 ELSE u[i - 1].depth + (IF u[i - 1].kind = "dir" THEN 1 ELSE 0)}

Subjects == {"cgroup", "base", "recovery", "log", "arena", "spans", "diagnostics",
             "transcript", "scope"}

\* A part with several initial states rests in one of them.
PartsInit ==
  /\ subject \in Subjects
  /\ LogInit /\ ArenaInit /\ SpanInit /\ TrackerInit
  /\ TranscriptInit /\ (subject # "transcript" => sinkOpen)
  /\ ScopeInit /\ (subject # "scope" => deadline = "none")
  /\ RootInit /\ (subject # "cgroup" => occupant = [p \in RootPids |-> IF p = DaemonPid THEN p ELSE 0])
  /\ BaseInit /\ (subject # "base" => root = FreshRoot)
  /\ IF subject = "recovery" THEN RecoveryInit ELSE RecoveryOf({Gone}) /\ pid = 7

\* Every part but the subject.
Rest(part) ==
  /\ IF part = "cgroup" THEN TRUE ELSE UNCHANGED rootVars
  /\ IF part = "scope" THEN TRUE ELSE UNCHANGED scopeVars
  /\ IF part = "diagnostics" THEN TRUE ELSE UNCHANGED trackerVars
  /\ IF part = "base" THEN TRUE ELSE UNCHANGED baseVars
  /\ IF part = "recovery" THEN TRUE ELSE UNCHANGED recoveryVars
  /\ IF part = "log" THEN TRUE ELSE UNCHANGED logVars
  /\ IF part = "arena" THEN TRUE ELSE UNCHANGED arenaVars
  /\ IF part = "spans" THEN TRUE ELSE UNCHANGED spanVars
  /\ IF part = "transcript" THEN TRUE ELSE UNCHANGED transcriptVars

PartsNext ==
  /\ UNCHANGED subject
  /\ \/ subject = "cgroup" /\ RootNext /\ Rest("cgroup")
     \/ subject = "scope" /\ ScopeNext /\ Rest("scope")
     \/ subject = "diagnostics" /\ TrackerNext /\ Rest("diagnostics")
     \/ subject = "base" /\ BaseNext /\ Rest("base")
     \/ subject = "recovery" /\ RecoveryNext /\ Rest("recovery")
     \/ subject = "log" /\ LogNext /\ Rest("log")
     \/ subject = "arena" /\ ArenaNext /\ Rest("arena")
     \/ subject = "spans" /\ SpanNext /\ Rest("spans")
     \/ subject = "transcript" /\ TranscriptNext /\ Rest("transcript")

PartsSpec ==
  PartsInit /\ [][PartsNext]_<<rootVars, baseVars, recoveryVars, logVars, arenaVars,
                              spanVars, trackerVars, transcriptVars, scopeVars, subject>>

\* What a sandbox starts from: its base is whole (base.rs), and the cgroup its
\* workloads run under is prepared without taking a foreign process along
\* (cgroup_setup.rs).
SandboxPrepared == BasesWhole /\ RootVacated

\* What the caller of a command is told: the output its processes wrote, and an
\* end that has come for all of them.
CommandsTrue == TranscriptTrue /\ ScopeTrue

\* What the telemetry of a sandbox records is what queries of it return.
TelemetryTrue == LogTrue /\ ArenaExact /\ SpansExact /\ DiagnosticsTrue
=============================================================================
