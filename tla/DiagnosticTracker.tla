-------------------------- MODULE DiagnosticTracker --------------------------
(* The daemon's watch over itself (sandbox-daemon/src/observability/         *)
(* diagnostics.rs).  Every query of the daemon's metrics samples the process *)
(* and hands the sample to one tracker: a processor or memory load that      *)
(* lasts, or a holder nobody reaped, makes the query write an artifact, with *)
(* the tracker unlocked meanwhile.  Queries run side by side, so samples     *)
(* arrive late, and a sample's time is older than its counters.              *)
(*                                                                           *)
(* `light`, `captured` and `failures` are history variables.  The labels of  *)
(* the queries and the lists of workspaces in an artifact are left out.      *)
EXTENDS Integers, Sequences, SequencesExt

CONSTANTS
  Observers,        \* numbers of the queries in progress; a new one takes the lowest free
  CpuThreshold,     \* cpu_threshold_percent; a unit of the model's CPU time is one of its clock
  SustainedWindow,  \* sustained_window_ms
  Cooldown,         \* cooldown_ms
  MaxTime,          \* bound on the wall clock
  MaxSamples,       \* bound on the samples taken
  MaxTrackerFaults  \* bound on failed reads and writes, clock corrections and deaths

ASSUME TrackerAssumption ==
  /\ SustainedWindow \in Nat \ {0} /\ Cooldown \in Nat \ {0}
  /\ Observers \subseteq Nat /\ CpuThreshold \in Nat /\ MaxTime \in Nat /\ MaxSamples \in Nat

VARIABLES
  wall, cpuUsed,    \* the wall clock, and the CPU time the daemon has used
  observer,         \* [at, sample, capture] of every query
  previous, cpuWindow, memoryWindow, cooldownUntil,
  inFlight,         \* capture_in_flight
  nextSequence, latest, triggerCount,
  diagnosticFile,         \* the artifact file
  temporaryFile,        \* the file beside it: "absent", "partial", or a whole capture
  sampled, trackerFaults,
  light,            \* time of the last sample taken in with memory below the threshold
  captured,         \* the last capture begun, and the time of the one before
  failures            \* captures that failed

processVars == <<wall, cpuUsed>>
stateVars == <<previous, cpuWindow, memoryWindow, cooldownUntil, inFlight, nextSequence,
               latest, triggerCount>>
historyVars == <<light, captured, failures>>
trackerVars == <<processVars, observer, stateVars, diagnosticFile, temporaryFile, sampled,
                 trackerFaults, historyVars>>

Missing == [time |-> -1]
Unread == -1
IdleObserver == [at |-> "idle", sample |-> Missing, capture |-> Missing]

TrackerInit ==
  /\ wall = 1 /\ cpuUsed = 0
  /\ observer = [o \in Observers |-> IdleObserver]
  /\ previous = Missing /\ cpuWindow = Missing /\ memoryWindow = Missing
  /\ cooldownUntil = 0 /\ inFlight = 0 /\ nextSequence = 1
  /\ latest = Missing /\ triggerCount = 0
  /\ light = 0 /\ captured = [capture |-> Missing, before |-> Missing.time] /\ failures = 0
  /\ diagnosticFile = Missing /\ temporaryFile = Missing
  /\ sampled = 0 /\ trackerFaults = 0

\* A sample is still to be taken (what follows the last one is not followed).
Sampling == sampled < MaxSamples \/ \E o \in Observers : observer[o].at = "sampling"

TrackerFault == trackerFaults < MaxTrackerFaults /\ trackerFaults' = trackerFaults + 1

\* A millisecond passes; the daemon spends it running or waiting.
Elapse ==
  /\ wall < MaxTime /\ Sampling
  /\ wall' = wall + 1
  /\ cpuUsed' \in {cpuUsed, cpuUsed + 1}
  /\ UNCHANGED <<observer, stateVars, diagnosticFile, temporaryFile, sampled,
                 trackerFaults, historyVars>>

\* The wall clock is corrected backwards (bound: while no query runs; a sample
\* older than the last one comes of late queries too).
ClockStepsBack ==
  /\ wall > 1 /\ sampled < MaxSamples /\ TrackerFault
  /\ \A o \in Observers : observer[o].at = "idle"
  /\ wall' = wall - 1
  /\ UNCHANGED <<cpuUsed, observer, stateVars, diagnosticFile, temporaryFile,
                 sampled, historyVars>>

\* collect_daemon_metrics: the holders, the time, and then the counters.
BeginSample(o) ==
  /\ sampled < MaxSamples
  /\ observer[o].at = "idle" /\ \A p \in Observers : p < o => observer[p].at # "idle"
  /\ sampled' = sampled + 1
  /\ \E unreaped \in BOOLEAN :
       observer' = [observer EXCEPT ![o].at = "sampling", ![o].sample =
                      [time |-> wall, unreaped |-> unreaped, cpu |-> Unread, heavy |-> FALSE]]
  /\ UNCHANGED <<processVars, stateVars, diagnosticFile, temporaryFile, trackerFaults, historyVars>>

\* A process directory that cannot be read gives a sample without counters.
ReadCounters(o) ==
  /\ observer[o].at = "sampling"
  /\ \/ /\ \E heavy \in BOOLEAN :
             observer' = [observer EXCEPT ![o].at = "observe", ![o].sample.cpu = cpuUsed,
                                          ![o].sample.heavy = heavy]
        /\ UNCHANGED trackerFaults
     \/ TrackerFault /\ observer' = [observer EXCEPT ![o].at = "observe"]
  /\ UNCHANGED <<processVars, stateVars, diagnosticFile, temporaryFile, sampled, historyVars>>

\* cpu_interval: elapsed time and CPU time between two points, Unread when a
\* counter is missing or went back.
cpu_interval(from, to) ==
  [elapsed |-> to.time - from.time,
   used |-> IF Unread \notin {from.cpu, to.cpu} /\ to.cpu >= from.cpu
            THEN to.cpu - from.cpu ELSE Unread]
AboveThreshold(interval) ==
  interval.used # Unread /\ interval.used * 100 > CpuThreshold * interval.elapsed

\* A window that one sample below the threshold does not end.
update_window_Keeps(window, above, sample) ==
  IF above /\ window = Missing THEN [time |-> sample.time, cpu |-> sample.cpu] ELSE window
update_window(window, above, sample) ==
  IF ~above THEN Missing
  ELSE IF window = Missing THEN [time |-> sample.time, cpu |-> sample.cpu] ELSE window

\* The trigger of a sample, with the window it comes from: a holder left
\* unreaped before a load, and of two loads the one that began first.
ready_trigger(sample, cpu, memory) ==
  LET Lasting(w) == w # Missing /\ sample.time - w.time >= SustainedWindow
      Ready(trigger, w) == [trigger |-> trigger, window |-> w]
  IN CASE sample.unreaped -> Ready("unreaped", [time |-> sample.time, cpu |-> Unread])
       [] ~sample.unreaped /\ Lasting(memory) /\ (Lasting(cpu) => memory.time < cpu.time)
            -> Ready("memory", memory)
       [] ~sample.unreaped /\ Lasting(cpu) /\ (Lasting(memory) => memory.time >= cpu.time)
            -> Ready("cpu", cpu)
       [] OTHER -> Ready("none", Missing)

\* An observation that captures nothing returns at once.
Returns(o) == observer' = [observer EXCEPT ![o] = IdleObserver]

\* prepare_capture, under the lock: a sample older than the last one is dropped.
LateSample(o) ==
  /\ observer[o].at = "observe" /\ previous # Missing
  /\ observer[o].sample.time < previous.time
  /\ Returns(o)
  /\ UNCHANGED <<processVars, stateVars, diagnosticFile, temporaryFile, sampled, trackerFaults, historyVars>>

\* One of the same time adds what it knows to the last one.
EqualSample(o) ==
  LET sample == observer[o].sample
  IN /\ observer[o].at = "observe" /\ previous # Missing
     /\ sample.time = previous.time
     /\ previous' = [previous EXCEPT !.cpu = IF @ > sample.cpu THEN @ ELSE sample.cpu]
     /\ Returns(o)
     /\ UNCHANGED <<processVars, cpuWindow, memoryWindow, cooldownUntil, inFlight,
                    nextSequence, latest, triggerCount, diagnosticFile, temporaryFile, sampled,
                    trackerFaults, historyVars>>

\* A newer one moves the windows; a load that lasts is captured unless another
\* capture is being written or the last one is too recent.
NewSample(o) ==
  LET sample == observer[o].sample
      interval == IF previous = Missing THEN [elapsed |-> 0, used |-> Unread]
                                        ELSE cpu_interval(previous, sample)
      cpu == update_window(cpuWindow, AboveThreshold(interval), sample)
      memory == update_window(memoryWindow, sample.heavy, sample)
      ready == ready_trigger(sample, cpu, memory)
      capturing == ready.trigger # "none" /\ inFlight = 0 /\ sample.time >= cooldownUntil
      capture == [time |-> sample.time, sequence |-> nextSequence, trigger |-> ready.trigger,
                  since |-> ready.window.time,
                  interval |-> IF ready.trigger = "unreaped" THEN interval
                               ELSE cpu_interval(ready.window, sample)]
  IN /\ observer[o].at = "observe"
     /\ previous = Missing \/ sample.time > previous.time
     /\ previous' = [time |-> sample.time, cpu |-> sample.cpu]
     /\ light' = IF sample.heavy THEN light ELSE sample.time
     /\ IF capturing
        THEN /\ inFlight' = nextSequence /\ nextSequence' = nextSequence + 1
             /\ cooldownUntil' = sample.time + Cooldown
             /\ cpuWindow' = Missing /\ memoryWindow' = Missing
             /\ observer' = [observer EXCEPT ![o] = [at |-> "write", sample |-> Missing,
                                                       capture |-> capture]]
             /\ captured' = [capture |-> capture, before |-> captured.capture.time]
        ELSE /\ cpuWindow' = cpu /\ memoryWindow' = memory
             /\ Returns(o)
             /\ UNCHANGED <<inFlight, nextSequence, cooldownUntil, captured>>
     /\ UNCHANGED <<processVars, latest, triggerCount, diagnosticFile, temporaryFile, sampled,
                    trackerFaults, failures>>

\* capture and write_artifact: the artifact is written beside the last one.  It
\* may be larger than its limit, and each call may fail.
WriteTemporary(o) ==
  /\ observer[o].at = "write"
  /\ \/ /\ temporaryFile' = observer[o].capture /\ UNCHANGED trackerFaults
        /\ observer' = [observer EXCEPT ![o].at = "rename"]
     \/ /\ TrackerFault /\ temporaryFile' \in {temporaryFile, [time |-> 0]}
        /\ observer' = [observer EXCEPT ![o].at = "failed"]
  /\ UNCHANGED <<processVars, stateVars, diagnosticFile, sampled, historyVars>>

RenameArtifact(o) ==
  /\ observer[o].at = "rename"
  /\ \/ /\ diagnosticFile' = temporaryFile /\ temporaryFile' = Missing /\ UNCHANGED trackerFaults
        /\ observer' = [observer EXCEPT ![o].at = "written"]
     \/ /\ TrackerFault /\ UNCHANGED <<diagnosticFile, temporaryFile>>
        /\ observer' = [observer EXCEPT ![o].at = "failed"]
  /\ UNCHANGED <<processVars, stateVars, sampled, historyVars>>

\* finish_capture, under the lock again.
finish_capture(o) ==
  LET mine == inFlight = observer[o].capture.sequence
      written == observer[o].at = "written"
  IN /\ observer[o].at \in {"written", "failed"}
     /\ inFlight' = IF mine THEN 0 ELSE inFlight
     /\ triggerCount' = IF mine /\ written THEN triggerCount + 1 ELSE triggerCount
     /\ latest' = IF mine /\ written THEN observer[o].capture ELSE latest
     /\ failures' = IF mine /\ ~written THEN failures + 1 ELSE failures
     /\ Returns(o)
     /\ UNCHANGED <<processVars, previous, cpuWindow, memoryWindow, cooldownUntil,
                    nextSequence, diagnosticFile, temporaryFile, sampled, trackerFaults, light, captured>>

\* The daemon dies, whatever its queries were doing.  Its successor starts with
\* a fresh tracker and the files: it is not followed further.
DaemonDiesSampling ==
  /\ TrackerFault
  /\ observer' = [o \in Observers |-> IdleObserver]
  /\ previous' = Missing /\ cpuWindow' = Missing /\ memoryWindow' = Missing
  /\ cooldownUntil' = 0 /\ inFlight' = 0 /\ nextSequence' = 1
  /\ latest' = Missing /\ triggerCount' = 0
  /\ light' = 0 /\ captured' = [capture |-> Missing, before |-> Missing.time] /\ failures' = 0
  /\ temporaryFile' \in {temporaryFile} \cup
       {[time |-> 0] : o \in {p \in Observers : observer[p].at = "write"}}
  /\ sampled' = MaxSamples
  /\ UNCHANGED <<processVars, diagnosticFile>>

TrackerNext ==
  \/ Elapse \/ ClockStepsBack \/ DaemonDiesSampling
  \/ \E o \in Observers :
       \/ BeginSample(o) \/ ReadCounters(o)
       \/ LateSample(o) \/ EqualSample(o) \/ NewSample(o)
       \/ WriteTemporary(o) \/ RenameArtifact(o) \/ finish_capture(o)

-----------------------------------------------------------------------------
\* A capture says what was observed: a load it reports lasted for the window, no
\* sample in between was below the threshold, and the CPU time it gives is above
\* it, though samples came late or several at one time (diagnostics.rs:193-320).
CapturesJustified ==
  LET c == captured.capture
  IN c # Missing =>
       /\ c.trigger \in {"cpu", "memory"} => c.time - c.since >= SustainedWindow
       /\ c.trigger = "memory" => light \notin c.since .. c.time
       /\ c.trigger = "cpu" => AboveThreshold(c.interval)

\* Two captures are a cooldown apart, also when the clock steps back, and every
\* one is accounted for when it is over (diagnostics.rs:322-337).
CapturesSpaced ==
  /\ captured.before # Missing.time => captured.capture.time >= captured.before + Cooldown
  /\ nextSequence - 1 = triggerCount + failures + (IF inFlight = 0 THEN 0 ELSE 1)

\* The artifact is whole, and the one the tracker last reported or the one being
\* written; a failed capture and a death leave the one before (606-622).
ArtifactWhole ==
  /\ diagnosticFile = Missing \/ "sequence" \in DOMAIN diagnosticFile
  /\ latest # Missing => diagnosticFile \in {latest} \cup {observer[o].capture : o \in
                                         {p \in Observers : observer[p].at = "written"}}

DiagnosticsTrue == CapturesJustified /\ CapturesSpaced /\ ArtifactWhole
=============================================================================
