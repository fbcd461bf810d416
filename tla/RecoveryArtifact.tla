-------------------------- MODULE RecoveryArtifact --------------------------
(* The bounded copy of a session's unpublished work that is kept when its    *)
(* holder is gone                                                            *)
(* (operation/src/workspace_session/service/recovery.rs).                    *)
(*                                                                           *)
(* One incident: a session, the identity of its holder and its upperdir,     *)
(* whose digests name the artifact.  The teardown that asks for the artifact *)
(* may be retried, and the daemon may die at any step and come back with the *)
(* same pid or another.  The upperdir is given as its entries in the order   *)
(* of the walk, each with its depth; nobody writes it any more.              *)
EXTENDS Integers, Sequences, SequencesExt

CONSTANTS
  Upperdirs,        \* the trees considered: sequences of [depth, kind, bytes]
  ContentMax,       \* RECOVERY_CONTENT_MAX_BYTES
  EntryMax,         \* RECOVERY_ENTRY_MAX
  DepthMax,         \* RECOVERY_DEPTH_MAX
  Pids,             \* pids of the daemon's incarnations
  MaxAttempts,      \* bound on the teardowns that ask for the artifact
  MaxCopyFaults     \* bound on failed steps and deaths

VARIABLES
  upperdir,         \* a member of Upperdirs, or Gone when the directory is missing
  pid,              \* the pid of the daemon
  step,             \* "idle", "copy", "manifest", "commit" or "sync"
  walk,             \* the next entry of the walk
  copy,             \* CopyState and what files/ holds
  temporary,        \* per pid: the transaction directory, Absent when there is none
  artifact,         \* the artifact, Absent when there is none
  preserved,        \* the last answer: "none", "ok", "error" or "blocked"
  attempts, copyFaults

recoveryVars == <<upperdir, pid, step, walk, copy, temporary, artifact, preserved,
                  attempts, copyFaults>>

Gone == <<[depth |-> 0, kind |-> "missing", bytes |-> 0]>>
NoCopy == [files |-> {}, bytes |-> 0, visited |-> 0, truncated |-> FALSE]
Tree(content, manifest) == [content |-> content, manifest |-> manifest]
Absent == Tree(NoCopy, "absent")

RecoveryOf(upperdirs) ==
  /\ upperdir \in upperdirs
  /\ pid \in Pids
  /\ step = "idle" /\ walk = 1 /\ copy = NoCopy
  /\ temporary = [p \in Pids |-> Absent] /\ artifact = Absent
  /\ preserved = "none" /\ attempts = 0 /\ copyFaults = 0

RecoveryInit == RecoveryOf(Upperdirs \union {Gone})

\* validate_existing_artifact: the manifest decodes and names this incident.
ExistingArtifact == IF artifact.manifest = "whole" THEN "ok" ELSE "error"

\* preserve_recovery_artifact: an artifact that is there answers at once, if its
\* manifest is whole and names this incident; a transaction left under this pid
\* refuses the attempt.
Preserve ==
  /\ step = "idle" /\ attempts < MaxAttempts
  /\ attempts' = attempts + 1
  /\ \/ /\ artifact # Absent
        /\ preserved' = ExistingArtifact
        /\ UNCHANGED <<step, walk, copy, temporary>>
     \/ /\ artifact = Absent /\ temporary[pid] # Absent
        /\ preserved' = "blocked"
        /\ UNCHANGED <<step, walk, copy, temporary>>
     \/ /\ artifact = Absent /\ temporary[pid] = Absent
        /\ step' = "copy" /\ walk' = 1 /\ copy' = NoCopy
        /\ temporary' = [temporary EXCEPT ![pid] = Tree(NoCopy, "none")]
        /\ preserved' = "none"
  /\ UNCHANGED <<upperdir, pid, artifact, copyFaults>>

\* The mutant: a file that finds no bytes left is passed over without a mark.
CopyFileBounded_Silent(state, entry, i) ==
  LET remaining == ContentMax - state.bytes
      n == IF entry.bytes < remaining THEN entry.bytes ELSE remaining
  IN IF remaining = 0 THEN state
     ELSE [state EXCEPT !.bytes = @ + n, !.files = @ \union {<<i, n>>},
                        !.truncated = @ \/ n < entry.bytes]

\* copy_file_bounded.  What is cut off, and a file that finds no bytes left,
\* marks the copy as truncated.
CopyFileBounded(state, entry, i) ==
  LET remaining == ContentMax - state.bytes
      n == IF entry.bytes < remaining THEN entry.bytes ELSE remaining
  IN IF remaining = 0 THEN [state EXCEPT !.truncated = TRUE]
     ELSE [state EXCEPT !.bytes = @ + n, !.files = @ \union {<<i, n>>},
                        !.truncated = @ \/ n < entry.bytes]

\* copy_tree_bounded, one entry: directories are made, files copied, links and
\* special files only noted.  Past the entry bound every directory being read
\* stops; a directory at the depth bound is not read.
CopyEntry(state, entry, i) ==
  CASE entry.depth >= DepthMax -> state
    [] state.visited >= EntryMax -> [state EXCEPT !.truncated = TRUE]
    [] entry.kind = "dir" ->
         [state EXCEPT !.visited = @ + 1, !.files = @ \union {<<i, 0>>},
                       !.truncated = @ \/ entry.depth + 1 >= DepthMax]
    [] entry.kind = "file" -> CopyFileBounded([state EXCEPT !.visited = @ + 1], entry, i)
    [] OTHER -> [state EXCEPT !.visited = @ + 1, !.truncated = TRUE]

CopyTree ==
  /\ step = "copy" /\ upperdir # Gone /\ walk <= Len(upperdir)
  /\ copy' = CopyEntry(copy, upperdir[walk], walk)
  /\ temporary' = [temporary EXCEPT ![pid] = Tree(copy', "none")]
  /\ walk' = walk + 1
  /\ UNCHANGED <<upperdir, pid, step, artifact, preserved, attempts, copyFaults>>

\* The manifest is written and synced, with the directory.
WriteRecoveryManifest ==
  /\ step = "copy" /\ (upperdir = Gone \/ walk > Len(upperdir))
  /\ temporary' = [temporary EXCEPT ![pid] = Tree(copy, "whole")]
  /\ step' = "commit"
  /\ UNCHANGED <<upperdir, pid, walk, copy, artifact, preserved, attempts, copyFaults>>

CommitArtifact ==
  /\ step = "commit"
  /\ artifact' = temporary[pid]
  /\ temporary' = [temporary EXCEPT ![pid] = Absent]
  /\ step' = "sync"
  /\ UNCHANGED <<upperdir, pid, walk, copy, preserved, attempts, copyFaults>>

\* sync_directory on the root, and the answer.
SyncRoot ==
  /\ step = "sync"
  /\ preserved' = "ok" /\ step' = "idle"
  /\ UNCHANGED <<upperdir, pid, walk, copy, temporary, artifact, attempts, copyFaults>>

\* A step fails: the transaction is removed, and the attempt with it.
CopyFails ==
  /\ step # "idle" /\ copyFaults < MaxCopyFaults
  /\ copyFaults' = copyFaults + 1
  /\ temporary' = [temporary EXCEPT ![pid] = Absent]
  /\ preserved' = "error" /\ step' = "idle"
  /\ UNCHANGED <<upperdir, pid, walk, copy, artifact, attempts>>

\* The daemon dies, with a manifest perhaps half written, and is started again.
DaemonDies ==
  /\ step # "idle" /\ copyFaults < MaxCopyFaults
  /\ copyFaults' = copyFaults + 1
  /\ pid' \in Pids
  /\ \/ UNCHANGED temporary
     \/ /\ step = "copy" /\ walk > Len(upperdir)
        /\ temporary' = [temporary EXCEPT ![pid] = Tree(copy, "torn")]
  /\ preserved' = "none" /\ step' = "idle"
  /\ UNCHANGED <<upperdir, walk, copy, artifact, attempts>>

RecoveryNext ==
  \/ Preserve \/ CopyTree \/ WriteRecoveryManifest \/ CommitArtifact \/ SyncRoot
  \/ CopyFails \/ DaemonDies

RecoverySpec == RecoveryInit /\ [][RecoveryNext]_recoveryVars

-----------------------------------------------------------------------------

\* An artifact that does not say it is truncated holds every directory and every
\* file of the upperdir in full; none holds more than its bounds allow.
CopyHonest ==
  artifact # Absent =>
    /\ artifact.manifest = "whole"
    /\ artifact.content.bytes <= ContentMax /\ artifact.content.visited <= EntryMax
    /\ ~artifact.content.truncated /\ upperdir # Gone =>
         artifact.content.files = {<<i, upperdir[i].bytes>> : i \in DOMAIN upperdir}

\* The work is reported as preserved only when an artifact is there, and an
\* attempt is refused only over what a dead daemon left under the same pid.
AnswerHonest ==
  /\ preserved = "ok" => artifact # Absent
  /\ preserved = "blocked" => temporary[pid] # Absent /\ copyFaults > 0
  /\ step = "idle" /\ copyFaults = 0 => \A p \in Pids : temporary[p] = Absent

\* recovery.rs: whatever step fails and whenever the daemon dies, an artifact is
\* whole and says truthfully what it lacks, and "preserved" means it is there.
ArtifactTrue == CopyHonest /\ AnswerHonest
=============================================================================
