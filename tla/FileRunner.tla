------------------------------ MODULE FileRunner ------------------------------
(* File operations inside a live session: read, write, edit and list of one  *)
(* file d/f through a runner process in the session's mount namespace        *)
(* (operation/src/file/service/impls, namespace-process setns/file_op.rs),   *)
(* while processes of the session change the same names.                     *)
(*                                                                           *)
(* The session gate and the workspace manager's state lock let one runner    *)
(* run at a time; an edit is two runs, a read and a write, with the gate     *)
(* open in between.  A file's content is the set of marks of the writes it   *)
(* holds; "partial" marks a file that is only half written.  Symbolic links  *)
(* lead out of the workspace: a link named d to the directory "out", which   *)
(* has a file f of its own, and a link named f to a file marked "outside".   *)
EXTENDS Integers, FiniteSets

CONSTANTS
  FileClients,      \* callers of the file operations
  RunnerPids,       \* process ids a runner may get
  MaxMoves,         \* bound on what the session's processes change
  MaxKills          \* bound on runners killed

Directories == {"d1", "d2"}
Places == Directories \cup {"out"}
Entry(kind) == [kind |-> kind, marks |-> {}]
Regular(marks) == [kind |-> "file", marks |-> marks]
NoEntry == Entry("none")
Outside == Regular({"outside"})
Link == [kind |-> "link", marks |-> Outside.marks]
AnyPid == CHOOSE p \in RunnerPids : TRUE

VARIABLES
  fileOp,       \* per client: its operation
  parent,       \* what d names: one of Directories, "link", "file" or "none"
  target,       \* per place, what f names in it
  temps,        \* per place and pid, the temporary file in it
  stage,        \* per client: the next step of its operation
  runnerPid,    \* per client: its runner's process id
  dirFd,        \* per client: the directory its runner opened
  got,          \* per client: what its read returned
  edited,       \* per client: whether an edit has applied its edits
  outcome,      \* per client: the answer, "none" before it
  runner,       \* the client whose runner runs, or "idle"
  landed,       \* the clients whose content has been renamed into place
  moves,
  kills

runnerVars == <<fileOp, parent, target, temps, stage, runnerPid, dirFd, got, edited, outcome, runner, landed,
                moves, kills>>

RunnerInit ==
  /\ fileOp \in [FileClients -> {"read", "write", "edit", "list"}]
  /\ parent \in {"d1", "none"}
  /\ target = [d \in Places |-> CASE d = "d1" -> Regular({"base"}) [] d = "out" -> Outside [] OTHER -> NoEntry]
  /\ temps = [d \in Places |-> [p \in RunnerPids |-> NoEntry]]
  /\ stage = [c \in FileClients |-> "start"]
  /\ runnerPid = [c \in FileClients |-> AnyPid]
  /\ dirFd = [c \in FileClients |-> "d1"]
  /\ got = [c \in FileClients |-> NoEntry]
  /\ edited = [c \in FileClients |-> FALSE]
  /\ outcome = [c \in FileClients |-> "none"]
  /\ runner = "idle" /\ landed = {} /\ moves = 0 /\ kills = 0

\* Whether the run of this client is a write: an edit writes what it has read.
Writing(c) == fileOp[c] = "write" \/ (fileOp[c] = "edit" /\ edited[c])

StepTo(c, s) == stage' = [stage EXCEPT ![c] = s]
Unmoved == UNCHANGED <<parent, target, temps>>
SameRunner == UNCHANGED <<runnerPid, dirFd, got, outcome, runner>>

\* The runner writes its envelope and exits, and the gate opens.
FinishRunner(c, result) ==
  /\ StepTo(c, "reply") /\ outcome' = [outcome EXCEPT ![c] = result] /\ runner' = "idle"
  /\ runnerPid' = [runnerPid EXCEPT ![c] = AnyPid] /\ dirFd' = [dirFd EXCEPT ![c] = "d1"]

\* run_file_op: under the session's gate and the manager's lock, launch a runner.
StartRun(c) ==
  /\ runner = "idle" /\ stage[c] \in {"start", "between"}
  /\ runner' = c /\ StepTo(c, "walk")
  /\ \E p \in (IF Writing(c) THEN RunnerPids ELSE {AnyPid}) : runnerPid' = [runnerPid EXCEPT ![c] = p]
  /\ Unmoved /\ UNCHANGED <<dirFd, got, outcome, landed, moves, kills>>

\* A directory nothing lives in, for mkdirat.
Fresh == {d \in Directories \ {parent} : target[d] = NoEntry /\ \A p \in RunnerPids : temps[d][p] = NoEntry}

\* A bug: the parents are opened without O_NOFOLLOW.
OpenDir_Follows == IF parent = "link" THEN {"out"} ELSE {parent} \cap Directories

\* open_dir: what an open of d as a directory, with O_NOFOLLOW, can give.
OpenDir == {parent} \cap Directories

\* open_root and walk_parents; a write makes the missing directory.
WalkParents(c) ==
  /\ stage[c] = "walk"
  /\ \/ /\ \E d \in OpenDir : dirFd' = [dirFd EXCEPT ![c] = d]
        /\ StepTo(c, "stat") /\ Unmoved /\ UNCHANGED <<runnerPid, got, outcome, runner>>
     \/ /\ parent = "none" /\ Writing(c)
        /\ \E d \in Fresh :
             parent' = d /\ dirFd' = [dirFd EXCEPT ![c] = d] /\ StepTo(c, "stat")
        /\ UNCHANGED <<target, temps, runnerPid, got, outcome, runner>>
     \/ /\ parent = "none" /\ ~Writing(c)
        /\ FinishRunner(c, "absent") /\ Unmoved /\ UNCHANGED got
     \/ /\ OpenDir = {} /\ parent # "none"
        /\ FinishRunner(c, "not_regular") /\ Unmoved /\ UNCHANGED got
     \/ FinishRunner(c, "error") /\ Unmoved /\ UNCHANGED got
  /\ UNCHANGED <<landed, moves, kills>>

\* classify: a stat that does not follow links, through the directory held open.
Found(c) == target[dirFd[c]].kind

\* require_regular refuses everything else.
NotRegular(kind) == kind \in {"link", "dir"}

\* read_window and read_file up to the open.
ClassifyToRead(c) ==
  /\ stage[c] = "stat" /\ ~Writing(c) /\ fileOp[c] # "list"
  /\ \/ Found(c) = "file" /\ StepTo(c, "open") /\ SameRunner
     \/ Found(c) = "file" /\ FinishRunner(c, "refused") /\ UNCHANGED got     \* FileTooLarge
     \/ Found(c) = "none" /\ FinishRunner(c, "absent") /\ UNCHANGED got
     \/ NotRegular(Found(c)) /\ FinishRunner(c, "not_regular") /\ UNCHANGED got
  /\ Unmoved /\ UNCHANGED <<landed, moves, kills>>

\* write up to write_atomic.
ClassifyToWrite(c) ==
  /\ stage[c] = "stat" /\ Writing(c)
  /\ \/ ~NotRegular(Found(c)) /\ StepTo(c, "create") /\ SameRunner
     \/ NotRegular(Found(c)) /\ FinishRunner(c, "not_regular") /\ UNCHANGED got
  /\ Unmoved /\ UNCHANGED <<landed, moves, kills>>

\* list_dir: names and kinds, a link as itself; an entry gone meanwhile is left out.
ListDir(c) ==
  /\ stage[c] = "stat" /\ fileOp[c] = "list"
  /\ got' = [got EXCEPT ![c] = Entry(target[dirFd[c]].kind)]
  /\ FinishRunner(c, "ok")
  /\ Unmoved /\ UNCHANGED <<landed, moves, kills>>

\* A bug: the file is opened without O_NOFOLLOW.
Readable_Follows(entry) == IF entry.kind \in {"file", "link"} THEN {Regular(entry.marks)} ELSE {}

\* What an open of f with O_NOFOLLOW can read: no directory and no link.
Readable(entry) == IF entry.kind = "file" THEN {entry} ELSE {}

\* read_regular: the bytes may still be too many, or not text.
ReadRegular(c) ==
  /\ stage[c] = "open"
  /\ \/ \E entry \in Readable(target[dirFd[c]]), result \in {"ok", "refused"} :
          got' = [got EXCEPT ![c] = IF result = "ok" THEN entry ELSE @] /\ FinishRunner(c, result)
     \/ /\ Readable(target[dirFd[c]]) = {}
        /\ FinishRunner(c, IF Found(c) = "link" THEN "not_regular" ELSE "error") /\ UNCHANGED got
  /\ Unmoved /\ UNCHANGED <<landed, moves, kills>>

\* What the client writes.
NewContent(c) == Regular(got[c].marks \cup {c})
SetTemp(c, entry) == temps' = [temps EXCEPT ![dirFd[c]][runnerPid[c]] = entry]

\* write_atomic: a temporary of its own, named by the runner's pid, created exclusively.
CreateTemp(c) ==
  /\ stage[c] = "create"
  /\ \/ /\ temps[dirFd[c]][runnerPid[c]] = NoEntry
        /\ SetTemp(c, Regular({"partial"})) /\ StepTo(c, "fill") /\ SameRunner
     \/ /\ temps[dirFd[c]][runnerPid[c]] # NoEntry
        /\ FinishRunner(c, "error") /\ UNCHANGED <<temps, got>>
  /\ UNCHANGED <<parent, target, landed, moves, kills>>

\* write_tmp: mode, bytes and sync, any of which may fail.
FillTemp(c) ==
  /\ stage[c] = "fill"
  /\ \/ SetTemp(c, NewContent(c)) /\ StepTo(c, "rename")
     \/ StepTo(c, "clean") /\ UNCHANGED temps
  /\ SameRunner /\ UNCHANGED <<parent, target, landed, moves, kills>>

\* The rename over f: a directory in its place refuses it, and it may fail.
RenameTemp(c) ==
  /\ stage[c] = "rename"
  /\ \/ /\ target[dirFd[c]].kind # "dir"
        /\ target' = [target EXCEPT ![dirFd[c]] = temps[dirFd[c]][runnerPid[c]]]
        /\ SetTemp(c, NoEntry) /\ landed' = landed \cup {c} /\ StepTo(c, "sync")
     \/ StepTo(c, "clean") /\ UNCHANGED <<target, temps, landed>>
  /\ SameRunner /\ UNCHANGED <<parent, moves, kills>>

\* The directory is synced, for what it is worth, and the write is done.
SyncParent(c) ==
  /\ stage[c] = "sync" /\ FinishRunner(c, "ok")
  /\ Unmoved /\ UNCHANGED <<got, landed, moves, kills>>

\* The temporary of a failed write is unlinked.
UnlinkTemp(c) ==
  /\ stage[c] = "clean"
  /\ SetTemp(c, NoEntry) /\ FinishRunner(c, "error")
  /\ UNCHANGED <<parent, target, got, landed, moves, kills>>

\* The runner dies, or is killed, without an envelope.
RunnerKilled(c) ==
  /\ runner = c /\ kills < MaxKills /\ kills' = kills + 1
  /\ FinishRunner(c, "error")
  /\ Unmoved /\ UNCHANGED <<got, landed, moves>>

\* The caller turns the runner's result into its own answer.
Respond(c, answer) ==
  /\ stage[c] = "reply" /\ StepTo(c, "over")
  /\ outcome' = [outcome EXCEPT ![c] = answer]
  /\ Unmoved /\ UNCHANGED <<runnerPid, dirFd, got, runner, landed, moves, kills>>

\* read in a session: an absent file is an error.
SessionRead(c) ==
  fileOp[c] = "read" /\ Respond(c, IF outcome[c] = "absent" THEN "not_found" ELSE outcome[c])

\* list in a session: what is not a directory is named so.
SessionList(c) ==
  fileOp[c] = "list" /\ Respond(c, CASE outcome[c] = "absent" -> "not_found"
                                  [] outcome[c] = "not_regular" -> "not_directory"
                                  [] OTHER -> outcome[c])

\* write in a session.
SessionWrite(c) == fileOp[c] = "write" /\ Respond(c, outcome[c])

\* edit in a session: between its runs it applies the edits to what it has read.
SessionEdit(c) ==
  /\ fileOp[c] = "edit"
  /\ \/ /\ stage[c] = "reply" /\ outcome[c] = "ok" /\ got[c].kind = "file" /\ ~edited[c]
        /\ StepTo(c, "between") /\ edited' = [edited EXCEPT ![c] = TRUE]
        /\ Unmoved /\ UNCHANGED <<runnerPid, dirFd, got, outcome, runner, landed, moves, kills>>
     \/ Respond(c, "refused") /\ outcome[c] = "ok" /\ ~edited[c] /\ UNCHANGED edited
     \/ Respond(c, "not_found") /\ outcome[c] = "absent" /\ UNCHANGED edited
     \/ Respond(c, outcome[c]) /\ outcome[c] # "absent" /\ (edited[c] \/ outcome[c] # "ok")
        /\ UNCHANGED edited

\* A process of the session renames, removes, links or writes.
SessionMoves ==
  /\ moves < MaxMoves /\ moves' = moves + 1
  /\ \/ parent' \in {"d1", "link", "file", "none"} \cup Fresh /\ UNCHANGED target
     \/ \E d \in Directories, entry \in {Regular({"proc"}), Link, Entry("dir"), NoEntry} :
          target' = [target EXCEPT ![d] = entry] /\ UNCHANGED parent
  /\ UNCHANGED <<temps, stage, runnerPid, dirFd, got, edited, outcome, runner, landed, kills>>

RunnerStep(c) ==
  \/ StartRun(c) \/ WalkParents(c) \/ ClassifyToRead(c) \/ ClassifyToWrite(c) \/ ListDir(c)
  \/ ReadRegular(c) \/ CreateTemp(c) \/ FillTemp(c) \/ RenameTemp(c) \/ SyncParent(c)
  \/ UnlinkTemp(c) \/ RunnerKilled(c) \/ SessionRead(c) \/ SessionList(c) \/ SessionWrite(c)

RunnerNext ==
  /\ \/ \E c \in FileClients : (RunnerStep(c) /\ UNCHANGED edited) \/ SessionEdit(c)
     \/ SessionMoves
  /\ UNCHANGED fileOp

RunnerSpec == RunnerInit /\ [][RunnerNext]_runnerVars

-----------------------------------------------------------------------------
\* Nobody sees a file that is only half written, whenever the runner is killed.
NeverPartial == \A d \in Directories : "partial" \notin target[d].marks

\* No operation reads or writes through a link, however the names change under
\* it (file_op.rs:1-4).
StaysInside ==
  /\ \A c \in FileClients : "outside" \notin got[c].marks
  /\ target["out"] = Outside /\ \A p \in RunnerPids : temps["out"][p] = NoEntry

\* A temporary outlives its runner only when the runner was killed.
TempsRemoved ==
  Cardinality({<<d, p>> \in Directories \X RunnerPids : temps[d][p] # NoEntry})
    <= kills + IF runner = "idle" THEN 0 ELSE 1

\* A write or an edit answered ok has been in place, and one answered with an
\* error has not, unless its runner was killed.
AnswersMatch ==
  \A c \in FileClients : stage[c] = "over" /\ fileOp[c] \in {"write", "edit"} =>
    /\ outcome[c] = "ok" => c \in landed
    /\ c \in landed => outcome[c] = "ok" \/ kills > 0

\* What the session's tree and its callers see of the runners (file_op.rs:104-320).
FileOpsSafe == NeverPartial /\ StaysInside /\ TempsRemoved /\ AnswersMatch
=============================================================================
