------------------------------- MODULE Export -------------------------------
(***************************************************************************)
(* export_changes: the manager has the daemon fold the published layers    *)
(* into a spool file, pages the spool back in chunks over one connection   *)
(* per chunk, checks what it receives, and renders it as an archive or     *)
(* applies it to a directory. Publishes and collections go on in the       *)
(* daemon, replies get lost or come garbled, the daemon restarts.          *)
(*                                                                         *)
(* The spool of export e is a sequence of bytes; only its length and the   *)
(* position of each byte matter, so a byte is its position, and 0 a byte   *)
(* that the daemon did not send.                                           *)
(***************************************************************************)
EXTENDS Integers, Sequences, FiniteSets

CONSTANTS Exports,          \* export_changes requests
          Format,           \* [Exports -> {"dir", "archive"}]
          MaxSpool,         \* largest spool the fold can produce
          MaxStream,        \* max_stream_bytes
          ChunkBytes,       \* export_chunk_bytes
          MaxExportFaults,  \* bound on failures
          MaxCommits        \* bound on publishes

ASSUME ExportAssumption ==
    /\ Format \in [Exports -> {"dir", "archive"}]
    /\ MaxSpool \in Nat /\ MaxStream \in Nat /\ ChunkBytes \in Nat \ {0}
    /\ MaxExportFaults \in Nat /\ MaxCommits \in Nat

VARIABLES
  active,    \* version of the active manifest
  onDisk,    \* versions all of whose layers are on disk
  leases,    \* the exports that hold a lease
  flight,    \* the export in flight
  fold,      \* where the daemon stands with each export
  source,    \* the version each export folds
  spoolFile, \* the spool files: export to size
  spools,  \* the spools that can be read: export to total
  exporter,  \* where the manager stands with each export
  expected,  \* spool_bytes of the start result
  received,  \* the bytes received so far
  destination,    \* each destination: old, temp beside it, partly changed, new
  mishaps    \* failures so far

exportVars == <<active, onDisk, leases, flight, fold, source, spoolFile, spools, exporter,
                expected, received, destination, mishaps>>
daemonState == <<active, onDisk, leases, flight, fold, source, spoolFile, spools>>
managerState == <<exporter, expected, received, destination>>

NoExport == "none"
NoSpool == -1

ExportTypeOK ==
    /\ active \in 0 .. MaxCommits /\ onDisk \subseteq 0 .. MaxCommits
    /\ leases \subseteq Exports /\ flight \in Exports \cup {NoExport}
    /\ fold \in [Exports -> {"none", "leased", "spooled", "broken", "released", "over"}]
    /\ spoolFile \in [Exports -> NoSpool .. MaxSpool]
    /\ spools \in [Exports -> NoSpool .. MaxSpool]
    /\ exporter \in [Exports -> {"idle", "asked", "paging", "prepare", "render", "done", "failed"}]
    /\ expected \in [Exports -> NoSpool .. MaxSpool]
    /\ \A e \in Exports : Len(received[e]) <= MaxStream
    /\ destination \in [Exports -> {"old", "temp", "partial", "new"}]
    /\ mishaps \in 0 .. MaxExportFaults

ExportInit ==
    /\ active = 0 /\ onDisk = {0} /\ leases = {} /\ flight = NoExport
    /\ fold = [e \in Exports |-> "none"] /\ source = [e \in Exports |-> 0]
    /\ spoolFile = [e \in Exports |-> NoSpool] /\ spools = [e \in Exports |-> NoSpool]
    /\ exporter = [e \in Exports |-> "idle"] /\ expected = [e \in Exports |-> NoSpool]
    /\ received = [e \in Exports |-> <<>>] /\ destination = [e \in Exports |-> "old"]
    /\ mishaps = 0

Mishap == mishaps < MaxExportFaults /\ mishaps' = mishaps + 1
Folding(e, state) == fold' = [fold EXCEPT ![e] = state]
Manager(e, state) == exporter' = [exporter EXCEPT ![e] = state]

----------------------------------------------------------------------------
(* The daemon *)

\* A publish, and the collection of what no lease holds.
CommitAndCollect ==
    /\ active < MaxCommits
    /\ active' = active + 1
    /\ onDisk' = {active'} \cup {source[e] : e \in leases}
    /\ UNCHANGED <<leases, flight, fold, source, spoolFile, spools, managerState, mishaps>>

\* export_layerstack up to the lease. One export folds at a time.
BeginExport(e) ==
    /\ exporter[e] = "asked" /\ fold[e] = "none" /\ flight = NoExport
    /\ flight' = e /\ leases' = leases \cup {e}
    /\ source' = [source EXCEPT ![e] = active] /\ Folding(e, "leased")
    /\ UNCHANGED <<active, onDisk, spoolFile, spools, managerState, mishaps>>

\* "an export is already in flight", or the stack or its lease cannot be had.
RefuseExport(e) ==
    /\ exporter[e] = "asked" /\ fold[e] = "none"
    /\ \/ flight # NoExport /\ UNCHANGED mishaps
       \/ flight = NoExport /\ Mishap
    /\ Folding(e, "over")
    /\ UNCHANGED <<active, onDisk, leases, flight, source, spoolFile, spools, managerState>>

\* fold_delta_winners, emit_delta_stream: a failure leaves what was written so far.
FoldAndSpool(e) ==
    /\ fold[e] = "leased"
    /\ \/ /\ Folding(e, "spooled") /\ UNCHANGED mishaps
          /\ \E n \in 0 .. MaxSpool : spoolFile' = [spoolFile EXCEPT ![e] = n]
       \/ Folding(e, "broken") /\ Mishap /\ spoolFile' = [spoolFile EXCEPT ![e] = 0]
    /\ UNCHANGED <<active, onDisk, leases, flight, source, spools, managerState>>

\* The lease goes, whatever became of the fold; on an error of either the spool goes
\* too and the flight is over.
ReleaseLease(e) ==
    /\ fold[e] \in {"spooled", "broken"}
    /\ leases' = leases \ {e}
    /\ \/ fold[e] = "spooled" /\ Folding(e, "released") /\ UNCHANGED <<spoolFile, flight, mishaps>>
       \/ /\ Folding(e, "over") /\ flight' = NoExport
          /\ spoolFile' = [spoolFile EXCEPT ![e] = NoSpool]
          /\ \/ fold[e] = "spooled" /\ Mishap
             \/ fold[e] = "broken" /\ UNCHANGED mishaps
    /\ UNCHANGED <<active, onDisk, source, spools, managerState>>

\* The spool is measured and registered. An error here returns with the file in place.
RegisterSpool(e) ==
    /\ fold[e] = "released"
    /\ Folding(e, "over") /\ flight' = NoExport
    /\ \/ spools' = [spools EXCEPT ![e] = spoolFile[e]] /\ UNCHANGED mishaps
       \/ Mishap /\ UNCHANGED spools
    /\ UNCHANGED <<active, onDisk, leases, source, spoolFile, managerState>>

\* The daemon dies and boots: the registry was in memory, leases and the flight too,
\* and the boot removes the spool directory.
DaemonRestarts ==
    /\ Mishap
    /\ leases' = {} /\ flight' = NoExport
    /\ fold' = [e \in Exports |-> IF fold[e] = "none" THEN "none" ELSE "over"]
    /\ spoolFile' = [e \in Exports |-> NoSpool] /\ spools' = [e \in Exports |-> NoSpool]
    /\ UNCHANGED <<active, onDisk, source, managerState>>

----------------------------------------------------------------------------
(* The manager *)

\* The destination is looked at before anything is asked of the daemon.
AskExport(e) ==
    /\ exporter[e] = "idle"
    /\ \E fit \in BOOLEAN : Manager(e, IF fit THEN "asked" ELSE "failed")
    /\ UNCHANGED <<daemonState, expected, received, destination, mishaps>>

Fails(e) == Manager(e, "failed") /\ UNCHANGED <<expected, received>>

\* A reply that is lost, late or unreadable ends the export; the daemon is not told.
CallFails(e) ==
    /\ exporter[e] \in {"asked", "paging"} /\ Mishap
    /\ Fails(e) /\ UNCHANGED <<daemonState, destination>>

StartAnswered(e) ==
    /\ exporter[e] = "asked" /\ fold[e] = "over"
    /\ \/ spools[e] \in 0 .. MaxStream
          /\ Manager(e, "paging") /\ expected' = [expected EXCEPT ![e] = spools[e]]
          /\ UNCHANGED received
       \/ spools[e] \notin 0 .. MaxStream /\ Fails(e)
    /\ UNCHANGED <<daemonState, destination, mishaps>>

\* read_export_chunk: the bytes from the offset on, at most a chunk of them.
Chunk(e, offset) ==
    LET n == IF spoolFile[e] - offset < ChunkBytes THEN spoolFile[e] - offset ELSE ChunkBytes
    IN  [offset |-> offset, bytes |-> [i \in 1 .. n |-> offset + i], len |-> n,
         total |-> spools[e], eof |-> offset + n >= spools[e]]

Foreign(n) == [i \in 1 .. n |-> 0]

\* What may arrive in place of a reply: a field that is not the daemon's, fewer
\* bytes than it says or than there are, or bytes that are not the daemon's,
\* as many as there should be or more.
GarbledReply(reply) ==
    {[reply EXCEPT !.offset = @ + 1], [reply EXCEPT !.total = @ + 1],
     [reply EXCEPT !.eof = ~@], [reply EXCEPT !.bytes = <<>>],
     [reply EXCEPT !.bytes = <<>>, !.len = 0],
     [reply EXCEPT !.bytes = Foreign(reply.len)],
     [reply EXCEPT !.bytes = @ \o Foreign(reply.len), !.len = 2 * @]}

\* Or the reply to another page, once more.
OtherPages(e) == {Chunk(e, offset) : offset \in 0 .. spoolFile[e] - 1}

\* Mutant: a final chunk is taken without a look at the length of the stream.
Acceptable_Truncated(e, reply) ==
    LET next == Len(received[e]) + Len(reply.bytes)
    IN  /\ reply.offset = Len(received[e]) /\ reply.len = Len(reply.bytes)
        /\ reply.total = expected[e] /\ next <= MaxStream /\ next <= expected[e]
        /\ (reply.bytes = <<>>) => reply.eof
        /\ next = expected[e] => reply.eof

\* page_stream's checks of one reply.
Acceptable(e, reply) ==
    LET next == Len(received[e]) + Len(reply.bytes)
    IN  /\ reply.offset = Len(received[e]) /\ reply.len = Len(reply.bytes)
        /\ reply.total = expected[e] /\ next <= MaxStream /\ next <= expected[e]
        /\ (reply.bytes = <<>>) => reply.eof
        /\ reply.eof <=> next = expected[e]

Take(e, reply) ==
    \/ /\ Acceptable(e, reply)
       /\ received' = [received EXCEPT ![e] = @ \o reply.bytes]
       /\ Manager(e, IF reply.eof THEN "prepare" ELSE "paging")
       /\ UNCHANGED expected
    \/ ~Acceptable(e, reply) /\ Fails(e)

\* One chunk: the daemon unlinks the spool once it has read its last byte.
PageChunk(e) ==
    /\ exporter[e] = "paging" /\ spools[e] # NoSpool
    /\ LET reply == Chunk(e, Len(received[e])) IN
         /\ \/ Take(e, reply) /\ UNCHANGED mishaps
            \/ Mishap /\ \E r \in GarbledReply(reply) \cup OtherPages(e) : Take(e, r)
         /\ spools' = [spools EXCEPT ![e] = IF reply.eof THEN NoSpool ELSE @]
         /\ spoolFile' = [spoolFile EXCEPT ![e] = IF reply.eof THEN NoSpool ELSE @]
    /\ UNCHANGED <<active, onDisk, leases, flight, fold, source, destination>>

ExportNotFound(e) ==
    /\ exporter[e] = "paging" /\ spools[e] = NoSpool
    /\ Fails(e) /\ UNCHANGED <<daemonState, destination, mishaps>>

\* The destination is resolved and looked at again.
PrepareDest(e) ==
    /\ exporter[e] = "prepare"
    /\ \/ Manager(e, "render") /\ UNCHANGED <<expected, received, mishaps>>
       \/ Mishap /\ Fails(e)
    /\ UNCHANGED <<daemonState, destination>>

\* write_archive: a temporary sibling, then one rename; an error removes the sibling.
WriteTemp(e) ==
    /\ Format[e] = "archive" /\ exporter[e] = "render" /\ destination[e] = "old"
    /\ destination' = [destination EXCEPT ![e] = "temp"]
    /\ UNCHANGED <<daemonState, exporter, expected, received, mishaps>>

RenameArchive(e) ==
    /\ exporter[e] = "render" /\ destination[e] = "temp"
    /\ \/ Manager(e, "done") /\ destination' = [destination EXCEPT ![e] = "new"]
          /\ UNCHANGED <<expected, received, mishaps>>
       \/ Mishap /\ Fails(e) /\ destination' = [destination EXCEPT ![e] = "old"]
    /\ UNCHANGED daemonState

\* apply_dir_delta: the whole stream is planned before the first change; from then on
\* an error leaves the directory part way.
PlanStream(e) ==
    /\ Format[e] = "dir" /\ exporter[e] = "render" /\ destination[e] = "old"
    /\ \/ destination' = [destination EXCEPT ![e] = "partial"] /\ UNCHANGED <<exporter, expected, received, mishaps>>
       \/ Mishap /\ Fails(e) /\ UNCHANGED destination
    /\ UNCHANGED daemonState

ApplyContent(e) ==
    /\ exporter[e] = "render" /\ destination[e] = "partial"
    /\ \/ Manager(e, "done") /\ destination' = [destination EXCEPT ![e] = "new"]
          /\ UNCHANGED <<expected, received, mishaps>>
       \/ Mishap /\ Fails(e) /\ UNCHANGED destination
    /\ UNCHANGED daemonState

ExportStep(e) ==
    \/ BeginExport(e) \/ RefuseExport(e) \/ FoldAndSpool(e) \/ ReleaseLease(e) \/ RegisterSpool(e)
    \/ StartAnswered(e) \/ PageChunk(e) \/ ExportNotFound(e) \/ PrepareDest(e)
    \/ WriteTemp(e) \/ RenameArchive(e) \/ PlanStream(e) \/ ApplyContent(e)

ExportNext ==
    \/ CommitAndCollect \/ DaemonRestarts
    \/ \E e \in Exports : AskExport(e) \/ CallFails(e) \/ ExportStep(e)

\* Threads run and calls are answered.
ExportFairness == \A e \in Exports : WF_exportVars(ExportStep(e))

ExportSpec == ExportInit /\ [][ExportNext]_exportVars /\ ExportFairness

----------------------------------------------------------------------------
(* Properties *)

\* "the snapshot lease pins every source layer from fold start to spool completion":
\* a fold never runs on layers that have been collected.
FoldPinned == \A e \in Exports : fold[e] = "leased" => source[e] \in onDisk

\* The stream is as long as the spool, and every byte in it that the daemon sent
\* is at its place.
Whole(e) ==
    /\ Len(received[e]) = expected[e]
    /\ \A i \in DOMAIN received[e] : received[e][i] \in {i, 0}

\* A stream that is rendered is the spool, every byte of it once and in order,
\* whichever replies came garbled, repeated or cut short; a page carries no
\* checksum, so bytes of another origin in it are not told from the daemon's
\* (export_changes.rs:192-252).
StreamWhole ==
    \A e \in Exports : exporter[e] \in {"prepare", "render", "done"} => Whole(e)

\* Until the stream is whole nothing at the destination has changed, an archive is
\* there complete or not at all, and no temporary file outlives its export.
CompleteOrAbsent ==
    \A e \in Exports :
        /\ destination[e] # "old" => Whole(e)
        /\ destination[e] = "temp" => exporter[e] = "render"
        /\ exporter[e] = "failed" => destination[e] = "old" \/ (Format[e] = "dir" /\ destination[e] = "partial")

\* A spool that can be read is on disk, and the lease and the flight of an export
\* that is over are gone.
SpoolsHeld ==
    /\ \A e \in Exports : spools[e] # NoSpool => spools[e] = spoolFile[e]
    /\ \A e \in leases : fold[e] \in {"leased", "spooled", "broken"}
    /\ flight # NoExport => fold[flight] \notin {"none", "over"}

\* An export delivers a whole view or nothing, and the layers and the spool it
\* reads stay until it has read them.
ExportSafe == ExportTypeOK /\ StreamWhole /\ CompleteOrAbsent /\ FoldPinned /\ SpoolsHeld
============================================================================
