----------------------------- MODULE Transcript -----------------------------
(***************************************************************************)
(* The output of an interactive command: the PTY reactor appends what the  *)
(* program writes to a transcript file, a timestamp at the start of every  *)
(* line (namespace-execution/src/pty.rs); readers cut bounded windows of   *)
(* numbered rows out of the growing file (transcript_rows.rs) for the      *)
(* yields of exec_command and write_command_stdin, which remember where    *)
(* the last one stopped (command/exec_value.rs, service/yield.rs), and for *)
(* read_command_lines, whose caller passes the offset it was given.        *)
(*                                                                         *)
(* A byte is one of three: a line end, a timestamp prefix (which a program *)
(* may print too) and any other.                                           *)
(***************************************************************************)
EXTENDS Integers, FiniteSets, SequencesExt

CONSTANTS
    MaxOutput,      \* bound: bytes the program writes
    MaxWindow,      \* max_transcript_window_bytes
    ReadLimits,     \* the limits a reader may ask for
    MaxReads        \* bound: windows read

ASSUME TranscriptAssumption ==
    {MaxOutput, MaxWindow, MaxReads} \subseteq Nat /\ ReadLimits \subseteq Nat \ {0}

VARIABLES
    produced,   \* ghost: every byte the program wrote
    tty,        \* bytes the reactor has not read
    transcript, \* the file
    sinkOpen,   \* the reactor still has the file open
    atLineStart,\* TranscriptTimestampPrefixer
    registered, \* the reader is in the reactor's queue
    program,    \* "running", "exited", then "finished" for its waiters
    snapshot,   \* next_snapshot_offset
    cursor,     \* the offset a caller of read_command_lines passes next
    given,      \* ghost: by kind of reader and row, the text it was given
    openRows,   \* ghost: rows given to it while they were the unfinished last
    cut,        \* ghost: rows it was told did not fit the window
    window,     \* the last window read
    reads

transcriptVars == <<produced, tty, transcript, sinkOpen, atLineStart, registered, program,
                    snapshot, cursor, given, openRows, cut, window, reads>>
outputVars == <<produced, tty, transcript, sinkOpen, atLineStart, registered, program>>
readVars == <<snapshot, cursor, given, openRows, cut, window, reads>>

EOL == 0
Stamp == 1
Other == 2
Unlimited == MaxOutput + 1

TranscriptInit ==
    /\ produced = <<>> /\ tty = <<>> /\ transcript = <<>>
    /\ sinkOpen \in BOOLEAN
    /\ atLineStart = TRUE /\ registered = TRUE /\ program = "running"
    /\ snapshot = 0 /\ cursor = 0
    /\ given = [kind \in {"yield", "lines"} |-> <<>>]
    /\ openRows = [kind \in {"yield", "lines"} |-> {}]
    /\ cut = [kind \in {"yield", "lines"} |-> {}]
    /\ window = [offset |-> 0, next |-> 0, total |-> 0, before |-> 0, more |-> FALSE,
                 rows |-> <<>>]
    /\ reads = 0

-----------------------------------------------------------------------------
(* Writing: pty.rs                                                         *)

\* prefix_at: a timestamp before the first byte of every line.
Prefixed(bytes, start) ==
    FoldLeft(LAMBDA acc, b :
                 [out |-> acc.out \o (IF acc.start THEN <<Stamp, b>> ELSE <<b>>),
                  start |-> b = EOL],
             [out |-> <<>>, start |-> start], bytes)

Produce(b) ==
    /\ program = "running" /\ Len(produced) < MaxOutput
    /\ produced' = Append(produced, b)
    /\ tty' = Append(tty, b)
    /\ UNCHANGED <<transcript, sinkOpen, atLineStart, registered, program, readVars>>

\* drain_output_reader reads what is there and hands it to the sink of
\* spawn_file_output_reader, which gives the file up after a failed write,
\* part of which may be in it.
Drain(n) ==
    /\ registered /\ n \in 1..Len(tty)
    /\ LET p == Prefixed(SubSeq(tty, 1, n), atLineStart) IN
         /\ atLineStart' = p.start
         /\ \/ /\ transcript' = IF sinkOpen THEN transcript \o p.out ELSE transcript
               /\ UNCHANGED sinkOpen
            \/ /\ sinkOpen /\ sinkOpen' = FALSE
               /\ \E k \in 0..(Len(p.out) - 1) : transcript' = transcript \o SubSeq(p.out, 1, k)
    /\ tty' = SubSeq(tty, n + 1, Len(tty))
    /\ UNCHANGED <<produced, registered, program, readVars>>

\* run_output_reactor drops a reader whose terminal has no other end and
\* nothing left to read.
DropReader ==
    /\ registered /\ program # "running" /\ tty = <<>>
    /\ registered' = FALSE
    /\ UNCHANGED <<produced, tty, transcript, sinkOpen, atLineStart, program, readVars>>

\* The program exits; its promise resolves whether or not the reactor has
\* read what it wrote.
ProgramEnds ==
    /\ program # "finished"
    /\ program' = IF program = "running" THEN "exited" ELSE "finished"
    /\ UNCHANGED <<produced, tty, transcript, sinkOpen, atLineStart, registered, readVars>>

-----------------------------------------------------------------------------
(* Windows: transcript_rows.rs                                             *)

LineEnds(file, from, to) == {i \in from..to : file[i] = EOL}

\* line_aligned_retained_start: the first line that starts within the last
\* MaxWindow bytes, or the end of the file.
RetainedStart_NoLookBehind(file) ==
    LET bound == Len(file) - MaxWindow
        ends == LineEnds(file, bound + 1, Len(file))
    IN  IF bound <= 0 THEN 0 ELSE IF ends = {} THEN Len(file) ELSE Min(ends)
RetainedStart(file) ==
    LET bound == Len(file) - MaxWindow
        ends == LineEnds(file, bound, Len(file))
    IN  IF bound <= 0 THEN 0 ELSE IF ends = {} THEN Len(file) ELSE Min(ends)

\* count_rows_before: line ends, and the unfinished line the end cuts.
CountRowsBefore(file, end) ==
    Cardinality(LineEnds(file, 1, end))
      + (IF end > 0 /\ file[end] # EOL THEN 1 ELSE 0)

StripTimestamp(line) == IF line # <<>> /\ Head(line) = Stamp THEN Tail(line) ELSE line

\* str::lines: a line per line end, and what follows the last one.
LinesOf(bytes) ==
    LET folded == FoldLeft(LAMBDA acc, b :
                               IF b = EOL THEN [done |-> Append(acc.done, acc.cur), cur |-> <<>>]
                                          ELSE [acc EXCEPT !.cur = Append(@, b)],
                           [done |-> <<>>, cur |-> <<>>], bytes)
    IN  IF folded.cur = <<>> THEN folded.done ELSE Append(folded.done, folded.cur)

\* parse_transcript_rows on a file the reactor wrote
ParseRows(bytes, first) ==
    LET lines == LinesOf(bytes)
    IN  [i \in DOMAIN lines |-> [offset |-> first + i - 1, text |-> StripTimestamp(lines[i])]]

WindowRows(rows, offset, limit, before) ==
    LET total == IF rows = <<>> THEN before ELSE Last(rows).offset + 1
        kept == SelectSeq(rows, LAMBDA r : r.offset >= offset)
        taken == SubSeq(kept, 1, IF limit < Len(kept) THEN limit ELSE Len(kept))
        next == IF taken # <<>> THEN Last(taken).offset + 1
                ELSE IF offset < before THEN before ELSE offset
    IN  [offset |-> offset, next |-> next, total |-> total, before |-> before,
         more |-> offset < before \/ next < total, rows |-> taken]

\* read_transcript
RetainedText(file) ==
    LET start == RetainedStart(file)
    IN  [text |-> SubSeq(file, start + 1, Len(file)), before |-> CountRowsBefore(file, start)]

\* transcript_window; a file that was never made is an empty one.
TranscriptWindow(offset, limit) ==
    LET kept == RetainedText(transcript)
    IN  WindowRows(ParseRows(kept.text, kept.before), offset, limit, kept.before)

-----------------------------------------------------------------------------
(* Reading: yield.rs and read_command_lines.rs                             *)

\* Whether a row and all that follows it in the file exceed a window.
TooFarBack(row) ==
    LET ends == SetToSortSeq(LineEnds(transcript, 1, Len(transcript)), <)
    IN  Len(transcript) - (IF row = 1 THEN 0 ELSE ends[row - 1]) > MaxWindow

\* What a reader keeps of a window (ghost).
Deliver(kind, w) ==
    LET rows == [o \in {r.offset + 1 : r \in ToSet(w.rows)} |->
                   (CHOOSE r \in ToSet(w.rows) : r.offset + 1 = o).text]
        new == DOMAIN rows \ DOMAIN given[kind]
        last == IF transcript # <<>> /\ Last(transcript) # EOL THEN {w.total} ELSE {}
    IN  /\ given' = [given EXCEPT ![kind] =
                     [o \in DOMAIN given[kind] \cup new |->
                        IF o \in new THEN rows[o] ELSE given[kind][o]]]
        /\ openRows' = [openRows EXCEPT ![kind] = @ \cup (last \cap new)]
        /\ cut' = [cut EXCEPT ![kind] =
                     @ \cup {o \in (w.offset + 1)..w.before : w.more /\ TooFarBack(o)}]
        /\ window' = w
        /\ reads < MaxReads /\ reads' = reads + 1

RunningCommandOutput ==
    /\ program # "finished"
    /\ LET w == TranscriptWindow(snapshot, Unlimited) IN
         Deliver("yield", w) /\ snapshot' = w.next
    /\ UNCHANGED <<outputVars, cursor>>

\* completed_command_output leaves the offset where it is, so that a second
\* terminal yield gives the same rows again.
CompletedCommandOutput ==
    /\ program = "finished"
    /\ Deliver("yield", TranscriptWindow(snapshot, Unlimited))
    /\ UNCHANGED <<outputVars, snapshot, cursor>>

ReadCommandLines(limit) ==
    /\ LET w == TranscriptWindow(cursor, limit) IN
         Deliver("lines", w) /\ cursor' = w.next
    /\ UNCHANGED <<outputVars, snapshot>>

TranscriptNext ==
    \/ \E b \in {EOL, Stamp, Other} : Produce(b)
    \/ \E n \in 1..MaxOutput : Drain(n)
    \/ DropReader \/ ProgramEnds
    \/ RunningCommandOutput \/ CompletedCommandOutput
    \/ \E limit \in ReadLimits : ReadCommandLines(limit)

TranscriptSpec == TranscriptInit /\ [][TranscriptNext]_transcriptVars

-----------------------------------------------------------------------------
(* Properties                                                              *)

\* What the program wrote, as far as the reactor has read it.
WrittenBytes == SubSeq(produced, 1, Len(produced) - Len(tty))

\* Until a write fails the file holds every byte the reactor read, in order
\* and one timestamp a line; a reader leaves the reactor with nothing unread.
FileWhole ==
    /\ IsPrefix(transcript, Prefixed(WrittenBytes, TRUE).out)
    /\ sinkOpen => transcript = Prefixed(WrittenBytes, TRUE).out
    /\ ~registered => tty = <<>>

\* A row carries the number its line has in the whole output, and exactly its
\* text so far, wherever the bounded window begins; rows are consecutive, and
\* the counts of a window are those of the file.
RowsTrue == \A kind \in {"yield", "lines"} : \A o \in DOMAIN given[kind] :
    /\ o <= Len(LinesOf(produced))
    /\ IsPrefix(given[kind][o], LinesOf(produced)[o])
    /\ o \notin openRows[kind] => given[kind][o] = LinesOf(produced)[o]

WindowTrue ==
    /\ \A i \in DOMAIN window.rows :
         window.rows[i].offset = Max({window.offset, window.before}) + i - 1
    /\ window.total <= Len(LinesOf(produced))
    /\ ~window.more /\ window.offset <= window.total =>
         Len(window.rows) = window.total - window.offset

\* A reader that continues where it was told to misses no row: one below its
\* offset was given to it, or did not fit the window when it asked and the
\* window said so.
NoRowSkipped ==
    /\ 1..snapshot \subseteq DOMAIN given["yield"] \cup cut["yield"]
    /\ 1..cursor \subseteq DOMAIN given["lines"] \cup cut["lines"]

\* The transcript of a command and what its readers are told of it.
TranscriptTrue == FileWhole /\ RowsTrue /\ WindowTrue /\ NoRowSkipped
=============================================================================
