------------------------------ MODULE EventLog ------------------------------
(* The two-segment event store of one sandbox                                *)
(* (sandbox-observability/telemetry/src/sink.rs, lines.rs, and the scan of   *)
(* reader.rs).  Producers in several processes (the daemon, and the runner   *)
(* children it forks) append under a cross-process flock; queries read the   *)
(* rotated and then the active segment without it.                           *)
(*                                                                           *)
(* A segment is a sequence of written chunks.  A chunk that lacks its        *)
(* newline is what a producer that died, or whose write failed, left behind; *)
(* a line is the run of chunks up to and including one that has it.          *)
(* `acked` and `since` are history variables.                                *)
EXTENDS Integers, Sequences, SequencesExt, FiniteSetsExt

CONSTANTS
  Producers,        \* processes that hold a Sink on this store
  Queries,          \* readers
  SegmentCap,       \* max_disk_bytes / 2 of each producer's Sink: the daemon's is
                    \* configured, the runners' is the default
  RecordSizes,      \* encoded sizes, newline included
  MaxLine,          \* max_line_bytes
  MarkerSize,       \* size of a truncation marker
  MaxRecords,       \* bound on the records appended
  MaxLogFaults,     \* bound on deaths and failed writes
  MaxQueries        \* bound on the queries made

ASSUME LogAssumption ==
  /\ SegmentCap \in [Producers -> Nat \ {0}]
  /\ RecordSizes \subseteq Nat \ {0}
  /\ MarkerSize \in Nat \ {0} /\ MaxLine \in Nat \ {0}

VARIABLES
  segments,         \* "rotated" and "active": sequences of chunks; a missing file is <<>>
  flock,            \* the producer that holds the lock file, or Nobody
  producer,         \* [at, line]: where each producer is, and the line it appends
  compacted,        \* the `.compact.<pid>` file of each producer: a sequence of chunks
  reader,           \* [at, got]: where each query is, and the lines it visited
  recorded,         \* records handed to a sink so far
  logFaults, queries,
  acked,            \* records whose append returned Ok with the line written
  since             \* per query: [acked: records acknowledged when it began, moved: a rotation since]

logVars == <<segments, flock, producer, compacted, reader, recorded, logFaults,
             queries, acked, since>>

NoProducer == "nobody"
Chunk(rec, bytes, whole) == [rec |-> rec, bytes |-> bytes, whole |-> whole]
NoLine == Chunk(0, 0, TRUE)
SegmentBytes(seg) == FoldLeft(LAMBDA n, c : n + c.bytes, 0, seg)

LogInit ==
  /\ segments = [s \in {"rotated", "active"} |-> <<>>]
  /\ flock = NoProducer
  /\ producer = [p \in Producers |-> [at |-> "idle", line |-> NoLine]]
  /\ compacted = [p \in Producers |-> <<>>]
  /\ reader = [q \in Queries |-> [at |-> "idle", got |-> <<>>]]
  /\ recorded = 0 /\ logFaults = 0 /\ queries = 0 /\ acked = <<>>
  /\ since = [q \in Queries |-> [acked |-> {}, moved |-> FALSE]]

\* for_each_complete_line: the newline-terminated lines, each the run of chunks
\* it is made of.  Lines over max_line_bytes and a partial tail are passed over.
CompleteLines(seg) ==
  LET step(acc, c) ==
        LET line == Append(acc.run, c) IN
        IF ~c.whole THEN [acc EXCEPT !.run = line]
        ELSE [run |-> <<>>, lines |-> IF SegmentBytes(line) > MaxLine THEN acc.lines
                                      ELSE Append(acc.lines, line)]
  IN FoldLeft(step, [run |-> <<>>, lines |-> <<>>], seg).lines

\* The mutant: a torn tail is no reason to compact.
NeedsCompaction_SizeOnly(seg, cap) == SegmentBytes(seg) > cap

\* compact_segment, its decision: over the cap, or not ending in a newline.
NeedsCompaction(seg, cap) ==
  seg # <<>> /\ (SegmentBytes(seg) > cap \/ ~Last(seg).whole)

\* compact_segment, its output: complete lines, the oldest dropped until the
\* rest is within the cap.
CompactSegment(seg, cap) ==
  LET kept == CompleteLines(seg)
      excess == SegmentBytes(FlattenSeq(kept)) - cap
      keep(acc, line) == IF acc.skipped < excess
                         THEN [acc EXCEPT !.skipped = @ + SegmentBytes(line)]
                         ELSE [acc EXCEPT !.out = @ \o line]
  IN FoldLeft(keep, [skipped |-> 0, out |-> <<>>], kept).out

\* EncodedLine::serialize / serialize_strict and append_inner: the size that
\* goes to disk; 0 drops the record.
EncodedSize(size, strict, cap) ==
  CASE size <= MaxLine /\ size <= cap -> size
    [] ~strict /\ MarkerSize <= MaxLine /\ MarkerSize <= cap -> MarkerSize
    [] OTHER -> 0

-----------------------------------------------------------------------------
(* Producers.                                                                *)

Goes(p, at) == producer' = [producer EXCEPT ![p].at = at]
LogUnmoved == UNCHANGED <<reader, queries, recorded>>

\* append / append_strict: the record is encoded; an oversized one is replaced
\* by a marker or dropped before the lock is asked for.
AppendRecord(p) ==
  /\ producer[p].at = "idle" /\ recorded < MaxRecords
  /\ recorded' = recorded + 1
  /\ \E size \in RecordSizes, strict \in BOOLEAN :
       LET n == EncodedSize(size, strict, SegmentCap[p]) IN
       producer' = IF n = 0 THEN producer
                   ELSE [producer EXCEPT ![p] =
                           [at |-> "lock", line |-> Chunk(recorded + 1, n, TRUE)]]
  /\ UNCHANGED <<segments, flock, compacted, reader, logFaults, queries, acked, since>>

\* append_inner: the exclusive flock.
LockStore(p) ==
  /\ producer[p].at = "lock" /\ flock = NoProducer
  /\ flock' = p
  /\ Goes(p, "rotated")
  /\ UNCHANGED <<segments, compacted, logFaults, acked, since>> /\ LogUnmoved

\* compact_segment on the rotated and then the active file: the temporary file
\* is written and synced, then renamed over the segment.
WriteCompacted(p) ==
  /\ producer[p].at \in {"rotated", "active"}
  /\ LET s == producer[p].at IN
       IF NeedsCompaction(segments[s], SegmentCap[p])
       THEN /\ compacted' = [compacted EXCEPT ![p] = CompactSegment(segments[s], SegmentCap[p])]
            /\ Goes(p, IF s = "rotated" THEN "rename_rotated" ELSE "rename_active")
       ELSE /\ Goes(p, IF s = "rotated" THEN "active" ELSE "measure")
            /\ UNCHANGED compacted
  /\ UNCHANGED <<segments, flock, logFaults, acked, since>> /\ LogUnmoved

RenameCompacted(p) ==
  /\ producer[p].at \in {"rename_rotated", "rename_active"}
  /\ LET s == IF producer[p].at = "rename_rotated" THEN "rotated" ELSE "active" IN
       /\ segments' = [segments EXCEPT ![s] = compacted[p]]
       /\ Goes(p, IF s = "rotated" THEN "active" ELSE "measure")
  /\ compacted' = [compacted EXCEPT ![p] = <<>>]
  /\ UNCHANGED <<flock, logFaults, acked, since>> /\ LogUnmoved

\* append_locked: when the line would not fit the active segment the rotated
\* one is removed, and the active one takes its place.
Measure(p) ==
  /\ producer[p].at = "measure"
  /\ Goes(p, IF SegmentBytes(segments["active"]) + producer[p].line.bytes > SegmentCap[p]
             THEN "remove" ELSE "write")
  /\ UNCHANGED <<segments, flock, compacted, logFaults, acked, since>> /\ LogUnmoved

RemoveRotated(p) ==
  /\ producer[p].at = "remove"
  /\ segments' = [segments EXCEPT !["rotated"] = <<>>]
  /\ Goes(p, "rename")
  /\ UNCHANGED <<flock, compacted, logFaults, acked, since>> /\ LogUnmoved

RotateActive(p) ==
  /\ producer[p].at = "rename"
  /\ segments' = [rotated |-> segments["active"], active |-> <<>>]
  /\ since' = [q \in Queries |-> [since[q] EXCEPT !.moved = TRUE]]
  /\ Goes(p, "write")
  /\ UNCHANGED <<flock, compacted, logFaults, acked>> /\ LogUnmoved

\* append_locked: the append write, then the unlock.
WriteLine(p) ==
  /\ producer[p].at = "write"
  /\ segments' = [segments EXCEPT !["active"] = Append(@, producer[p].line)]
  /\ acked' = Append(acked, producer[p].line.rec)
  /\ producer' = [producer EXCEPT ![p] = [at |-> "idle", line |-> NoLine]]
  /\ flock' = NoProducer
  /\ UNCHANGED <<compacted, logFaults, since>> /\ LogUnmoved

\* A step fails: the error is counted and the lock released.  The same happens
\* when the process dies, whose lock the kernel releases.  A write that fails
\* or is cut short leaves the front of its line.
StopAppend(p) ==
  /\ producer[p].at # "idle" /\ logFaults < MaxLogFaults
  /\ logFaults' = logFaults + 1
  /\ \/ UNCHANGED segments
     \/ /\ producer[p].at = "write" /\ producer[p].line.bytes > 1
        /\ \E n \in 1 .. producer[p].line.bytes - 1 :
             segments' = [segments EXCEPT !["active"] =
                            Append(@, Chunk(producer[p].line.rec, n, FALSE))]
  /\ producer' = [producer EXCEPT ![p] = [at |-> "idle", line |-> NoLine]]
  /\ flock' = IF flock = p THEN NoProducer ELSE flock
  /\ UNCHANGED <<compacted, acked, since>> /\ LogUnmoved

-----------------------------------------------------------------------------
(* Queries.                                                                  *)

StartQuery(q) ==
  /\ reader[q].at \in {"idle", "done"} /\ queries < MaxQueries
  /\ queries' = queries + 1
  /\ reader' = [reader EXCEPT ![q] = [at |-> "rotated", got |-> <<>>]]
  /\ since' = [since EXCEPT ![q] = [acked |-> ToSet(acked), moved |-> FALSE]]
  /\ UNCHANGED <<segments, flock, producer, compacted, recorded, logFaults, acked>>

\* for_each_header: the lines of one segment that decode as a record.  A line
\* of two chunks is two halves of records, which does not.
Visited(s) == SelectSeq(CompleteLines(segments[s]), LAMBDA line : Len(line) = 1)

ScanRotated(q) ==
  /\ reader[q].at = "rotated"
  /\ reader' = [reader EXCEPT ![q] = [at |-> "active", got |-> @.got \o Visited("rotated")]]
  /\ UNCHANGED <<segments, flock, producer, compacted, recorded, logFaults, queries, acked, since>>

ScanActive(q) ==
  /\ reader[q].at = "active"
  /\ reader' = [reader EXCEPT ![q] = [at |-> "done", got |-> @.got \o Visited("active")]]
  /\ UNCHANGED <<segments, flock, producer, compacted, recorded, logFaults, queries, acked, since>>

LogNext ==
  \/ \E p \in Producers :
       \/ AppendRecord(p) \/ LockStore(p) \/ WriteCompacted(p) \/ RenameCompacted(p)
       \/ Measure(p) \/ RemoveRotated(p) \/ RotateActive(p) \/ WriteLine(p) \/ StopAppend(p)
  \/ \E q \in Queries : StartQuery(q) \/ ScanRotated(q) \/ ScanActive(q)

LogSpec == LogInit /\ [][LogNext]_logVars

-----------------------------------------------------------------------------

OnDisk == ToSet(segments["rotated"] \o segments["active"])
WholeRecords == {c.rec : c \in {d \in OnDisk : d.whole}}

\* No torn line ever merges with a record written after it: every complete line
\* is one record, whichever producer died or failed before it was written.
LinesWhole ==
  \A s \in DOMAIN segments : \A line \in ToSet(CompleteLines(segments[s])) : Len(line) = 1

\* The records of the store are in the order they were acknowledged, and the
\* last acknowledged one is there.
InAckOrder ==
  /\ \A i, j \in DOMAIN (segments["rotated"] \o segments["active"]) :
       LET log == segments["rotated"] \o segments["active"] IN
       i < j /\ log[i].whole /\ log[j].whole =>
         \E a, b \in DOMAIN acked : a < b /\ acked[a] = log[i].rec /\ acked[b] = log[j].rec
  /\ acked # <<>> => Last(acked) \in WholeRecords

\* A record is let go only when the segments are full, by the measure of the
\* producer with the smallest: what is left and one more line are over one of its
\* segments.
NoEarlyEviction ==
  (\E i \in DOMAIN acked : acked[i] \notin WholeRecords) =>
    SegmentBytes(segments["rotated"] \o segments["active"])
      + Max({n \in RecordSizes : n <= MaxLine} \union {MarkerSize})
        > Min({SegmentCap[p] : p \in Producers})

\* What a query returns is in order and without repetition, and unless a
\* rotation falls between its two scans it misses no record that was there when
\* it began and still is when it ends.
QueriesTrue ==
  \A q \in Queries :
    LET got == [i \in DOMAIN reader[q].got |-> reader[q].got[i][1].rec] IN
    /\ \A i, j \in DOMAIN got : i < j =>
         \E a, b \in DOMAIN acked : a < b /\ acked[a] = got[i] /\ acked[b] = got[j]
    /\ reader[q].at = "done" /\ ~since[q].moved =>
         since[q].acked \intersect WholeRecords \subseteq ToSet(got)

\* docs/sandbox-observability-resource-isolation-spec.md "Strict event-store
\* budget", as far as the code keeps it: whoever writes a line has brought both
\* segments, the line included, within its own half, whatever producers with other
\* budgets left there; so the store never outgrows the largest of the budgets.
BudgetKept ==
  /\ \A p \in Producers : producer[p].at = "write" =>
       /\ SegmentBytes(segments["rotated"]) <= SegmentCap[p]
       /\ SegmentBytes(segments["active"]) + producer[p].line.bytes <= SegmentCap[p]
  /\ \A s \in DOMAIN segments :
       SegmentBytes(segments[s]) <= Max({SegmentCap[p] : p \in Producers})

\* sink.rs append_locked and compact_segment, lines.rs, reader.rs
\* for_each_header: whatever producers die between the steps of an append, the
\* store holds whole records in order, loses none early, and queries that take
\* no lock read them in order.
LogTrue == LinesWhole /\ InAckOrder /\ NoEarlyEviction /\ QueriesTrue /\ BudgetKept

-----------------------------------------------------------------------------
(* How a query keeps the newest lines it visits within its caps              *)
(* (sandbox-observability/telemetry/src/reader.rs): the byte arena of        *)
(* raw_json_events, and the list of owned lines of collect_lines and         *)
(* retain_line_entry, fed the same lines in the same order.                  *)
(*                                                                           *)
(* A line is its timestamp and its length; a byte of the arena is the number *)
(* of the line it belongs to.  Lines come in file order, so equal and        *)
(* decreasing timestamps occur: producers stamp a record before they take    *)
(* the store's lock.                                                         *)

CONSTANTS
  MaxKept,          \* max_records
  MaxBytes,         \* max_response_bytes
  Stamps,           \* timestamps
  Lengths,          \* line lengths, without the newline
  MaxFed            \* bound on the lines a query visits

\* MAX_LINE_BYTES is 16 KiB and MAX_RESPONSE_BYTES 256 KiB.  (At a length of
\* MaxBytes - 2, which insert admits, the arena would empty itself and keep
\* nothing.)
ASSUME ArenaAssumption ==
  /\ MaxKept \in Nat \ {0}
  /\ \A n \in Lengths : n \in Nat \ {0} /\ n + 3 <= MaxBytes

VARIABLES
  fed,              \* the lines visited, [ts, len]
  kept,             \* RawLineArena.entries, a set of [ts, sequence, start, len]
  storage,          \* RawLineArena.storage
  retained,         \* RawLineArena.retained_bytes
  owned             \* collect_lines: [entries, bytes]

arenaVars == <<fed, kept, storage, retained, owned>>

ArenaInit ==
  /\ fed = <<>> /\ kept = {} /\ storage = <<>> /\ retained = 2
  /\ owned = [entries |-> <<>>, bytes |-> 2]

Older(a, b) == a.ts < b.ts \/ (a.ts = b.ts /\ a.sequence < b.sequence)
OldestOf(entries) == CHOOSE e \in entries : \A f \in entries \ {e} : Older(e, f)

NoSlot == [start |-> 0, len |-> 0]

\* insert: an evicted slot takes the line when it is long enough.
Reusable(gone, len) == gone.len >= len

RECURSIVE MakeRoom(_, _, _, _)
\* insert, its eviction loop: the oldest go until the line fits; the
\* smallest reusable slot among them is remembered.
MakeRoom(entries, bytes, len, slot) ==
  IF Cardinality(entries) < MaxKept /\ bytes + len + 1 <= MaxBytes
  THEN [entries |-> entries, bytes |-> bytes, slot |-> slot]
  ELSE LET gone == OldestOf(entries)
           fits == Reusable(gone, len) /\ (slot = NoSlot \/ gone.len < slot.len)
       IN MakeRoom(entries \ {gone}, bytes - (gone.len + 1), len,
                   IF fits THEN [start |-> gone.start, len |-> gone.len] ELSE slot)

\* Bytes `from`..`from`+`len` overwritten with line `n`; the arena grows at its end.
Written(bytes, from, len, n) ==
  [i \in 1 .. Max({Len(bytes), from + len}) |-> IF i > from /\ i <= from + len THEN n ELSE bytes[i]]

\* compact: the slices move down, in the order of their starts.
Compact(entries, bytes) ==
  LET sorted == SetToSortSeq(entries, LAMBDA a, b : a.start < b.start)
      move(acc, e) ==
        [entries |-> acc.entries \union {[e EXCEPT !.start = acc.cursor]},
         bytes |-> [i \in DOMAIN acc.bytes |->
                      IF i > acc.cursor /\ i <= acc.cursor + e.len
                      THEN acc.bytes[i - acc.cursor + e.start] ELSE acc.bytes[i]],
         cursor |-> acc.cursor + e.len]
      r == FoldLeft(move, [entries |-> {}, bytes |-> bytes, cursor |-> 0], sorted)
  IN [entries |-> r.entries, bytes |-> SubSeq(r.bytes, 1, r.cursor)]

\* RawLineArena::insert.  A candidate older than all the kept is let go when
\* there is no room for it.
ArenaInsert(ts, len, n) ==
  LET candidate == [ts |-> ts, sequence |-> n]
      full == Cardinality(kept) >= MaxKept \/ retained + len + 1 > MaxBytes
      room == MakeRoom(kept, retained, len, NoSlot)
      fresh == IF Len(storage) + len > MaxBytes THEN Compact(room.entries, storage)
               ELSE [entries |-> room.entries, bytes |-> storage]
      entry(start) == [ts |-> ts, sequence |-> n, start |-> start, len |-> len]
  IN IF full /\ kept # {} /\ Older(candidate, OldestOf(kept))
     THEN UNCHANGED <<kept, storage, retained>>
     ELSE /\ retained' = room.bytes + len + 1
          /\ IF room.slot # NoSlot
             THEN /\ kept' = room.entries \union {entry(room.slot.start)}
                  /\ storage' = Written(storage, room.slot.start, len, n)
             ELSE /\ kept' = fresh.entries \union {entry(Len(fresh.bytes))}
                  /\ storage' = Written(fresh.bytes, Len(fresh.bytes), len, n)

-----------------------------------------------------------------------------
(* collect_lines and retain_line_entry.                                      *)

\* min_by_key: the first of the smallest timestamps.
FirstOldest(entries) ==
  CHOOSE i \in DOMAIN entries :
    /\ \A j \in DOMAIN entries : entries[i].ts <= entries[j].ts
    /\ \A j \in 1 .. i - 1 : entries[i].ts < entries[j].ts

\* swap_remove: the last entry takes the place of the removed one.
SwapRemove(entries, i) ==
  SubSeq([entries EXCEPT ![i] = entries[Len(entries)]], 1, Len(entries) - 1)

RECURSIVE DropOldest(_, _)
DropOldest(list, len) ==
  IF Len(list.entries) < MaxKept /\ list.bytes + len + 1 <= MaxBytes THEN list
  ELSE LET i == FirstOldest(list.entries) IN
       DropOldest([entries |-> SwapRemove(list.entries, i),
                   bytes |-> list.bytes - (list.entries[i].len + 1)], len)

RetainLineEntry(list, ts, len, n) ==
  LET full == Len(list.entries) >= MaxKept \/ list.bytes + len + 1 > MaxBytes
      room == DropOldest(list, len)
  IN IF full /\ ts < list.entries[FirstOldest(list.entries)].ts THEN list
     ELSE [entries |-> Append(room.entries, [ts |-> ts, len |-> len, sequence |-> n]),
           bytes |-> room.bytes + len + 1]

\* collect_lines: the entries sorted by timestamp (a stable sort).
CollectLines(list) ==
  SortSeq([i \in DOMAIN list.entries |-> [entry |-> list.entries[i], at |-> i]],
          LAMBDA a, b : a.entry.ts < b.entry.ts \/ (a.entry.ts = b.entry.ts /\ a.at < b.at))

Visit(ts, len) ==
  /\ Len(fed) < MaxFed
  /\ fed' = Append(fed, [ts |-> ts, len |-> len])
  /\ ArenaInsert(ts, len, Len(fed) + 1)
  /\ owned' = RetainLineEntry(owned, ts, len, Len(fed) + 1)

ArenaNext == \E ts \in Stamps, len \in Lengths : Visit(ts, len)

ArenaSpec == ArenaInit /\ [][ArenaNext]_arenaVars

-----------------------------------------------------------------------------
(* Answers.                                                                  *)

\* finish: the entries by (ts, sequence).
Finished(entries) == SetToSortSeq(entries, Older)

ArrayLen(entries) == 2 + FoldLeft(LAMBDA n, e : n + e.len, 0, entries)
                       + (IF entries = <<>> THEN 0 ELSE Len(entries) - 1)

\* selection: the newest `lastN`, cut from the front to `bytes`: the array
\* written and the length announced for it.
Selection(entries, lastN, bytes) ==
  LET first == IF Len(entries) > lastN THEN Len(entries) - lastN + 1 ELSE 1
      start == Min({i \in first .. Len(entries) + 1 :
                      ArrayLen(SubSeq(entries, i, Len(entries))) <= bytes \/ i = Len(entries) + 1})
  IN SubSeq(entries, start, Len(entries))

-----------------------------------------------------------------------------

Lines == [i \in DOMAIN fed |-> [ts |-> fed[i].ts, sequence |-> i, len |-> fed[i].len]]
UniformLengths == \A i, j \in DOMAIN fed : fed[i].len = fed[j].len

\* The n newest of the lines fed, by definition.
NewestLines(n) == {i \in DOMAIN fed : Cardinality({j \in DOMAIN fed : Older(Lines[i], Lines[j])}) < n}

\* Every slice holds the bytes of its own line, within the caps.
SlicesIntact ==
  /\ \A e \in kept : \A i \in e.start + 1 .. e.start + e.len : storage[i] = e.sequence
  /\ Len(storage) <= MaxBytes /\ retained <= MaxBytes /\ Cardinality(kept) <= MaxKept
  /\ retained = 2 + MapThenSumSet(LAMBDA e : e.len + 1, kept)

\* Lines that come in the order of time are kept as an unbroken run up to the
\* last; lines of one length are kept newest first whatever their order.  (A long
\* line out of order may displace newer ones.)
NewestKept ==
  fed # <<>> =>
    /\ (\A i, j \in DOMAIN fed : i < j => fed[i].ts <= fed[j].ts) =>
         {e.sequence : e \in kept} = Len(fed) - Cardinality(kept) + 1 .. Len(fed)
    /\ UniformLengths => {e.sequence : e \in kept} =
                    NewestLines(Min({MaxKept, (MaxBytes - 2) \div (fed[1].len + 1)}))

\* The typed list keeps as many lines of each timestamp as the arena does, and
\* answers in the order of time.
TypedAgrees ==
  /\ UniformLengths => \A t \in Stamps : Cardinality({e \in kept : e.ts = t}) =
                                    Cardinality({i \in DOMAIN owned.entries : owned.entries[i].ts = t})
  /\ \A i, j \in DOMAIN owned.entries :
       i < j => CollectLines(owned)[i].entry.ts <= CollectLines(owned)[j].entry.ts
  /\ owned.bytes <= MaxBytes

\* reader.rs RawLineArena and collect_lines: whatever is evicted, reused and
\* compacted, each answer is made of whole lines, the newest that fit, within
\* the caps, whichever of the two lists it comes from.
ArenaExact ==
  /\ SlicesIntact /\ NewestKept /\ TypedAgrees
  /\ \A n \in 1 .. MaxKept : ArrayLen(Selection(Finished(kept), n, MaxBytes)) <= MaxBytes
=============================================================================
