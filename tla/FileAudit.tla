------------------------------ MODULE FileAudit ------------------------------
(* Who wrote each line of a file: commits of one path and the audit events   *)
(* that record them (operation/src/layerstack/service/impls/amend.rs and     *)
(* publish_changes.rs, operation/src/file/audit.rs, service/store.rs,        *)
(* service/impls/blame.rs), with events that fail to be written and restarts *)
(* of the daemon.                                                            *)
(*                                                                           *)
(* A commit is known by the origin of each line it leaves: 0 for a line the  *)
(* committer wrote (Origin::Command), i for line i of the head it replaces   *)
(* (Origin::Active).  `authors` is a history variable: who wrote each line   *)
(* of the head, or has committed the whole file without origins since, which *)
(* is how a file git ignores is committed whatever its lines are.            *)
(* `indexTrue` and `logTrue` are too: whether an event the present answers   *)
(* rest on was lost.                                                         *)
EXTENDS Integers, Sequences, FiniteSets, SequencesExt

CONSTANTS
  Committers,       \* owners: operation:<request_id> or workspace_session:<id>
  MaxFileLines,     \* bound on the lines of the file
  MaxFileCommits,   \* bound on the commits
  MaxAuditFaults    \* bound on restarts and on events that are not written

Original == "original"
Unknown == "unknown"

VARIABLES
  fileKind,         \* the head: "text", "bytes" (not mergeable as text) or "none"
  authors,          \* who wrote, or took over, each line of the head
  auditGate,        \* LayerStackService::audit_gate, or "open"
  origin,           \* per committer, the origins to record; NoOrigin when none
  auditLog,         \* the NDJSON log: events, and Torn or Garbled lines
  auditIndex,       \* FileAuditabilityStore::index, for the path
  fileCommits,
  auditFaults,
  indexTrue,
  logTrue

auditVars == <<fileKind, authors, auditGate, origin, auditLog, auditIndex, fileCommits,
               auditFaults, indexTrue, logTrue>>

\* AuditEvent: a default owner and the runs of lines that have another one.
Event(count, default, ranges) == [count |-> count, default |-> default, ranges |-> ranges]
NoEvent == Event(0, "none", <<>>)
Torn == Event(0, "torn", <<>>)          \* cut short: no line feed
Garbled == Event(0, "garbled", <<>>)    \* a torn line and the one glued to it
Events == {"none", "torn", "garbled"}
NoOrigin == <<-1>>

AuditInit ==
  /\ fileKind = "text"
  /\ \E n \in 0 .. MaxFileLines : authors = [i \in 1 .. n |-> Original]
  /\ auditGate = "open"
  /\ origin = [c \in Committers |-> NoOrigin]
  /\ auditLog = <<>> /\ auditIndex = NoEvent
  /\ fileCommits = 0 /\ auditFaults = 0
  /\ indexTrue = TRUE /\ logTrue = TRUE

-----------------------------------------------------------------------------
(* audit.rs: from origins to owners, and from owners to an event.            *)

\* owner_at
OwnerAt(event, line) ==
  LET covers(r) == line >= r.start /\ line < r.start + r.count
  IN  IF \E k \in DOMAIN event.ranges : covers(event.ranges[k])
      THEN event.ranges[CHOOSE k \in DOMAIN event.ranges :
                          covers(event.ranges[k]) /\ \A j \in 1 .. k - 1 : ~covers(event.ranges[j])].owner
      ELSE event.default

\* active_owner: no event means the line was there from the start.
ActiveOwner(latest, line) ==
  IF latest = NoEvent THEN Original
  ELSE IF line <= latest.count THEN OwnerAt(latest, line) ELSE Unknown

\* resolve_line_owners
ResolveLineOwners(lines, owner, latest) ==
  [i \in 1 .. Len(lines) |-> IF lines[i] = 0 THEN owner ELSE ActiveOwner(latest, lines[i])]

\* most_common_owner: the first owner to reach the highest count.
MostCommonOwner(owners) ==
  LET countIn(o, n) == Cardinality({i \in 1 .. n : owners[i] = o})
      best == CHOOSE n \in 1 .. Len(owners) :
                /\ \A m \in 1 .. Len(owners) : countIn(owners[m], m) <= countIn(owners[n], n)
                /\ \A m \in 1 .. n - 1 : countIn(owners[m], m) < countIn(owners[n], n)
  IN  owners[best]

\* event_from_line_owners: maximal runs of the owners that are not the default.
EventFromLineOwners(owners) ==
  LET default == MostCommonOwner(owners)
      addLine(ranges, i) ==
        IF owners[i] = default THEN ranges
        ELSE IF ranges # <<>> /\ Last(ranges).owner = owners[i]
                              /\ Last(ranges).start + Last(ranges).count = i
             THEN [ranges EXCEPT ![Len(ranges)].count = @ + 1]
             ELSE Append(ranges, [start |-> i, count |-> 1, owner |-> owners[i]])
  IN  Event(Len(owners), default, FoldLeft(addLine, <<>>, [i \in 1 .. Len(owners) |-> i]))

\* record_layer_publish: a wholesale event, a command-only one, or a resolved one.
Recorded(c) ==
  LET lines == origin[c]
  IN  IF lines = <<>> THEN Event(1, c, <<>>)
      ELSE IF \A i \in DOMAIN lines : lines[i] = 0 THEN Event(Len(lines), c, <<>>)
      ELSE EventFromLineOwners(ResolveLineOwners(lines, c, auditIndex))

\* blame: the event tiled over its lines.
Tile(event) == [i \in 1 .. event.count |-> OwnerAt(event, i)]

-----------------------------------------------------------------------------
(* Commits, each under the audit gate until its event is recorded.           *)

Taken(c) == auditGate = "open" /\ fileCommits < MaxFileCommits /\ fileCommits' = fileCommits + 1

\* Origins of a text over a head of n lines: the kept lines stay in order.
TextOrigins(n) ==
  {lines \in BoundedSeq(0 .. n, MaxFileLines) :
     \A i, j \in DOMAIN lines : i < j /\ lines[i] > 0 /\ lines[j] > 0 => lines[i] < lines[j]}

\* A bug: the gate is dropped with the commit, before the event is appended.
CommitText_Ungated(c) ==
  /\ Taken(c) /\ fileKind \in {"text", "none"} /\ origin[c] = NoOrigin
  /\ \E lines \in TextOrigins(Len(authors)) :
       /\ authors' = [i \in 1 .. Len(lines) |-> IF lines[i] = 0 THEN c ELSE authors[lines[i]]]
       /\ origin' = [origin EXCEPT ![c] = lines]
  /\ fileKind' = "text"
  /\ UNCHANGED <<auditGate, auditLog, auditIndex, auditFaults, indexTrue, logTrue>>

\* amend_path and publish_changes: a text over a text, or over nothing.
CommitText(c) ==
  /\ Taken(c) /\ fileKind \in {"text", "none"}
  /\ \E lines \in TextOrigins(Len(authors)) :
       /\ authors' = [i \in 1 .. Len(lines) |-> IF lines[i] = 0 THEN c ELSE authors[lines[i]]]
       /\ origin' = [origin EXCEPT ![c] = lines]
  /\ auditGate' = c /\ fileKind' = "text"
  /\ UNCHANGED <<auditLog, auditIndex, auditFaults, indexTrue, logTrue>>

\* Bytes that cannot be merged, a text over such bytes, or any file on the
\* ignored route: attributed wholesale.
CommitWholesale(c) ==
  /\ Taken(c)
  /\ fileKind' \in {"bytes", "text"}
  /\ \E n \in 0 .. MaxFileLines : authors' = [i \in 1 .. n |-> c]
  /\ origin' = [origin EXCEPT ![c] = <<>>] /\ auditGate' = c
  /\ UNCHANGED <<auditLog, auditIndex, auditFaults, indexTrue, logTrue>>

\* A publish that removes the file records nothing.
CommitRemoval(c) ==
  /\ Taken(c) /\ fileKind # "none"
  /\ fileKind' = "none" /\ authors' = <<>>
  /\ UNCHANGED <<auditGate, origin, auditLog, auditIndex, auditFaults, indexTrue, logTrue>>

\* The event is known good when it rests on no owner but its own, or on a good index.
Sound(c) == indexTrue \/ \A i \in DOMAIN origin[c] : origin[c][i] = 0

\* FileAuditabilityStore::append: the line, glued to a torn one if there is one;
\* a torn line glued to a torn one has no line feed either.
Appended(event) ==
  IF auditLog # <<>> /\ Last(auditLog) = Torn
  THEN Append(Front(auditLog), IF event = Torn THEN Torn ELSE Garbled)
  ELSE Append(auditLog, event)
LogReadable == auditLog = <<>> \/ Last(auditLog) # Torn

Release(c) == /\ origin' = [origin EXCEPT ![c] = NoOrigin]
              /\ auditGate' = "open"

RecordLayerPublish(c) ==
  /\ origin[c] # NoOrigin
  /\ auditLog' = Appended(Recorded(c)) /\ auditIndex' = Recorded(c)
  /\ indexTrue' = Sound(c) /\ logTrue' = (Sound(c) /\ LogReadable)
  /\ Release(c)
  /\ UNCHANGED <<fileKind, authors, fileCommits, auditFaults>>

\* The append fails: before it writes, part way through, or when it syncs.  The
\* publish succeeds all the same and the index keeps the event before it.
AppendFails(c) ==
  /\ origin[c] # NoOrigin
  /\ auditFaults < MaxAuditFaults /\ auditFaults' = auditFaults + 1
  /\ \/ auditLog' = auditLog /\ logTrue' = FALSE
     \/ auditLog' = Appended(Torn) /\ logTrue' = FALSE
     \/ auditLog' = Appended(Recorded(c)) /\ logTrue' = (Sound(c) /\ LogReadable)
  /\ indexTrue' = FALSE
  /\ Release(c)
  /\ UNCHANGED <<fileKind, authors, auditIndex, fileCommits>>

\* FileAuditabilityStore::open: the last event that parses wins.
Replay(log) ==
  LET good == SelectSeq(log, LAMBDA e : e.default \notin Events)
  IN  IF good = <<>> THEN NoEvent ELSE Last(good)

\* The daemon restarts: an event not yet appended is lost.
ReopenStore ==
  /\ auditFaults < MaxAuditFaults /\ auditFaults' = auditFaults + 1
  /\ auditIndex' = Replay(auditLog)
  /\ LET lost == \E c \in Committers : origin[c] # NoOrigin
     IN  indexTrue' = (logTrue /\ ~lost) /\ logTrue' = (logTrue /\ ~lost)
  /\ origin' = [c \in Committers |-> NoOrigin] /\ auditGate' = "open"
  /\ UNCHANGED <<fileKind, authors, auditLog, fileCommits>>

AuditNext ==
  \/ \E c \in Committers :
       \/ CommitText(c) \/ CommitWholesale(c) \/ CommitRemoval(c)
       \/ RecordLayerPublish(c) \/ AppendFails(c)
  \/ ReopenStore

AuditSpec == AuditInit /\ [][AuditNext]_auditVars

-----------------------------------------------------------------------------
\* An event names no wrong owner for a line of the head.
NamesRight(event) ==
  /\ event = NoEvent => \A i \in DOMAIN authors : authors[i] = Original
  /\ event # NoEvent /\ fileKind = "text" =>
       \A i \in DOMAIN authors : i <= event.count => Tile(event)[i] \in {authors[i], Unknown}

\* Between commits, blame names the writer of each line it covers, or whoever
\* has committed the whole file wholesale since, or nobody, as long as no event
\* it rests on was lost: through merges, restarts and failed appends, and again
\* once a commit has rewritten the whole file
\* (audit.rs:26-52; the audit gate of amend.rs:34-47).
BlameTrue ==
  (\A c \in Committers : origin[c] = NoOrigin) /\ fileKind # "none" =>
    /\ indexTrue => NamesRight(auditIndex)
    /\ logTrue => NamesRight(Replay(auditLog))
=============================================================================
