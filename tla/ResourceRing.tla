---------------------------- MODULE ResourceRing ----------------------------
(* The fixed-size file that keeps a sandbox's resource samples on the host   *)
(* (sandbox-manager/src/resource_ring.rs), and the views that read it        *)
(* (impls/resource_metrics.rs, impls/observability_snapshot.rs).             *)
(*                                                                           *)
(* One ring: the rings of different sandboxes share only the store's mutex,  *)
(* which `turn` stands for.  Every write to the file is a step of its own,   *)
(* so that the manager may die, or the write fail, between any two of them.  *)
(* A record or header is one write inside a page, so none is half written.   *)
(* `committed` and `steady` are history variables.                           *)
EXTENDS Integers, Sequences, SequencesExt

CONSTANTS
  Capacity,         \* CAPACITY: records in the file
  MaxResponse,      \* MAX_RESOURCE_RESPONSE_RECORDS
  Windows,          \* the window_ms callers ask for
  MaxTime,          \* bound on the wall clock
  MaxSamples,       \* bound on the samples taken
  MaxRingFaults     \* bound on deaths and failed writes

ASSUME RingAssumption ==
  /\ Capacity \in Nat \ {0}
  /\ MaxResponse \in Nat \ {0}
  /\ Windows \subseteq Nat

VARIABLES
  length,           \* the file: "absent", "short" or "full" length
  header,           \* the header in the file, or NoHeader when it does not decode
  slots,            \* the records, NoSample where the checksum does not match
  cache,            \* latest_samples: a sample or NoSample
  turn,             \* the next write of the operation that holds the mutex, or "free"
  pending,          \* the sample being appended, NoSample for a reader
  answer,           \* what the reader will answer once the ring is recreated
  reply,            \* the answer given by the last step, NoReply if it gave none
  taken,            \* samples taken so far
  ringFaults,
  committed,        \* samples appended since the ring was last recreated
  steady            \* every sample was stamped later than the ones before it

ringVars == <<length, header, slots, cache, turn, pending, answer, reply, taken,
              ringFaults, committed, steady>>
fileVars == <<length, header, slots, committed>>

Sample(at, seq) == [at |-> at, seq |-> seq]
NoSample == Sample(0, 0)
Header(next, count) == [next |-> next, count |-> count]
NoHeader == Header(Capacity, 0)
Read(samples, error) == [view |-> "ring", window |-> -1, samples |-> samples, error |-> error]
NoReply == [Read(<<>>, FALSE) EXCEPT !.view = "none"]
Blank == [i \in 0 .. Capacity - 1 |-> NoSample]

RingInit ==
  /\ length = "absent" /\ header = NoHeader /\ slots = Blank /\ cache = NoSample
  /\ turn = "free" /\ pending = NoSample /\ answer = NoReply /\ reply = NoReply
  /\ taken = 0 /\ ringFaults = 0 /\ committed = <<>> /\ steady = TRUE

\* read_header: the right length, magic, checksum and indices within bounds.
HeaderValid == length = "full" /\ header.next < Capacity /\ header.count <= Capacity

LastN(s, n) == SubSeq(s, IF Len(s) > n THEN Len(s) - n + 1 ELSE 1, Len(s))

-----------------------------------------------------------------------------
(* Writers.                                                                  *)

\* append / append_if: the file is opened, created empty when it is missing.
AppendIf(at) ==
  /\ turn = "free" /\ taken < MaxSamples
  /\ pending' = Sample(at, taken + 1)
  /\ taken' = taken + 1
  /\ steady' = (steady /\ (\A i \in 1 .. Len(committed) : committed[i].at < at)
                       /\ (\A i \in DOMAIN slots : slots[i].at < at))
  /\ length' = IF length = "absent" THEN "short" ELSE length
  /\ turn' = IF HeaderValid THEN "record" ELSE "truncate"
  /\ reply' = NoReply
  /\ UNCHANGED <<header, slots, cache, answer, ringFaults, committed>>

\* recreate: truncate, extend, write an empty header; then the append goes on,
\* or the reader answers.
Recreate ==
  /\ \/ /\ turn = "truncate" /\ turn' = "extend"
        /\ length' = "short" /\ header' = NoHeader /\ slots' = Blank /\ committed' = <<>>
        /\ UNCHANGED reply
     \/ /\ turn = "extend" /\ turn' = "reset"
        /\ length' = "full"
        /\ UNCHANGED <<header, slots, committed, reply>>
     \/ /\ turn = "reset" /\ turn' = IF pending = NoSample THEN "free" ELSE "record"
        /\ header' = Header(0, 0)
        /\ reply' = IF pending = NoSample THEN answer ELSE reply
        /\ UNCHANGED <<length, slots, committed>>
  /\ UNCHANGED <<cache, pending, answer, taken, ringFaults, steady>>

\* The record goes to the slot the header names next.
WriteRecord ==
  /\ turn = "record" /\ turn' = "commit"
  /\ slots' = [slots EXCEPT ![header.next] = pending]
  /\ UNCHANGED <<length, header, cache, pending, answer, reply, taken, ringFaults, committed, steady>>

\* The header that counts it; the sample becomes the cached latest one.
CommitHeader ==
  /\ turn = "commit" /\ turn' = "free"
  /\ header' = Header((header.next + 1) % Capacity,
                      IF header.count < Capacity THEN header.count + 1 ELSE Capacity)
  /\ committed' = Append(committed, pending)
  /\ cache' = pending /\ pending' = NoSample
  /\ UNCHANGED <<length, slots, answer, reply, taken, ringFaults, steady>>

\* remove: the file goes, then the cached sample.
RemoveRingFiles ==
  /\ turn = "free" /\ length # "absent"
  /\ length' = "absent" /\ header' = NoHeader /\ slots' = Blank /\ committed' = <<>>
  /\ cache' = NoSample /\ reply' = NoReply
  /\ UNCHANGED <<turn, pending, answer, taken, ringFaults, steady>>

-----------------------------------------------------------------------------
(* Readers.                                                                  *)

\* The cache after a read: its last sample, untouched by an empty read, dropped by an error.
Remember(read) ==
  cache' = IF read.error THEN NoSample
           ELSE IF read.samples = <<>> THEN cache ELSE Last(read.samples)

\* A reader that answers at once, and one that recreates the ring first.
Respond(read) ==
  /\ reply' = read /\ turn' = "free" /\ Remember(read)
  /\ UNCHANGED <<answer, pending>>
RecreateThen(read) ==
  /\ answer' = read /\ turn' = "truncate" /\ pending' = NoSample
  /\ reply' = NoReply /\ Remember(read)

\* A bug: a full ring is read from its first slot.
Oldest_First == 0
\* The counted records, oldest first.
Oldest == IF header.count = Capacity THEN header.next ELSE 0
CountedRecords == [i \in 1 .. header.count |-> slots[(Oldest + i - 1) % Capacity]]

\* read_locked: what a window read makes of the records.
Decoded == SelectSeq(CountedRecords, LAMBDA r : r # NoSample)
HeaderTorn ==
  /\ header.count = Capacity /\ Len(Decoded) >= 2
  /\ Decoded[1].at > Decoded[2].at
OutOfOrder == \E i \in 1 .. Len(Decoded) - 1 : Decoded[i].at > Decoded[i + 1].at
Surviving == IF HeaderTorn THEN Tail(Decoded) ELSE Decoded
Corrupt == HeaderTorn \/ OutOfOrder \/ Len(Decoded) < header.count
Within(samples, window) ==
  SelectSeq(samples, LAMBDA r : r.at >= Last(samples).at - window)

ReadWindow(window) ==
  /\ turn = "free"
  /\ LET read == [Read(LastN(Within(Surviving, window), MaxResponse), Corrupt)
                   EXCEPT !.window = window]
     IN  \/ length = "absent" /\ Respond(Read(<<>>, TRUE))
         \/ length # "absent" /\ ~HeaderValid /\ RecreateThen(Read(<<>>, TRUE))
         \/ HeaderValid /\ Corrupt /\ RecreateThen(read)
         \/ HeaderValid /\ ~Corrupt /\ Respond(read)
  /\ UNCHANGED <<fileVars, taken, ringFaults, steady>>

\* read_latest: the cached sample, else the record before the header's next.
LatestRecord == slots[(header.next + Capacity - 1) % Capacity]
LatestSample(view) ==
  LET As(read) == [read EXCEPT !.view = view]
  IN  \/ cache # NoSample /\ Respond(As(Read(<<cache>>, FALSE)))
      \/ /\ cache = NoSample
         /\ \/ length = "absent" /\ Respond(As(Read(<<>>, TRUE)))
            \/ length # "absent" /\ ~HeaderValid /\ RecreateThen(As(Read(<<>>, TRUE)))
            \/ HeaderValid /\ header.count = 0 /\ Respond(As(Read(<<>>, FALSE)))
            \/ HeaderValid /\ header.count > 0 /\ LatestRecord = NoSample
               /\ RecreateThen(As(Read(<<>>, TRUE)))
            \/ HeaderValid /\ header.count > 0 /\ LatestRecord # NoSample
               /\ Respond(As(Read(<<LatestRecord>>, FALSE)))

\* fleet_resources: a sandbox is available when its ring read had no error.
FleetResources ==
  /\ turn = "free" /\ LatestSample("fleet")
  /\ UNCHANGED <<fileVars, taken, ringFaults, steady>>

\* sandbox_node: whatever the daemon answers, or when it does not answer, the
\* node carries the latest sample of the ring.
SandboxNode ==
  /\ turn = "free"
  /\ \E availability \in {"available", "partial", "unavailable"} : LatestSample(availability)
  /\ UNCHANGED <<fileVars, taken, ringFaults, steady>>

-----------------------------------------------------------------------------
(* Faults.                                                                   *)

\* A write fails.  An append reports it and leaves cache and file as they are;
\* a reader answers with an error.
WriteFails ==
  /\ turn # "free" /\ ringFaults < MaxRingFaults /\ ringFaults' = ringFaults + 1
  /\ turn' = "free" /\ pending' = NoSample
  /\ IF pending = NoSample
     THEN reply' = [answer EXCEPT !.samples = <<>>, !.error = TRUE] /\ cache' = NoSample
     ELSE UNCHANGED <<reply, cache>>
  /\ UNCHANGED <<fileVars, answer, taken, steady>>

\* The manager dies and starts again: the file stays, the cache does not.
ManagerDies ==
  /\ ringFaults < MaxRingFaults /\ ringFaults' = ringFaults + 1
  /\ turn' = "free" /\ pending' = NoSample /\ cache' = NoSample /\ reply' = NoReply
  /\ UNCHANGED <<fileVars, answer, taken, steady>>

RingNext ==
  \/ \E at \in 1 .. MaxTime : AppendIf(at)
  \/ Recreate \/ WriteRecord \/ CommitHeader \/ RemoveRingFiles
  \/ \E window \in Windows : ReadWindow(window)
  \/ FleetResources \/ SandboxNode
  \/ WriteFails \/ ManagerDies

RingSpec == RingInit /\ [][RingNext]_ringVars

-----------------------------------------------------------------------------
\* Type invariant.
RingTypeOK ==
  LET Samples == [at : 0 .. MaxTime, seq : 0 .. MaxSamples]
  IN  /\ length \in {"absent", "short", "full"}
      /\ header \in [next : 0 .. Capacity, count : 0 .. Capacity]
      /\ slots \in [0 .. Capacity - 1 -> Samples]
      /\ cache \in Samples /\ pending \in Samples
      /\ turn \in {"free", "truncate", "extend", "reset", "record", "commit"}

\* A window read without an error is in time order and ends with the sample
\* committed last; while the clock only moved forward it is exactly the window
\* of the last Capacity samples committed: nothing uncommitted, lost or doubled.
WindowExact ==
  reply.view = "ring" /\ ~reply.error =>
    /\ \A i \in 1 .. Len(reply.samples) - 1 : reply.samples[i].at <= reply.samples[i + 1].at
    /\ reply.samples = <<>> <=> committed = <<>>
    /\ committed # <<>> => Last(reply.samples) = Last(committed)
    /\ steady /\ committed # <<>> =>
         reply.samples = LastN(Within(LastN(committed, Capacity), reply.window), MaxResponse)

\* The latest sample, from the cache or the file, is the one committed last.
LatestExact ==
  reply.view \notin {"ring", "none"} /\ ~reply.error =>
    reply.samples = LastN(committed, 1)

\* The cached sample never outlives the ring it was read from.
CacheCurrent == cache # NoSample => committed # <<>> /\ cache = Last(committed)

\* What the ring tells its readers, through wrap-around, failed writes and deaths
\* of the manager between any two writes (resource_ring.rs:95-301).
RingTrue == RingTypeOK /\ WindowExact /\ LatestExact /\ CacheCurrent
=============================================================================
