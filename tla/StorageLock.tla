---------------------------- MODULE StorageLock ----------------------------
(***************************************************************************)
(* The storage writer lock of a layer store                                *)
(* (layerstack/src/storage/lock.rs): a lock file that lets one process own *)
(* the storage root, and a process-wide registry that gives every handle   *)
(* of the root the same reentrant, writer-preferring read-write lock.      *)
(*                                                                         *)
(* The mutex of the lock's state makes each evaluation of its loop         *)
(* conditions atomic.  A thread that may not go on sleeps on the condition *)
(* variable until a notify_all wakes it, and then evaluates again.         *)
(***************************************************************************)
EXTENDS Naturals, FiniteSets

CONSTANTS
  Threads,     \* threads that open the storage root
  ProcOf,      \* the process each thread runs in
  NoProcess,        \* no writer, no owner
  MaxDepth     \* bound on the guards a thread nests

ASSUME StorageLockAssumption ==
  /\ IsFiniteSet(Threads) /\ NoProcess \notin Threads
  /\ NoProcess \notin {ProcOf[t] : t \in Threads}
  /\ MaxDepth \in Nat

VARIABLES
  owner,            \* the process that holds the flock
  handles,          \* threads with a StorageWriterLockLease
  refcount,         \* LockRecord.refcount
  writer, writeDepth, readers, waitingWriters,   \* ReentrantRwState
  held,             \* the guards that are alive: [t |-> thread, d |-> nesting depth, kind |-> "r" or "w"]
  waits                \* "run", or where the thread waits: "parked r", "woken r", "parked w", "woken w"

state == <<writer, writeDepth, readers, waitingWriters>>
lockVars == <<owner, handles, refcount, state, held, waits>>

Procs == {ProcOf[t] : t \in Threads}
Guards == [t : Threads, d : 1..MaxDepth, kind : {"r", "w"}]
GuardsOf(t) == {g \in held : g.t = t}
Shared == {g \in held : g.kind = "r"}
Exclusive == {g \in held : g.kind = "w"}

LockInit ==
  /\ owner = NoProcess /\ handles = {} /\ refcount = 0
  /\ writer = NoProcess /\ writeDepth = 0 /\ readers = 0 /\ waitingWriters = 0
  /\ held = {}
  /\ waits = [t \in Threads |-> "run"]

(***************************************************************************)
(* Handles.                                                                *)
(***************************************************************************)
\* The first handle of a process takes the flock and makes a fresh lock; a
\* process that does not get the flock gets StorageRootOwned and no handle.
Open(t) ==
  /\ t \notin handles /\ waits[t] = "run"
  /\ owner \in {NoProcess, ProcOf[t]}
  /\ owner' = ProcOf[t]
  /\ handles' = handles \cup {t}
  /\ IF owner = NoProcess
       THEN /\ refcount' = 1
            /\ writer' = NoProcess /\ writeDepth' = 0 /\ readers' = 0 /\ waitingWriters' = 0
       ELSE refcount' = refcount + 1 /\ UNCHANGED state
  /\ UNCHANGED <<held, waits>>

\* A guard borrows its handle, so a handle is dropped after its guards.
Close(t) ==
  /\ t \in handles /\ waits[t] = "run" /\ GuardsOf(t) = {}
  /\ handles' = handles \ {t}
  /\ refcount' = refcount - 1
  /\ owner' = IF refcount' = 0 THEN NoProcess ELSE owner
  /\ UNCHANGED <<state, held, waits>>

\* The kernel drops the flock of a process that dies.
Die(p) ==
  /\ owner = p
  /\ owner' = NoProcess /\ handles' = {} /\ refcount' = 0
  /\ held' = {}
  /\ waits' = [t \in Threads |-> "run"]
  /\ UNCHANGED state

(***************************************************************************)
(* Guards.  The store takes a guard holding none, or under its own         *)
(* exclusive guard; it never asks for one while it holds only a shared one *)
(***************************************************************************)
MayAsk(t) == t \in handles /\ waits[t] = "run" /\ (GuardsOf(t) = {} \/ writer = t)

CanRead_NoPreference(t) == writer = t \/ writer = NoProcess
CanRead(t) == writer = t \/ (writer = NoProcess /\ waitingWriters = 0)
CanWrite_OverReaders(t) == writer = NoProcess
CanWrite(t) == writer = NoProcess /\ readers = 0

\* The depth of t's next guard.
IsNextDepth(t, d) == /\ \A g \in GuardsOf(t) : g.d < d
                     /\ d = 1 \/ \E g \in GuardsOf(t) : g.d = d - 1

Grant(t, kind) ==
  /\ \E d \in 1..MaxDepth : IsNextDepth(t, d) /\ held' = held \cup {[t |-> t, d |-> d, kind |-> kind]}
  /\ waits' = [waits EXCEPT ![t] = "run"]
  /\ UNCHANGED <<owner, handles, refcount>>

Park(t, where) ==
  /\ waits' = [waits EXCEPT ![t] = where]
  /\ UNCHANGED <<owner, handles, refcount, held>>

Read(t) ==
  /\ MayAsk(t)
  /\ \/ CanRead(t) /\ Grant(t, "r") /\ readers' = readers + 1 /\ UNCHANGED <<writer, writeDepth, waitingWriters>>
     \/ ~CanRead(t) /\ Park(t, "parked r") /\ UNCHANGED state

Write(t) ==
  /\ MayAsk(t)
  /\ \/ /\ writer = t /\ Grant(t, "w")
        /\ writeDepth' = writeDepth + 1 /\ UNCHANGED <<writer, readers, waitingWriters>>
     \/ /\ writer # t /\ CanWrite(t) /\ Grant(t, "w")
        /\ writer' = t /\ writeDepth' = 1 /\ UNCHANGED <<readers, waitingWriters>>
     \/ /\ writer # t /\ ~CanWrite(t) /\ Park(t, "parked w")
        /\ waitingWriters' = waitingWriters + 1 /\ UNCHANGED <<writer, writeDepth, readers>>

\* A thread that notify_all woke evaluates its condition again.
Retry(t) ==
  \/ /\ waits[t] = "woken r"
     /\ \/ CanRead(t) /\ Grant(t, "r") /\ readers' = readers + 1 /\ UNCHANGED <<writer, writeDepth, waitingWriters>>
        \/ ~CanRead(t) /\ Park(t, "parked r") /\ UNCHANGED state
  \/ /\ waits[t] = "woken w"
     /\ \/ /\ CanWrite(t) /\ Grant(t, "w")
           /\ writer' = t /\ writeDepth' = 1 /\ waitingWriters' = waitingWriters - 1 /\ UNCHANGED readers
        \/ ~CanWrite(t) /\ Park(t, "parked w") /\ UNCHANGED state

NotifyAll == waits' = [t \in Threads |-> CASE waits[t] = "parked r" -> "woken r"
                                        [] waits[t] = "parked w" -> "woken w"
                                        [] OTHER -> waits[t]]

\* Guards are dropped innermost first.
Innermost(g) == g \in held /\ \A h \in GuardsOf(g.t) : h.d <= g.d

ReadUnlock_Silent(g) ==
  /\ g.kind = "r" /\ Innermost(g) /\ waits[g.t] = "run"
  /\ held' = held \ {g}
  /\ readers' = readers - 1
  /\ UNCHANGED <<owner, handles, refcount, writer, writeDepth, waitingWriters, waits>>
ReadUnlock(g) ==
  /\ g.kind = "r" /\ Innermost(g) /\ waits[g.t] = "run"
  /\ held' = held \ {g}
  /\ readers' = readers - 1
  /\ IF readers' = 0 THEN NotifyAll ELSE UNCHANGED waits
  /\ UNCHANGED <<owner, handles, refcount, writer, writeDepth, waitingWriters>>

WriteUnlock(g) ==
  /\ g.kind = "w" /\ Innermost(g) /\ waits[g.t] = "run"
  /\ held' = held \ {g}
  /\ writeDepth' = writeDepth - 1
  /\ IF writeDepth' = 0 THEN writer' = NoProcess /\ NotifyAll ELSE UNCHANGED <<writer, waits>>
  /\ UNCHANGED <<owner, handles, refcount, readers, waitingWriters>>

LockNext ==
  \/ \E t \in Threads : Open(t) \/ Close(t) \/ Read(t) \/ Write(t) \/ Retry(t)
  \/ \E g \in held : ReadUnlock(g) \/ WriteUnlock(g)
  \/ \E p \in Procs : Die(p)

LockSpec == LockInit /\ [][LockNext]_lockVars

\* Critical sections end, and a woken thread gets to run.
Unlock(t) == \E g \in held : g.t = t /\ (ReadUnlock(g) \/ WriteUnlock(g))
LockFairness == \A t \in Threads : WF_lockVars(Retry(t)) /\ WF_lockVars(Unlock(t))

(***************************************************************************)
(* Properties.                                                             *)
(***************************************************************************)
\* The counters of ReentrantRwState and the registry count what they stand
\* for, and only threads that sleep in read or write are parked.
LockTypeOK ==
  /\ owner \in Procs \cup {NoProcess} /\ handles \subseteq Threads
  /\ refcount = Cardinality(handles)
  /\ held \subseteq Guards
  /\ waits \in [Threads -> {"run", "parked r", "woken r", "parked w", "woken w"}]
  /\ owner # NoProcess => /\ writer \in Threads \cup {NoProcess}
                     /\ writeDepth = Cardinality(Exclusive)
                     /\ readers = Cardinality(Shared)
                     /\ waitingWriters = Cardinality({t \in Threads : waits[t] \in {"parked w", "woken w"}})

\* While a thread holds an exclusive guard no other thread of any process holds
\* a guard of the same storage root: what lets a publish, a release and a squash
\* commit read, change and write the manifest as one step.
Exclusion == \A g, h \in held : g.kind = "w" => h.t = g.t

\* Two processes never hold guards of one storage root (flock).
OneOwner == \A t \in handles : ProcOf[t] = owner

\* The lock is safe: its counters count the guards that are alive, one process
\* owns the root, and an exclusive guard excludes every other thread.
LockSafe == LockTypeOK /\ OneOwner /\ Exclusion

\* Nobody sleeps on a condition that is already true: a thread that is parked
\* and was not notified could not go on (read_unlock notifies only at zero
\* readers, write_unlock only at depth zero).
NoMissedWakeup ==
  \A t \in Threads : /\ waits[t] = "parked r" => ~CanRead(t)
                     /\ waits[t] = "parked w" => ~CanWrite(t)

\* A stream of readers cannot keep writers out: while a writer waits, some
\* writer gets the lock, or the process dies (read gives way to
\* waiting_writers).
WritersGetIn == (owner # NoProcess /\ waitingWriters > 0) ~> (owner = NoProcess \/ writer # NoProcess)
=============================================================================
