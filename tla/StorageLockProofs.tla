------------------------- MODULE StorageLockProofs -------------------------
(***************************************************************************)
(* Mutual exclusion and no missed wake-up, for any number of threads,      *)
(* processes and nesting.  Exclusion is not inductive: it needs that the   *)
(* counters of the lock's state count the guards that are alive, and that  *)
(* the recorded writer is the holder of every exclusive guard.             *)
(***************************************************************************)
EXTENDS StorageLock, FiniteSetTheorems, TLAPS

Values ==
  /\ handles \subseteq Threads
  /\ held \subseteq Guards /\ IsFiniteSet(held)
  /\ waits \in [Threads -> {"run", "parked r", "woken r", "parked w", "woken w"}]
  /\ refcount = Cardinality(handles)

\* Only threads with a handle hold guards or wait; without an owner there are none.
Held ==
  /\ OneOwner
  /\ \A g \in held : g.t \in handles
  /\ \A t \in Threads : waits[t] # "run" => t \in handles
  /\ owner # NoProcess => owner \in Procs

Waiting == {t \in Threads : waits[t] \in {"parked w", "woken w"}}

Counters ==
  owner # NoProcess =>
    /\ writeDepth = Cardinality(Exclusive)
    /\ readers = Cardinality(Shared)
    /\ waitingWriters = Cardinality(Waiting)
    /\ writer = NoProcess => Exclusive = {}
    /\ writer # NoProcess => /\ \A g \in held : g.t = writer
                        /\ Exclusive # {}

IInv == Values /\ Held /\ Counters /\ NoMissedWakeup

(***************************************************************************)
(* Guards of a kind are finite, and adding or removing one counts.         *)
(***************************************************************************)

\* The guards that are alive, and those of one kind, are finitely many.
LEMMA KindsFinite ==
  ASSUME IsFiniteSet(held)
  PROVE  IsFiniteSet(Shared) /\ IsFiniteSet(Exclusive)
BY FS_Subset DEF Shared, Exclusive

\* Granting a guard of a kind makes its count one larger and leaves the other kind's.
LEMMA AddGuard ==
  ASSUME NEW g \in Guards, g \notin held, IsFiniteSet(held), held' = held \cup {g}
  PROVE  /\ IsFiniteSet(held')
         /\ g.kind = "r" => /\ Cardinality(Shared') = Cardinality(Shared) + 1
                            /\ Exclusive' = Exclusive
         /\ g.kind = "w" => /\ Cardinality(Exclusive') = Cardinality(Exclusive) + 1
                            /\ Shared' = Shared
         /\ Cardinality(Shared) \in Nat /\ Cardinality(Exclusive) \in Nat
<1>1. IsFiniteSet(Shared) /\ IsFiniteSet(Exclusive) /\ IsFiniteSet(held')
  BY KindsFinite, FS_AddElement
<1>2. CASE g.kind = "r"
  <2>1. Shared' = Shared \cup {g} /\ g \notin Shared /\ Exclusive' = Exclusive
    BY <1>2 DEF Shared, Exclusive
  <2>2. QED BY <1>1, <1>2, <2>1, FS_AddElement, FS_CardinalityType
<1>3. CASE g.kind = "w"
  <2>1. Exclusive' = Exclusive \cup {g} /\ g \notin Exclusive /\ Shared' = Shared
    BY <1>3 DEF Shared, Exclusive
  <2>2. QED BY <1>1, <1>3, <2>1, FS_AddElement, FS_CardinalityType
<1>4. QED BY <1>2, <1>3 DEF Guards

\* Dropping a guard of a kind makes its count one smaller and leaves the other kind's.
LEMMA RemoveGuard ==
  ASSUME NEW g \in held, held \subseteq Guards, IsFiniteSet(held), held' = held \ {g}
  PROVE  /\ IsFiniteSet(held')
         /\ g.kind = "r" => /\ Cardinality(Shared') = Cardinality(Shared) - 1
                            /\ Exclusive' = Exclusive
         /\ g.kind = "w" => /\ Cardinality(Exclusive') = Cardinality(Exclusive) - 1
                            /\ Shared' = Shared
                            /\ (Cardinality(Exclusive') = 0 <=> Exclusive' = {})
         /\ Cardinality(Shared) \in Nat /\ Cardinality(Exclusive) \in Nat
<1>1. IsFiniteSet(Shared) /\ IsFiniteSet(Exclusive) /\ IsFiniteSet(held')
  BY KindsFinite, FS_RemoveElement
<1>2. CASE g.kind = "r"
  <2>1. Shared' = Shared \ {g} /\ g \in Shared /\ Exclusive' = Exclusive
    BY <1>2 DEF Shared, Exclusive
  <2>2. QED BY <1>1, <1>2, <2>1, FS_RemoveElement, FS_CardinalityType
<1>3. CASE g.kind = "w"
  <2>1. Exclusive' = Exclusive \ {g} /\ g \in Exclusive /\ Shared' = Shared
    BY <1>3 DEF Shared, Exclusive
  <2>2. IsFiniteSet(Exclusive')
    BY <1>1, <2>1, FS_RemoveElement
  <2>3. QED BY <1>1, <1>3, <2>1, <2>2, FS_RemoveElement, FS_CardinalityType, FS_EmptySet
<1>4. QED BY <1>2, <1>3 DEF Guards

\* A granted guard is a new guard of its thread.
LEMMA GrantAdds ==
  ASSUME Values, NEW t \in Threads, NEW kind \in {"r", "w"}, Grant(t, kind)
  PROVE  \E g \in Guards : g \notin held /\ g.t = t /\ g.kind = kind /\ held' = held \cup {g}
<1>1. PICK d \in 1..MaxDepth : /\ IsNextDepth(t, d)
                               /\ held' = held \cup {[t |-> t, d |-> d, kind |-> kind]}
  BY DEF Grant
<1> DEFINE g == [t |-> t, d |-> d, kind |-> kind]
<1>2. g \in Guards /\ g.t = t /\ g.kind = kind /\ g.d = d
  BY DEF Guards
<1>3. g \notin held
  <2>1. SUFFICES ASSUME g \in held PROVE FALSE
    OBVIOUS
  <2>2. g.d < d
    BY <1>1, <1>2, <2>1 DEF IsNextDepth, GuardsOf
  <2>3. d \in Nat
    BY StorageLockAssumption DEF StorageLockAssumption
  <2>4. QED BY <1>2, <2>2, <2>3
<1>4. QED BY <1>1, <1>2, <1>3

(***************************************************************************)
(* Every step preserves IInv.                                              *)
(***************************************************************************)

\* Nothing is open at first.
LEMMA InitIInv == LockInit => IInv
<1> SUFFICES ASSUME LockInit PROVE IInv
  OBVIOUS
<1>1. IsFiniteSet({}) /\ Cardinality({}) = 0
  BY FS_EmptySet
<1>2. Values /\ Held /\ Counters /\ NoMissedWakeup
  BY <1>1 DEF LockInit, Values, Held, OneOwner, Counters, NoMissedWakeup
<1>3. QED BY <1>2 DEF IInv

\* Handles come and go without touching the guards of others.
LEMMA OpenStep ==
  ASSUME IInv, NEW t \in Threads, Open(t)
  PROVE  IInv'
<1> USE DEF IInv
<1>1. /\ t \notin handles /\ waits[t] = "run" /\ owner' = ProcOf[t] /\ handles' = handles \cup {t}
      /\ owner \in {NoProcess, ProcOf[t]} /\ UNCHANGED <<held, waits>>
  BY DEF Open
<1>2. owner' # NoProcess /\ owner' \in Procs
  BY <1>1, StorageLockAssumption DEF StorageLockAssumption, Procs
<1>3. IsFiniteSet(handles)
  BY FS_Subset, StorageLockAssumption DEF StorageLockAssumption, Values
<1>4. Cardinality(handles') = Cardinality(handles) + 1
  BY <1>1, <1>3, FS_AddElement
<1>5. CASE owner = NoProcess
  <2>1. handles = {}
    <3>1. \A u \in Threads : ProcOf[u] # NoProcess
      BY StorageLockAssumption, Zenon DEF StorageLockAssumption
    <3>2. \A u \in handles : u \in Threads /\ ProcOf[u] = NoProcess
      BY <1>5 DEF Held, OneOwner, Values
    <3>3. QED BY <3>1, <3>2, Zenon
  <2>2. held = {} /\ \A u \in Threads : waits[u] = "run"
    <3>1. \A g \in held : g.t \in handles
      BY DEF Held
    <3>2. \A u \in Threads : waits[u] # "run" => u \in handles
      BY DEF Held
    <3>3. QED BY <2>1, <3>1, <3>2, Zenon
  <2>3. refcount' = 1 /\ writer' = NoProcess /\ writeDepth' = 0 /\ readers' = 0
    BY <1>5 DEF Open
  <2>4. Cardinality(handles) = 0 /\ Cardinality({}) = 0
    BY <2>1, FS_EmptySet
  <2>5. Values'
    <3>1. refcount' = Cardinality(handles')
      BY <1>4, <2>3, <2>4
    <3>2. QED BY <1>1, <3>1 DEF Values
  <2>6. Held'
    BY <1>1, <1>2, <2>1, <2>2 DEF Held, OneOwner
  <2>7. Shared' = {} /\ Exclusive' = {} /\ Waiting' = {} /\ waitingWriters' = 0
    BY <1>1, <1>5, <2>2 DEF Shared, Exclusive, Waiting, Open
  <2>8. Counters' /\ NoMissedWakeup'
    BY <1>1, <2>2, <2>3, <2>4, <2>7 DEF Counters, NoMissedWakeup
  <2>9. QED BY <2>5, <2>6, <2>8
<1>6. CASE owner # NoProcess
  <2>1. refcount' = refcount + 1 /\ UNCHANGED state /\ owner' = owner
    BY <1>1, <1>6 DEF Open
  <2>2. Values' /\ Held'
    BY <1>1, <1>2, <1>4, <2>1 DEF Values, Held, OneOwner
  <2>3. Counters' /\ NoMissedWakeup'
    BY <1>1, <2>1 DEF Counters, Shared, Exclusive, Waiting, NoMissedWakeup, state, CanRead, CanWrite
  <2>4. QED BY <2>2, <2>3
<1>7. QED BY <1>5, <1>6

\* The last handle of a process gives the storage root up.
LEMMA CloseStep ==
  ASSUME IInv, NEW t \in Threads, Close(t)
  PROVE  IInv'
<1> USE DEF IInv
<1>1. /\ t \in handles /\ waits[t] = "run" /\ GuardsOf(t) = {} /\ handles' = handles \ {t}
      /\ refcount' = refcount - 1 /\ owner' = (IF refcount' = 0 THEN NoProcess ELSE owner)
      /\ UNCHANGED <<state, held, waits>>
  BY DEF Close
<1>2. IsFiniteSet(handles)
  BY FS_Subset, StorageLockAssumption DEF StorageLockAssumption, Values
<1>3. /\ IsFiniteSet(handles') /\ Cardinality(handles') = Cardinality(handles) - 1
      /\ (Cardinality(handles') = 0 <=> handles' = {})
  <2>1. IsFiniteSet(handles') /\ Cardinality(handles') = Cardinality(handles) - 1
    BY <1>1, <1>2, FS_RemoveElement
  <2>2. QED BY <2>1, FS_EmptySet
<1>4. Values'
  BY <1>1, <1>3 DEF Values
<1>5. Held'
  <2>1. \A g \in held' : g.t \in handles'
    BY <1>1, Zenon DEF Held, GuardsOf
  <2>2. \A u \in Threads : waits'[u] # "run" => u \in handles'
    BY <1>1 DEF Held
  <2>3. owner' = owner \/ (owner' = NoProcess /\ handles' = {})
    BY <1>1, <1>3, <1>4 DEF Values
  <2>4. OneOwner' /\ (owner' # NoProcess => owner' \in Procs)
    BY <1>1, <2>3, Zenon DEF Held, OneOwner
  <2>5. QED BY <2>1, <2>2, <2>4 DEF Held
<1>6. Counters'
  BY <1>1 DEF Counters, Shared, Exclusive, Waiting, state
<1>7. NoMissedWakeup'
  BY <1>1 DEF NoMissedWakeup, state, CanRead, CanWrite
<1>8. QED BY <1>4, <1>5, <1>6, <1>7

\* A process that dies takes its handles and guards with it.
LEMMA DieStep ==
  ASSUME IInv, NEW p \in Procs, Die(p)
  PROVE  IInv'
<1>1. owner' = NoProcess /\ handles' = {} /\ refcount' = 0 /\ held' = {} /\ waits' = [t \in Threads |-> "run"]
  BY DEF Die
<1>2. IsFiniteSet({}) /\ Cardinality({}) = 0
  BY FS_EmptySet
<1>3. QED BY <1>1, <1>2 DEF IInv, Values, Held, OneOwner, Counters, NoMissedWakeup

\* A thread with a handle belongs to the owner, whose counters are exact.
LEMMA HandleOwner ==
  ASSUME IInv, NEW t \in Threads, t \in handles
  PROVE  /\ owner # NoProcess /\ t # NoProcess
         /\ IsFiniteSet(Waiting) /\ IsFiniteSet(Shared) /\ IsFiniteSet(Exclusive)
         /\ writeDepth = Cardinality(Exclusive) /\ writeDepth \in Nat
         /\ readers = Cardinality(Shared) /\ readers \in Nat
         /\ waitingWriters = Cardinality(Waiting) /\ waitingWriters \in Nat
<1>1. owner # NoProcess /\ t # NoProcess
  <2>1. ProcOf[t] # NoProcess /\ t # NoProcess
    BY StorageLockAssumption, Zenon DEF StorageLockAssumption
  <2>2. QED BY <2>1 DEF IInv, Held, OneOwner
<1>2. IsFiniteSet(Waiting)
  BY FS_Subset, StorageLockAssumption DEF StorageLockAssumption, Waiting
<1>3. IsFiniteSet(Shared) /\ IsFiniteSet(Exclusive)
  BY KindsFinite DEF IInv, Values
<1>4. QED BY <1>1, <1>2, <1>3, FS_CardinalityType DEF IInv, Counters

\* What a grant of a shared guard leaves.
LEMMA GrantReadStep ==
  ASSUME IInv, NEW t \in Threads, t \in handles, CanRead(t), Grant(t, "r"), t \notin Waiting,
         readers' = readers + 1, UNCHANGED <<writer, writeDepth, waitingWriters>>
  PROVE  IInv'
<1>0. Values /\ Held /\ Counters /\ NoMissedWakeup
  BY DEF IInv
<1>1. PICK g \in Guards : g \notin held /\ g.t = t /\ g.kind = "r" /\ held' = held \cup {g}
  BY <1>0, GrantAdds
<1>2. UNCHANGED <<owner, handles, refcount>> /\ waits' = [waits EXCEPT ![t] = "run"]
  BY DEF Grant
<1>3. /\ IsFiniteSet(held') /\ Cardinality(Shared') = Cardinality(Shared) + 1
      /\ Exclusive' = Exclusive
  BY <1>0, <1>1, AddGuard DEF Values
<1>4. Values'
  BY <1>0, <1>1, <1>2, <1>3 DEF Values
<1>5. Held'
  BY <1>0, <1>1, <1>2 DEF Held, OneOwner, Values
<1>6. Waiting' = Waiting
  BY <1>0, <1>2 DEF Waiting, Values
<1>7. Counters'
  BY <1>0, <1>1, <1>2, <1>3, <1>6 DEF Counters, CanRead
<1>8. NoMissedWakeup'
  <2>1. readers \in Nat BY HandleOwner
  <2>2. readers' # 0 BY <2>1
  <2>3. ASSUME NEW u \in Threads, u # t, waits[u] = "parked r" => ~CanRead(u), waits[u] = "parked w" => ~CanWrite(u)
        PROVE  /\ waits'[u] = "parked r" => ~CanRead(u)'
               /\ waits'[u] = "parked w" => ~CanWrite(u)'
    BY <1>0, <1>2, <2>2, <2>3 DEF CanRead, CanWrite, Values
  <2>4. waits'[t] = "run"
    BY <1>0, <1>2 DEF Values
  <2>5. QED BY <1>0, <2>3, <2>4 DEF NoMissedWakeup
<1>9. QED BY <1>4, <1>5, <1>7, <1>8 DEF IInv

\* What a grant of an exclusive guard leaves.
LEMMA GrantWriteStep ==
  ASSUME IInv, NEW t \in Threads, t \in handles, Grant(t, "w"), writer' = t, UNCHANGED readers,
         \/ writer = t /\ writeDepth' = writeDepth + 1
         \/ CanWrite(t) /\ writeDepth' = 1,
         \/ t \notin Waiting /\ waitingWriters' = waitingWriters
         \/ t \in Waiting /\ waitingWriters' = waitingWriters - 1
  PROVE  IInv'
<1> USE DEF IInv
<1>1. PICK g \in Guards : g \notin held /\ g.t = t /\ g.kind = "w" /\ held' = held \cup {g}
  BY GrantAdds
<1>2. UNCHANGED <<owner, handles, refcount>> /\ waits' = [waits EXCEPT ![t] = "run"]
  BY DEF Grant
<1>3. /\ IsFiniteSet(held') /\ Cardinality(Exclusive') = Cardinality(Exclusive) + 1
      /\ Shared' = Shared /\ g \in Exclusive'
  BY <1>1, AddGuard DEF Values, Exclusive
<1>4. Values'
  BY <1>1, <1>2, <1>3 DEF Values
<1>5. Held'
  BY <1>1, <1>2 DEF Held, OneOwner, Values
<1>6. t # NoProcess
  BY StorageLockAssumption DEF StorageLockAssumption
<1>7. Counters'
  <2>1. owner # NoProcess
    BY HandleOwner
  <2>0. waitingWriters' = Cardinality(Waiting')
    <3>1. Waiting' = Waiting \ {t}
      BY <1>2 DEF Waiting, Values
    <3>2. IsFiniteSet(Waiting) /\ waitingWriters = Cardinality(Waiting)
      BY HandleOwner
    <3>3. QED BY <3>1, <3>2, FS_RemoveElement
  <2>2. CASE writer = t /\ writeDepth' = writeDepth + 1
    BY <1>1, <1>2, <1>3, <1>6, <2>0, <2>1, <2>2 DEF Counters
  <2>3. CASE CanWrite(t) /\ writeDepth' = 1
    <3>1. Exclusive = {} /\ Cardinality(Shared) = 0
      BY <2>1, <2>3 DEF Counters, CanWrite
    <3>2. Shared = {} /\ Cardinality(Exclusive) = 0
      BY <3>1, KindsFinite, FS_EmptySet DEF Values
    <3>3. held = {}
      <4>1. \A h \in held : h.kind \in {"r", "w"}
        BY DEF Values, Guards
      <4>2. QED BY <3>1, <3>2, <4>1, Zenon DEF Shared, Exclusive
    <3>4. QED BY <1>1, <1>2, <1>3, <1>6, <2>0, <2>1, <2>3, <3>1, <3>2, <3>3 DEF Counters
  <2>4. QED BY <2>2, <2>3
<1>8. NoMissedWakeup'
  BY <1>2, <1>6 DEF NoMissedWakeup, CanRead, CanWrite, Values
<1>9. QED BY <1>4, <1>5, <1>7, <1>8

\* One more than a count is not zero.
LEMMA MoreThanNone == \A n \in Nat : n + 1 # 0
OBVIOUS

\* A thread that may not go on parks.
LEMMA ParkStep ==
  ASSUME IInv, NEW t \in Threads, t \in handles, NEW where \in {"parked r", "parked w"}, Park(t, where),
         UNCHANGED <<writer, writeDepth, readers>>,
         where = "parked r" => ~CanRead(t) /\ t \notin Waiting /\ waitingWriters' = waitingWriters,
         where = "parked w" => /\ ~CanWrite(t)
                               /\ \/ t \in Waiting /\ waitingWriters' = waitingWriters
                                  \/ t \notin Waiting /\ waitingWriters' = waitingWriters + 1
  PROVE  IInv'
<1>0. Values /\ Held /\ Counters /\ NoMissedWakeup
  BY DEF IInv
<1>1. UNCHANGED <<owner, handles, refcount, held>> /\ waits' = [waits EXCEPT ![t] = where]
  BY DEF Park
<1>2. Values' /\ Held'
  BY <1>0, <1>1 DEF Values, Held, OneOwner
<1>3. /\ IsFiniteSet(Waiting) /\ waitingWriters = Cardinality(Waiting) /\ waitingWriters \in Nat
  BY HandleOwner
<1>4. waitingWriters' = Cardinality(Waiting') /\ waitingWriters' \in {waitingWriters, waitingWriters + 1}
  <2>1. CASE where = "parked r"
    <3>1. Waiting' = Waiting
      BY <1>0, <1>1, <2>1 DEF Waiting, Values
    <3>2. QED BY <1>3, <2>1, <3>1
  <2>2. CASE where = "parked w"
    <3>1. Waiting' = Waiting \cup {t}
      BY <1>0, <1>1, <2>2 DEF Waiting, Values
    <3>2. QED BY <1>3, <2>2, <3>1, FS_AddElement
  <2>3. QED BY <2>1, <2>2
<1>5. Counters'
  BY <1>0, <1>1, <1>4 DEF Counters, Shared, Exclusive
<1>6. NoMissedWakeup'
  <2>1. ASSUME NEW u \in Threads, u # t, waits[u] = "parked r" => ~CanRead(u), waits[u] = "parked w" => ~CanWrite(u)
        PROVE  /\ waits'[u] = "parked r" => ~CanRead(u)'
               /\ waits'[u] = "parked w" => ~CanWrite(u)'
    <3>1. waits'[u] = waits[u] BY <1>0, <1>1, <2>1 DEF Values
    <3>2. CASE waitingWriters' = waitingWriters
      BY <2>1, <3>1, <3>2 DEF CanRead, CanWrite
    <3>3. CASE waitingWriters' = waitingWriters + 1
      <4>1. waitingWriters' # 0
        <5>1. \A n \in Nat : n + 1 # 0 BY MoreThanNone
        <5>2. waitingWriters \in Nat BY <1>3
        <5>3. QED BY <3>3, <5>1, <5>2, Zenon
      <4>2. UNCHANGED <<writer, readers>> OBVIOUS
      <4>3. QED BY <2>1, <3>1, <4>1, <4>2 DEF CanRead, CanWrite
    <3>4. QED BY <1>4, <3>2, <3>3
  <2>2. /\ waits'[t] = "parked r" => ~CanRead(t)'
        /\ waits'[t] = "parked w" => ~CanWrite(t)'
    <3>1. waits'[t] = where BY <1>0, <1>1 DEF Values
    <3>2. UNCHANGED <<writer, readers>> OBVIOUS
    <3>3. CASE where = "parked r"
      BY <3>1, <3>2, <3>3 DEF CanRead
    <3>4. CASE where = "parked w"
      BY <3>1, <3>2, <3>4 DEF CanWrite
    <3>5. QED BY <3>3, <3>4
  <2>3. QED BY <1>0, <2>1, <2>2 DEF NoMissedWakeup
<1>7. QED BY <1>2, <1>5, <1>6 DEF IInv

\* The three ways read, write and a woken thread go on.
LEMMA AskStep ==
  ASSUME IInv, NEW t \in Threads, Read(t) \/ Write(t) \/ Retry(t)
  PROVE  IInv'
<1>0. waits \in [Threads -> {"run", "parked r", "woken r", "parked w", "woken w"}]
  BY DEF IInv, Values
<1>1. CASE Read(t)
  <2>1. t \in handles /\ t \notin Waiting
    BY <1>0, <1>1 DEF Read, MayAsk, Waiting
  <2>2. QED BY <1>1, <2>1, GrantReadStep, ParkStep DEF Read, state
<1>2. CASE Write(t)
  <2>1. t \in handles /\ t \notin Waiting
    BY <1>0, <1>2 DEF Write, MayAsk, Waiting
  <2>2. QED BY <1>2, <2>1, GrantWriteStep, ParkStep DEF Write
<1>3. CASE Retry(t)
  <2>1. t \in handles
    BY <1>0, <1>3 DEF Retry, IInv, Held
  <2>2. CASE waits[t] = "woken r"
    <3>1. t \notin Waiting BY <2>2 DEF Waiting
    <3>2. QED BY <1>3, <2>1, <2>2, <3>1, GrantReadStep, ParkStep DEF Retry, state
  <2>3. CASE waits[t] = "woken w"
    <3>1. t \in Waiting BY <2>3 DEF Waiting
    <3>2. QED BY <1>3, <2>1, <2>3, <3>1, GrantWriteStep, ParkStep DEF Retry, state
  <2>4. QED BY <1>3, <2>2, <2>3 DEF Retry
<1>4. QED BY <1>1, <1>2, <1>3

\* notify_all parks nobody and keeps the number of waiting writers.
LEMMA NotifyAllWakes ==
  ASSUME Values, NotifyAll
  PROVE  /\ waits' \in [Threads -> {"run", "parked r", "woken r", "parked w", "woken w"}]
         /\ \A t \in Threads : waits'[t] \notin {"parked r", "parked w"} /\ (waits'[t] = "run" <=> waits[t] = "run")
         /\ Waiting' = Waiting
<1>1. ASSUME NEW t \in Threads
      PROVE  /\ waits'[t] \in {"run", "woken r", "woken w"}
             /\ waits'[t] = "run" <=> waits[t] = "run"
             /\ waits'[t] = "woken w" <=> waits[t] \in {"parked w", "woken w"}
  BY DEF NotifyAll, Values
<1>2. waits' = [t \in Threads |-> waits'[t]]
  BY DEF NotifyAll
<1>3. waits' \in [Threads -> {"run", "parked r", "woken r", "parked w", "woken w"}]
  BY <1>1, <1>2
<1>4. Waiting' = Waiting
  BY <1>1 DEF Waiting
<1>5. QED BY <1>1, <1>3, <1>4

\* Dropping a guard keeps the counters exact and wakes whoever may now go on.
LEMMA UnlockStep ==
  ASSUME IInv, NEW g \in held, ReadUnlock(g) \/ WriteUnlock(g)
  PROVE  IInv'
<1>0. Values /\ Held /\ Counters /\ NoMissedWakeup
  BY DEF IInv
<1>1. /\ held' = held \ {g} /\ UNCHANGED <<owner, handles, refcount, waitingWriters>>
      /\ g.t \in Threads /\ g.t \in handles /\ (waits' = waits \/ NotifyAll)
  BY <1>0 DEF ReadUnlock, WriteUnlock, Values, Held, Guards
<1>2. /\ owner # NoProcess /\ writeDepth = Cardinality(Exclusive) /\ readers = Cardinality(Shared)
      /\ waitingWriters = Cardinality(Waiting)
  BY <1>1, HandleOwner
<1>3. /\ Waiting' = Waiting
      /\ waits' \in [Threads -> {"run", "parked r", "woken r", "parked w", "woken w"}]
      /\ \A t \in Threads : waits'[t] # "run" => waits[t] # "run"
  BY <1>0, <1>1, NotifyAllWakes DEF Values, Waiting
<1>4. IsFiniteSet(held')
  BY <1>0, <1>1, RemoveGuard DEF Values
<1>5. Values' /\ Held'
  BY <1>0, <1>1, <1>3, <1>4 DEF Values, Held, OneOwner
<1>6. CASE ReadUnlock(g)
  <2>1. g.kind = "r" /\ readers' = readers - 1 /\ UNCHANGED <<writer, writeDepth>>
    BY <1>6 DEF ReadUnlock
  <2>2. Cardinality(Shared') = Cardinality(Shared) - 1 /\ Exclusive' = Exclusive
    BY <1>0, <1>1, <2>1, RemoveGuard DEF Values
  <2>3. Counters'
    BY <1>0, <1>1, <1>2, <1>3, <2>1, <2>2 DEF Counters
  <2>4. NoMissedWakeup'
    <3>1. CASE readers' = 0
      BY <1>0, <1>6, <3>1, NotifyAllWakes DEF ReadUnlock, NoMissedWakeup
    <3>2. CASE readers' # 0
      <4>1. waits' = waits BY <1>6, <3>2 DEF ReadUnlock
      <4>2. QED BY <1>0, <1>1, <2>1, <3>2, <4>1 DEF NoMissedWakeup, CanRead, CanWrite
    <3>3. QED BY <3>1, <3>2
  <2>5. QED BY <1>5, <2>3, <2>4 DEF IInv
<1>7. CASE WriteUnlock(g)
  <2>1. g.kind = "w" /\ writeDepth' = writeDepth - 1 /\ UNCHANGED readers
    BY <1>7 DEF WriteUnlock
  <2>2. /\ Cardinality(Exclusive') = Cardinality(Exclusive) - 1 /\ Shared' = Shared
        /\ (Cardinality(Exclusive') = 0 <=> Exclusive' = {})
    BY <1>0, <1>1, <2>1, RemoveGuard DEF Values
  <2>3. writer # NoProcess
    BY <1>0, <1>2, <2>1 DEF Counters, Exclusive
  <2>4. CASE writeDepth' = 0
    <3>1. writer' = NoProcess /\ NotifyAll BY <1>7, <2>4 DEF WriteUnlock
    <3>2. Counters' BY <1>0, <1>1, <1>2, <1>3, <2>1, <2>2, <2>4, <3>1 DEF Counters
    <3>3. NoMissedWakeup' BY <1>0, <3>1, NotifyAllWakes DEF NoMissedWakeup
    <3>4. QED BY <1>5, <3>2, <3>3 DEF IInv
  <2>5. CASE writeDepth' # 0
    <3>1. UNCHANGED <<writer, waits>> BY <1>7, <2>5 DEF WriteUnlock
    <3>2. Counters' BY <1>0, <1>1, <1>2, <1>3, <2>1, <2>2, <2>3, <2>5, <3>1 DEF Counters
    <3>3. NoMissedWakeup' BY <1>0, <1>1, <2>1, <3>1 DEF NoMissedWakeup, CanRead, CanWrite
    <3>4. QED BY <1>5, <3>2, <3>3 DEF IInv
  <2>6. QED BY <2>4, <2>5
<1>8. QED BY <1>6, <1>7

(***************************************************************************)
(* The theorems.                                                           *)
(***************************************************************************)

\* The inductive invariant holds in every state.
THEOREM LockInvariant == LockSpec => []IInv
<1>1. LockInit => IInv
  BY InitIInv
<1>2. IInv /\ [LockNext]_lockVars => IInv'
  <2> SUFFICES ASSUME IInv, [LockNext]_lockVars PROVE IInv'
    OBVIOUS
  <2>1. CASE LockNext
    BY <2>1, OpenStep, CloseStep, AskStep, UnlockStep, DieStep DEF LockNext
  <2>2. CASE UNCHANGED lockVars
    BY <2>2 DEF lockVars, state, IInv, Values, Held, OneOwner, Counters, NoMissedWakeup, CanRead, CanWrite,
                Shared, Exclusive, Waiting
  <2>3. QED BY <2>1, <2>2
<1>3. QED BY <1>1, <1>2, PTL DEF LockSpec

\* The counters count the guards that are alive, one process owns the root, and an
\* exclusive guard excludes every guard of every other thread, for any number of threads
\* and processes and any nesting.
THEOREM LockIsSafe == LockSpec => []LockSafe
<1>1. IInv => Exclusion
  <2> SUFFICES ASSUME IInv, NEW g \in held, NEW h \in held, g.kind = "w" PROVE h.t = g.t
    BY DEF Exclusion
  <2>1. g.t \in Threads /\ g.t \in handles BY DEF IInv, Values, Held, Guards
  <2>2. owner # NoProcess BY <2>1, HandleOwner
  <2>3. QED BY <2>2 DEF IInv, Counters, Exclusive
<1>2. IInv => LockTypeOK
  <2> SUFFICES ASSUME IInv PROVE LockTypeOK
    OBVIOUS
  <2>1. owner # NoProcess => writer \in Threads \cup {NoProcess}
    BY DEF IInv, Values, Counters, Exclusive, Guards
  <2>2. QED BY <2>1 DEF IInv, LockTypeOK, Values, Held, Counters, Waiting
<1>3. IInv => OneOwner
  BY DEF IInv, Held
<1>4. QED BY <1>1, <1>2, <1>3, LockInvariant, PTL DEF LockSafe

\* Nobody sleeps on a condition that holds: every unlock that makes one true notifies.
THEOREM WakeupSafe == LockSpec => []NoMissedWakeup
<1>1. IInv => NoMissedWakeup
  BY DEF IInv
<1>2. QED BY <1>1, LockInvariant, PTL
=============================================================================
