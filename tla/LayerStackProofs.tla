-------------------------- MODULE LayerStackProofs --------------------------
(***************************************************************************)
(* The layer store never loses a layer that it still needs, for any number *)
(* of change sets, leases and layer ids.                                   *)
(*                                                                         *)
(* None of the three safety invariants is inductive alone: a step that     *)
(* removes directories is safe only because the ids a publish or a squash  *)
(* is still creating are in no manifest and under no lease, and because    *)
(* the plan lease is in the registry until the squash releases it.  IInv   *)
(* adds those facts.                                                       *)
(***************************************************************************)
EXTENDS LayerStack, TLAPS

MType == [version : Nat, layers : Seq(Nat)]

\* Values, and every directory's id was allocated.
Types ==
  /\ nextId \in Nat
  /\ layers \subseteq Nat /\ \A x \in layers : x < nextId
  /\ manifest \in survivors /\ survivors \subseteq MType
  /\ work \in Seq(Nat)
  /\ todo \subseteq Seq(Nat)
  /\ pending \subseteq built
  /\ \A b \in built : b.s \in Nat /\ b.s < nextId /\ b.run \in Seq(Nat)

Kept ==
  /\ durable \subseteq layers
  /\ SurvivingManifestsIntact
  /\ LeasedLayersOnDisk

\* The id a publish allocated is nobody else's until its manifest swap.
Writer ==
  /\ wpc \in {"idle", "staged", "renamed", "synced", "digested", "swapped"}
  /\ wpc # "idle" => wid \in Nat /\ wid < nextId /\ wid \notin LeasedLayers(leases) /\ wid \notin BuiltIds
  /\ wpc \in {"staged", "renamed", "synced", "digested"} =>
       \A m \in survivors : wid \notin Range(m.layers)
  /\ wpc = "renamed" => wid \in layers
  /\ wpc \in {"synced", "digested", "swapped"} => wid \in durable

\* So are the ids of the blocks a squash has built.
Squasher ==
  /\ sqpc \in {"idle", "plan", "build", "splice", "promote", "syncfs", "swap", "syncroot", "record", "release", "done"}
  /\ sqpc \in {"build", "splice", "promote", "syncfs", "swap", "syncroot", "record", "release"} =>
       PlanLease \in DOMAIN leases
  /\ ~flight => sqpc = "idle"
  /\ sqpc \in {"idle", "plan", "release", "done"} => built = {}
  /\ sqpc \in {"build", "splice", "promote", "syncfs", "swap"} =>
       /\ BuiltIds \cap LeasedLayers(leases) = {}
       /\ \A m \in survivors : BuiltIds \cap Range(m.layers) = {}
       /\ BuiltIds \subseteq layers \cup staging
  /\ sqpc \in {"splice", "promote", "syncfs", "swap"} =>
       Range(work) \subseteq Range(manifest.layers) \cup BuiltIds
  /\ sqpc = "syncfs" => BuiltIds \subseteq layers
  /\ sqpc = "swap" => BuiltIds \subseteq durable
  /\ sqpc \in {"splice", "promote", "syncfs", "swap", "syncroot", "record"} => wpc = "idle"

\* A daemon that is down holds nothing in memory.
Down == ~up => DOMAIN leases = {} /\ wpc = "idle" /\ sqpc = "idle"

\* The inductive invariant.
IInv == Types /\ Kept /\ Writer /\ Squasher /\ Down

\* The directory fsync after a manifest rename does not fail.
NoLateFault == "late publish" \notin Faults /\ "late squash" \notin Faults

(***************************************************************************)
(* Lemmas on leases and chains.                                            *)
(***************************************************************************)

\* Taking a lease pins at most the layers of its manifest besides those already pinned.
LEMMA LeasedWith ==
  ASSUME NEW ls, NEW l, NEW m
  PROVE  LeasedLayers(With(ls, l, m)) \subseteq LeasedLayers(ls) \cup Range(m.layers)
BY DEF LeasedLayers, With

\* Taking a lease keeps the others.
LEMMA DomainWith ==
  ASSUME NEW ls, NEW l, NEW m
  PROVE  DOMAIN With(ls, l, m) = DOMAIN ls \cup {l}
BY DEF With

\* Dropping a lease pins nothing new and keeps the other leases.
LEMMA LeasedWithout ==
  ASSUME NEW ls, NEW l
  PROVE  /\ LeasedLayers(Without(ls, l)) \subseteq LeasedLayers(ls)
         /\ DOMAIN Without(ls, l) = DOMAIN ls \ {l}
BY DEF LeasedLayers, Without

\* The layers of a lease in the registry are pinned.
LEMMA LeasedMember ==
  ASSUME NEW ls, NEW l \in DOMAIN ls
  PROVE  Range(ls[l].layers) \subseteq LeasedLayers(ls)
BY DEF LeasedLayers

\* Joining two chains gives the layers of both.
LEMMA RangeConcat ==
  ASSUME NEW a \in Seq(Nat), NEW b \in Seq(Nat)
  PROVE  a \o b \in Seq(Nat) /\ Range(a \o b) \subseteq Range(a) \cup Range(b)
<1>1. /\ a \o b \in Seq(Nat)
      /\ DOMAIN (a \o b) = 1..(Len(a) + Len(b))
      /\ \A i \in 1..(Len(a) + Len(b)) : (a \o b)[i] = IF i <= Len(a) THEN a[i] ELSE b[i - Len(a)]
      /\ DOMAIN a = 1..Len(a) /\ Len(a) \in Nat
      /\ DOMAIN b = 1..Len(b) /\ Len(b) \in Nat
  OBVIOUS
<1>2. SUFFICES ASSUME NEW i \in 1..(Len(a) + Len(b)) PROVE (a \o b)[i] \in Range(a) \cup Range(b)
  BY <1>1 DEF Range
<1>3. CASE i <= Len(a)
  <2>1. i \in DOMAIN a BY <1>1, <1>3
  <2>2. QED BY <1>1, <1>3, <2>1 DEF Range
<1>4. CASE ~(i <= Len(a))
  <2>1. i - Len(a) \in DOMAIN b BY <1>1, <1>4
  <2>2. QED BY <1>1, <1>4, <2>1 DEF Range
<1>5. QED BY <1>3, <1>4

\* Prepending a layer adds that layer.
LEMMA RangePrepend ==
  ASSUME NEW x \in Nat, NEW s \in Seq(Nat)
  PROVE  <<x>> \o s \in Seq(Nat) /\ Range(<<x>> \o s) = {x} \cup Range(s)
<1>1. <<x>> \in Seq(Nat) /\ Range(<<x>>) \subseteq {x}
  BY DEF Range
<1>2. <<x>> \o s \in Seq(Nat) /\ Range(<<x>> \o s) \subseteq {x} \cup Range(s)
  BY <1>1, RangeConcat
<1>3. /\ DOMAIN (<<x>> \o s) = 1..(1 + Len(s)) /\ (<<x>> \o s)[1] = x
      /\ DOMAIN s = 1..Len(s) /\ Len(s) \in Nat
      /\ \A i \in 1..Len(s) : (<<x>> \o s)[i + 1] = s[i]
  OBVIOUS
<1>4. x \in Range(<<x>> \o s)
  <2>1. 1 \in 1..(1 + Len(s)) BY <1>3
  <2>2. QED BY <1>3, <2>1, Zenon DEF Range
<1>5. ASSUME NEW i \in DOMAIN s PROVE s[i] \in Range(<<x>> \o s)
  <2>1. i + 1 \in DOMAIN (<<x>> \o s) /\ (<<x>> \o s)[i + 1] = s[i]
    BY <1>3
  <2>2. QED BY <2>1, Zenon DEF Range
<1>6. QED BY <1>2, <1>4, <1>5 DEF Range

\* Part of a chain has only layers of the chain.
LEMMA RangeSubSeq ==
  ASSUME NEW c \in Seq(Nat), NEW m \in Nat, NEW n \in Nat, m >= 1, n <= Len(c)
  PROVE  SubSeq(c, m, n) \in Seq(Nat) /\ Range(SubSeq(c, m, n)) \subseteq Range(c)
<1>1. DOMAIN c = 1..Len(c) /\ Len(c) \in Nat
  OBVIOUS
<1>2. /\ SubSeq(c, m, n) \in Seq(Nat)
      /\ DOMAIN SubSeq(c, m, n) = 1..Len(SubSeq(c, m, n))
      /\ Len(SubSeq(c, m, n)) = IF m <= n THEN n - m + 1 ELSE 0
      /\ \A i \in 1..Len(SubSeq(c, m, n)) : SubSeq(c, m, n)[i] = c[m + i - 1]
  BY <1>1
<1>3. SUFFICES ASSUME NEW i \in 1..Len(SubSeq(c, m, n)) PROVE SubSeq(c, m, n)[i] \in Range(c)
  BY <1>2, SMTT(30) DEF Range
<1>4. m + i - 1 \in DOMAIN c
  BY <1>1, <1>2
<1>5. QED BY <1>2, <1>4 DEF Range

\* Splicing a flattened layer over a run adds that layer and no other.
LEMMA SpliceLayers ==
  ASSUME NEW chain \in Seq(Nat), NEW run \in Seq(Nat), NEW s \in Nat, Occurrences(chain, run) # {}
  PROVE  /\ Splice(chain, run, s) \in Seq(Nat)
         /\ Range(Splice(chain, run, s)) \subseteq Range(chain) \cup {s}
<1> DEFINE i == CHOOSE i \in Occurrences(chain, run) : TRUE
           pre == SubSeq(chain, 1, i - 1)
           suf == SubSeq(chain, i + Len(run), Len(chain))
<1>1. i \in Occurrences(chain, run)
  OBVIOUS
<1>2. /\ i \in 1..(Len(chain) + 1) /\ i + Len(run) <= Len(chain) + 1
      /\ Len(chain) \in Nat /\ Len(run) \in Nat
  BY <1>1 DEF Occurrences
<1>3. pre \in Seq(Nat) /\ Range(pre) \subseteq Range(chain)
  <2>1. i - 1 \in Nat /\ i - 1 <= Len(chain) /\ 1 \in Nat /\ 1 >= 1 BY <1>2
  <2> HIDE DEF i
  <2>2. QED BY <2>1, RangeSubSeq
<1>4. suf \in Seq(Nat) /\ Range(suf) \subseteq Range(chain)
  <2>1. i + Len(run) \in Nat /\ i + Len(run) >= 1 /\ Len(chain) <= Len(chain) BY <1>2
  <2> HIDE DEF i
  <2>2. QED BY <1>2, <2>1, RangeSubSeq
<1>5. <<s>> \in Seq(Nat) /\ Range(<<s>>) \subseteq {s}
  BY DEF Range
<1>6. pre \o <<s>> \in Seq(Nat) /\ Range(pre \o <<s>>) \subseteq Range(chain) \cup {s}
  BY <1>3, <1>5, RangeConcat
<1>7. (pre \o <<s>>) \o suf \in Seq(Nat) /\ Range((pre \o <<s>>) \o suf) \subseteq Range(chain) \cup {s}
  <2> HIDE DEF pre, suf
  <2>1. QED BY <1>4, <1>6, RangeConcat
<1>8. Splice(chain, run, s) = (pre \o <<s>>) \o suf
  BY DEF Splice
<1>9. QED BY <1>7, <1>8

\* The planned blocks are parts of the manifest's chain.
LEMMA BlocksAreChains ==
  ASSUME NEW chain \in Seq(Nat), NEW boundaries
  PROVE  PartitionBlocks(chain, boundaries) \subseteq Seq(Nat)
<1>1. DOMAIN chain = 1..Len(chain) /\ Len(chain) \in Nat
  OBVIOUS
<1>2. \A i, j \in DOMAIN chain : SubSeq(chain, i, j) \in Seq(Nat)
  BY <1>1, RangeSubSeq
<1>3. SUFFICES ASSUME NEW x \in PartitionBlocks(chain, boundaries) PROVE x \in Seq(Nat)
  OBVIOUS
<1>4. PICK r \in (DOMAIN chain) \X (DOMAIN chain) : x = SubSeq(chain, r[1], r[2])
  BY <1>3, Zenon DEF PartitionBlocks
<1>5. r[1] \in DOMAIN chain /\ r[2] \in DOMAIN chain
  OBVIOUS
<1>6. QED BY <1>2, <1>4, <1>5

(***************************************************************************)
(* Removing unreferenced layers keeps what is still needed.                *)
(***************************************************************************)

\* Layers that no lease and not the active manifest names may be removed.
LEMMA RemoveKeeps ==
  ASSUME Types, Kept, NEW gone,
         gone \cap Range(manifest.layers) = {},
         UNCHANGED <<manifest, nextId>>, leases' = leases \/ LeasedLayers(leases') \subseteq LeasedLayers(leases),
         gone \cap LeasedLayers(leases') = {},
         RemoveLayers(gone)
  PROVE  /\ Kept'
         /\ layers' \subseteq layers /\ layers' = layers \ gone /\ durable' = durable \ gone
         /\ manifest' \in survivors' /\ survivors' \subseteq survivors
<1>1. layers' = layers \ gone /\ durable' = durable \ gone
  BY DEF RemoveLayers
<1>2. manifest' \in survivors' /\ survivors' \subseteq survivors
  BY DEF RemoveLayers, Types
<1>3. durable' \subseteq layers'
  BY <1>1 DEF Kept
<1>4. SurvivingManifestsIntact'
  <2>1. CASE gone \cap layers = {}
    <3>1. survivors' = survivors /\ durable' = durable
      BY <2>1, <1>1 DEF RemoveLayers, Kept
    <3>2. QED BY <3>1 DEF Kept, SurvivingManifestsIntact
  <2>2. CASE gone \cap layers # {}
    <3>1. survivors' = {manifest}
      BY <2>2 DEF RemoveLayers
    <3>2. Range(manifest.layers) \subseteq durable
      BY DEF Types, Kept, SurvivingManifestsIntact
    <3>3. QED BY <1>1, <3>1, <3>2 DEF SurvivingManifestsIntact
  <2>3. QED BY <2>1, <2>2
<1>5. LeasedLayersOnDisk'
  BY <1>1 DEF Kept, LeasedLayersOnDisk
<1>6. QED BY <1>1, <1>2, <1>3, <1>4, <1>5 DEF Kept

\* Releasing a lease collects only what became unreferenced.
LEMMA CollectKeeps ==
  ASSUME Types, Kept, NEW l \in DOMAIN leases, UNCHANGED <<manifest, nextId>>, ReleaseAndCollect(l)
  PROVE  /\ Kept'
         /\ layers' \subseteq layers
         /\ manifest' \in survivors' /\ survivors' \subseteq survivors
         /\ \E gone \in SUBSET LeasedLayers(leases) :
              layers' = layers \ gone /\ durable' = durable \ gone
         /\ LeasedLayers(leases') \subseteq LeasedLayers(leases)
         /\ DOMAIN leases' = DOMAIN leases \ {l}
<1>1. PICK gone \in SUBSET Unreferenced(Range(leases[l].layers), Without(leases, l)) : RemoveLayers(gone)
  BY DEF ReleaseAndCollect
<1>2. leases' = Without(leases, l)
  BY DEF ReleaseAndCollect
<1>3. /\ LeasedLayers(leases') \subseteq LeasedLayers(leases)
      /\ DOMAIN leases' = DOMAIN leases \ {l}
  BY <1>2, LeasedWithout
<1>4. gone \cap Range(manifest.layers) = {} /\ gone \cap LeasedLayers(leases') = {}
  BY <1>1, <1>2 DEF Unreferenced
<1>5. gone \subseteq LeasedLayers(leases)
  BY <1>1, LeasedMember DEF Unreferenced
<1>6. QED BY <1>1, <1>3, <1>4, <1>5, RemoveKeeps

(***************************************************************************)
(* Every step preserves IInv.                                              *)
(***************************************************************************)

\* The initial state satisfies the inductive invariant.
LEMMA InitIInv == Init => IInv
<1> SUFFICES ASSUME Init PROVE IInv
  OBVIOUS
<1>2. manifest.layers = <<0>> /\ <<0>> \in Seq(Nat) /\ <<>> \in Seq(Nat) /\ Range(<<0>>) = {0}
  BY DEF Init, Manifest, Base, Range
<1>3. LeasedLayers(leases) = {} /\ DOMAIN leases = {}
  BY DEF Init, LeasedLayers
<1>4. Types
  BY <1>2 DEF Init, Types, IdleSquash, Manifest, Base, MType
<1>5. Kept
  BY <1>2, <1>3 DEF Init, Kept, SurvivingManifestsIntact, LeasedLayersOnDisk, Base
<1>6. Writer /\ Squasher /\ Down
  BY <1>2, <1>3 DEF Init, Writer, Squasher, Down, IdleWriter, IdleSquash
<1>7. QED BY <1>4, <1>5, <1>6 DEF IInv

\* acquire_snapshot pins the active chain.
LEMMA AcquireSnapshotStep ==
  ASSUME IInv, NEW l \in LeaseIds, AcquireSnapshot(l)
  PROVE  IInv'
<1> USE DEF IInv
<1>1. wpc = "idle" /\ sqpc \notin {"splice", "promote", "syncfs", "swap", "syncroot", "record"} /\ up
  BY DEF AcquireSnapshot, Shareable, Exclusive
<1>2. UNCHANGED <<disk, up, subst, wr, flight, sq>> /\ leases' = With(leases, l, manifest)
  BY DEF AcquireSnapshot
<1>3. /\ LeasedLayers(leases') \subseteq LeasedLayers(leases) \cup Range(manifest.layers)
      /\ DOMAIN leases' = DOMAIN leases \cup {l}
  BY <1>2, LeasedWith, DomainWith
<1>4. Range(manifest.layers) \subseteq durable /\ durable \subseteq layers
  BY DEF Types, Kept, SurvivingManifestsIntact
<1>5. Types'
  BY <1>2 DEF Types, disk, sq
<1>6. Kept'
  BY <1>2, <1>3, <1>4 DEF Kept, SurvivingManifestsIntact, LeasedLayersOnDisk, disk
<1>7. Writer'
  BY <1>1, <1>2 DEF Writer, wr
<1>8. Squasher'
  <2>1. sqpc = "build" => BuiltIds \cap Range(manifest.layers) = {}
    BY DEF Squasher, Types
  <2>2. QED BY <1>1, <1>2, <1>3, <2>1 DEF Squasher, disk, wr, sq, BuiltIds
<1>9. Down'
  BY <1>1, <1>2 DEF Down
<1>10. QED BY <1>5, <1>6, <1>7, <1>8, <1>9

\* release_lease removes only what no manifest and no other lease names.
LEMMA ReleaseLeaseStep ==
  ASSUME IInv, LayerStackAssumption, NEW l \in LeaseIds, ReleaseLease(l)
  PROVE  IInv'
<1> USE DEF IInv
<1>1. wpc = "idle" /\ sqpc \notin {"splice", "promote", "syncfs", "swap", "syncroot", "record"} /\ up
  BY DEF ReleaseLease, Shareable, Exclusive
<1>2. /\ UNCHANGED <<manifest, staging, content, nextId, up, subst, wr, flight, sq>>
      /\ l \in DOMAIN leases /\ l # PlanLease
  BY DEF ReleaseLease, LayerStackAssumption
<1>3. /\ Kept'
      /\ layers' \subseteq layers
      /\ manifest' \in survivors' /\ survivors' \subseteq survivors
      /\ LeasedLayers(leases') \subseteq LeasedLayers(leases)
      /\ DOMAIN leases' = DOMAIN leases \ {l}
  BY <1>2, CollectKeeps DEF ReleaseLease
<1>4. PICK gone \in SUBSET LeasedLayers(leases) : layers' = layers \ gone
  BY <1>2, CollectKeeps DEF ReleaseLease
<1>5. Types'
  BY <1>2, <1>3 DEF Types, sq
<1>6. Writer'
  BY <1>1, <1>2 DEF Writer, wr
<1>7. Squasher'
  BY <1>1, <1>2, <1>3, <1>4 DEF Squasher, BuiltIds, wr, sq
<1>8. Down'
  BY <1>1, <1>2 DEF Down
<1>9. QED BY <1>3, <1>5, <1>6, <1>7, <1>8

\* acquire_rewritten_lease pins layers that it has seen to exist.
LEMMA AcquireRewrittenLeaseStep ==
  ASSUME IInv, NEW l \in LeaseIds, NEW n \in LeaseIds, AcquireRewrittenLease(l, n)
  PROVE  IInv'
<1> USE DEF IInv
<1>1. wpc = "idle" /\ sqpc = "done" /\ up
  BY DEF AcquireRewrittenLease, Shareable, Exclusive
<1>2. UNCHANGED <<disk, up, subst, wr, flight, sq>>
  BY DEF AcquireRewrittenLease
<1> DEFINE m == Manifest(leases[l].version, ContractLayers(leases[l].layers))
<1>3. leases' = With(leases, n, m) /\ Range(m.layers) \subseteq layers
  <2>1. /\ Range(ContractLayers(leases[l].layers)) \subseteq layers
        /\ leases' = With(leases, n, m)
    BY DEF AcquireRewrittenLease
  <2>2. m.layers = ContractLayers(leases[l].layers)
    BY DEF Manifest
  <2>3. QED BY <2>1, <2>2
<1>4. /\ LeasedLayers(leases') \subseteq LeasedLayers(leases) \cup Range(m.layers)
      /\ DOMAIN leases' = DOMAIN leases \cup {n}
  BY <1>3, LeasedWith, DomainWith
<1>5. Types'
  BY <1>2 DEF Types, disk, sq
<1>6. Kept'
  BY <1>2, <1>3, <1>4 DEF Kept, SurvivingManifestsIntact, LeasedLayersOnDisk, disk
<1>7. Writer' /\ Squasher' /\ Down'
  BY <1>1, <1>2 DEF Writer, Squasher, Down, BuiltIds, disk, wr, sq
<1>8. QED BY <1>5, <1>6, <1>7

\* A publish allocates an id that nothing names.
LEMMA PublishStageStep ==
  ASSUME IInv, NEW c, PublishStage(c)
  PROVE  IInv'
<1> USE DEF IInv
<1>1. wpc = "idle" /\ sqpc \notin {"splice", "promote", "syncfs", "swap", "syncroot", "record"} /\ up
  BY DEF PublishStage, Shareable, Exclusive
<1>2. /\ UNCHANGED <<manifest, survivors, layers, durable, digest, leaked, up, leases, subst, flight, sq>>
      /\ staging' = staging \cup {nextId} /\ wpc' = "staged" /\ wid' = nextId /\ nextId' = nextId + 1
  BY DEF PublishStage
<1>3. nextId \notin layers /\ nextId \notin BuiltIds
  BY DEF Types, BuiltIds
<1>4. nextId \notin LeasedLayers(leases) /\ \A m \in survivors : nextId \notin Range(m.layers)
  BY <1>3 DEF Kept, SurvivingManifestsIntact, LeasedLayersOnDisk
<1>5. Types'
  BY <1>2 DEF Types, sq
<1>6. Kept'
  BY <1>2 DEF Kept, SurvivingManifestsIntact, LeasedLayersOnDisk
<1>7. Writer'
  <2>1. nextId \in Nat /\ nextId < nextId + 1 /\ BuiltIds' = BuiltIds
    BY <1>2 DEF Types, BuiltIds, sq
  <2>2. QED BY <1>2, <1>3, <1>4, <2>1 DEF Writer
<1>8. Squasher'
  BY <1>1, <1>2 DEF Squasher, BuiltIds, sq
<1>9. Down'
  BY <1>1, <1>2 DEF Down
<1>10. QED BY <1>5, <1>6, <1>7, <1>8, <1>9

\* The rename makes the staged directory a layer directory.
LEMMA PublishRenameStep ==
  ASSUME IInv, PublishRename
  PROVE  IInv'
<1> USE DEF IInv
<1>1. /\ wpc = "staged" /\ wpc' = "renamed" /\ wid' = wid
      /\ staging' = staging \ {wid} /\ layers' = layers \cup {wid}
      /\ UNCHANGED <<manifest, survivors, durable, nextId, up, leases, flight, sq>>
  BY DEF PublishRename
<1>2. wid \in Nat /\ wid < nextId
  BY <1>1 DEF Writer
<1>3. Types'
  BY <1>1, <1>2 DEF Types, sq
<1>4. Kept'
  BY <1>1 DEF Kept, SurvivingManifestsIntact, LeasedLayersOnDisk
<1>5. Writer'
  BY <1>1 DEF Writer, BuiltIds, sq
<1>6. Squasher' /\ Down'
  BY <1>1 DEF Writer, Squasher, Down, BuiltIds, sq
<1>7. QED BY <1>3, <1>4, <1>5, <1>6

\* The fsync of layers/ makes it durable; the digest names no layer.
LEMMA PublishSyncStep ==
  ASSUME IInv, PublishSyncLayers \/ PublishDigest
  PROVE  IInv'
<1> USE DEF IInv
<1>1. /\ UNCHANGED <<manifest, survivors, layers, staging, nextId, up, leases, flight, sq>> /\ wid' = wid
      /\ \/ wpc = "renamed" /\ wpc' = "synced" /\ durable' = durable \cup {wid}
         \/ wpc = "synced" /\ wpc' = "digested" /\ durable' = durable
  BY DEF PublishSyncLayers, PublishDigest
<1>2. Types'
  BY <1>1 DEF Types, sq
<1>3. Kept'
  BY <1>1 DEF Kept, SurvivingManifestsIntact, LeasedLayersOnDisk, Writer
<1>4. Writer'
  BY <1>1 DEF Writer, BuiltIds, sq
<1>5. Squasher' /\ Down'
  BY <1>1 DEF Squasher, Down, BuiltIds, sq
<1>6. QED BY <1>2, <1>3, <1>4, <1>5

\* The manifest swap names the durable new layer.
LEMMA PublishSwapStep ==
  ASSUME IInv, PublishSwap
  PROVE  IInv'
<1> USE DEF IInv
<1>1. /\ wpc = "digested" /\ wpc' = "swapped" /\ wid' = wid
      /\ manifest' = Manifest(manifest.version + 1, <<wid>> \o manifest.layers)
      /\ survivors' = survivors \cup {manifest'}
      /\ UNCHANGED <<layers, durable, staging, nextId, up, leases, flight, sq>>
  BY DEF PublishSwap
<1>2. wid \in Nat /\ wid \in durable /\ wid \notin BuiltIds
  BY <1>1 DEF Writer
<1>3. manifest \in MType /\ Range(manifest.layers) \subseteq durable
  BY DEF Types, Kept, SurvivingManifestsIntact
<1>4. /\ manifest' \in MType
      /\ Range(manifest'.layers) = {wid} \cup Range(manifest.layers)
  <2>1. /\ <<wid>> \o manifest.layers \in Seq(Nat)
        /\ Range(<<wid>> \o manifest.layers) = {wid} \cup Range(manifest.layers)
    BY <1>2, <1>3, RangePrepend DEF MType
  <2>2. QED BY <1>1, <1>3, <2>1 DEF Manifest, MType
<1>5. Types'
  BY <1>1, <1>4 DEF Types, sq
<1>6. Kept'
  BY <1>1, <1>2, <1>3, <1>4 DEF Kept, SurvivingManifestsIntact, LeasedLayersOnDisk
<1>7. Writer'
  BY <1>1 DEF Writer, BuiltIds, sq
<1>8. Squasher'
  <2>1. sqpc \notin {"splice", "promote", "syncfs", "swap", "syncroot", "record"}
    BY <1>1 DEF Squasher
  <2>2. sqpc = "build" => BuiltIds \cap Range(manifest'.layers) = {}
    BY <1>2, <1>4 DEF Squasher, Types
  <2>3. QED BY <1>1, <2>1, <2>2 DEF Squasher, BuiltIds, sq
<1>9. Down'
  BY <1>1 DEF Down
<1>10. QED BY <1>5, <1>6, <1>7, <1>8, <1>9

\* The fsync of the storage root makes the current manifest the only survivor.
LEMMA PublishSyncRootStep ==
  ASSUME IInv, PublishSyncRoot
  PROVE  IInv'
<1> USE DEF IInv
<1>1. /\ wpc' = "idle" /\ survivors' = {manifest}
      /\ UNCHANGED <<manifest, layers, durable, staging, nextId, up, leases, flight, sq>>
  BY DEF PublishSyncRoot, WriterDone
<1>2. Types' /\ Kept'
  BY <1>1 DEF Types, Kept, SurvivingManifestsIntact, LeasedLayersOnDisk, sq
<1>3. Writer' /\ Squasher' /\ Down'
  BY <1>1 DEF Writer, Squasher, Down, Types, BuiltIds, sq
<1>4. QED BY <1>2, <1>3

\* A failed publish removes only the directory it created.
LEMMA PublishFailStep ==
  ASSUME IInv, NoLateFault, PublishFail
  PROVE  IInv'
<1> USE DEF IInv
<1>1. /\ wpc \in {"staged", "renamed", "synced", "digested"} /\ wpc' = "idle"
      /\ staging' = staging \ {wid}
      /\ UNCHANGED <<manifest, nextId, up, leases, flight, sq>>
      /\ UNCHANGED <<survivors, layers, durable>> \/ RemoveLayers({wid})
  BY DEF PublishFail, NoLateFault, WriterDone
<1>2. /\ wid \notin LeasedLayers(leases) /\ wid \notin BuiltIds
      /\ \A m \in survivors : wid \notin Range(m.layers)
  BY <1>1 DEF Writer
<1>3. /\ Kept' /\ layers' \subseteq layers /\ layers \ layers' \subseteq {wid}
      /\ durable \ durable' \subseteq {wid}
      /\ manifest' \in survivors' /\ survivors' \subseteq survivors
  <2>1. CASE UNCHANGED <<survivors, layers, durable>>
    BY <1>1, <2>1 DEF Kept, SurvivingManifestsIntact, LeasedLayersOnDisk, Types
  <2>2. CASE RemoveLayers({wid})
    <3>1. {wid} \cap Range(manifest.layers) = {} /\ {wid} \cap LeasedLayers(leases') = {}
      BY <1>1, <1>2 DEF Types
    <3>2. QED BY <1>1, <2>2, <3>1, RemoveKeeps
  <2>3. QED BY <1>1, <2>1, <2>2
<1>4. Types'
  BY <1>1, <1>3 DEF Types, sq
<1>5. Writer' /\ Down'
  BY <1>1 DEF Writer, Down, sq
<1>6. Squasher'
  <2>1. sqpc \notin {"splice", "promote", "syncfs", "swap", "syncroot", "record"}
    BY <1>1 DEF Squasher
  <2>2. QED BY <1>1, <1>2, <1>3, <2>1 DEF Squasher, BuiltIds, sq
<1>7. QED BY <1>3, <1>4, <1>5, <1>6

\* Planning takes a lease on the active chain; nothing is built yet.
LEMMA SquashPlanStep ==
  ASSUME IInv, SquashBegin \/ SquashPlan
  PROVE  IInv'
<1> USE DEF IInv
<1>1. CASE SquashBegin
  <2>1. /\ up /\ sqpc' = "plan" /\ flight' = TRUE
        /\ UNCHANGED <<disk, up, leases, subst, wr, todo, built, pending, work>>
    BY <1>1 DEF SquashBegin
  <2>2. built = {}
    BY <1>1 DEF SquashBegin, Squasher
  <2>3. Types' /\ Kept'
    BY <2>1 DEF Types, Kept, disk, SurvivingManifestsIntact, LeasedLayersOnDisk
  <2>4. Writer' /\ Squasher' /\ Down'
    BY <2>1, <2>2 DEF Writer, Squasher, Down, disk, wr, BuiltIds
  <2>5. QED BY <2>3, <2>4
<1>2. CASE SquashPlan
  <2>1. /\ up /\ wpc = "idle" /\ built = {} /\ todo' = PartitionBlocks(manifest.layers, Boundaries)
        /\ UNCHANGED <<disk, up, subst, wr, flight, built, pending, work>>
        /\ \/ sqpc' = "done" /\ UNCHANGED leases
           \/ sqpc' = "build" /\ leases' = With(leases, PlanLease, manifest)
    <3>1. sqpc = "plan" /\ Shareable
      BY <1>2 DEF SquashPlan
    <3>2. up /\ wpc = "idle" /\ built = {}
      BY <3>1 DEF Squasher, Shareable, Exclusive
    <3>3. QED BY <1>2, <3>2, Zenon DEF SquashPlan
  <2>2. /\ LeasedLayers(leases') \subseteq LeasedLayers(leases) \cup Range(manifest.layers)
        /\ sqpc' = "build" => PlanLease \in DOMAIN leases'
    <3>1. CASE sqpc' = "done" /\ UNCHANGED leases
      BY <3>1 DEF LeasedLayers
    <3>2. CASE sqpc' = "build" /\ leases' = With(leases, PlanLease, manifest)
      <4>1. LeasedLayers(leases') \subseteq LeasedLayers(leases) \cup Range(manifest.layers)
        BY <3>2, LeasedWith
      <4>2. DOMAIN leases' = DOMAIN leases \cup {PlanLease}
        BY <3>2, DomainWith
      <4>3. QED BY <4>1, <4>2
    <3>3. QED BY <2>1, <3>1, <3>2
  <2>3. Range(manifest.layers) \subseteq durable /\ durable \subseteq layers
    BY DEF Types, Kept, SurvivingManifestsIntact
  <2>4. Types'
    <3>1. manifest.layers \in Seq(Nat) BY DEF Types, MType
    <3>2. todo' \subseteq Seq(Nat) BY <2>1, <3>1, BlocksAreChains
    <3>3. QED BY <2>1, <3>2 DEF Types, disk
  <2>5. Kept'
    BY <2>1, <2>2, <2>3 DEF Kept, SurvivingManifestsIntact, LeasedLayersOnDisk, disk
  <2>6. Writer' /\ Down'
    BY <2>1 DEF Writer, Down, wr
  <2>7. Squasher'
    <3>1. BuiltIds' = {} BY <2>1, SMTT(30) DEF BuiltIds
    <3>2. flight /\ flight' BY <1>2, <2>1 DEF SquashPlan, Squasher
    <3>3. sqpc' \in {"done", "build"} BY <2>1
    <3>4. QED BY <2>1, <2>2, <3>1, <3>2, <3>3 DEF Squasher
  <2>8. QED BY <2>4, <2>5, <2>6, <2>7
<1>3. QED BY <1>1, <1>2

\* build_blocks allocates an id that no manifest and no lease names.
LEMMA SquashBuildStep ==
  ASSUME IInv, SquashBuild
  PROVE  IInv'
<1> USE DEF IInv
<1>1. PICK run \in todo : /\ todo' = todo \ {run}
                          /\ built' = built \cup {[s |-> nextId, run |-> run]}
  BY DEF SquashBuild
<1>2. /\ sqpc = "build" /\ staging' = staging \cup {nextId} /\ nextId' = nextId + 1
      /\ UNCHANGED <<manifest, survivors, layers, durable, up, leases, wr, flight, sqpc, pending, work>>
  BY DEF SquashBuild
<1>3. /\ nextId \notin layers /\ nextId \notin LeasedLayers(leases)
      /\ \A m \in survivors : nextId \notin Range(m.layers)
  BY DEF Types, Kept, SurvivingManifestsIntact, LeasedLayersOnDisk
<1>4. BuiltIds' = BuiltIds \cup {nextId}
  <2> DEFINE r == [s |-> nextId, run |-> run]
  <2>1. r.s = nextId /\ built' = built \cup {r} BY <1>1
  <2> HIDE DEF r
  <2>2. QED BY <2>1 DEF BuiltIds
<1>5. Types'
  <2>1. run \in Seq(Nat) /\ nextId \in Nat
    BY DEF Types
  <2>2. ASSUME NEW b \in built' PROVE b.s \in Nat /\ b.s < nextId' /\ b.run \in Seq(Nat)
    BY <1>1, <1>2, <2>1 DEF Types
  <2>3. QED BY <1>1, <1>2, <2>1, <2>2 DEF Types
<1>6. Kept'
  BY <1>2 DEF Kept, SurvivingManifestsIntact, LeasedLayersOnDisk
<1>7. Writer'
  BY <1>2, <1>4 DEF Writer, wr, Types
<1>8. Squasher' /\ Down'
  BY <1>2, <1>3, <1>4 DEF Squasher, Down, wr
<1>9. QED BY <1>5, <1>6, <1>7, <1>8

\* The recheck loop of the commit makes a chain of active and built layers.
LEMMA SquashSpliceStep ==
  ASSUME IInv, SquashCommit \/ SquashSplice
  PROVE  IInv'
<1> USE DEF IInv
<1>1. CASE SquashCommit
  <2>1. /\ up /\ wpc = "idle" /\ sqpc = "build" /\ sqpc' = "splice"
        /\ pending' = built /\ work' = manifest.layers
        /\ UNCHANGED <<disk, up, leases, subst, wr, flight, todo, built>>
    BY <1>1 DEF SquashCommit, Shareable, Exclusive
  <2>2. Types' /\ Kept'
    BY <2>1 DEF Types, MType, Kept, disk, SurvivingManifestsIntact, LeasedLayersOnDisk
  <2>3. Writer' /\ Squasher' /\ Down'
    BY <2>1 DEF Writer, Squasher, Down, disk, wr, BuiltIds
  <2>4. QED BY <2>2, <2>3
<1>2. CASE SquashSplice
  <2>1. PICK b \in pending : /\ Occurrences(work, b.run) # {}
                             /\ work' = Splice(work, b.run, b.s)
                             /\ pending' = pending \ {b}
    BY <1>2 DEF SquashSplice
  <2>2. /\ sqpc = "splice" /\ sqpc' \in {"promote", "splice"}
        /\ UNCHANGED <<disk, up, leases, subst, wr, flight, todo, built>>
    BY <1>2 DEF SquashSplice
  <2>3. b.s \in BuiltIds /\ b.s \in Nat /\ b.run \in Seq(Nat) /\ work \in Seq(Nat)
    BY DEF Types, BuiltIds
  <2>4. work' \in Seq(Nat) /\ Range(work') \subseteq Range(work) \cup {b.s}
    BY <2>1, <2>3, SpliceLayers, SMTT(30)
  <2>5. Types' /\ Kept'
    BY <2>1, <2>2, <2>4 DEF Types, Kept, disk, SurvivingManifestsIntact, LeasedLayersOnDisk
  <2>6. Writer' /\ Squasher' /\ Down'
    BY <2>2, <2>3, <2>4 DEF Writer, Squasher, Down, disk, wr, BuiltIds
  <2>7. QED BY <2>5, <2>6
<1>3. QED BY <1>1, <1>2

\* Promotion and syncfs bring every built layer into the durable directory.
LEMMA SquashPromoteStep ==
  ASSUME IInv, SquashPromote \/ SquashSyncfs
  PROVE  IInv'
<1> USE DEF IInv
<1>1. CASE SquashPromote
  <2>1. PICK s \in BuiltIds \cap staging : staging' = staging \ {s} /\ layers' = layers \cup {s}
    BY <1>1 DEF SquashPromote
  <2>2. /\ sqpc = "promote" /\ sqpc' \in {"promote", "syncfs"}
        /\ sqpc' = "syncfs" => BuiltIds \cap staging' = {}
        /\ UNCHANGED <<manifest, survivors, durable, nextId, up, leases, wr, flight, todo, built, pending, work>>
    BY <1>1 DEF SquashPromote
  <2>3. s \in Nat /\ s < nextId /\ BuiltIds' = BuiltIds
    BY <2>2 DEF Types, BuiltIds
  <2>4. Types' /\ Kept'
    BY <2>1, <2>2, <2>3 DEF Types, Kept, SurvivingManifestsIntact, LeasedLayersOnDisk
  <2>5. Writer' /\ Down'
    BY <2>1, <2>2, <2>3 DEF Writer, Down, wr
  <2>6. Squasher'
    BY <2>1, <2>2, <2>3 DEF Squasher, wr
  <2>7. QED BY <2>4, <2>5, <2>6
<1>2. CASE SquashSyncfs
  <2>1. /\ sqpc = "syncfs" /\ sqpc' = "swap" /\ durable' = layers /\ survivors' = {manifest}
        /\ UNCHANGED <<manifest, layers, staging, nextId, up, leases, wr, flight, todo, built, pending, work>>
    BY <1>2 DEF SquashSyncfs
  <2>2. Range(manifest.layers) \subseteq layers /\ BuiltIds' = BuiltIds
    BY <2>1 DEF Types, Kept, SurvivingManifestsIntact, BuiltIds
  <2>3. Types' /\ Kept'
    BY <2>1, <2>2 DEF Types, Kept, SurvivingManifestsIntact, LeasedLayersOnDisk
  <2>4. Writer' /\ Squasher' /\ Down'
    BY <2>1, <2>2 DEF Writer, Squasher, Down, wr, Types
  <2>5. QED BY <2>3, <2>4
<1>3. QED BY <1>1, <1>2

\* The squash's manifest names durable layers only, and its fsync leaves it alone.
LEMMA SquashSwapStep ==
  ASSUME IInv, SquashSwap \/ SquashSyncRoot
  PROVE  IInv'
<1> USE DEF IInv
<1>1. CASE SquashSwap
  <2>1. /\ sqpc = "swap" /\ sqpc' = "syncroot"
        /\ manifest' = Manifest(manifest.version + 1, work)
        /\ survivors' = survivors \cup {manifest'}
        /\ UNCHANGED <<layers, durable, staging, nextId, up, leases, wr, flight, todo, built, pending, work>>
    BY <1>1 DEF SquashSwap
  <2>2. Range(manifest.layers) \subseteq durable /\ Range(work) \subseteq durable
    BY <2>1 DEF Types, Kept, SurvivingManifestsIntact, Squasher
  <2>3. manifest' \in MType /\ manifest'.layers = work
    BY <2>1 DEF Types, MType, Manifest
  <2>4. Types' /\ Kept'
    BY <2>1, <2>2, <2>3 DEF Types, Kept, SurvivingManifestsIntact, LeasedLayersOnDisk
  <2>5. wpc = "idle" /\ wpc' = "idle"
    BY <2>1, SMTT(30) DEF Squasher, wr
  <2>6. Writer' /\ Squasher' /\ Down'
    BY <2>1, <2>5 DEF Writer, Squasher, Down
  <2>7. QED BY <2>4, <2>6
<1>2. CASE SquashSyncRoot
  <2>1. /\ sqpc = "syncroot" /\ sqpc' = "record" /\ survivors' = {manifest}
        /\ UNCHANGED <<manifest, layers, durable, staging, nextId, up, leases, wr, flight, todo, built, pending, work>>
    BY <1>2 DEF SquashSyncRoot
  <2>2. Types' /\ Kept'
    BY <2>1, SMTT(30) DEF Types, Kept, SurvivingManifestsIntact, LeasedLayersOnDisk
  <2>3. Writer' /\ Squasher' /\ Down'
    BY <2>1 DEF Writer, Squasher, Down, wr
  <2>4. QED BY <2>2, <2>3
<1>3. QED BY <1>1, <1>2

\* A squash releases its plan lease: the collection keeps what is needed.
LEMMA SquashCollectStep ==
  ASSUME IInv, SquashRecord \/ SquashReleasePlan
  PROVE  IInv'
<1> USE DEF IInv
<1>1. /\ wpc = "idle" /\ wpc' = "idle" /\ up
      /\ built' = {} /\ todo' = {} /\ pending' = {} /\ work' = <<>>
      /\ sqpc' \in {"idle", "done"} /\ (~flight' => sqpc' = "idle")
      /\ UNCHANGED <<manifest, nextId, staging, up>>
  <2>1. CASE SquashRecord
    BY <2>1 DEF SquashRecord, SquashDone, Squasher, Down, wr
  <2>2. CASE SquashReleasePlan
    BY <2>2 DEF SquashReleasePlan, SquashDone, Shareable, Exclusive, wr
  <2>3. QED BY <2>1, <2>2, SMTT(30)
<1>2. /\ Kept' /\ layers' \subseteq layers
      /\ manifest' \in survivors' /\ survivors' \subseteq survivors
  <2>1. PlanLease \in DOMAIN leases
    BY DEF SquashRecord, SquashReleasePlan, Squasher
  <2>2. ReleaseAndCollect(PlanLease)
    BY DEF SquashRecord, SquashReleasePlan
  <2>3. QED BY <1>1, <2>1, <2>2, CollectKeeps
<1>3. Types'
  BY <1>1, <1>2 DEF Types
<1>4. Writer' /\ Squasher' /\ Down'
  BY <1>1 DEF Writer, Squasher, Down
<1>5. QED BY <1>2, <1>3, <1>4

\* Dropping the outcome only opens the flight again.
LEMMA SquashEndStep ==
  ASSUME IInv, SquashEnd
  PROVE  IInv'
<1> USE DEF IInv
<1>1. /\ sqpc = "done" /\ sqpc' = "idle" /\ todo' = {} /\ built' = {} /\ pending' = {} /\ work' = <<>>
      /\ UNCHANGED <<disk, up, leases, subst, wr>>
  BY DEF SquashEnd, SquashDone
<1>2. Types' /\ Kept'
  BY <1>1, SMTT(30) DEF Types, disk, Kept, SurvivingManifestsIntact, LeasedLayersOnDisk
<1>3. Writer' /\ Squasher' /\ Down'
  BY <1>1 DEF Writer, Squasher, Down, disk, wr, BuiltIds
<1>4. QED BY <1>2, <1>3

\* A failed squash removes only the directories it built.
LEMMA SquashFailStep ==
  ASSUME IInv, NoLateFault, SquashFail
  PROVE  IInv'
<1> USE DEF IInv
<1>1. /\ sqpc \in {"build", "splice", "promote", "syncfs", "swap"} /\ sqpc' = "release"
      /\ RemoveLayers(BuiltIds) /\ flight
      /\ todo' = {} /\ built' = {} /\ pending' = {} /\ work' = <<>>
      /\ UNCHANGED <<manifest, nextId, up, leases, wr, flight>>
  BY DEF SquashFail, SquashDone, NoLateFault, Squasher
<1>2. BuiltIds \cap Range(manifest.layers) = {} /\ BuiltIds \cap LeasedLayers(leases) = {}
  BY <1>1 DEF Squasher, Types
<1>3. /\ Kept' /\ layers' = layers \ BuiltIds /\ durable' = durable \ BuiltIds
      /\ manifest' \in survivors' /\ survivors' \subseteq survivors
  <2>1. BuiltIds \cap LeasedLayers(leases') = {} BY <1>1, <1>2
  <2>2. QED BY <1>1, <1>2, <2>1, RemoveKeeps
<1>4. Types'
  <2>1. layers' \subseteq layers /\ work' \in Seq(Nat) BY <1>1, <1>3
  <2>2. QED BY <1>1, <1>3, <2>1 DEF Types
<1>5. Writer'
  <2>1. BuiltIds' = {} BY <1>1 DEF BuiltIds
  <2>2. QED BY <1>1, <1>3, <2>1 DEF Writer, wr
<1>6. Squasher' /\ Down'
  BY <1>1 DEF Squasher, Down, wr
<1>7. QED BY <1>3, <1>4, <1>5, <1>6

\* A crash loses the memory; a power loss leaves a surviving manifest and its layers.
LEMMA CrashStep ==
  ASSUME IInv, Crash \/ PowerLoss
  PROVE  IInv'
<1> USE DEF IInv
<1>1. /\ ~up' /\ leases' = <<>> /\ wpc' = "idle" /\ sqpc' = "idle"
      /\ todo' = {} /\ built' = {} /\ pending' = {} /\ work' = <<>>
  BY DEF Crash, PowerLoss, LoseMemory, WriterDone, SquashDone
<1>2. DOMAIN leases' = {} /\ LeasedLayers(leases') = {}
  BY <1>1 DEF LeasedLayers
<1>3. /\ nextId' = nextId /\ manifest' \in survivors' /\ survivors' \subseteq survivors
      /\ durable \subseteq durable' /\ durable' \subseteq layers' /\ layers' \subseteq layers
  <2>1. CASE Crash
    BY <2>1 DEF Crash, disk, Types, Kept
  <2>2. CASE PowerLoss
    BY <2>2 DEF PowerLoss, Types, Kept
  <2>3. QED BY <2>1, <2>2
<1>4. Types'
  <2>1. work' \in Seq(Nat) BY <1>1
  <2>2. QED BY <1>1, <1>3, <2>1 DEF Types
<1>5. Kept'
  BY <1>2, <1>3, SMTT(30) DEF Kept, SurvivingManifestsIntact, LeasedLayersOnDisk
<1>6. Writer' /\ Squasher' /\ Down'
  BY <1>1, <1>2 DEF Writer, Squasher, Down
<1>7. QED BY <1>4, <1>5, <1>6

\* The boot sweep keeps what the manifest names; nothing is leased yet.
LEMMA BootSweepStep ==
  ASSUME IInv, BootSweep
  PROVE  IInv'
<1> USE DEF IInv
<1>1. /\ ~up /\ UNCHANGED <<manifest, nextId, leases, wpc, wid, flight, sqpc, todo, built, pending, work>>
  BY DEF BootSweep, memory, wr, sq
<1>2. /\ DOMAIN leases = {} /\ wpc = "idle" /\ sqpc = "idle" /\ LeasedLayers(leases') = {}
  BY <1>1 DEF Down, LeasedLayers
<1>3. Kept' /\ layers' \subseteq layers /\ manifest' \in survivors' /\ survivors' \subseteq survivors
  <2>1. CASE UNCHANGED <<survivors, layers, durable>>
    BY <1>1, <2>1, SMTT(30) DEF Types, Kept, SurvivingManifestsIntact, LeasedLayersOnDisk
  <2>2. ASSUME NEW gone, gone \subseteq layers \ (Range(manifest.layers) \cup {Base}), RemoveLayers(gone)
        PROVE  Kept' /\ layers' \subseteq layers /\ manifest' \in survivors' /\ survivors' \subseteq survivors
    <3>1. gone \cap Range(manifest.layers) = {} /\ gone \cap LeasedLayers(leases') = {}
      BY <1>2, <2>2
    <3>2. QED BY <1>1, <2>2, <3>1, RemoveKeeps
  <2>3. QED BY <2>1, <2>2 DEF BootSweep
<1>4. Types'
  BY <1>1, <1>3, SMTT(30) DEF Types
<1>5. Writer' /\ Squasher' /\ Down'
  BY <1>1, <1>2 DEF Writer, Squasher, Down
<1>6. QED BY <1>3, <1>4, <1>5, SMTT(30)

(***************************************************************************)
(* The theorems.                                                           *)
(***************************************************************************)

\* Every step of the store preserves the inductive invariant.
LEMMA NextIInv ==
  ASSUME LayerStackAssumption, NoLateFault, IInv, [Next]_vars
  PROVE  IInv'
<1>1. CASE Session
  BY <1>1, AcquireSnapshotStep, ReleaseLeaseStep, AcquireRewrittenLeaseStep DEF Session
<1>2. CASE \E c \in Changes : PublishStage(c)
  BY <1>2, PublishStageStep
<1>3. CASE Publish
  BY <1>3, PublishRenameStep, PublishSyncStep, PublishSwapStep, PublishSyncRootStep, PublishFailStep
     DEF Publish
<1>4. CASE SquashBegin \/ Squash
  BY <1>4, SquashPlanStep, SquashBuildStep, SquashSpliceStep, SquashPromoteStep, SquashSwapStep,
     SquashCollectStep, SquashFailStep, SquashEndStep DEF Squash
<1>5. CASE Crash \/ PowerLoss \/ BootSweep
  BY <1>5, CrashStep, BootSweepStep
<1>6. CASE UNCHANGED vars
  <2>1. UNCHANGED <<manifest, survivors, layers, durable, staging, nextId, up, leases, wpc, wid, flight,
                    sqpc, todo, built, pending, work>>
    BY <1>6 DEF vars, disk, memory, wr, sq
  <2>2. Types' /\ Kept'
    BY <2>1 DEF IInv, Types, Kept, SurvivingManifestsIntact, LeasedLayersOnDisk
  <2>3. Writer' /\ Squasher' /\ Down'
    BY <2>1 DEF IInv, Writer, Squasher, Down, BuiltIds
  <2>4. QED BY <2>2, <2>3 DEF IInv
<1>7. QED BY <1>1, <1>2, <1>3, <1>4, <1>5, <1>6 DEF Next

\* The facts that make the store safe follow from the inductive invariant.
LEMMA IInvSafe == IInv => LayersOnDisk /\ SurvivingManifestsIntact
BY DEF IInv, Types, Kept, SurvivingManifestsIntact, LayersOnDisk, ActiveLayersOnDisk

\* The inductive invariant holds in every state of every behaviour.
THEOREM StoreInvariant == Spec /\ NoLateFault => []IInv
<1> SUFFICES ASSUME NoLateFault PROVE Spec => []IInv
  OBVIOUS
<1>1. Init => IInv
  BY InitIInv
<1>2. IInv /\ [Next]_vars => IInv'
  BY NextIInv, LayerStackAssumption
<1>3. QED BY <1>1, <1>2, PTL DEF Spec

\* Neither the active manifest nor a leased chain ever loses a layer, whatever is published,
\* squashed, released, swept or cut off by a crash, for any number of change sets, leases and
\* layers.
THEOREM LayersSafe == Spec /\ NoLateFault => []LayersOnDisk
BY StoreInvariant, IInvSafe, PTL

\* The layers of every manifest that a power loss may leave are durable.
THEOREM SurvivorsSafe == Spec /\ NoLateFault => []SurvivingManifestsIntact
BY StoreInvariant, IInvSafe, PTL
=============================================================================
