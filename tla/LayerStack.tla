----------------------------- MODULE LayerStack -----------------------------
(***************************************************************************)
(* The copy-on-write layer store of one sandbox                            *)
(* (crates/sandbox-runtime/layerstack): an active manifest naming layer    *)
(* directories newest first, in-memory leases that pin the chains that     *)
(* workspaces are mounted on, publishes that prepend a layer, squashes     *)
(* that replace runs of layers by one flattened layer, reference-counted   *)
(* garbage collection, and the boot sweep after a crash.                   *)
(*                                                                         *)
(* The storage writer lock (module StorageLock) makes the critical         *)
(* sections exclusive: a step here is one disk or registry operation, and  *)
(* a section that another operation could observe half done, or that a     *)
(* crash can cut short, is several steps.                                  *)
(*                                                                         *)
(* What a layer directory holds is abstracted to the sequence of published *)
(* change sets it stands for, newest first; modules MergedView and Flatten *)
(* justify that a flattened layer stands for the concatenation.            *)
(***************************************************************************)
EXTENDS Naturals, Sequences, FiniteSets, Functions

CONSTANTS
  Changes,     \* change sets a publish may carry (aggregated LayerChange lists)
  LeaseIds,    \* ids of the leases of sessions and exports
  PlanLease,   \* the id of the "squash-plan" lease
  MaxId,       \* bound: layer ids 1..MaxId are allocated
  Faults       \* what may go wrong: "crash", "io" (a disk operation fails), "late publish"
               \* and "late squash" (the directory fsync after the manifest rename fails)

ASSUME LayerStackAssumption ==
  /\ PlanLease \notin LeaseIds
  /\ MaxId \in Nat
  /\ Faults \subseteq {"crash", "io", "late publish", "late squash"}

VARIABLES
  manifest,    \* manifest.json as every process sees it
  survivors,   \* the manifests of which a power loss would leave one
  layers,      \* ids with a directory under layers/
  durable,     \* the ids of those directories that survive a power loss
  staging,     \* ids with a directory under staging/
  content,     \* what each id's directory holds
  digest,      \* the .digest sidecars: layer id -> change set
  leaked,      \* ids that a failed disk operation left behind
  nextId,      \* next id of allocate_layer_dirs
  up,          \* is the daemon running?
  leases,      \* the shared lease registry
  subst,       \* the substitution map of the storage root
  wpc,         \* where the publish that holds the exclusive guard is
  wid,         \* the layer id it allocated
  flight,      \* the per-root squash singleflight flag
  sqpc,        \* where the squash in flight is
  todo,        \* its planned blocks that are not built yet
  built,       \* its built blocks: [s |-> layer id, run |-> replaced run]
  pending,     \* the built blocks that the commit has not spliced yet
  work         \* the chain the commit is making

disk == <<manifest, survivors, layers, durable, staging, content, digest, leaked, nextId>>
wr == <<wpc, wid>>
sq == <<sqpc, todo, built, pending, work>>
memory == <<leases, subst, wr, flight, sq>>
vars == <<disk, up, memory>>

Base == 0

(***************************************************************************)
(* Manifests, leases and runs of layers.                                   *)
(***************************************************************************)
Manifest(v, ls) == [version |-> v, layers |-> ls]

\* What a mounted chain shows: the published changes, newest first.
View(chain) ==
  LET upTo[i \in 0..Len(chain)] == IF i = 0 THEN <<>> ELSE upTo[i - 1] \o content[chain[i]]
  IN  upTo[Len(chain)]

LeasedLayers(ls) == UNION {Range(ls[l].layers) : l \in DOMAIN ls}

Without(ls, l) == [k \in DOMAIN ls \ {l} |-> ls[k]]
With(ls, l, m) == [k \in DOMAIN ls \cup {l} |-> IF k = l THEN m ELSE ls[k]]

\* The squash commit, and every publish, holds the exclusive guard.
Exclusive == wpc # "idle" \/ sqpc \in {"splice", "promote", "syncfs", "swap", "syncroot", "record"}
Shareable == up /\ ~Exclusive

\* find_run: the places where run occurs in chain.
Occurrences(chain, run) ==
  {i \in 1..(Len(chain) + 1) : /\ run # <<>>
                               /\ i + Len(run) <= Len(chain) + 1
                               /\ SubSeq(chain, i, i + Len(run) - 1) = run}

\* Layer ids are unique within a manifest, so a run occurs at most once.
Splice(chain, run, s) ==
  LET i == CHOOSE i \in Occurrences(chain, run) : TRUE
  IN  SubSeq(chain, 1, i - 1) \o <<s>> \o SubSeq(chain, i + Len(run), Len(chain))

\* contract_layers: apply the recorded substitutions in recording order.
ContractLayers(chain) ==
  LET contract(cur, r) == IF Occurrences(cur, r.run) = {} THEN cur ELSE Splice(cur, r.run, r.s)
      upTo[i \in 0..Len(subst)] == IF i = 0 THEN chain ELSE contract(upTo[i - 1], subst[i])
  IN  upTo[Len(subst)]

\* partition_blocks: maximal runs of two or more layers without a boundary or the base.
PartitionBlocks_IgnoresBoundaries(chain, boundaries) ==
  IF Len(chain) < 3 THEN {} ELSE {SubSeq(chain, 1, Len(chain) - 1)}
PartitionBlocks(chain, boundaries) ==
  LET breaks(i) == i = 0 \/ i = Len(chain) + 1 \/ chain[i] \in boundaries \cup {Base}
      isRun(i, j) == i < j /\ breaks(i - 1) /\ breaks(j + 1) /\ \A k \in i..j : ~breaks(k)
  IN  {SubSeq(chain, r[1], r[2]) : r \in {r \in (DOMAIN chain) \X (DOMAIN chain) : isRun(r[1], r[2])}}

\* lease_newest_layers, before the plan lease is taken.
Boundaries == {Head(leases[l].layers) : l \in {k \in DOMAIN leases : leases[k].layers # <<>>}}

HeadDigest ==
  IF manifest.layers # <<>> /\ Head(manifest.layers) \in DOMAIN digest
  THEN {digest[Head(manifest.layers)]} ELSE {}

Drop(f, S) == [x \in DOMAIN f \ S |-> f[x]]

(***************************************************************************)
(* Garbage collection: release_lease_locked and remove_layers.             *)
(***************************************************************************)
Unreferenced_IgnoresLeases(candidates, ls) == candidates \ Range(manifest.layers)
Unreferenced(candidates, ls) == (candidates \ Range(manifest.layers)) \ LeasedLayers(ls)

\* Metadata operations reach the journal in order (the volume is ext4): once a
\* removal is durable, so are the manifest renames before it.
RemoveLayers(gone) ==
  /\ survivors' = IF gone \cap layers = {} THEN survivors ELSE {manifest}
  /\ layers' = layers \ gone
  /\ durable' = durable \ gone
  /\ digest' = Drop(digest, gone)

\* The lease leaves the registry first.  Reading the manifest, or removing one
\* of the directories, may then fail: what was not removed stays behind.
ReleaseAndCollect(l) ==
  LET removable == Unreferenced(Range(leases[l].layers), Without(leases, l))
  IN  /\ leases' = Without(leases, l)
      /\ \E gone \in SUBSET removable :
           /\ gone = removable \/ "io" \in Faults
           /\ RemoveLayers(gone)
           /\ leaked' = leaked \cup (removable \ gone)

IdleWriter == wpc = "idle" /\ wid = Base
IdleSquash == sqpc = "idle" /\ todo = {} /\ built = {} /\ pending = {} /\ work = <<>>
WriterDone == wpc' = "idle" /\ wid' = Base
SquashDone(pc) == sqpc' = pc /\ todo' = {} /\ built' = {} /\ pending' = {} /\ work' = <<>>

Init ==
  /\ manifest = Manifest(1, <<Base>>) /\ survivors = {manifest}
  /\ layers = {Base} /\ durable = {Base} /\ staging = {}
  /\ content = [i \in 0..MaxId |-> <<>>]
  /\ digest = <<>> /\ leaked = {} /\ nextId = 1
  /\ up = TRUE
  /\ leases = <<>> /\ subst = <<>>
  /\ IdleWriter /\ flight = FALSE /\ IdleSquash

(***************************************************************************)
(* Leases of sessions and exports.                                         *)
(***************************************************************************)
AcquireSnapshot(l) ==
  /\ Shareable /\ l \notin DOMAIN leases
  /\ leases' = With(leases, l, manifest)
  /\ UNCHANGED <<disk, up, subst, wr, flight, sq>>

ReleaseLease(l) ==
  /\ Shareable /\ l \in DOMAIN leases
  /\ ReleaseAndCollect(l)
  /\ UNCHANGED <<manifest, staging, content, nextId, up, subst, wr, flight, sq>>

\* A live remount: contract the chain of lease l, check that the rewritten
\* layers exist, and pin them under a new lease n; l is kept.  Only the remount
\* sweep of a squash does this, while the outcome still holds the flight.
AcquireRewrittenLease(l, n) ==
  /\ sqpc = "done" /\ Shareable /\ l \in DOMAIN leases /\ n \notin DOMAIN leases
  /\ LET rewritten == ContractLayers(leases[l].layers)
     IN  /\ rewritten # leases[l].layers
         /\ Range(rewritten) \subseteq layers
         /\ leases' = With(leases, n, Manifest(leases[l].version, rewritten))
  /\ UNCHANGED <<disk, up, subst, wr, flight, sq>>

(***************************************************************************)
(* publish_layer_unlocked, under the exclusive guard.  A change set whose  *)
(* digest is the head's is a no-op and changes nothing.                    *)
(***************************************************************************)
PublishStage(c) ==
  /\ Shareable /\ nextId <= MaxId
  /\ c \notin HeadDigest
  /\ staging' = staging \cup {nextId}
  /\ content' = [content EXCEPT ![nextId] = <<c>>]
  /\ wpc' = "staged" /\ wid' = nextId
  /\ nextId' = nextId + 1
  /\ UNCHANGED <<manifest, survivors, layers, durable, digest, leaked, up, leases, subst, flight, sq>>

PublishRename ==
  /\ wpc = "staged"
  /\ staging' = staging \ {wid}
  /\ layers' = layers \cup {wid}
  /\ wpc' = "renamed" /\ UNCHANGED wid
  /\ UNCHANGED <<manifest, survivors, durable, content, digest, leaked, nextId, up, leases, subst, flight, sq>>

PublishSyncLayers ==
  /\ wpc = "renamed"
  /\ durable' = durable \cup {wid}
  /\ wpc' = "synced" /\ UNCHANGED wid
  /\ UNCHANGED <<manifest, survivors, layers, staging, content, digest, leaked, nextId, up, leases, subst, flight, sq>>

PublishDigest ==
  /\ wpc = "synced"
  /\ digest' = With(digest, wid, Head(content[wid]))
  /\ wpc' = "digested" /\ UNCHANGED wid
  /\ UNCHANGED <<manifest, survivors, layers, durable, staging, content, leaked, nextId, up, leases, subst, flight, sq>>

PublishSwap ==
  /\ wpc = "digested"
  /\ manifest' = Manifest(manifest.version + 1, <<wid>> \o manifest.layers)
  /\ survivors' = survivors \cup {manifest'}
  /\ wpc' = "swapped" /\ UNCHANGED wid
  /\ UNCHANGED <<layers, durable, staging, content, digest, leaked, nextId, up, leases, subst, flight, sq>>

PublishSyncRoot ==
  /\ wpc = "swapped"
  /\ survivors' = {manifest}
  /\ WriterDone
  /\ UNCHANGED <<manifest, layers, durable, staging, content, digest, leaked, nextId, up, leases, subst, flight, sq>>

\* Any of the steps may fail.  A failed fsync of layers/ returns at once and
\* leaves the directory; every other failure removes what the publish created.
PublishFail ==
  /\ \/ wpc \in {"staged", "renamed", "synced", "digested"} /\ "io" \in Faults
     \/ wpc = "swapped" /\ "late publish" \in Faults
  /\ staging' = staging \ {wid}
  /\ IF wpc = "renamed"
       THEN leaked' = leaked \cup {wid} /\ UNCHANGED <<survivors, layers, durable, digest>>
       ELSE RemoveLayers({wid}) /\ UNCHANGED leaked
  /\ WriterDone
  /\ UNCHANGED <<manifest, content, nextId, up, leases, subst, flight, sq>>

(***************************************************************************)
(* squash: plan under the shared guard, build under none, commit under the *)
(* exclusive guard.                                                        *)
(***************************************************************************)
SquashBegin ==
  /\ up /\ ~flight
  /\ flight' = TRUE
  /\ sqpc' = "plan"
  /\ UNCHANGED <<disk, up, leases, subst, wr, todo, built, pending, work>>

SquashPlan ==
  /\ sqpc = "plan" /\ Shareable
  /\ todo' = PartitionBlocks(manifest.layers, Boundaries)
  /\ IF todo' = {}
       THEN sqpc' = "done" /\ UNCHANGED leases
       ELSE sqpc' = "build" /\ leases' = With(leases, PlanLease, manifest)
  /\ UNCHANGED <<disk, up, subst, wr, flight, built, pending, work>>

\* build_blocks: flatten the next planned block into staging/.  The blocks are
\* disjoint, so the order in which the loops take them does not matter.
SquashBuild_WrongOrder ==
  /\ sqpc = "build" /\ nextId <= MaxId
  /\ \E run \in todo :
       /\ content' = [content EXCEPT ![nextId] = View([i \in DOMAIN run |-> run[Len(run) + 1 - i]])]
       /\ todo' = todo \ {run}
       /\ built' = built \cup {[s |-> nextId, run |-> run]}
  /\ staging' = staging \cup {nextId}
  /\ nextId' = nextId + 1
  /\ UNCHANGED <<manifest, survivors, layers, durable, digest, leaked, up, leases, subst, wr, flight, sqpc, pending, work>>
SquashBuild ==
  /\ sqpc = "build" /\ nextId <= MaxId
  /\ \E run \in todo :
       /\ content' = [content EXCEPT ![nextId] = View(run)]
       /\ todo' = todo \ {run}
       /\ built' = built \cup {[s |-> nextId, run |-> run]}
  /\ staging' = staging \cup {nextId}
  /\ nextId' = nextId + 1
  /\ UNCHANGED <<manifest, survivors, layers, durable, digest, leaked, up, leases, subst, wr, flight, sqpc, pending, work>>

\* commit_squash takes the exclusive guard and starts from the latest manifest.
SquashCommit ==
  /\ sqpc = "build" /\ todo = {} /\ Shareable
  /\ sqpc' = "splice" /\ pending' = built /\ work' = manifest.layers
  /\ UNCHANGED <<disk, up, leases, subst, wr, flight, todo, built>>

\* One iteration of the recheck loop.
SquashSplice ==
  /\ sqpc = "splice"
  /\ \E b \in pending :
       /\ Occurrences(work, b.run) # {}
       /\ work' = Splice(work, b.run, b.s)
       /\ pending' = pending \ {b}
  /\ sqpc' = IF pending' = {} THEN "promote" ELSE "splice"
  /\ UNCHANGED <<disk, up, leases, subst, wr, flight, todo, built>>

BuiltIds == {b.s : b \in built}

\* One iteration of the rename loop.
SquashPromote ==
  /\ sqpc = "promote"
  /\ \E s \in BuiltIds \cap staging :
       /\ staging' = staging \ {s}
       /\ layers' = layers \cup {s}
  /\ sqpc' = IF BuiltIds \cap staging' = {} THEN "syncfs" ELSE "promote"
  /\ UNCHANGED <<manifest, survivors, durable, content, digest, leaked, nextId, up, leases, subst, wr, flight, todo, built, pending, work>>

SquashSyncfs_Skipped ==
  /\ sqpc = "syncfs" /\ sqpc' = "swap"
  /\ UNCHANGED <<disk, up, leases, subst, wr, flight, todo, built, pending, work>>
SquashSyncfs ==
  /\ sqpc = "syncfs" /\ sqpc' = "swap"
  /\ durable' = layers /\ survivors' = {manifest}
  /\ UNCHANGED <<manifest, layers, staging, content, digest, leaked, nextId, up, leases, subst, wr, flight, todo, built, pending, work>>

SquashSwap ==
  /\ sqpc = "swap" /\ sqpc' = "syncroot"
  /\ manifest' = Manifest(manifest.version + 1, work)
  /\ survivors' = survivors \cup {manifest'}
  /\ UNCHANGED <<layers, durable, staging, content, digest, leaked, nextId, up, leases, subst, wr, flight, todo, built, pending, work>>

SquashSyncRoot ==
  /\ sqpc = "syncroot" /\ sqpc' = "record"
  /\ survivors' = {manifest}
  /\ UNCHANGED <<manifest, layers, durable, staging, content, digest, leaked, nextId, up, leases, subst, wr, flight, todo, built, pending, work>>

\* Record the substitutions and release the plan lease: the squash's only collection.
SquashRecord ==
  /\ sqpc = "record"
  /\ \E q \in [1..Cardinality(built) -> built] : Range(q) = built /\ subst' = subst \o q
  /\ ReleaseAndCollect(PlanLease)
  /\ SquashDone("done")
  /\ UNCHANGED <<manifest, staging, content, nextId, up, wr, flight>>

\* A failed build or commit step: drop what was staged or promoted, unlock, and
\* release the plan lease next.
SquashFail ==
  /\ \/ sqpc \in {"build", "promote", "syncfs", "swap"} /\ "io" \in Faults
     \/ sqpc = "splice" /\ \E b \in pending : Occurrences(work, b.run) = {}
     \/ sqpc = "syncroot" /\ "late squash" \in Faults
  /\ staging' = staging \ BuiltIds
  /\ RemoveLayers(BuiltIds)
  /\ SquashDone("release")
  /\ UNCHANGED <<manifest, content, leaked, nextId, up, leases, subst, wr, flight>>

SquashReleasePlan ==
  /\ sqpc = "release" /\ Shareable
  /\ ReleaseAndCollect(PlanLease)
  /\ SquashDone("idle") /\ flight' = FALSE
  /\ UNCHANGED <<manifest, staging, content, nextId, up, subst, wr>>

\* The outcome is dropped once the caller's remount sweep is over.
SquashEnd ==
  /\ sqpc = "done"
  /\ SquashDone("idle") /\ flight' = FALSE
  /\ UNCHANGED <<disk, up, leases, subst, wr>>

(***************************************************************************)
(* The daemon dies: its memory goes.  A power loss also loses the renames  *)
(* that no fsync has covered.                                              *)
(***************************************************************************)
LoseMemory ==
  /\ "crash" \in Faults
  /\ up /\ up' = FALSE
  /\ leases' = <<>> /\ subst' = <<>>
  /\ WriterDone /\ flight' = FALSE /\ SquashDone("idle")

Crash == LoseMemory /\ UNCHANGED disk

PowerLoss ==
  /\ LoseMemory
  /\ manifest' \in survivors /\ survivors' = {manifest'}
  /\ \E kept \in SUBSET (layers \ durable) : layers' = durable \cup kept /\ durable' = layers'
  /\ UNCHANGED <<staging, content, digest, leaked, nextId>>

\* Boot: no lease exists yet, so the manifest alone is the keep set.  A failed
\* removal is only logged, and boot goes on.
BootSweep ==
  /\ ~up /\ up' = TRUE
  /\ LET removable == layers \ (Range(manifest.layers) \cup {Base})
     IN  IF manifest.version < 1 \/ manifest.layers = <<>>
           THEN UNCHANGED <<survivors, layers, durable, digest, staging, leaked>>
           ELSE \E gone \in SUBSET removable :
                  /\ gone = removable \/ "io" \in Faults
                  /\ RemoveLayers(gone)
                  /\ staging' = IF gone = removable THEN {} ELSE staging
                  /\ leaked' = removable \ gone
  /\ UNCHANGED <<manifest, content, nextId, memory>>

Session == \E l \in LeaseIds :
             AcquireSnapshot(l) \/ ReleaseLease(l) \/ \E n \in LeaseIds : AcquireRewrittenLease(l, n)
Publish == PublishRename \/ PublishSyncLayers \/ PublishDigest \/ PublishSwap \/ PublishSyncRoot \/ PublishFail
Squash == \/ SquashPlan \/ SquashBuild \/ SquashCommit \/ SquashSplice \/ SquashPromote
          \/ SquashSyncfs \/ SquashSwap \/ SquashSyncRoot \/ SquashRecord
          \/ SquashFail \/ SquashReleasePlan \/ SquashEnd

Next == \/ Session
        \/ \E c \in Changes : PublishStage(c)
        \/ Publish
        \/ SquashBegin \/ Squash
        \/ Crash \/ PowerLoss \/ BootSweep

Spec == Init /\ [][Next]_vars

(***************************************************************************)
(* Properties.                                                             *)
(***************************************************************************)
Ids == 0..MaxId
ManifestType == [version : Nat, layers : Seq(Ids)]

\* Every variable holds a value of its kind.
TypeOK ==
  /\ manifest \in ManifestType /\ survivors \subseteq ManifestType
  /\ layers \subseteq Ids /\ durable \subseteq layers
  /\ staging \subseteq Ids /\ leaked \subseteq Ids
  /\ content \in [Ids -> Seq(Changes)]
  /\ DOMAIN digest \subseteq Ids
  /\ nextId \in 1..(MaxId + 1)
  /\ up \in BOOLEAN /\ flight \in BOOLEAN
  /\ DOMAIN leases \subseteq LeaseIds \cup {PlanLease}
  /\ \A l \in DOMAIN leases : leases[l] \in ManifestType
  /\ wid \in Ids
  /\ Range(work) \subseteq Ids

\* The active manifest never names a layer whose directory is gone: no
\* publish, squash, collection, crash or sweep deletes what it still names
\* (remove_layers is reached only through unreferenced_layers and the sweep).
ActiveLayersOnDisk == Range(manifest.layers) \subseteq layers

\* Every chain that a session, an export or a squash build reads from keeps all
\* its directories for as long as its lease lives, whatever is published,
\* squashed or released meanwhile (pin overlap of acquire_rewritten_lease).
LeasedLayersOnDisk == LeasedLayers(leases) \subseteq layers

\* Whichever manifest a power loss leaves behind, its layers survive too: the
\* fsync of layers/, the syncfs and the manifest rename come in the right order.
SurvivingManifestsIntact == \A m \in survivors : Range(m.layers) \subseteq durable

\* While the daemon runs, a layer directory that nothing references was left by
\* a failed disk operation: every release collects what it made unreachable.
NoGarbage ==
  up => layers \subseteq Range(manifest.layers) \cup LeasedLayers(leases)
                           \cup leaked \cup {wid} \cup BuiltIds

\* Boundaries do their work: no squash commits a run that would strand a session
\* mounted on part of the active chain.  Each replaced run is wholly in such a
\* chain or disjoint from it, also for chains leased since the plan was made, so
\* the remount sweep can move the session (partition_blocks breaks runs at the
\* newest leased layers).
LeasesNeverSplitRun ==
  sqpc \in {"promote", "syncfs", "swap"} =>
    \A l \in DOMAIN leases, b \in built :
      leases[l].layers \in {SubSeq(manifest.layers, k, Len(manifest.layers)) : k \in DOMAIN manifest.layers} =>
        \/ Occurrences(leases[l].layers, b.run) # {}
        \/ Range(leases[l].layers) \cap Range(b.run) = {}

\* A manifest version identifies what is visible: a session whose lease carries
\* the active version sees the active contents, although squashes rewrite chains
\* (publish validation compares the version of the base revision).
VersionDeterminesView ==
  \A l \in DOMAIN leases :
    leases[l].version = manifest.version => View(leases[l].layers) = View(manifest.layers)

\* The commit recheck never fails: while the plan lease lives no other step
\* removes a planned run from the manifest (publishes only prepend).
PlannedRunsStay ==
  sqpc \in {"build", "splice"} => \A b \in built : Occurrences(manifest.layers, b.run) # {}


\* No layer that the active manifest or a live lease names is ever removed.
LayersOnDisk == ActiveLayersOnDisk /\ LeasedLayersOnDisk

\* What a squash planned still fits when it commits: its runs are still in the
\* manifest, and no session is mounted on a part of one (commit_squash).
SquashFits == PlannedRunsStay /\ LeasesNeverSplitRun

\* The state is well typed, nothing unreachable is left on disk, a version
\* identifies a view, and what a squash planned fits (release_lease,
\* unreferenced_layers, write_manifest, commit_squash).
WellFormed == TypeOK /\ NoGarbage /\ VersionDeterminesView /\ SquashFits

\* What squash() documents of a commit step that fails: "the old manifest stays
\* valid and partial S dirs are removed in-process".  A manifest is valid when the
\* layers it names exist.
FailedSquashKeepsManifestValid == sqpc = "release" => Range(manifest.layers) \subseteq layers
=============================================================================
