--------------------------- MODULE PublishResolve ---------------------------
(***************************************************************************)
(* Optimistic concurrency of publishes                                     *)
(* (layerstack/src/stack/publish/{plan,resolve}.rs, file_read.rs).         *)
(* A session works on a snapshot of the manifest; its overlay collects the *)
(* changes.  A publish plans them against the snapshot - which paths must  *)
(* still be as they were - and resolves the plan against the active        *)
(* manifest: a path that moved is merged, if it is a file the session      *)
(* wrote, or the whole publish is rejected.  Paths that git ignores are    *)
(* published without validation.                                           *)
(*                                                                         *)
(* The layers and what they show are those of LayerView.                   *)
(***************************************************************************)
EXTENDS LayerView

CONSTANTS
  Sessions,
  Ignored      \* paths that git ignores; everything below an ignored directory is ignored

ASSUME PublishAssumption ==
  Ignored \subseteq Paths /\ \A p \in Paths : Above(p) \cap Ignored # {} => p \in Ignored

VARIABLES
  snap,        \* each session's snapshot: the layers it is mounted on, <<>> when it is not running
  merged,      \* the paths the last publish merged
  work         \* the changes that publish was asked for

pvars == <<layers, snap, merged, work>>

Source == Paths \ Ignored

\* What a session's overlay can hold: a whiteout only over something the
\* snapshot shows, and a plain directory only over a directory or nothing.
Captured(ch, view) ==
  /\ ch # Empty
  /\ \A p \in Paths :
       /\ ch[p] = Whiteout => view[p] # None /\ \A q \in Above(p) : ch[q] # Opaque
       /\ ch[p] = Dir => view[p] \in {None, Dir}

(***************************************************************************)
(* plan_publish, against the snapshot b.                                   *)
(***************************************************************************)
VisibleBelow(view, d) == {p \in Paths : IsStrictPrefix(d, p) /\ view[p] # None}

\* An opaque directory takes the route of what it hides, which must be one.
MixedRoutes(ch, b) ==
  \E p \in Paths : ch[p] = Opaque /\ VisibleBelow(b, p) \cap Ignored # {} /\ VisibleBelow(b, p) \cap Source # {}
Routed(ch, b) ==
  {p \in Paths : /\ ch[p] # None
                 /\ IF ch[p] = Opaque /\ VisibleBelow(b, p) # {} THEN VisibleBelow(b, p) \subseteq Source
                    ELSE p \in Source}

\* The paths that must be unchanged: those of the changes that take the
\* source route, and in the place of an opaque directory what it hides.
Validations(ch, b) ==
  {p \in Routed(ch, b) : ch[p] # Opaque}
    \cup UNION {IF VisibleBelow(b, p) = {} THEN {p} ELSE VisibleBelow(b, p) :
                  p \in {q \in Routed(ch, b) : ch[q] = Opaque}}

(***************************************************************************)
(* resolve_publish_changes, against the active view a.                     *)
(***************************************************************************)
\* Two sessions may create the same directory.
CompatibleDirectory(ch, b, a, p) == p \in Routed(ch, b) /\ ch[p] = Dir /\ b[p] = None /\ a[p] = Dir
Moved(ch, b, a) == {p \in Validations(ch, b) : a[p] # b[p] /\ ~CompatibleDirectory(ch, b, a, p)}

\* A moved path can be merged if the session wrote a file there and neither
\* the snapshot nor the active manifest has anything but a file.
Mergeable(ch, b, a, p) ==
  /\ p \in Routed(ch, b) /\ ch[p].kind = "file"
  /\ {a[p].kind, b[p].kind} \subseteq {"none", "file"}

\* validate_structural_source_conflicts: a directory of the snapshot may go
\* only if nothing below it has changed.
StructuralConflict(ch, b, a, sameManifest) ==
  /\ ~sameManifest
  /\ \E p \in Routed(ch, b) :
       /\ ch[p] \in Leaves \cup {Whiteout, Opaque} /\ b[p] = Dir
       /\ \E q \in VisibleBelow(b, p) \cup VisibleBelow(a, p) : a[q] # b[q]

Conflict(ch, b, a, sameManifest) ==
  \/ MixedRoutes(ch, b)
  \/ \E p \in Moved(ch, b, a) : ~Mergeable(ch, b, a, p)
  \/ StructuralConflict(ch, b, a, sameManifest)

\* The changes that are published: the session's, with the merged files.
Resolved_SourceOnly(ch, result) ==
  [p \in Paths |-> IF p \in DOMAIN result THEN Entry("file", result[p]) ELSE IF p \in Ignored THEN None ELSE ch[p]]
Resolved(ch, result) ==
  [p \in Paths |-> IF p \in DOMAIN result THEN Entry("file", result[p]) ELSE ch[p]]

(***************************************************************************)
(* Sessions, publishes and sessionless writes.                             *)
(***************************************************************************)
PInit == Init /\ snap = [s \in Sessions |-> <<>>] /\ merged = {} /\ work = Empty

Begin(s) ==
  /\ snap[s] = <<>> /\ Len(layers) < MaxLayers
  /\ snap' = [snap EXCEPT ![s] = layers]
  /\ UNCHANGED <<layers, merged, work>>

\* A publish without conflict: the three-way merge of the moved files has any
\* outcome.  (A publish whose layer would equal the newest one adds none; what
\* the layers show is the same.)
Commit(s, ch, b, a) ==
  /\ ~Conflict(ch, b, a, snap[s] = layers)
  /\ \E result \in [Moved(ch, b, a) -> Contents] :
       /\ layers' = <<Resolved(ch, result)>> \o layers
       /\ merged' = DOMAIN result
  /\ work' = ch

\* A conflict, or a merge that fails, rejects the publish as a whole.
Reject(s, ch, b, a) ==
  /\ Conflict(ch, b, a, snap[s] = layers) \/ Moved(ch, b, a) # {}
  /\ UNCHANGED <<layers, merged, work>>

\* publish_validated_changes of what the session's overlay has collected.
PublishSession(s) ==
  LET b == View(snap[s])
      a == View(layers)
  IN  /\ snap[s] # <<>> /\ Len(layers) < MaxLayers
      /\ \E ch \in LayerTrees : Captured(ch, b) /\ (Commit(s, ch, b, a) \/ Reject(s, ch, b, a))
      /\ snap' = [snap EXCEPT ![s] = <<>>]

\* amend_path: a file write without a session, on the active manifest itself.
Amend(p, c) ==
  /\ Len(layers) < MaxLayers
  /\ ReadClassified(layers, p) \in {"none", "file"}
  /\ layers' = <<[q \in Paths |-> IF q = p THEN Entry("file", c) ELSE IF q \in Above(p) THEN Dir ELSE None]>>
               \o layers
  /\ merged' = {} /\ work' = Empty
  /\ UNCHANGED snap

PNext ==
  \/ \E s \in Sessions : Begin(s) \/ PublishSession(s)
  \/ \E p \in Paths, c \in Contents : Amend(p, c)

PSpec == PInit /\ [][PNext]_pvars

(***************************************************************************)
(* Properties.                                                             *)
(***************************************************************************)
Committed(s) == snap[s] # <<>> /\ snap'[s] = <<>> /\ layers' # layers

\* A publish never takes away what somebody else published in the meantime:
\* a path that git does not ignore changes only if it still is what the
\* session's snapshot showed, or its file was merged, or the session emptied a
\* directory at or above it whose hidden entries were all ignored: such a
\* publish is not validated at all.
NoLostUpdateUnlessEmptied ==
  [][\A s \in Sessions : Committed(s) =>
       LET after == View(layers')
           before == View(layers)
           seen == View(snap[s])
       IN  \A p \in Source : after[p] # before[p] =>
             \/ before[p] = seen[p] \/ p \in merged'
             \/ \E q \in (Above(p) \cup {p}) \ Routed(work', seen) : work'[q] = Opaque]_pvars

\* A publish is complete: everything the session changed is afterwards as the
\* session saw it, except for the merged files.
SessionWorkArrives ==
  [][\A s \in Sessions : Committed(s) =>
       LET before == View(snap[s])
           mine == Over(work', before)
           after == View(layers')
       IN  \A p \in Paths : mine[p] # before[p] /\ p \notin merged' => after[p] = mine[p]]_pvars

\* A publish loses neither what others published meanwhile nor what its own
\* session did (resolve_publish, publish_changes).
PublishKeepsWork == NoLostUpdateUnlessEmptied /\ SessionWorkArrives
=============================================================================
