----------------------------- MODULE LayerView -----------------------------
(***************************************************************************)
(* What the layers of a manifest mean.  A layer is a directory tree whose  *)
(* entries may also be whiteouts and opaque directories.  The same stack   *)
(* of layers is read in several ways that have to agree:                   *)
(*   - the kernel mounts it, and MergedView reads and lists it             *)
(*     (stack/projection/mod.rs), or copies it out (projection/apply.rs);  *)
(*   - a squash replaces a run of layers by one (stack/squash/flatten.rs); *)
(*   - an export folds the layers above the base into one verdict per path *)
(*     (projection/delta.rs), and the manager applies the verdicts to a    *)
(*     directory that holds the base (sandbox-manager/src/export_apply.rs).*)
(*                                                                         *)
(* Every whiteout is the kernel's (the Linux build writes no other), and   *)
(* symbolic links lead nowhere.                                            *)
(***************************************************************************)
EXTENDS Naturals, Sequences, SequencesExt, FiniteSetsExt

CONSTANTS
  Paths,       \* the paths a layer may have entries at: a prefix-closed set of sequences of names
  Contents,    \* file contents
  Links,       \* symbolic link targets
  MaxLayers    \* bound on the layers of a manifest

ASSUME LayerViewAssumption ==
  /\ \A p \in Paths : p # <<>> /\ (Len(p) > 1 => Front(p) \in Paths)
  /\ MaxLayers \in Nat

VARIABLE layers   \* the active manifest, newest layer first; the last one is the base

vars == <<layers>>

(***************************************************************************)
(* Entries, layers and trees.                                              *)
(***************************************************************************)
Entry(k, c) == [kind |-> k, data |-> c]
None == Entry("none", 0)
Dir == Entry("dir", 0)
Opaque == Entry("opaque", 0)
Whiteout == Entry("whiteout", 0)
Leaves == {Entry("file", c) : c \in Contents} \cup {Entry("link", c) : c \in Links}
Dirs == {Dir, Opaque}

Above(p) == {q \in Paths : IsStrictPrefix(q, p)}
Parent(p) == Front(p)
At(t, p) == IF p = <<>> THEN Dir ELSE t[p]

\* A tree on disk: whatever has an entry sits in a directory.
Grows(t) == \A p \in Paths : t[p] # None => At(t, Parent(p)) \in Dirs
Trees == {t \in [Paths -> Leaves \cup {None, Dir}] : Grows(t)}
LayerTrees == {t \in [Paths -> Leaves \cup {None, Dir, Opaque, Whiteout}] : Grows(t)}
Empty == [p \in Paths |-> None]

(***************************************************************************)
(* The reference: what an overlay mount of the stack shows.  A layer goes  *)
(* over the tree below it.                                                 *)
(***************************************************************************)
Seen(e) == CASE e = Whiteout -> None [] e = Opaque -> Dir [] OTHER -> e
Hides(l, p) == \E q \in Above(p) : l[q] \notin {None, Dir}
Over(l, t) ==
  [p \in Paths |-> IF l[p] # None THEN Seen(l[p]) ELSE IF Hides(l, p) THEN None ELSE t[p]]
View(s) == FoldRight(Over, s, Empty)

(***************************************************************************)
(* MergedView.                                                             *)
(***************************************************************************)
Blocked(l, p) == \E q \in Above(p) : l[q] \in Leaves \cup {Whiteout, Opaque}

\* The first layer that says anything about a path decides.
FirstHit(s, p) == SelectInSeq(s, LAMBDA l : l[p] # None \/ Blocked(l, p))
ReadEntry(s, p) == LET i == FirstHit(s, p) IN IF i = 0 THEN None ELSE Seen(s[i][p])

\* The file operations' reader also stops at a link on the way to the path.
ThroughLink(l, p) == \E q \in Above(p) : l[q].kind = "link"
ReadClassified(s, p) ==
  LET i == SelectInSeq(s, LAMBDA l : l[p] # None \/ ThroughLink(l, p) \/ Blocked(l, p))
  IN  CASE i = 0 -> "none"
        [] i # 0 /\ s[i][p] # Whiteout /\ ThroughLink(s[i], p) -> "link"
        [] OTHER -> Seen(s[i][p]).kind

\* One level of directory d (<<>>: the root).  A layer that blocks the path
\* ends the walk before its own entries are collected; an opaque directory
\* ends it after.
Stops(l, d) == d # <<>> /\ (l[d] \notin {None, Dir, Opaque} \/ Blocked(l, d))
ListDir(s, d) ==
  LET stop == SelectInSeq(s, LAMBDA l : Stops(l, d))
      cut == SelectInSeq(s, LAMBDA l : At(l, d) = Opaque)
      walked == {i \in 1..Len(s) : (stop # 0 => i < stop) /\ (cut # 0 => i <= cut)}
  IN  {p \in Paths : Parent(p) = d /\
         \E i \in walked : /\ s[i][p] \notin {None, Whiteout}
                           /\ \A j \in walked : j < i => s[j][p] = None}

\* project copies the layers out, oldest first.  A layer is applied in three
\* passes over its sorted entries: opaque directories are emptied, whiteouts
\* remove their target, and the other entries are created.  The first two
\* fail when something that is not a directory is in the way.
Failed == <<>>
ApplyLayer(l, t) ==
  LET opaques == {p \in Paths : l[p] = Opaque}
      cleared == [p \in Paths |-> IF p \in opaques \/ \E q \in opaques : IsStrictPrefix(p, q) THEN Dir
                                  ELSE IF Above(p) \cap opaques # {} THEN None ELSE t[p]]
      removed == [p \in Paths |-> IF \E q \in Above(p) \cup {p} : l[q] = Whiteout THEN None ELSE cleared[p]]
      InTheWay(r, p) == \E q \in Above(p) : r[q] \in Leaves
  IN  IF \/ t = Failed
         \/ \E p \in opaques : InTheWay(t, p) /\ Above(p) \cap opaques = {}
         \/ \E p \in Paths : l[p] = Whiteout /\ InTheWay(cleared, p)
      THEN Failed
      ELSE [p \in Paths |-> IF l[p] \in Leaves \cup {Dir, Opaque} THEN Seen(l[p])
                            ELSE IF \E q \in Above(p) : l[q] \in Leaves THEN None
                            ELSE removed[p]]
Project(s) == FoldRight(ApplyLayer, s, Empty)

(***************************************************************************)
(* flatten: a run of layers becomes one.  The run and the layers below it  *)
(* are walked together, directory by directory; members[d] are the layers  *)
(* of the run that contribute to directory d, below[d] the lower ones.     *)
(***************************************************************************)
\* The layers of a directory down to the first one that is opaque in it.
Cut(ls, d) ==
  LET i == SelectInSeq(ls, LAMBDA l : At(l, d) = Opaque) IN IF i = 0 THEN ls ELSE SubSeq(ls, 1, i)

\* The layers with an entry at p, and the leading ones where it is a directory.
Having(ls, p) == SelectSeq(ls, LAMBDA l : l[p] # None)
LeadingDirs(ls, p) ==
  LET i == SelectInSeq(ls, LAMBDA l : l[p] \notin Dirs) IN IF i = 0 THEN ls ELSE SubSeq(ls, 1, i - 1)

ChildLowerDirs(ls, p) == LeadingDirs(Having(Cut(ls, Parent(p)), p), p)
LowerNameVisible(ls, p) ==
  LET with == Having(Cut(ls, Parent(p)), p) IN with # <<>> /\ Head(with)[p] # Whiteout

\* emit_merged_dir: a directory that ends inside the run, at something that
\* is not a directory or at an opaque one, hides what lies below the run.
Terminated_AtOpaqueOnly(having, p) == \E i \in DOMAIN having : having[i][p] = Opaque
Terminated(having, p) == \E i \in DOMAIN having : having[i][p] # Dir

Flatten(run, lower) ==
  LET members[d \in Paths \cup {<<>>}] ==
        IF d = <<>> THEN run ELSE Cut(LeadingDirs(Having(members[Parent(d)], d), d), d)
      having(p) == Having(members[Parent(p)], p)
      below[d \in Paths \cup {<<>>}] ==
        IF d = <<>> THEN lower
        ELSE IF Terminated(having(d), d) THEN <<>> ELSE ChildLowerDirs(below[Parent(d)], d)
  IN  [p \in Paths |->
         LET hs == having(p) IN
         CASE hs = <<>> -> None
           [] hs # <<>> /\ Head(hs)[p] = Whiteout ->
                IF LowerNameVisible(below[Parent(p)], p) THEN Whiteout ELSE None
           [] hs # <<>> /\ Head(hs)[p] \in Dirs -> IF Terminated(hs, p) THEN Opaque ELSE Dir
           [] OTHER -> Head(hs)[p]]

(***************************************************************************)
(* Export: the layers above the base become one verdict per path.          *)
(* Verdicts are entries; Whiteout is a Delete, Opaque an OpaqueDir.        *)
(* cuts are the paths below which older layers count for nothing; a layer  *)
(* is judged by the cuts of the layers above it.                           *)
(***************************************************************************)
Masked(cuts, p) == Above(p) \cap cuts # {}
Plain(e) == IF e = Opaque THEN Dir ELSE e
OrInsert(verdict, e) == IF verdict = None THEN e ELSE verdict
FoldLayer_ForgetsFiles(l, fold) ==
  LET live(p) == ~Masked(fold.cuts, p)
  IN  [winners |-> [p \in Paths |-> IF live(p) THEN OrInsert(fold.winners[p], l[p]) ELSE fold.winners[p]],
       cuts |-> fold.cuts \cup {p \in Paths : live(p) /\ l[p] \in {Whiteout, Opaque}}]
FoldLayer(l, fold) ==
  LET live(p) == ~Masked(fold.cuts, p)
      \* an opaque directory also upgrades a newer plain directory
      opens(p) == live(p) /\ p \notin fold.cuts /\ l[p] = Opaque /\ fold.winners[p] \in {None, Dir}
  IN  [winners |-> [p \in Paths |-> CASE opens(p) -> Opaque
                                      [] live(p) /\ ~opens(p) -> OrInsert(fold.winners[p], Plain(l[p]))
                                      [] OTHER -> fold.winners[p]],
       cuts |-> fold.cuts \cup {p \in Paths : opens(p) \/ (live(p) /\ l[p] \in Leaves \cup {Whiteout})}]

FoldDeltaWinners(s) == FoldLeft(LAMBDA fold, l : FoldLayer(l, fold), [winners |-> Empty, cuts |-> {}], s).winners

(***************************************************************************)
(* apply_dir_delta: the manager applies the verdicts to a directory tree:  *)
(* it empties the opaque directories, removes the deleted paths, and then  *)
(* writes the rest, making directories on the way wherever one is missing  *)
(* or something else is in its place.                                      *)
(***************************************************************************)
MakeWay(t, ps) == [p \in Paths |-> IF \E q \in ps : IsPrefix(p, q) THEN Dir ELSE t[p]]
ClearDirectories(t, ps) ==
  MakeWay([p \in Paths |-> IF Above(p) \cap ps # {} THEN None ELSE t[p]], ps)
RemoveTargets(t, ps) == [p \in Paths |-> IF (Above(p) \cup {p}) \cap ps # {} THEN None ELSE t[p]]
ApplyContent(t, w) ==
  LET dirs == {p \in Paths : w[p] \in Dirs}
      written == {p \in Paths : w[p] \in Leaves}
      room == MakeWay(t, dirs \cup {q \in Paths : \E p \in written : q = Parent(p)})
  IN  [p \in Paths |-> IF p \in written THEN w[p] ELSE IF Above(p) \cap written # {} THEN None ELSE room[p]]
ApplyDirDelta(w, t) ==
  LET opaque == {p \in Paths : w[p] = Opaque}
      deleted == {p \in Paths : w[p] = Whiteout}
  IN  ApplyContent(RemoveTargets(ClearDirectories(t, opaque), deleted), w)

Base == layers[Len(layers)]
Deltas == Front(layers)
Exported == ApplyDirDelta(FoldDeltaWinners(Deltas), Base)

(***************************************************************************)
(* The stack changes by publishes and by squashes.                         *)
(***************************************************************************)
Init == layers \in {<<t>> : t \in Trees}

\* write_layer_changes makes a layer of the published changes: one entry per
\* changed path, and plain directories above it.  A plain directory may come
\* to sit over a file (the file operations write below one) but never over a
\* link: a session's overlay makes that directory opaque, and the file
\* operations refuse a path through a link.
Publish(changes) ==
  /\ Len(layers) < MaxLayers
  /\ changes # Empty
  /\ \A p \in Paths : changes[p] = Dir => View(layers)[p].kind # "link"
  /\ layers' = <<changes>> \o layers

\* The layers i..j, none of them the base, are replaced by one.
Squash(i, j) ==
  /\ j < Len(layers)
  /\ layers' = SubSeq(layers, 1, i - 1)
                \o <<Flatten(SubSeq(layers, i, j), SubSeq(layers, j + 1, Len(layers)))>>
                \o SubSeq(layers, j + 1, Len(layers))

Next ==
  \/ \E t \in LayerTrees : Publish(t)
  \/ \E i, j \in 1..MaxLayers : i < j /\ Squash(i, j)

Spec == Init /\ [][Next]_vars

(***************************************************************************)
(* Properties.                                                             *)
(***************************************************************************)
\* The layers of a manifest are well-formed trees, and the base has neither
\* whiteouts nor opaque directories.
TypeOK ==
  /\ Len(layers) \in 1..MaxLayers
  /\ Base \in Trees
  /\ \A i \in 1..Len(layers) : layers[i] \in LayerTrees

\* MergedView reads, at every path, what a mount of the stack shows there.
ReadAgrees == \A p \in Paths : ReadEntry(layers, p) = View(layers)[p]

\* The reader of the file operations answers "link" exactly when the path or
\* a directory on the way to it is a link, and otherwise agrees with the
\* mount.
ClassifiedAgrees ==
  \A p \in Paths :
    ReadClassified(layers, p) = IF \E q \in Above(p) \cup {p} : View(layers)[q].kind = "link"
                                THEN "link" ELSE View(layers)[p].kind

\* Where a directory can be listed, the listing has the names the mount shows,
\* if no directory above it is opaque in any layer.
Children(d) == {p \in Paths : Parent(p) = d /\ View(layers)[p] # None}
ListAgreesUnlessUnderOpaque ==
  \A d \in Paths \cup {<<>>} :
    /\ At(View(layers), d) = Dir
    /\ \A i \in 1..Len(layers), q \in Above(d) : layers[i][q] # Opaque
    => ListDir(layers, d) = Children(d)

\* A projection of the stack into an empty directory is the mounted tree.
ProjectAgrees == Project(layers) \in {Failed, View(layers)}

\* All that read a stack of layers see one tree (MergedView, project,
\* read_classified, list_dir), the one a mount of it shows.
ReadersAgree ==
  TypeOK /\ ReadAgrees /\ ClassifiedAgrees /\ ListAgreesUnlessUnderOpaque /\ ProjectAgrees

\* An export applied to a copy of the base gives the tree of the stack.
ExportAgrees == Exported = View(layers)

\* It does so unless a directory was made anew, by a plain directory entry,
\* where an older layer had removed or replaced the base's directory.
RemadeDirectory(p) ==
  /\ Base[p] = Dir
  /\ \E i \in 1..(Len(layers) - 1) :
       /\ layers[i][p] \in Leaves \cup {Whiteout}
       /\ \E h \in 1..(i - 1) : layers[h][p] = Dir
ExportAgreesUnlessRemade == (\A p \in Paths : ~RemadeDirectory(p)) => ExportAgrees
=============================================================================
