----------------------------- MODULE MCContents -----------------------------
(***************************************************************************)
(* What layers contain, in three instances side by side: publishes of two  *)
(* sessions and sessionless writes on a directory with two names; a stack  *)
(* of layers over a chain of nested names; a merge of three small files.   *)
(* A behaviour belongs to one of them, and the other two are at rest.      *)
(***************************************************************************)
EXTENDS PublishResolve, ThreeWayMerge

CONSTANTS s1, s2, x1, x2, y1, y2

VARIABLE stack   \* the layers of the second instance

Wide == {<<"a">>, <<"a", "b">>, <<"a", "c">>}
OneIgnored == {<<"a", "c">>}
Deep == {<<"a">>, <<"a", "b">>, <<"a", "b", "c">>}
Symmetry == Permutations(Sessions) \cup Permutations(Contents) \cup Permutations(Words)

Nested == INSTANCE LayerView WITH layers <- stack, Paths <- Deep, Contents <- {1}, Links <- {1}

NoPublishes == layers = <<Empty>> /\ snap = [s \in Sessions |-> <<>>] /\ merged = {} /\ work = Empty
NoStack == stack = <<>>
NoFiles == base = <<>> /\ active = <<>> /\ command = <<>>

ContentsInit ==
  \/ PInit /\ NoStack /\ MergeOf({<<>>})
  \/ NoPublishes /\ Nested!Init /\ MergeOf({<<>>})
  \/ NoPublishes /\ NoStack /\ MergeInit
ContentsNext ==
  \/ NoStack /\ NoFiles /\ PNext /\ UNCHANGED <<stack, mergeVars>>
  \/ ~NoStack /\ Nested!Next /\ UNCHANGED <<pvars, mergeVars>>
  \/ ~NoFiles /\ MergeNext /\ UNCHANGED <<pvars, stack>>

ContentsSpec == ContentsInit /\ [][ContentsNext]_<<pvars, stack, mergeVars>>

\* Reads, classified reads, listings and projections of a stack of layers over
\* nested names show what its mount shows, and so does the export of the stack
\* onto its base, unless a directory was removed and made again (the readers of
\* stack/projection, and export_apply.rs).
StackReadersAgree == ~NoStack => Nested!ReadersAgree /\ Nested!ExportAgreesUnlessRemade

\* A squash of any run of a stack leaves what its mount shows as it was
\* (squash/flatten.rs).
StackSquashKeepsView == [][NoStack \/ (Len(stack') <= Len(stack) => Nested!View(stack') = Nested!View(stack))]_stack
=============================================================================
