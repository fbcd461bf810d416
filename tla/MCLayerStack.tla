---------------------------- MODULE MCLayerStack ----------------------------
(***************************************************************************)
(* Small instances of LayerStack, checked against VersionedStore: a log of *)
(* change sets and frozen snapshots of it.  The log is what the active     *)
(* chain shows, a snapshot is what a leased chain shows; the plan lease of *)
(* a squash is internal.                                                   *)
(***************************************************************************)
EXTENDS LayerStack, TLC

CONSTANTS c1, c2, l1, l2

LeaseSymmetry == Permutations(LeaseIds)

OldestSurvivor == CHOOSE m \in survivors : \A n \in survivors : m.version <= n.version

Abstract == INSTANCE VersionedStore WITH
  log <- View(manifest.layers),
  acked <- View(OldestSurvivor.layers),
  snaps <- [l \in DOMAIN leases \ {PlanLease} |-> View(leases[l].layers)]

\* Squashes, collections and remounts are invisible, a publish appears in one
\* step, an acknowledged publish survives every crash, a snapshot never changes.
ImplementsVersionedStore == Abstract!Spec
=============================================================================
