------------------------- MODULE WorkspaceRingProofs -------------------------
(***************************************************************************)
(* A ring as large as the set of workspaces forgets none of them, so every *)
(* caller of a teardown hears its outcome. This is the one argument that   *)
(* counts: a sequence without repetitions that misses a workspace is       *)
(* shorter than the set.                                                   *)
(***************************************************************************)
EXTENDS WorkspaceOutcomesProofs, FiniteSetTheorems

\* A sequence of n distinct members of a finite set that misses w has n below
\* the size of the set.
LEMMA NoRoomForMore ==
  ASSUME NEW W, IsFiniteSet(W), NEW w \in W, NEW n \in Nat, NEW t \in [1 .. n -> W \ {w}],
         \A i, j \in 1 .. n : t[i] = t[j] => i = j
  PROVE  Cardinality(W) \in Nat /\ n <= Cardinality(W) - 1
<1> DEFINE S == W \ {w}
<1>1. IsFiniteSet(S) /\ Cardinality(S) = Cardinality(W) - 1 /\ Cardinality(W) \in Nat
  BY FS_RemoveElement, FS_CardinalityType, Zenon
<1>2. t \in Injection(1 .. n, S)
  BY Zenon DEF Injection, IsInjective
<1>3. Cardinality(1 .. n) <= Cardinality(S)
  BY <1>1, <1>2, FS_Injection, Zenon
<1>4. Cardinality(1 .. n) = n
  <2>1. 1 \in Int /\ n \in Int
    OBVIOUS
  <2>2. Cardinality(1 .. n) = IF 1 > n THEN 0 ELSE n - 1 + 1
    BY <2>1, FS_Interval, Zenon
  <2> QED BY <2>2
<1> QED BY <1>1, <1>3, <1>4

\* A ring as large as the set of workspaces has room for all of them.
LEMMA RingHasRoom ==
  ASSUME Cardinality(Ws) <= Ring
  PROVE  RoomForAll
<1> SUFFICES ASSUME NEW t \in Seq(Ws), NEW w \in Ws, Once(t), ~Has(t, w)
             PROVE  Len(t) # Ring
  BY Zenon DEF RoomForAll
<1>1. Len(t) \in Nat /\ t \in [1 .. Len(t) -> Ws \ {w}]
  BY DEF Has
<1>2. \A i, j \in 1 .. Len(t) : t[i] = t[j] => i = j
  BY Zenon DEF Once
<1>3. IsFiniteSet(Ws)
  BY ManagerAssumption, Zenon
<1>4. Cardinality(Ws) \in Nat /\ Len(t) <= Cardinality(Ws) - 1
  BY <1>1, <1>2, <1>3, NoRoomForMore, Zenon
<1> QED BY <1>1, <1>4, Bounds

\* Under the same hypotheses, and with a ring as large as the set of
\* workspaces, every caller of a teardown hears its outcome, the outcome is
\* true, and a completed shutdown leaves nothing behind (destroy_workspace,
\* completed_teardown_outcome, perform_shutdown).
THEOREM OutcomesAreTrue ==
  ASSUME ~LeakyRelease, MaxRemounts <= 1, ~ReapFaults, Cardinality(Ws) <= Ring
  PROVE  RawSpec => []OutcomesTrue
<1>1. IInv => OutcomesTrue
  <2> SUFFICES ASSUME IInv PROVE OutcomesTrue
    BY Zenon
  <2>1. ClosedMeansGone
    BY Zenon DEF IInv, Outcomes, Over, Gone, ClosedMeansGone
  <2>2. NoLostOutcome
    BY RingHasRoom, Zenon DEF IInv, Outcomes, NoLostOutcome
  <2> QED BY <2>1, <2>2, ShutdownIsClean, Zenon DEF OutcomesTrue, ReportedGone
<1> QED BY <1>1, OutcomesInvariant, PTL
=============================================================================
