--------------------------- MODULE VersionedStore ---------------------------
(***************************************************************************)
(* What the layer store promises its clients: a log of published change    *)
(* sets, newest first, and snapshots that stay as they were taken.  No     *)
(* layer, no squash and no garbage collection is visible here.             *)
(***************************************************************************)
EXTENDS Naturals, Sequences, SequencesExt

CONSTANTS Changes, LeaseIds

VARIABLES
  log,     \* the published change sets, newest first
  acked,   \* the part of log that an acknowledgement has made durable
  snaps    \* snapshot id -> the log when it was taken

Init == log = <<>> /\ acked = <<>> /\ snaps = <<>>

Commit(c) == log' = <<c>> \o log /\ UNCHANGED <<acked, snaps>>

Acknowledge == acked' = log /\ UNCHANGED <<log, snaps>>

Freeze(l, view) ==
  /\ l \notin DOMAIN snaps
  /\ snaps' = [k \in DOMAIN snaps \cup {l} |-> IF k = l THEN view ELSE snaps[k]]
  /\ UNCHANGED <<log, acked>>

Close(l) ==
  /\ l \in DOMAIN snaps
  /\ snaps' = [k \in DOMAIN snaps \ {l} |-> snaps[k]]
  /\ UNCHANGED <<log, acked>>

\* A crash ends every snapshot.  A power loss may also take back publishes that
\* were not acknowledged, newest first.
Lose ==
  /\ snaps' = <<>>
  /\ \/ UNCHANGED <<log, acked>>
     \/ /\ log' \in Suffixes(log) \cup {<<>>} /\ acked' = log'
        /\ IsSuffix(acked, log')

Next ==
  \/ \E c \in Changes : Commit(c)
  \/ Acknowledge
  \/ \E l \in LeaseIds : \/ Freeze(l, log)
                         \/ \E k \in DOMAIN snaps : Freeze(l, snaps[k])
                         \/ Close(l)
  \/ Lose

Spec == Init /\ [][Next]_<<log, acked, snaps>>
=============================================================================
