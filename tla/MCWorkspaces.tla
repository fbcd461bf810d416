---------------------------- MODULE MCWorkspaces ----------------------------
(***************************************************************************)
(* Workspace sessions as their service sees them, the raw workspaces as    *)
(* their manager does, and the operations on files in them, side by side:  *)
(* a behaviour is about one of them, its subject, and the others rest.     *)
(***************************************************************************)
EXTENDS WorkspaceSession, WorkspaceManager, FileText, FileAudit, FileRunner, TLC

CONSTANTS c1, c2, d, w1, w2

VARIABLE subject

Symmetry == Permutations(Clients) \cup Permutations(Ws)

\* bound: a behaviour with two faults takes two leases, with fewer it takes three
LeasesAndFaults == faults' = 2 => nextLease' <= 3

X == "x"
Y == "y"
SomeTexts == BoundedSeq({X, LF, CR}, 3) \cup BoundedSeq({X, LF}, 4)
               \cup {<<BOM>> \o t : t \in BoundedSeq({X, LF, CR}, 2)}
SomeEdits == {EditOp(old, new, all) : old \in {<<X>>, <<LF>>, <<X, CR, LF>>, <<X, X>>, <<>>},
                                      new \in {<<>>, <<Y>>, <<X, CR>>}, all \in BOOLEAN}
SomeBatches == {<<e>> : e \in SomeEdits}
                 \cup {<<e, EditOp(<<Y>>, new, TRUE)>> : e \in SomeEdits, new \in {<<X>>, <<LF>>}}

Subjects == {"session", "raw", "text", "audit", "runner"}

\* A part with several initial states rests in one of them.
WorkspacesInit ==
  /\ subject \in Subjects
  /\ Init /\ RawInit
  /\ RunnerInit /\ (subject # "runner" => parent = "none"
                                          /\ fileOp = [c \in FileClients |-> "read"])
  /\ AuditInit /\ (subject # "audit" => authors = <<>>)
  /\ IF subject = "text" THEN TextInit
                         ELSE TextsOf({"absent"}, {}, {<<EditOp(<<X>>, <<>>, TRUE)>>}, {1})

\* Every part but the subject.
Rest(part) ==
  /\ IF part = "session" THEN TRUE ELSE UNCHANGED vars
  /\ IF part = "raw" THEN TRUE ELSE UNCHANGED rawVars
  /\ IF part = "text" THEN TRUE ELSE UNCHANGED textVars
  /\ IF part = "audit" THEN TRUE ELSE UNCHANGED auditVars
  /\ IF part = "runner" THEN TRUE ELSE UNCHANGED runnerVars

WorkspacesNext ==
  /\ UNCHANGED subject
  /\ \/ subject = "session" /\ Next /\ Rest("session")
     \/ subject = "raw" /\ RawNext /\ LeasesAndFaults /\ Rest("raw")
     \/ subject = "text" /\ TextNext /\ Rest("text")
     \/ subject = "audit" /\ AuditNext /\ Rest("audit")
     \/ subject = "runner" /\ RunnerNext /\ Rest("runner")

WorkspacesSpec ==
  WorkspacesInit /\ [][WorkspacesNext]_<<vars, rawVars, textVars, auditVars, runnerVars, subject>>

\* A file operation does to a text what it says, to the tree what it says and
\* no more, and its lines are attributed to who wrote them.
FilesTrue == TextExact /\ FileOpsSafe /\ BlameTrue
=============================
