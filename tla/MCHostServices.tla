-------------------------- MODULE MCHostServices --------------------------
(***************************************************************************)
(* The host: the sandbox manager, an export, the ring file of resource     *)
(* samples and the gateway, side by side.  They share no state, so a       *)
(* behaviour is about one of them, its subject, and the others rest.       *)
(***************************************************************************)
EXTENDS SandboxManager, Export, ResourceRing, Gateway, TLC

CONSTANTS e1, e2

VARIABLE subject

Symmetry == Permutations(Sandboxes) \cup Permutations(Requests)

Formats == e1 :> "dir" @@ e2 :> "archive"

\* A client that streams.
StreamRequest == [sent |-> TRUE, len |-> 2, newline |-> TRUE, json |-> TRUE, object |-> TRUE,
                  token |-> TRUE, stream |-> TRUE, valid |-> TRUE]
SomeRequestLines == LET some == {StreamRequest, [StreamRequest EXCEPT !.token = FALSE]} IN 1 :> some @@ 2 :> some

\* bound: two sandboxes meet one fault and a mutation each, or one meets two of both
SandboxesAndFaults ==
  IF subject = "manager" THEN faults' <= 1 /\ \A s \in Sandboxes : acknowledged'[s] <= 1
  ELSE Cardinality(minted') <= 1
\* bound: two connections meet one gateway and one fault, or one meets two and two
ConnectionsAndGateways ==
  IF subject = "crowded gateway" THEN gw'[2] = "new" /\ gatewayFaults' <= 1 ELSE phase'[2] = "idle"

hostVars == <<managerVars, exportVars, ringVars, gatewayVars>>

HostInit ==
  /\ ManagerInit /\ ExportInit /\ RingInit /\ GatewayInit
  /\ subject \in {"manager", "faulty manager", "export", "ring", "gateway", "crowded gateway"}

HostNext ==
  /\ UNCHANGED subject
  /\ \/ /\ subject \in {"manager", "faulty manager"} /\ ManagerNext /\ SandboxesAndFaults
        /\ UNCHANGED <<exportVars, ringVars, gatewayVars>>
     \/ subject = "export" /\ ExportNext /\ UNCHANGED <<managerVars, ringVars, gatewayVars>>
     \/ subject = "ring" /\ RingNext /\ UNCHANGED <<managerVars, exportVars, gatewayVars>>
     \/ /\ subject \in {"gateway", "crowded gateway"} /\ GatewayNext /\ ConnectionsAndGateways
        /\ UNCHANGED <<managerVars, exportVars, ringVars>>

HostSpec == HostInit /\ [][HostNext]_<<hostVars, subject>>
=============================================================================
