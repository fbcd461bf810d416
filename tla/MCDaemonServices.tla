-------------------------- MODULE MCDaemonServices --------------------------
(***************************************************************************)
(* What must come to an end: the auto-squash worker and the shutdown of    *)
(* the daemon's services, the daemon's servers, and one gateway with two   *)
(* connections.  They share no state, so a behaviour is about one of them, *)
(* its subject, and the others rest.                                       *)
(***************************************************************************)
EXTENDS RuntimeServices, DaemonServer, Gateway, TLC

CONSTANTS r1, r2, r3

VARIABLE subject

Kinds == r1 :> "rpc" @@ r2 :> "files" @@ r3 :> "tunnel"

\* A streaming and a silent client on one connection, a plain request on the other.
PlainRequest == [sent |-> TRUE, len |-> 2, newline |-> TRUE, json |-> TRUE, object |-> TRUE,
                 token |-> TRUE, stream |-> FALSE, valid |-> TRUE]
SomeRequestLines ==
  1 :> {[PlainRequest EXCEPT !.stream = TRUE], [PlainRequest EXCEPT !.sent = FALSE]}
    @@ 2 :> {PlainRequest}

\* Services with nothing to do, so that no fair action is enabled in them.
ServicesRest == ServicesUp /\ unevaluated = FALSE /\ committer = [c \in Committers |-> "idle"]

ServicesInit ==
  /\ DaemonInit /\ GatewayInit
  /\ \/ subject = "services" /\ ServiceInit /\ artifacts = {}
     \/ subject = "daemon" /\ ServicesRest
     \/ subject = "gateway" /\ ServicesRest /\ artifacts = {}

ServicesNext ==
  /\ UNCHANGED subject
  /\ \/ subject = "services" /\ ServiceNext /\ UNCHANGED <<daemonVars, gatewayVars>>
     \/ subject = "daemon" /\ DaemonNext /\ UNCHANGED <<serviceVars, gatewayVars>>
     \/ subject = "gateway" /\ GatewayNext /\ UNCHANGED <<serviceVars, daemonVars>>

ServicesSpec ==
  /\ ServicesInit /\ [][ServicesNext]_<<serviceVars, daemonVars, gatewayVars, subject>>
  /\ ServiceFairness /\ DaemonFairness /\ GatewayFairness
=============================================================================
