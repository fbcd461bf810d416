---------------------------- MODULE GatewayProofs ----------------------------
(***************************************************************************)
(* The gateway is safe, for any number of processes, connections, permits  *)
(* and log lines.                                                          *)
(*                                                                         *)
(* The permits of a process equal MaxPermits less its handled connections  *)
(* only because no connection is handled by a process that has not written *)
(* its pid file, and an answer is whole only because the client and the    *)
(* channel together hold every line the operation wrote.  IInv adds those  *)
(* facts, phase by phase.                                                  *)
(***************************************************************************)
EXTENDS Gateway, FiniteSetTheorems, TLAPS

\* The stages of serve(), and the phases of a connection.
GwStages == {"new", "bound", "serving", "stopping", "cleaned", "removing", "closing", "draining",
             "exiting", "gone"}
\* The phases of a connection.
Phases == {"idle", "backlog", "rejecting", "over"} \cup Handling

\* Values of the variables the safety of the gateway rests on.
Types ==
    /\ gw \in [Gateways -> GwStages]
    /\ freePermits \in [Gateways -> Nat]
    /\ phase \in [Conns -> Phases]
    /\ at \in [Conns -> 0..MaxStarts]
    /\ DOMAIN request = Conns
    /\ peer \in [Conns -> {"open", "gone", "stalled"}]
    /\ op \in [Conns -> {None, "running", "finished", "lost"}]
    /\ chan \in [Conns -> Seq(Nat)] /\ out \in [Conns -> Seq(Nat)]
    /\ emitted \in [Conns -> Nat]
    /\ response \in [Conns -> {None, "overload", "fault", "result"}]

\* A connection belongs to a process whose listener, or whose handlers, still
\* exist.
Placed(c) ==
    /\ phase[c] # "idle" => at[c] \in Gateways
    /\ phase[c] = "backlog" => gw[at[c]] \in Listening
    /\ phase[c] \in Handling \cup {"rejecting"} =>
         gw[at[c]] \in {"serving", "stopping", "cleaned", "removing", "closing", "draining"}

\* A semaphore and the connections it counts; only finitely many are ever
\* handled.
Permits ==
    \A g \in Gateways :
        /\ IsFiniteSet(Handled(g))
        /\ gw[g] \in {"serving", "stopping"} => freePermits[g] + Cardinality(Handled(g)) = MaxPermits

\* The log lines a client received are the first ones, in order.
Listed(c) == \A i \in 1..Lines(c) : out[c][i] = i
\* The lines in the channel follow the ones the client received.
Queued(c) == \A i \in 1..Len(chan[c]) : chan[c][i] = Len(out[c]) + i

\* Nothing was dispatched for the connection.
Fresh(c) == op[c] = None /\ chan[c] = <<>> /\ out[c] = <<>> /\ emitted[c] = 0

\* What a client was told, by the phase of its connection: before the
\* response nothing but log lines in order; while it streams, the client and
\* the channel hold together every line the operation wrote; a result only
\* after the operation finished.
Told(c) ==
    /\ Listed(c)
    /\ phase[c] # "over" => ~Answered(c)
    /\ phase[c] \in {"idle", "backlog", "reading", "rejecting"} => Fresh(c)
    /\ phase[c] \in {"idle", "backlog", "reading", "working", "streaming"} => response[c] = None
    /\ phase[c] = "rejecting" => response[c] = "overload"
    /\ phase[c] = "working" => ~request[c].stream /\ chan[c] = <<>> /\ out[c] = <<>> /\ emitted[c] = 0
    /\ phase[c] = "streaming" => Queued(c) /\ Len(out[c]) + Len(chan[c]) = emitted[c]
    /\ phase[c] = "answering" => response[c] \in {"fault", "result"}
    /\ phase[c] \in {"answering", "over"} /\ response[c] = "result" => op[c] = "finished"
    /\ phase[c] = "answering" /\ response[c] = "result" => Len(out[c]) = emitted[c]
    /\ Answered(c) /\ response[c] = "result" => Lines(c) = emitted[c]

\* OnlyAdmittedRun, for one connection.
Runs(c) == op[c] # None => Framed(c) /\ Authorized(request[c]) /\ response[c] \in {None, "result"}

\* A process about to remove the path has its own socket there, or an operator
\* came in between.
RemovesOwn == \A g \in Gateways : gw[g] = "removing" => socketFile = g \/ g \in raced

\* The inductive invariant. SocketKept and PidFileTrue are inductive
\* together: a process writes or removes the pid file only while its own
\* socket is at the path, so no other process is serving then.
IInv ==
    /\ Types /\ Permits /\ SocketKept /\ PidFileTrue /\ RemovesOwn
    /\ \A c \in Conns : Placed(c) /\ Told(c) /\ Runs(c)

-----------------------------------------------------------------------------
\* A step of a connection, its client or its operation.
ClientStep(c) ==
    \/ \E g \in Gateways, r \in RequestLines[c] : Connect(c, g, r)
    \/ PeerChanges(c) \/ HandlerStep(c) \/ EmitLog(c) \/ FinishOperation(c)

\* A step that leaves a connection alone.
Same(c) ==
    /\ phase'[c] = phase[c] /\ at'[c] = at[c] /\ request'[c] = request[c]
    /\ op'[c] = op[c] /\ chan'[c] = chan[c] /\ emitted'[c] = emitted[c]
    /\ response'[c] = response[c] /\ out'[c] = out[c]

\* What was told to a connection and what it runs depend on that connection
\* only.
LEMMA SameTold ==
    ASSUME NEW c \in Conns, Same(c), Told(c), Runs(c)
    PROVE  Told(c)' /\ Runs(c)'
<1>1. /\ Answered(c)' = Answered(c) /\ Lines(c)' = Lines(c) /\ Fresh(c)' = Fresh(c)
      /\ Listed(c)' = Listed(c) /\ Queued(c)' = Queued(c)
  BY Zenon DEF Same, Answered, Lines, Fresh, Listed, Queued
<1>2. Told(c)'
  BY <1>1, Zenon DEF Told, Same
<1>3. Runs(c)'
  BY Zenon DEF Runs, Same, Framed, Authorized
<1> QED BY <1>2, <1>3, Zenon

\* A step of one connection leaves the others alone.
LEMMA OthersSame ==
    ASSUME Types, NEW c \in Conns, ClientStep(c), NEW v \in Conns, v # c
    PROVE  Same(v)
<1>1. CASE \E g \in Gateways, r \in RequestLines[c] : Connect(c, g, r)
  BY <1>1, Zenon DEF Connect, Types, Same
<1>2. CASE PeerChanges(c)
  BY <1>2, Zenon DEF PeerChanges, Same
<1>3. CASE AcceptConnection(c)
  BY <1>3, Zenon DEF AcceptConnection, Types, Same
<1>4. CASE HandleConnection(c)
  BY <1>4, Zenon DEF HandleConnection, AnswerWith, Types, Same
<1>5. CASE ReadTimesOut(c)
  BY <1>5, Zenon DEF ReadTimesOut, AnswerWith, Types, Same
<1>6. CASE PlainResult(c)
  BY <1>6, Zenon DEF PlainResult, AnswerWith, Types, Same
<1>7. CASE WriteLog(c)
  BY <1>7, Zenon DEF WriteLog, EndConnection, Types, Same
<1>8. CASE StreamEnds(c)
  BY <1>8, Zenon DEF StreamEnds, AnswerWith, Types, Same
<1>9. CASE WriteResponse(c)
  BY <1>9, Zenon DEF WriteResponse, EndConnection, Types, Same
<1>10. CASE EmitLog(c)
  BY <1>10, Zenon DEF EmitLog, Types, Same
<1>11. CASE FinishOperation(c)
  BY <1>11, Zenon DEF FinishOperation, Types, Same
<1> QED BY <1>1, <1>2, <1>3, <1>4, <1>5, <1>6, <1>7, <1>8, <1>9, <1>10, <1>11, Zenon DEF ClientStep, HandlerStep

\* A connection changes to a phase of the handler.
LEMMA PhaseTypes ==
    ASSUME Types, NEW c \in Conns, NEW p \in Phases, phase' = [phase EXCEPT ![c] = p]
    PROVE  phase' \in [Conns -> Phases]
BY Zenon DEF Types

\* A permit count stays a natural number.
LEMMA PermitTypes ==
    ASSUME Types, NEW g, NEW n,
           freePermits' = freePermits \/ freePermits' = [freePermits EXCEPT ![g] = n],
           g \in Gateways => n \in Nat
    PROVE  freePermits' \in [Gateways -> Nat]
BY DEF Types

\* The end of a connection keeps the types of what it changes.
LEMMA EndTypes ==
    ASSUME Types, NEW c \in Conns, EndConnection(c)
    PROVE  /\ freePermits' \in [Gateways -> Nat]
           /\ phase' \in [Conns -> Phases]
           /\ chan' \in [Conns -> Seq(Nat)]
           /\ peer' \in [Conns -> {"open", "gone", "stalled"}]
<1>1. freePermits' \in [Gateways -> Nat]
  <2>1. CASE phase[c] \in Handling
    <3>1. CASE at[c] \in Gateways
      <4>1. freePermits[at[c]] + 1 \in Nat
        BY <3>1 DEF Types
      <4> QED BY <2>1, <4>1, Zenon DEF Types, EndConnection
    <3>2. CASE at[c] \notin Gateways
      BY <2>1, <3>2, Zenon DEF Types, EndConnection
    <3> QED BY <3>1, <3>2, Zenon
  <2>2. CASE phase[c] \notin Handling
    BY <2>2, Zenon DEF Types, EndConnection
  <2> QED BY <2>1, <2>2, Zenon
<1>2. phase' \in [Conns -> Phases]
  BY Zenon DEF Types, EndConnection, Phases
<1>3. chan' \in [Conns -> Seq(Nat)]
  BY DEF Types, EndConnection
<1>4. peer' \in [Conns -> {"open", "gone", "stalled"}]
  BY Zenon DEF Types, EndConnection
<1> QED BY <1>1, <1>2, <1>3, <1>4, Zenon

\* Every step keeps the types.
LEMMA TypesStep ==
    ASSUME Types, GatewayNext
    PROVE  Types'
<1> USE GatewayAssumption DEF Types, Gateways, GwStages, Phases, Handling
<1>1. ASSUME NEW g \in Gateways, ServeStep(g) PROVE Types'
  <2>1. CASE Bind(g) \/ Interrupt(g) \/ StopAccepting(g) \/ CleanupPaths(g) \/ Exit(g)
    BY <2>1, ZenonT(40) DEF Bind, Interrupt, StopAccepting, CleanupPaths, Exit, clientVars, pathVars
  <2>6. CASE CheckSocket(g) \/ RemoveSocket(g)
    BY <2>6, Zenon DEF CheckSocket, RemoveSocket, clientVars
  <2>2. CASE WritePidFile(g)
    <3>1. gw' \in [Gateways -> GwStages]
      BY <2>2 DEF WritePidFile
    <3>2. freePermits' \in [Gateways -> Nat]
      BY <2>2, PermitTypes, Zenon DEF WritePidFile
    <3> QED BY <2>2, <3>1, <3>2, Zenon DEF WritePidFile, clientVars
  <2>3. CASE DropListener(g)
    BY <2>3, Zenon DEF DropListener, Closed
  <2>4. CASE DropTasks(g)
    BY <2>4 DEF DropTasks, Closed, OpenConns
  <2>5. CASE Crash(g)
    BY <2>5 DEF Crash, Closed, OpenConns
  <2> QED BY <1>1, <2>1, <2>2, <2>3, <2>4, <2>5, <2>6, Zenon DEF ServeStep
<1>2. ASSUME NEW c \in Conns, ClientStep(c) PROVE Types'
  <2>1. CASE \E g \in Gateways, r \in RequestLines[c] : Connect(c, g, r)
    BY <2>1, SMTT(30) DEF Connect, procVars
  <2>2. CASE PeerChanges(c)
    BY <2>2, SMTT(20) DEF PeerChanges, procVars
  <2>3. CASE AcceptConnection(c)
    <3>1. freePermits' \in [Gateways -> Nat]
      <4>1. at[c] \in Gateways /\ freePermits[at[c]] > 0 => freePermits[at[c]] - 1 \in Nat
        OBVIOUS
      <4>2. \/ freePermits' = freePermits
            \/ freePermits[at[c]] > 0 /\ freePermits' = [freePermits EXCEPT ![at[c]] = freePermits[at[c]] - 1]
        BY <2>3 DEF AcceptConnection
      <4> QED BY <4>1, <4>2, PermitTypes, Zenon
    <3>2. phase' \in [Conns -> Phases]
      <4>1. \E p \in Phases : phase' = [phase EXCEPT ![c] = p]
        BY <2>3, Zenon DEF AcceptConnection
      <4> QED BY <4>1, PhaseTypes, Zenon
    <3>3. response' \in [Conns -> {None, "overload", "fault", "result"}]
      <4>1. CASE UNCHANGED response
        BY <4>1, Zenon
      <4>2. CASE response' = [response EXCEPT ![c] = "overload"]
        BY <4>2, Zenon
      <4> QED BY <2>3, <4>1, <4>2, Zenon DEF AcceptConnection
    <3> QED BY <2>3, <3>1, <3>2, <3>3, Zenon DEF AcceptConnection
  <2>4. CASE HandleConnection(c)
    <3>1. phase' \in [Conns -> Phases]
      <4>1. \E p \in Phases : phase' = [phase EXCEPT ![c] = p]
        BY <2>4, Zenon DEF HandleConnection, AnswerWith
      <4> QED BY <4>1, PhaseTypes, Zenon
    <3>3. response' \in [Conns -> {None, "overload", "fault", "result"}]
      <4>1. CASE UNCHANGED response
        BY <4>1, Zenon
      <4>2. CASE response' = [response EXCEPT ![c] = "fault"]
        BY <4>2, Zenon
      <4> QED BY <2>4, <4>1, <4>2, Zenon DEF HandleConnection, AnswerWith
    <3>2. op' \in [Conns -> {None, "running", "finished", "lost"}]
      BY <2>4, Zenon DEF HandleConnection, AnswerWith
    <3> QED BY <2>4, <3>1, <3>2, <3>3, Zenon DEF HandleConnection, procVars
  <2>5. CASE ReadTimesOut(c)
    BY <2>5, Zenon DEF ReadTimesOut, AnswerWith, procVars
  <2>6. CASE PlainResult(c)
    BY <2>6, Zenon DEF PlainResult, AnswerWith, procVars
  <2>7. CASE WriteLog(c)
    <3>1. Head(chan[c]) \in Nat /\ Tail(chan[c]) \in Seq(Nat)
      BY <2>7 DEF WriteLog
    <3>2. Append(out[c], Head(chan[c])) \in Seq(Nat)
      BY <3>1
    <3>3. CASE EndConnection(c)
      <4>1. out' \in [Conns -> Seq(Nat)]
        BY <2>7, <3>2, Zenon DEF WriteLog
      <4> QED BY <2>7, <3>3, <4>1, EndTypes, Zenon DEF WriteLog
    <3>4. CASE ~EndConnection(c)
      BY <2>7, <3>4, <3>1, <3>2, ZenonT(40) DEF WriteLog
    <3> QED BY <3>3, <3>4, Zenon
  <2>8. CASE StreamEnds(c)
    BY <2>8, Zenon DEF StreamEnds, AnswerWith, procVars
  <2>9. CASE WriteResponse(c)
    <3>1. Append(out[c], 0) \in Seq(Nat)
      OBVIOUS
    <3>2. out' \in [Conns -> Seq(Nat)]
      BY <2>9, <3>1, Zenon DEF WriteResponse
    <3> QED BY <2>9, <3>2, EndTypes, Zenon DEF WriteResponse
  <2>10. CASE EmitLog(c)
    <3>1. Append(chan[c], emitted[c] + 1) \in Seq(Nat)
      OBVIOUS
    <3> QED BY <2>10, <3>1, SMTT(30) DEF EmitLog, procVars
  <2>11. CASE FinishOperation(c)
    BY <2>11, Zenon DEF FinishOperation, procVars
  <2> QED BY <1>2, <2>1, <2>2, <2>3, <2>4, <2>5, <2>6, <2>7, <2>8, <2>9, <2>10, <2>11, Zenon DEF ClientStep, HandlerStep
<1>3. CASE UnlinkSocket
  BY <1>3, Zenon DEF UnlinkSocket, procVars, clientVars
<1> QED BY <1>1, <1>2, <1>3, Zenon DEF GatewayNext, ClientStep

-----------------------------------------------------------------------------
\* No step of a connection touches a process, the socket or the pid file.
LEMMA ClientFrame ==
    ASSUME NEW c \in Conns, ClientStep(c)
    PROVE  UNCHANGED <<gw, socketFile, pidFile, robbed, raced>>
BY Zenon DEF ClientStep, Connect, PeerChanges, HandlerStep, AcceptConnection, HandleConnection,
       ReadTimesOut, PlainResult, WriteLog, StreamEnds, WriteResponse, EmitLog,
       FinishOperation, procVars, pathVars

\* Binding, pid file, cleanup and the drop of a listener (lifecycle.rs,
\* listener.rs) keep the socket and the pid file of the process that serves.
LEMMA PathsStep ==
    ASSUME Types, SocketKept, PidFileTrue, RemovesOwn, GatewayNext
    PROVE  SocketKept' /\ PidFileTrue'
<1> USE DEF Types, Gateways
<1>1. ASSUME NEW g \in Gateways, ServeStep(g) PROVE SocketKept' /\ PidFileTrue'
  <2>1. CASE Bind(g)
    <3>1. SocketKept'
      BY <2>1, GatewayAssumption DEF Bind, SocketKept, Keeping
    <3>2. PidFileTrue'
      BY <2>1, Zenon DEF Bind, PidFileTrue
    <3> QED BY <3>1, <3>2, Zenon
  <2>2. CASE WritePidFile(g)
    <3>1. SocketKept'
      BY <2>2, Zenon DEF WritePidFile, SocketKept, Keeping
    <3>2. \A h \in Gateways : gw[h] = "serving" /\ robbed = {} => h = g
      BY <2>2, Zenon DEF WritePidFile, SocketKept, Keeping
    <3>3. PidFileTrue'
      BY <2>2, <3>2, Zenon DEF WritePidFile, PidFileTrue
    <3> QED BY <3>1, <3>3, Zenon
  <2>3. CASE Interrupt(g)
    BY <2>3, Zenon DEF Interrupt, SocketKept, PidFileTrue, pathVars
  <2>4. CASE StopAccepting(g)
    BY <2>4, Zenon DEF StopAccepting, SocketKept, PidFileTrue, Keeping, pathVars
  <2>5. CASE CleanupPaths(g)
    <3>1. SocketKept'
      BY <2>5, Zenon DEF CleanupPaths, SocketKept, Keeping
    <3>2. \A h \in Gateways : gw[h] = "serving" /\ robbed = {} => h = g
      BY <2>5, Zenon DEF CleanupPaths, SocketKept, Keeping
    <3>3. PidFileTrue'
      BY <2>5, <3>2, Zenon DEF CleanupPaths, PidFileTrue
    <3> QED BY <3>1, <3>3, Zenon
  <2>6. CASE DropListener(g)
    BY <2>6, Zenon DEF DropListener, SocketKept, PidFileTrue, Keeping, pathVars
  <2>10. CASE CheckSocket(g)
    BY <2>10, Zenon DEF CheckSocket, SocketKept, PidFileTrue, Keeping, pathVars
  <2>11. CASE RemoveSocket(g)
    <3>1. PidFileTrue'
      BY <2>11, Zenon DEF RemoveSocket, PidFileTrue, Rob
    <3>2. CASE socketFile' = socketFile
      <4>1. robbed \subseteq robbed'
        BY <2>11, Zenon DEF RemoveSocket, Rob
      <4>2. \A h \in Gateways : gw'[h] \in Keeping => gw[h] \in Keeping
        BY <2>11, Zenon DEF RemoveSocket, Keeping
      <4> QED BY <3>1, <3>2, <4>1, <4>2, Zenon DEF SocketKept
    <3>3. CASE g \in raced /\ Rob
      <4>1. \A h \in Gateways : gw'[h] \in Keeping => gw[h] \in Keeping /\ gw[h] # "gone"
        BY <2>11, Zenon DEF RemoveSocket, Keeping
      <4> QED BY <3>1, <3>3, <4>1, Zenon DEF SocketKept, Rob
    <3>4. CASE g \notin raced /\ UNCHANGED robbed
      <4>1. socketFile = g
        BY <2>11, <3>4, Zenon DEF RemoveSocket, RemovesOwn
      <4>2. \A h \in Gateways : gw'[h] \in Keeping /\ h \notin robbed => h # g /\ gw[h] = gw'[h]
        BY <2>11, Zenon DEF RemoveSocket, Keeping
      <4> QED BY <3>1, <3>4, <4>1, <4>2, Zenon DEF SocketKept
    <3> QED BY <2>11, <3>1, <3>2, <3>3, <3>4, Zenon DEF RemoveSocket
  <2>7. CASE DropTasks(g)
    BY <2>7, Zenon DEF DropTasks, SocketKept, PidFileTrue, Keeping, pathVars
  <2>8. CASE Exit(g)
    BY <2>8, Zenon DEF Exit, SocketKept, PidFileTrue, Keeping, pathVars
  <2>9. CASE Crash(g)
    BY <2>9, Zenon DEF Crash, SocketKept, PidFileTrue, Keeping, pathVars
  <2> QED BY <1>1, <2>1, <2>2, <2>3, <2>4, <2>5, <2>6, <2>7, <2>8, <2>9, <2>10, <2>11, Zenon DEF ServeStep
<1>2. ASSUME NEW c \in Conns, ClientStep(c) PROVE SocketKept' /\ PidFileTrue'
  BY <1>2, ClientFrame, Zenon DEF SocketKept, PidFileTrue
<1>3. CASE UnlinkSocket
  BY <1>3, Zenon DEF UnlinkSocket, Rob, SocketKept, PidFileTrue, Keeping, procVars
<1> QED BY <1>1, <1>2, <1>3, Zenon DEF GatewayNext, ClientStep

\* A process that leaves looks at the path before it removes it, and only an
\* operator, or a process an operator came before, takes a socket away.
LEMMA RemovesStep ==
    ASSUME Types, RemovesOwn, GatewayNext
    PROVE  RemovesOwn'
<1> USE DEF Types, Gateways
<1>1. ASSUME NEW g \in Gateways, ServeStep(g) PROVE RemovesOwn'
  <2>1. CASE Bind(g)
    BY <2>1, GatewayAssumption DEF Bind, RemovesOwn
  <2>2. CASE CheckSocket(g)
    BY <2>2, Zenon DEF CheckSocket, OwnSocket, RemovesOwn, pathVars
  <2>3. CASE RemoveSocket(g)
    <3>1. CASE g \in raced /\ Rob
      BY <2>3, <3>1, Zenon DEF RemoveSocket, Rob, RemovesOwn
    <3>2. CASE g \notin raced /\ UNCHANGED raced
      BY <2>3, <3>2, Zenon DEF RemoveSocket, RemovesOwn
    <3>3. CASE UNCHANGED <<socketFile, raced>>
      BY <2>3, <3>3, Zenon DEF RemoveSocket, RemovesOwn
    <3> QED BY <2>3, <3>1, <3>2, <3>3, Zenon DEF RemoveSocket
  <2>4. CASE WritePidFile(g) \/ Interrupt(g) \/ StopAccepting(g) \/ CleanupPaths(g)
    BY <2>4, Zenon DEF WritePidFile, Interrupt, StopAccepting, CleanupPaths, RemovesOwn, pathVars
  <2>5. CASE DropListener(g) \/ DropTasks(g) \/ Exit(g) \/ Crash(g)
    BY <2>5, Zenon DEF DropListener, DropTasks, Exit, Crash, RemovesOwn, pathVars
  <2> QED BY <1>1, <2>1, <2>2, <2>3, <2>4, <2>5, Zenon DEF ServeStep
<1>2. ASSUME NEW c \in Conns, ClientStep(c) PROVE RemovesOwn'
  BY <1>2, ClientFrame, Zenon DEF RemovesOwn
<1>3. CASE UnlinkSocket
  BY <1>3, Zenon DEF UnlinkSocket, Rob, RemovesOwn, procVars
<1> QED BY <1>1, <1>2, <1>3, Zenon DEF GatewayNext, ClientStep

\* A listener that is dropped resets its backlog and a runtime that is
\* dropped ends its tasks, so no connection outlives what it belongs to.
LEMMA PlacedStep ==
    ASSUME Types, \A c \in Conns : Placed(c), GatewayNext, NEW v \in Conns
    PROVE  Placed(v)'
<1> USE DEF Types, Handling, Listening, Keeping
<1>1. ASSUME NEW g \in Gateways, ServeStep(g) PROVE Placed(v)'
  <2>1. CASE Bind(g) \/ WritePidFile(g) \/ Interrupt(g) \/ StopAccepting(g) \/ CleanupPaths(g)
    <3>0. UNCHANGED <<phase, at>>
      BY <2>1, Zenon DEF Bind, WritePidFile, Interrupt, StopAccepting, CleanupPaths, clientVars
    <3>1. CASE Bind(g) \/ WritePidFile(g)
      BY <3>0, <3>1, Zenon DEF Placed, Bind, WritePidFile
    <3>2. CASE Interrupt(g) \/ StopAccepting(g) \/ CleanupPaths(g)
      BY <3>0, <3>2, Zenon DEF Placed, Interrupt, StopAccepting, CleanupPaths
    <3> QED BY <2>1, <3>1, <3>2, Zenon
  <2>2. CASE DropListener(g)
    BY <2>2, Zenon DEF Placed, DropListener, Closed
  <2>6. CASE CheckSocket(g) \/ RemoveSocket(g)
    <3>1. UNCHANGED <<phase, at>>
      BY <2>6, Zenon DEF CheckSocket, RemoveSocket, clientVars
    <3>2. gw[g] \in {"cleaned", "removing"} /\ \E s \in {"removing", "closing"} : gw' = [gw EXCEPT ![g] = s]
      BY <2>6, Zenon DEF CheckSocket, RemoveSocket
    <3> QED BY <3>1, <3>2, Zenon DEF Placed
  <2>3. CASE DropTasks(g)
    BY <2>3, Zenon DEF Placed, DropTasks, Closed, OpenConns
  <2>4. CASE Exit(g)
    BY <2>4, Zenon DEF Placed, Exit, clientVars
  <2>5. CASE Crash(g)
    BY <2>5, Zenon DEF Placed, Crash, Closed, OpenConns
  <2> QED BY <1>1, <2>1, <2>2, <2>3, <2>4, <2>5, <2>6, Zenon DEF ServeStep
<1>2. ASSUME NEW c \in Conns, ClientStep(c) PROVE Placed(v)'
  <2>0. gw' = gw
    BY <1>2, ClientFrame, Zenon
  <2>a. CASE v # c
    BY <1>2, <2>0, <2>a, OthersSame DEF Same, Placed
  <2>b. SUFFICES ASSUME v = c PROVE Placed(c)'
    BY <2>a, Zenon
  <2>1. CASE \E g \in Gateways, r \in RequestLines[c] : Connect(c, g, r)
    BY <2>1, <2>0 DEF Connect, Reaches, Placed
  <2>2. CASE PeerChanges(c) \/ EmitLog(c) \/ FinishOperation(c)
    BY <2>2, <2>0, Zenon DEF PeerChanges, EmitLog, FinishOperation, Placed
  <2>3. CASE AcceptConnection(c)
    BY <2>3, <2>0, Zenon DEF AcceptConnection, Placed
  <2>4. CASE HandleConnection(c)
    BY <2>4, <2>0 DEF HandleConnection, AnswerWith, Placed
  <2>5. CASE ReadTimesOut(c) \/ PlainResult(c) \/ StreamEnds(c)
    BY <2>5, <2>0, Zenon DEF ReadTimesOut, PlainResult, StreamEnds, AnswerWith, Placed
  <2>6. CASE WriteLog(c) \/ WriteResponse(c)
    BY <2>6, <2>0, Zenon DEF WriteLog, WriteResponse, EndConnection, Placed
  <2> QED BY <1>2, <2>1, <2>2, <2>3, <2>4, <2>5, <2>6, Zenon DEF ClientStep, HandlerStep
<1>3. CASE UnlinkSocket
  BY <1>3, Zenon DEF UnlinkSocket, Placed, procVars, clientVars
<1> QED BY <1>1, <1>2, <1>3, Zenon DEF GatewayNext, ClientStep

\* An operation starts only in HandleConnection, after framing and
\* authorization, and its request never changes afterwards.
LEMMA RunsStep ==
    ASSUME Types, \A c \in Conns : Placed(c) /\ Told(c) /\ Runs(c), GatewayNext, NEW v \in Conns
    PROVE  Runs(v)'
<1> USE DEF Types
<1>1. ASSUME NEW g \in Gateways, ServeStep(g) PROVE Runs(v)'
  <2>1. CASE Bind(g) \/ WritePidFile(g) \/ Interrupt(g) \/ StopAccepting(g) \/ CleanupPaths(g) \/ Exit(g)
    BY <2>1, Zenon DEF Runs, Framed, Bind, WritePidFile, Interrupt, StopAccepting, CleanupPaths, Exit, clientVars
  <2>2. CASE CheckSocket(g) \/ RemoveSocket(g) \/ DropListener(g) \/ DropTasks(g)
    BY <2>2, Zenon DEF Runs, Framed, CheckSocket, RemoveSocket, DropListener, DropTasks, clientVars
  <2>3. CASE Crash(g)
    BY <2>3, Zenon DEF Runs, Framed, Crash, None
  <2> QED BY <1>1, <2>1, <2>2, <2>3, Zenon DEF ServeStep
<1>2. ASSUME NEW c \in Conns, ClientStep(c) PROVE Runs(v)'
  <2>a. CASE v # c
    BY <1>2, <2>a, OthersSame, SameTold, Zenon
  <2>b. SUFFICES ASSUME v = c PROVE Runs(c)'
    BY <2>a, Zenon
  <2>1. CASE \E g \in Gateways, r \in RequestLines[c] : Connect(c, g, r)
    BY <2>1, Zenon DEF Connect, Told, Fresh, Runs
  <2>2. CASE PeerChanges(c) \/ EmitLog(c) \/ WriteLog(c) \/ WriteResponse(c)
    BY <2>2, Zenon DEF PeerChanges, EmitLog, WriteLog, WriteResponse, Runs, Framed
  <2>3. CASE AcceptConnection(c) \/ ReadTimesOut(c)
    BY <2>3, Zenon DEF AcceptConnection, ReadTimesOut, AnswerWith, Told, Fresh, Runs
  <2>4. CASE HandleConnection(c)
    <3>1. op[c] = None /\ response[c] = None
      BY <2>4, Zenon DEF HandleConnection, Told, Fresh
    <3> QED BY <2>4, <3>1, Zenon DEF HandleConnection, AnswerWith, Runs, Framed
  <2>5. CASE PlainResult(c) \/ StreamEnds(c)
    BY <2>5, Zenon DEF PlainResult, StreamEnds, AnswerWith, Runs, Framed, None
  <2>6. CASE FinishOperation(c)
    BY <2>6, Zenon DEF FinishOperation, Runs, Framed, None
  <2> QED BY <1>2, <2>1, <2>2, <2>3, <2>4, <2>5, <2>6, Zenon DEF ClientStep, HandlerStep
<1>3. CASE UnlinkSocket
  BY <1>3, Zenon DEF UnlinkSocket, Runs, Framed, clientVars
<1> QED BY <1>1, <1>2, <1>3, Zenon DEF GatewayNext, ClientStep

\* handle_streaming_request writes the next line of the channel.
LEMMA ToldWrites ==
    ASSUME Types, NEW c \in Conns, Told(c), WriteLog(c)
    PROVE  Told(c)'
<1> DEFINE n == Len(out[c])
<1> USE DEF Types
<1>0. ~Answered(c) /\ Lines(c) = n /\ n \in Nat /\ Queued(c)
  BY DEF WriteLog, Told, Lines
<1>1. CASE EndConnection(c) /\ UNCHANGED out
  <2>1. phase'[c] = "over" /\ out'[c] = out[c] /\ response'[c] = None
    BY <1>1, Zenon DEF EndConnection, WriteLog, Told
  <2>2. ~Answered(c)' /\ Listed(c)'
    BY <2>1, <1>0, Zenon DEF Answered, Listed, Lines, Told
  <2> QED BY <2>1, <2>2, Zenon DEF Told, None
<1>2. CASE ~(EndConnection(c) /\ UNCHANGED out)
  <2>1. /\ out'[c] = Append(out[c], Head(chan[c])) /\ chan'[c] = Tail(chan[c])
        /\ phase'[c] = "streaming" /\ response'[c] = None /\ emitted'[c] = emitted[c]
    BY <1>2, Zenon DEF WriteLog, Told
  <2>2. Head(chan[c]) = n + 1
    BY <1>0 DEF WriteLog, Queued
  <2>3. Len(out'[c]) = n + 1 /\ out'[c][n + 1] = n + 1 /\ \A i \in 1..n : out'[c][i] = out[c][i]
    BY <2>1, <2>2
  <2>4. ~Answered(c)' /\ Lines(c)' = n + 1
    BY <2>3, <1>0 DEF Answered, Lines
  <2>5. Listed(c)'
    <3>1. \A i \in 1..n : out[c][i] = i
      BY <1>0, Zenon DEF Told, Listed
    <3>2. \A i \in 1..(n + 1) : i \in 1..n \/ i = n + 1
      BY <1>0
    <3> QED BY <2>3, <2>4, <3>1, <3>2, Zenon DEF Listed
  <2>6. Len(chan'[c]) = Len(chan[c]) - 1 /\ \A i \in 1..Len(chan'[c]) : chan'[c][i] = chan[c][i + 1]
    BY <2>1 DEF WriteLog
  <2>a. Len(chan[c]) \in Nat \ {0}
    BY DEF WriteLog
  <2>7. Queued(c)'
    <3>1. SUFFICES ASSUME NEW i \in 1..(Len(chan[c]) - 1)
                   PROVE  chan'[c][i] = n + 1 + i
      BY <2>3, <2>6, Zenon DEF Queued
    <3>2. i + 1 \in 1..Len(chan[c])
      BY <2>a
    <3>3. chan[c][i + 1] = n + (i + 1)
      BY <3>2, <1>0, Zenon DEF Queued
    <3>4. chan'[c][i] = chan[c][i + 1]
      BY <2>6, Zenon
    <3>5. n + (i + 1) = n + 1 + i
      BY <1>0
    <3> QED BY <3>3, <3>4, <3>5, Zenon
  <2>8. Len(out'[c]) + Len(chan'[c]) = emitted'[c]
    <3>1. n + Len(chan[c]) = emitted[c]
      BY Zenon DEF Told, WriteLog
    <3> QED BY <2>1, <2>3, <2>6, <2>a, <3>1, <1>0
  <2> QED BY <2>1, <2>4, <2>5, <2>7, <2>8, Zenon DEF Told, None
<1> QED BY <1>1, <1>2, Zenon

\* The response is written after the last line.
LEMMA ToldResponds ==
    ASSUME Types, NEW c \in Conns, Told(c), WriteResponse(c)
    PROVE  Told(c)'
<1> DEFINE n == Len(out[c])
<1> USE DEF Types
<1>0. /\ ~Answered(c) /\ Lines(c) = n /\ n \in Nat
      /\ \A i \in 1..n : out[c][i] = i
  BY DEF WriteResponse, Told, Lines, Listed
<1>1. /\ phase'[c] = "over" /\ response'[c] = response[c] /\ emitted'[c] = emitted[c]
      /\ op'[c] = op[c]
  BY Zenon DEF WriteResponse, EndConnection
<1>2. response[c] = "result" => op[c] = "finished" /\ n = emitted[c]
  <2>1. phase[c] = "rejecting" => response[c] = "overload"
    BY Zenon DEF Told
  <2> QED BY <2>1, Zenon DEF WriteResponse, Told
<1>3. CASE out'[c] = out[c]
  <2>1. ~Answered(c)' /\ Listed(c)'
    BY <1>0, <1>3, Zenon DEF Answered, Listed, Lines
  <2> QED BY <2>1, <1>1, <1>2, Zenon DEF Told
<1>4. CASE out'[c] = Append(out[c], 0)
  <2>1. Len(out'[c]) = n + 1 /\ out'[c][n + 1] = 0 /\ \A i \in 1..n : out'[c][i] = out[c][i]
    BY <1>4
  <2>2. Answered(c)' /\ Lines(c)' = n
    BY <2>1, <1>0 DEF Answered, Lines
  <2>3. Listed(c)'
    BY <2>1, <2>2, <1>0, Zenon DEF Listed
  <2> QED BY <2>2, <2>3, <1>1, <1>2, Zenon DEF Told
<1> QED BY <1>3, <1>4, Zenon DEF WriteResponse

\* A line the operation writes joins the end of the channel, or is dropped
\* with a receiver that is gone.
LEMMA ToldEmits ==
    ASSUME Types, NEW c \in Conns, Told(c), EmitLog(c)
    PROVE  Told(c)'
<1> USE DEF Types
<1>0. /\ phase'[c] = phase[c] /\ out'[c] = out[c] /\ response'[c] = response[c]
      /\ op'[c] = op[c] /\ emitted'[c] = emitted[c] + 1 /\ op[c] = "running"
      /\ request'[c] = request[c] /\ request[c].stream
  BY Zenon DEF EmitLog
<1>1. Answered(c)' = Answered(c) /\ Lines(c)' = Lines(c) /\ Listed(c)' = Listed(c)
  BY <1>0, Zenon DEF Answered, Lines, Listed
<1>2. phase[c] \in {"streaming", "answering", "over"}
  BY <1>0, Zenon DEF Told, Fresh, None, Phases, Handling
<1>3. CASE phase[c] = "streaming"
  <2>1. chan'[c] = Append(chan[c], emitted[c] + 1)
    BY <1>3, Zenon DEF EmitLog
  <2>2. /\ Len(chan'[c]) = Len(chan[c]) + 1 /\ chan'[c][Len(chan[c]) + 1] = emitted[c] + 1
        /\ \A i \in 1..Len(chan[c]) : chan'[c][i] = chan[c][i]
    BY <2>1
  <2>3. Queued(c) /\ Len(out[c]) + Len(chan[c]) = emitted[c]
    BY <1>3, Zenon DEF Told
  <2>4. \A i \in 1..(Len(chan[c]) + 1) : i \in 1..Len(chan[c]) \/ i = Len(chan[c]) + 1
    OBVIOUS
  <2>5. Queued(c)'
    <3>1. SUFFICES ASSUME NEW i \in 1..(Len(chan[c]) + 1)
                   PROVE  chan'[c][i] = Len(out[c]) + i
      BY <2>2, <1>0 DEF Queued
    <3>2. CASE i \in 1..Len(chan[c])
      BY <2>2, <2>3, <3>2 DEF Queued
    <3>3. CASE i = Len(chan[c]) + 1
      BY <2>2, <2>3, <3>3
    <3> QED BY <2>4, <3>2, <3>3, Zenon
  <2>6. Len(out'[c]) + Len(chan'[c]) = emitted'[c]
    BY <2>2, <2>3, <1>0
  <2> QED BY <2>5, <2>6, <1>0, <1>1, <1>3, Zenon DEF Told, None
<1>4. CASE phase[c] # "streaming"
  <2>1. response[c] # "result" \/ op[c] = "finished"
    BY <1>2, <1>4, Zenon DEF Told
  <2>2. response[c] # "result"
    BY <2>1, <1>0, Zenon
  <2> QED BY <2>2, <1>0, <1>1, <1>2, <1>4, Zenon DEF Told
<1> QED BY <1>3, <1>4, Zenon

\* Every step keeps what clients were told in order.
LEMMA ToldStep ==
    ASSUME Types, \A c \in Conns : Placed(c) /\ Told(c) /\ Runs(c), GatewayNext, NEW v \in Conns
    PROVE  Told(v)'
<1> USE DEF Types
<1>1. ASSUME NEW g \in Gateways, ServeStep(g) PROVE Told(v)'
  <2>1. CASE Bind(g) \/ WritePidFile(g) \/ Interrupt(g) \/ StopAccepting(g) \/ CleanupPaths(g) \/ Exit(g)
    <3>1. Same(v)
      BY <2>1, Zenon DEF Same, Bind, WritePidFile, Interrupt, StopAccepting, CleanupPaths, Exit, clientVars
    <3> QED BY <3>1, SameTold, Zenon
  <2>3. CASE CheckSocket(g) \/ RemoveSocket(g)
    <3>1. Same(v)
      BY <2>3, Zenon DEF Same, CheckSocket, RemoveSocket, clientVars
    <3> QED BY <3>1, SameTold, Zenon
  <2>2. CASE DropListener(g) \/ DropTasks(g) \/ Crash(g)
    <3>0. /\ out' = out /\ response' = response /\ emitted' = emitted /\ request' = request
      BY <2>2, Zenon DEF DropListener, DropTasks, Crash
    <3>1. CASE Same(v)
      BY <3>1, SameTold, Zenon
    <3>2. CASE phase'[v] = "over"
      <4>1. op[v] = "finished" => op'[v] = "finished"
        BY <2>2, Zenon DEF DropListener, DropTasks, Crash
      <4>2. response[v] = "result" => op[v] = "finished"
        BY Zenon DEF Told, Phases, Handling, None
      <4>3. Answered(v)' = Answered(v) /\ Lines(v)' = Lines(v) /\ Listed(v)' = Listed(v)
        BY <3>0, Zenon DEF Answered, Lines, Listed
      <4> QED BY <3>0, <3>2, <4>1, <4>2, <4>3, Zenon DEF Told
    <3>3. Same(v) \/ phase'[v] = "over"
      <4>1. CASE DropListener(g)
        BY <4>1, Zenon DEF DropListener, Closed, Same
      <4>2. CASE DropTasks(g)
        BY <4>2, Zenon DEF DropTasks, Closed, OpenConns, Same
      <4>3. CASE Crash(g)
        BY <4>3, Zenon DEF Crash, Closed, OpenConns, Same
      <4> QED BY <2>2, <4>1, <4>2, <4>3, Zenon
    <3> QED BY <3>1, <3>2, <3>3, Zenon
  <2> QED BY <1>1, <2>1, <2>2, <2>3, Zenon DEF ServeStep
<1>2. ASSUME NEW c \in Conns, ClientStep(c) PROVE Told(v)'
  <2>a. CASE v # c
    BY <1>2, <2>a, OthersSame, SameTold, Zenon
  <2>b. SUFFICES ASSUME v = c PROVE Told(c)'
    BY <2>a, Zenon
  <2>c. CASE EmitLog(c)
    BY <2>c, ToldEmits, Zenon
  <2>d. CASE WriteLog(c)
    BY <2>d, ToldWrites, Zenon
  <2>e. CASE WriteResponse(c)
    BY <2>e, ToldResponds, Zenon
  <2>f. ASSUME out'[c] = out[c], chan'[c] = chan[c], emitted'[c] = emitted[c]
        PROVE  /\ Answered(c)' = Answered(c) /\ Lines(c)' = Lines(c) /\ Listed(c)' = Listed(c)
               /\ Queued(c)' = Queued(c) /\ (op'[c] = op[c] => Fresh(c)' = Fresh(c))
    BY <2>f, Zenon DEF Answered, Lines, Listed, Queued, Fresh
  <2>1. CASE \E g \in Gateways, r \in RequestLines[c] : Connect(c, g, r)
    <3>1. phase[c] = "idle" /\ phase'[c] = "backlog" /\ UNCHANGED <<out, chan, emitted, op, response>>
      BY <2>1, Zenon DEF Connect
    <3> QED BY <3>1, <2>f, Zenon DEF Told
  <2>2. CASE PeerChanges(c)
    BY <2>2, SameTold, Zenon DEF PeerChanges, Same
  <2>3. CASE AcceptConnection(c)
    <3>1. /\ phase[c] = "backlog" /\ UNCHANGED <<out, chan, emitted, op>>
          /\ \/ phase'[c] = "reading" /\ response'[c] = response[c]
             \/ phase'[c] = "rejecting" /\ response'[c] = "overload"
      BY <2>3, Zenon DEF AcceptConnection
    <3> QED BY <3>1, <2>f, Zenon DEF Told
  <2>4. CASE HandleConnection(c)
    <3>1. phase[c] = "reading" /\ UNCHANGED <<out, chan, emitted, request>>
      BY <2>4, Zenon DEF HandleConnection
    <3>2. Fresh(c) /\ response[c] = None /\ ~Answered(c) /\ Listed(c)
      BY <3>1, Zenon DEF Told
    <3>3. ~Answered(c)' /\ Listed(c)' /\ Queued(c)' /\ Len(out'[c]) + Len(chan'[c]) = emitted'[c]
      BY <3>1, <3>2, <2>f DEF Fresh, Queued
    <3>4. \/ phase'[c] = "streaming" /\ response'[c] = response[c]
          \/ phase'[c] = "working" /\ response'[c] = response[c] /\ ~request[c].stream
          \/ phase'[c] = "answering" /\ response'[c] = "fault"
      BY <2>4, Zenon DEF HandleConnection, AnswerWith
    <3> QED BY <3>1, <3>2, <3>3, <3>4, Zenon DEF Told, Fresh, None
  <2>5. CASE ReadTimesOut(c)
    <3>1. /\ phase[c] = "reading" /\ phase'[c] = "answering" /\ response'[c] = "fault"
          /\ UNCHANGED <<out, chan, emitted, op>>
      BY <2>5, Zenon DEF ReadTimesOut, AnswerWith
    <3> QED BY <3>1, <2>f, Zenon DEF Told
  <2>6. CASE PlainResult(c) \/ StreamEnds(c)
    <3>1. /\ phase[c] \in {"working", "streaming"} /\ phase'[c] = "answering" /\ response'[c] = "result"
          /\ UNCHANGED <<out, chan, emitted, op>> /\ op[c] = "finished" /\ (phase[c] = "streaming" => chan[c] = <<>>)
      BY <2>6, Zenon DEF PlainResult, StreamEnds, AnswerWith
    <3>2. Len(out[c]) = emitted[c]
      BY <3>1 DEF Told
    <3> QED BY <3>1, <3>2, <2>f, Zenon DEF Told
  <2>7. CASE FinishOperation(c)
    <3>1. /\ UNCHANGED <<phase, out, chan, emitted, response, request>>
          /\ op[c] = "running" /\ op'[c] = "finished"
      BY <2>7, Zenon DEF FinishOperation
    <3>2. ~Fresh(c)
      BY <3>1, Zenon DEF Fresh, None
    <3> QED BY <3>1, <3>2, <2>f, Zenon DEF Told
  <2> QED BY <1>2, <2>c, <2>d, <2>e, <2>1, <2>2, <2>3, <2>4, <2>5, <2>6, <2>7, Zenon DEF ClientStep, HandlerStep
<1>3. CASE UnlinkSocket
  <2>1. Same(v)
    BY <1>3, Zenon DEF UnlinkSocket, Same, clientVars
  <2> QED BY <2>1, SameTold, Zenon
<1> QED BY <1>1, <1>2, <1>3, Zenon DEF GatewayNext, ClientStep

-----------------------------------------------------------------------------
\* A process whose permits and handled connections do not change.
LEMMA PermitsKept ==
    ASSUME NEW h \in Gateways, Permits, Handled(h)' = Handled(h), freePermits'[h] = freePermits[h],
           gw'[h] \in {"serving", "stopping"} => gw[h] \in {"serving", "stopping"}
    PROVE  /\ IsFiniteSet(Handled(h)')
           /\ gw'[h] \in {"serving", "stopping"} => freePermits'[h] + Cardinality(Handled(h)') = MaxPermits
BY Zenon DEF Permits

\* The end of a handler returns its permit, whatever the way it ends.
LEMMA PermitsEnd ==
    ASSUME Types, Permits, NEW c \in Conns, at[c] \in Gateways, EndConnection(c), at' = at, gw' = gw
    PROVE  Permits'
<1> DEFINE k == at[c]
<1>1. SUFFICES ASSUME NEW h \in Gateways
               PROVE  /\ IsFiniteSet(Handled(h)')
                      /\ gw'[h] \in {"serving", "stopping"} =>
                           freePermits'[h] + Cardinality(Handled(h)') = MaxPermits
  BY Zenon DEF Permits
<1>2. \A v \in Conns : phase'[v] = IF v = c THEN "over" ELSE phase[v]
  BY Zenon DEF Types, EndConnection
<1>3. CASE h = k /\ phase[c] \in Handling
  <2>1. Handled(h)' = Handled(h) \ {c} /\ c \in Handled(h)
    BY <1>2, <1>3, Zenon DEF Handled, Handling
  <2>2. freePermits'[h] = freePermits[h] + 1 /\ freePermits[h] \in Nat
    BY <1>3, Zenon DEF Types, EndConnection
  <2>3. IsFiniteSet(Handled(h)) /\ Cardinality(Handled(h)) \in Nat
    BY FS_CardinalityType, Zenon DEF Permits
  <2>4. IsFiniteSet(Handled(h)') /\ Cardinality(Handled(h)') = Cardinality(Handled(h)) - 1
    BY <2>1, <2>3, FS_RemoveElement
  <2> QED BY <2>2, <2>3, <2>4 DEF Permits
<1>4. CASE ~(h = k /\ phase[c] \in Handling)
  <2>1. Handled(h)' = Handled(h)
    BY <1>2, <1>4, Zenon DEF Handled, Handling
  <2>2. freePermits'[h] = freePermits[h]
    BY <1>4, Zenon DEF Types, EndConnection
  <2> QED BY <2>1, <2>2, PermitsKept, Zenon
<1> QED BY <1>3, <1>4, Zenon

\* accept_until_shutdown takes a permit for each connection it hands to a
\* handler, and none for one it rejects.
LEMMA PermitsAccept ==
    ASSUME Types, Permits, NEW c \in Conns, at[c] \in Gateways, AcceptConnection(c)
    PROVE  Permits'
<1> DEFINE k == at[c]
<1>1. SUFFICES ASSUME NEW h \in Gateways
               PROVE  /\ IsFiniteSet(Handled(h)')
                      /\ gw'[h] \in {"serving", "stopping"} =>
                           freePermits'[h] + Cardinality(Handled(h)') = MaxPermits
  BY Zenon DEF Permits
<1>2. at' = at /\ gw' = gw /\ phase[c] = "backlog"
  BY Zenon DEF AcceptConnection
<1>3. CASE h = k /\ freePermits[k] > 0
  <2>0. \A v \in Conns : phase'[v] = IF v = c THEN "reading" ELSE phase[v]
    BY <1>3, Zenon DEF Types, AcceptConnection
  <2>1. Handled(h)' = Handled(h) \cup {c} /\ c \notin Handled(h)
    BY <1>2, <1>3, <2>0, Zenon DEF Handled, Handling
  <2>2. freePermits'[h] = freePermits[h] - 1 /\ freePermits[h] \in Nat
    BY <1>3, Zenon DEF Types, AcceptConnection
  <2>3. IsFiniteSet(Handled(h)) /\ Cardinality(Handled(h)) \in Nat
    BY FS_CardinalityType, Zenon DEF Permits
  <2>4. IsFiniteSet(Handled(h)') /\ Cardinality(Handled(h)') = Cardinality(Handled(h)) + 1
    BY <2>1, <2>3, FS_AddElement
  <2> QED BY <1>2, <2>2, <2>3, <2>4 DEF Permits
<1>4. CASE ~(h = k /\ freePermits[k] > 0)
  <2>0. \A v \in Conns : phase'[v] = phase[v] \/ (v = c /\ (freePermits[k] > 0 \/ phase'[v] = "rejecting"))
    BY Zenon DEF Types, AcceptConnection
  <2>1. Handled(h)' = Handled(h)
    BY <1>2, <1>4, <2>0, Zenon DEF Handled, Handling
  <2>2. freePermits'[h] = freePermits[h]
    BY <1>4, ZenonT(40) DEF Types, AcceptConnection
  <2> QED BY <1>2, <2>1, <2>2, PermitsKept, Zenon
<1> QED BY <1>3, <1>4, Zenon

\* A process starts with all permits and no connection, and loses both
\* together.
LEMMA PermitsServe ==
    ASSUME Types, Permits, \A c \in Conns : Placed(c), NEW g \in Gateways, ServeStep(g)
    PROVE  Permits'
<1>1. SUFFICES ASSUME NEW h \in Gateways
               PROVE  /\ IsFiniteSet(Handled(h)')
                      /\ gw'[h] \in {"serving", "stopping"} =>
                           freePermits'[h] + Cardinality(Handled(h)') = MaxPermits
  BY Zenon DEF Permits
<1>2. CASE Bind(g) \/ Interrupt(g) \/ StopAccepting(g) \/ CleanupPaths(g) \/ Exit(g)
  <2>1. Handled(h)' = Handled(h) /\ freePermits'[h] = freePermits[h]
    BY <1>2, Zenon DEF Handled, Bind, Interrupt, StopAccepting, CleanupPaths, Exit, clientVars
  <2>2. gw'[h] \in {"serving", "stopping"} => gw[h] \in {"serving", "stopping"}
    BY <1>2, Zenon DEF Types, Bind, Interrupt, StopAccepting, CleanupPaths, Exit
  <2> QED BY <2>1, <2>2, PermitsKept, Zenon
<1>3. CASE WritePidFile(g)
  <2>1. Handled(h)' = Handled(h)
    BY <1>3, Zenon DEF Handled, WritePidFile, clientVars
  <2>2. CASE h # g
    <3>1. gw'[h] = gw[h] /\ freePermits'[h] = freePermits[h]
      BY <1>3, <2>2, Zenon DEF Types, WritePidFile
    <3> QED BY <2>1, <3>1, PermitsKept, Zenon
  <2>3. CASE h = g
    <3>1. Handled(g) = {}
      BY <1>3, Zenon DEF Handled, Placed, WritePidFile
    <3>2. gw'[g] = "cleaned" \/ freePermits'[g] = MaxPermits
      BY <1>3, Zenon DEF Types, WritePidFile
    <3>3. gw'[g] = "cleaned" => gw'[g] \notin {"serving", "stopping"}
      BY Zenon
    <3> QED BY <2>1, <2>3, <3>1, <3>2, <3>3, FS_EmptySet, GatewayAssumption
  <2> QED BY <2>2, <2>3, Zenon
<1>6. CASE CheckSocket(g) \/ RemoveSocket(g)
  <2>1. Handled(h)' = Handled(h) /\ freePermits'[h] = freePermits[h]
    BY <1>6, Zenon DEF Handled, CheckSocket, RemoveSocket, clientVars
  <2>2. gw'[h] \in {"serving", "stopping"} => gw[h] \in {"serving", "stopping"}
    BY <1>6, Zenon DEF Types, CheckSocket, RemoveSocket
  <2> QED BY <2>1, <2>2, PermitsKept, Zenon
<1>4. CASE DropListener(g)
  <2>1. Handled(h)' = Handled(h)
    BY <1>4, Zenon DEF Handled, Handling, DropListener, Closed
  <2>2. freePermits'[h] = freePermits[h] /\ (gw'[h] = gw[h] \/ gw'[h] = "draining")
    BY <1>4, Zenon DEF Types, DropListener
  <2> QED BY <2>1, <2>2, PermitsKept, Zenon
<1>5. CASE DropTasks(g) \/ Crash(g)
  <2>1. at' = at /\ phase' = Closed(OpenConns(g))
    BY <1>5, Zenon DEF DropTasks, Crash
  <2>2. CASE h # g
    <3>1. Handled(h)' = Handled(h)
      BY <2>1, <2>2, Zenon DEF Handled, Handling, Closed, OpenConns
    <3>2. gw'[h] = gw[h] /\ freePermits'[h] = freePermits[h]
      BY <1>5, <2>2, Zenon DEF Types, DropTasks, Crash
    <3> QED BY <3>1, <3>2, PermitsKept, Zenon
  <2>3. CASE h = g
    <3>1. Handled(g)' = {}
      BY <2>1, Zenon DEF Handled, Handling, Closed, OpenConns
    <3>2. gw'[g] \notin {"serving", "stopping"}
      BY <1>5, Zenon DEF Types, DropTasks, Crash
    <3> QED BY <2>3, <3>1, <3>2, FS_EmptySet, Zenon
  <2> QED BY <2>2, <2>3, Zenon
<1> QED BY <1>2, <1>3, <1>4, <1>5, <1>6, Zenon DEF ServeStep

\* Every step keeps the permits exact.
LEMMA PermitsStep ==
    ASSUME Types, Permits, \A c \in Conns : Placed(c) /\ Told(c), GatewayNext
    PROVE  Permits'
<1>1. ASSUME NEW g \in Gateways, ServeStep(g) PROVE Permits'
  BY <1>1, PermitsServe, Zenon
<1>2. ASSUME NEW c \in Conns, ClientStep(c) PROVE Permits'
  <2>0. gw' = gw
    BY <1>2, ClientFrame, Zenon
  <2>1. CASE AcceptConnection(c)
    BY <2>1, PermitsAccept, Zenon DEF Placed, AcceptConnection
  <2>2. CASE EndConnection(c) /\ (WriteLog(c) \/ WriteResponse(c))
    <3>1. at' = at /\ at[c] \in Gateways
      BY <2>2, Zenon DEF WriteLog, WriteResponse, Placed
    <3> QED BY <2>0, <2>2, <3>1, PermitsEnd, Zenon
  <2>3. ASSUME freePermits' = freePermits, \A h \in Gateways : Handled(h)' = Handled(h)
        PROVE  Permits'
    BY <2>0, <2>3, Zenon DEF Permits
  <2>4. CASE \E g \in Gateways, r \in RequestLines[c] : Connect(c, g, r)
    <3>1. \A h \in Gateways : Handled(h)' = Handled(h)
      BY <2>4 DEF Connect, Handled, Handling, Types
    <3> QED BY <2>4, <3>1, <2>3, Zenon DEF Connect, procVars
  <2>5. CASE WriteLog(c) /\ ~EndConnection(c)
    BY <2>5, <2>3, Zenon DEF WriteLog, Handled
  <2>6. CASE PeerChanges(c) \/ EmitLog(c) \/ FinishOperation(c)
    BY <2>6, <2>3, Zenon DEF PeerChanges, EmitLog, FinishOperation, Handled, procVars
  <2>7. CASE HandleConnection(c)
    <3>1. at' = at /\ phase[c] = "reading" /\ phase'[c] \in Handling /\ \A v \in Conns \ {c} : phase'[v] = phase[v]
      BY <2>7, Zenon DEF HandleConnection, AnswerWith, Handling, Types
    <3>2. \A h \in Gateways : Handled(h)' = Handled(h)
      BY <3>1, Zenon DEF Handled, Handling
    <3> QED BY <2>7, <3>2, <2>3, Zenon DEF HandleConnection, procVars
  <2>8. CASE ReadTimesOut(c) \/ PlainResult(c) \/ StreamEnds(c)
    <3>1. at' = at /\ phase[c] \in Handling /\ phase'[c] \in Handling /\ \A v \in Conns \ {c} : phase'[v] = phase[v]
      BY <2>8, Zenon DEF ReadTimesOut, PlainResult, StreamEnds, AnswerWith, Handling, Types
    <3>2. \A h \in Gateways : Handled(h)' = Handled(h)
      BY <3>1, Zenon DEF Handled, Handling
    <3> QED BY <2>8, <3>2, <2>3, Zenon DEF ReadTimesOut, PlainResult, StreamEnds, procVars
  <2>9. WriteResponse(c) => EndConnection(c)
    BY Zenon DEF WriteResponse
  <2> QED BY <1>2, <2>1, <2>2, <2>4, <2>5, <2>6, <2>7, <2>8, <2>9, Zenon DEF ClientStep, HandlerStep
<1>3. CASE UnlinkSocket
  BY <1>3, Zenon DEF UnlinkSocket, Permits, Handled, procVars, clientVars
<1> QED BY <1>1, <1>2, <1>3, Zenon DEF GatewayNext, ClientStep

-----------------------------------------------------------------------------
\* The invariant holds when nothing was started.
LEMMA InitIInv == GatewayInit => IInv
<1> SUFFICES ASSUME GatewayInit PROVE IInv
  BY Zenon
<1> USE GatewayAssumption DEF GatewayInit
<1>1. Types
  BY DEF Types, GwStages, Phases, Gateways
<1>2. Permits
  <2>1. \A g \in Gateways : Handled(g) = {}
    BY Zenon DEF Handled, Handling
  <2> QED BY <2>1, FS_EmptySet, Zenon DEF Permits
<1>3. SocketKept /\ PidFileTrue /\ RemovesOwn
  BY Zenon DEF SocketKept, PidFileTrue, RemovesOwn, Keeping
<1>4. ASSUME NEW c \in Conns PROVE Placed(c) /\ Told(c) /\ Runs(c)
  <2>1. Placed(c) /\ Runs(c) /\ Fresh(c) /\ ~Answered(c) /\ Listed(c)
    BY DEF Placed, Runs, Fresh, Answered, Listed, Lines, Handling
  <2> QED BY <2>1, Zenon DEF Told, None
<1> QED BY <1>1, <1>2, <1>3, <1>4, Zenon DEF IInv

\* Every step keeps the invariant.
LEMMA NextIInv == IInv /\ [GatewayNext]_gatewayVars => IInv'
<1> SUFFICES ASSUME IInv, [GatewayNext]_gatewayVars PROVE IInv'
  BY Zenon
<1>1. CASE GatewayNext
  BY <1>1, TypesStep, PermitsStep, PathsStep, RemovesStep, PlacedStep, ToldStep, RunsStep, Zenon DEF IInv
<1>2. CASE UNCHANGED gatewayVars
  <2>1. UNCHANGED <<gw, signalled, freePermits, socketFile, pidFile, robbed, raced, phase, at, request,
                    peer, op, chan, emitted, response, out>>
    BY <1>2, Zenon DEF gatewayVars, procVars, pathVars, clientVars
  <2>2. Types' /\ SocketKept' /\ PidFileTrue' /\ RemovesOwn'
    BY <2>1, Zenon DEF IInv, Types, SocketKept, PidFileTrue, RemovesOwn
  <2>3. Permits'
    BY <2>1, Zenon DEF IInv, Permits, Handled
  <2>4. ASSUME NEW c \in Conns PROVE Placed(c)' /\ Told(c)' /\ Runs(c)'
    <3>1. Same(c)
      BY <2>1, Zenon DEF Same
    <3>2. Told(c)' /\ Runs(c)'
      BY <3>1, SameTold, Zenon DEF IInv
    <3>3. Placed(c)'
      BY <2>1, Zenon DEF IInv, Placed
    <3> QED BY <3>2, <3>3, Zenon
  <2> QED BY <2>2, <2>3, <2>4, Zenon DEF IInv
<1> QED BY <1>1, <1>2, Zenon

\* Sockets, pid file, permits, admission and answers of the gateway
\* (lifecycle.rs, listener.rs, connection.rs), tied together, for any number
\* of processes, connections, permits and log lines.
THEOREM GatewayInvariant == GatewaySpec => []IInv
BY InitIInv, NextIInv, PTL DEF GatewaySpec

\* The invariant implies what the runs check.
LEMMA IInvSafe == IInv => GatewaySafe
<1> SUFFICES ASSUME IInv PROVE GatewaySafe
  BY Zenon
<1>1. GatewayPermitsExact
  BY Zenon DEF IInv, Permits, GatewayPermitsExact
<1>2. AnswersWhole
  <2>1. SUFFICES ASSUME NEW c \in Conns
                 PROVE  /\ \A i \in 1..Lines(c) : out[c][i] = i
                        /\ Answered(c) /\ response[c] = "result" => op[c] = "finished" /\ Lines(c) = emitted[c]
    BY Zenon DEF AnswersWhole
  <2>2. Told(c)
    BY Zenon DEF IInv
  <2> QED BY <2>2, Zenon DEF Told, Listed
<1>3. OnlyAdmittedRun
  BY Zenon DEF IInv, Runs, OnlyAdmittedRun
<1> QED BY <1>1, <1>2, <1>3, Zenon DEF IInv, GatewaySafe

\* Permits are counted exactly, answers are whole and in order, only admitted
\* requests run, and the socket and the pid file stay those of the serving
\* process: for every value of the constants, through crashes, failed binds,
\* failed writes and unlinked sockets.
THEOREM GatewayIsSafe == GatewaySpec => []GatewaySafe
<1>1. IInv => GatewaySafe
  BY IInvSafe, Zenon
<1> QED BY <1>1, GatewayInvariant, PTL
==============================================================================
