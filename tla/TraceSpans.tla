----------------------------- MODULE TraceSpans -----------------------------
(* Spans and events of one trace                                             *)
(* (sandbox-observability/telemetry/src/observer.rs, and the forest that     *)
(* reader.rs builds of them): guards that nest on a thread through its       *)
(* thread-local context, asynchronous spans parked in a registry until the   *)
(* engine's terminal hook fires on another thread, and the span that a       *)
(* forked runner writes under the context handed to it.                      *)
(*                                                                           *)
(* A context is the span it makes the parent: 0 at the root of the trace,    *)
(* NoContext where a thread has none.  `failed` is a history variable.       *)
EXTENDS Integers, Sequences, SequencesExt, FiniteSetsExt

CONSTANTS
  SpanThreads,      \* daemon threads: request tasks, completion threads
  Commands,         \* executions launched through the registry
  MaxSpans,         \* bound on the span ids minted
  MaxDepth,         \* bound on the frames a thread holds
  MaxEvents         \* bound on the events emitted

VARIABLES
  context,          \* CTX of each thread
  frames,           \* per thread, innermost last: SpanGuards and CtxRestores
  parked,           \* SpanRegistry.open: a span or Unparked for each execution
  command,          \* [at, by, child]: each execution, its launcher, and its handed-out context
  registry,         \* "live" or "dropped"
  minted,           \* SpanIds: ids minted so far
  records,          \* span records in the store
  writes,           \* how many span records were written
  events,           \* event records: a set of [n, parent]
  failed            \* spans of launches that failed

spanVars == <<context, frames, parked, command, registry, minted, records, writes,
              events, failed>>

NoContext == -1
OpenedSpan(span, parent) == [span |-> span, parent |-> parent]
Unparked == OpenedSpan(0, NoContext)
Frame(kind, span, parent, previous) ==
  [kind |-> kind, span |-> span, parent |-> parent, previous |-> previous]
Record(span, parent, status) == [span |-> span, parent |-> parent, status |-> status]

SpanInit ==
  /\ context = [t \in SpanThreads |-> NoContext]
  /\ frames = [t \in SpanThreads |-> <<>>]
  /\ parked = [c \in Commands |-> Unparked]
  /\ command = [c \in Commands |-> [at |-> "new", by |-> "none", child |-> NoContext]]
  /\ registry = "live" /\ minted = 0 /\ records = {} /\ writes = 0 /\ events = {} /\ failed = {}

\* Sink::append of span records; the order in the store plays no part.
Wrote(new) == records' = records \union new /\ writes' = writes + Cardinality(new)

Launching(t) == \E c \in Commands : command[c].at = "launching" /\ command[c].by = t
Runs(t) == registry = "live" /\ ~Launching(t)

-----------------------------------------------------------------------------
(* Guards.                                                                   *)

\* with_context: at the root of a request (dispatch), inside a completion with
\* the context its launcher had, or with none.
WithContext(t) ==
  /\ Runs(t) /\ Len(frames[t]) < MaxDepth
  /\ \E to \in {0, NoContext} \union {command[c].child : c \in Commands} :
       /\ frames' = [frames EXCEPT ![t] = Append(@, Frame("context", 0, to, context[t]))]
       /\ context' = [context EXCEPT ![t] = to]
  /\ UNCHANGED <<parked, command, registry, minted, records, writes, events, failed>>

\* span: without a context the guard does nothing.
OpenSpan(t) ==
  /\ Runs(t) /\ Len(frames[t]) < MaxDepth /\ minted < MaxSpans
  /\ \/ /\ context[t] = NoContext
        /\ frames' = [frames EXCEPT ![t] = Append(@, Frame("noop", 0, NoContext, NoContext))]
        /\ UNCHANGED <<context, minted>>
     \/ /\ context[t] # NoContext
        /\ minted' = minted + 1
        /\ frames' = [frames EXCEPT ![t] =
                        Append(@, Frame("span", minted + 1, context[t], context[t]))]
        /\ context' = [context EXCEPT ![t] = minted + 1]
  /\ UNCHANGED <<parked, command, registry, records, writes, events, failed>>

\* Drop of SpanGuard and of CtxRestore, in the order of the scopes, on return
\* and on unwinding alike: the previous context is back, a live guard writes
\* its record.
DropGuard(t) ==
  /\ Runs(t) /\ frames[t] # <<>>
  /\ LET top == Last(frames[t]) IN
       /\ context' = IF top.kind = "noop" THEN context
                     ELSE [context EXCEPT ![t] = top.previous]
       /\ Wrote(IF top.kind = "span" THEN {Record(top.span, top.parent, "ended")} ELSE {})
  /\ frames' = [frames EXCEPT ![t] = Front(@)]
  /\ UNCHANGED <<parked, command, registry, minted, events, failed>>

\* event: dropped where there is no context.
EmitEvent(t) ==
  /\ Runs(t) /\ context[t] # NoContext /\ Cardinality(events) < MaxEvents
  /\ events' = events \union {[n |-> Cardinality(events) + 1, parent |-> context[t]]}
  /\ UNCHANGED <<context, frames, parked, command, registry, minted, records, writes, failed>>

-----------------------------------------------------------------------------
(* The registry of asynchronous spans.                                       *)

\* launch, open: the span is parked before the body runs; the body is handed a
\* context below it.
LaunchCommand(t, c) ==
  /\ Runs(t) /\ command[c].at = "new"
  /\ \/ /\ context[t] = NoContext
        /\ command' = [command EXCEPT ![c] = [at |-> "launching", by |-> t, child |-> NoContext]]
        /\ UNCHANGED <<parked, minted>>
     \/ /\ context[t] # NoContext /\ minted < MaxSpans
        /\ minted' = minted + 1
        /\ parked' = [parked EXCEPT ![c] = OpenedSpan(minted + 1, context[t])]
        /\ command' = [command EXCEPT ![c] =
                         [at |-> "launching", by |-> t, child |-> minted + 1]]
  /\ UNCHANGED <<context, frames, registry, records, writes, events, failed>>

\* launch, the body failed: cancel pops the span without a record.
LaunchCommandFails(c) ==
  /\ command[c].at = "launching"
  /\ parked' = [parked EXCEPT ![c] = Unparked]
  /\ failed' = IF parked[c] = Unparked THEN failed ELSE failed \union {parked[c].span}
  /\ command' = [command EXCEPT ![c].at = "over"]
  /\ UNCHANGED <<context, frames, registry, minted, records, writes, events>>

\* launch, the body returned Ok; the command may be over by then.
LaunchReturns(c) ==
  /\ command[c].at \in {"launching", "ended"}
  /\ command' = [command EXCEPT ![c].at = IF @ = "ended" THEN "over" ELSE "running"]
  /\ UNCHANGED <<context, frames, parked, registry, minted, records, writes, events, failed>>

\* on_terminal, finish: the engine's waiter pops the span and writes it, as soon
\* as the command runs, so possibly before launch has returned.
Finish(c) ==
  /\ registry = "live" /\ command[c].at \in {"launching", "running"}
  /\ Wrote(IF parked[c] = Unparked THEN {}
           ELSE {Record(parked[c].span, parked[c].parent, "ended")})
  /\ parked' = [parked EXCEPT ![c] = Unparked]
  /\ command' = [command EXCEPT ![c].at = IF @ = "launching" THEN "ended" ELSE "over"]
  /\ UNCHANGED <<context, frames, registry, minted, events, failed>>

\* shell_exec.rs spawn_child: the runner records the spawn of the command below
\* the context it was handed.
ChildSpan(c) ==
  /\ command[c].at \in {"launching", "running"} /\ command[c].child # NoContext
  /\ minted < MaxSpans /\ ~ \E r \in records : r.parent = command[c].child
  /\ minted' = minted + 1
  /\ Wrote({Record(minted + 1, command[c].child, "ended")})
  /\ UNCHANGED <<context, frames, parked, command, registry, events, failed>>

\* Drop of the registry, once nothing uses it: what is parked is cancelled.
DropRegistry ==
  /\ registry = "live"
  /\ \A t \in SpanThreads : frames[t] = <<>> /\ ~Launching(t)
  /\ \A c \in Commands : command[c].at # "ended"
  /\ registry' = "dropped"
  /\ Wrote({Record(o.span, o.parent, "cancelled") : o \in {parked[c] : c \in Commands} \ {Unparked}})
  /\ parked' = [c \in Commands |-> Unparked]
  /\ UNCHANGED <<context, frames, command, minted, events, failed>>

SpanNext ==
  \/ \E t \in SpanThreads : WithContext(t) \/ OpenSpan(t) \/ DropGuard(t) \/ EmitEvent(t)
                        \/ \E c \in Commands : LaunchCommand(t, c)
  \/ \E c \in Commands : LaunchCommandFails(c) \/ LaunchReturns(c) \/ Finish(c) \/ ChildSpan(c)
  \/ DropRegistry

SpanSpec == SpanInit /\ [][SpanNext]_spanVars

-----------------------------------------------------------------------------
(* reader.rs: the forest of a trace.                                         *)

WrittenSpans == {r.span : r \in records}
\* in_trace_parent: a span whose parent has no record is a root.
InTraceParent(r) == IF r.parent \in WrittenSpans THEN r.parent ELSE 0

RECURSIVE BuildNodes(_, _)
\* build_nodes: the spans reached from a parent, each with its depth.
BuildNodes(parent, depth) ==
  LET spans == {r \in records : InTraceParent(r) = parent} IN
  {<<r.span, parent, depth>> : r \in spans}
    \union UNION {BuildNodes(r.span, depth + 1) : r \in spans}

\* build_trace_forest: events hang under the record of their span; those of the
\* root, and of spans without a record, are not shown.
ShownEvents == {e \in events : e.parent \in WrittenSpans}

-----------------------------------------------------------------------------

HeldSpans == {frames[t][i].span : <<t, i>> \in {<<t, i>> \in SpanThreads \X (1 .. MaxDepth) : i \in DOMAIN frames[t]}}
             \union {parked[c].span : c \in Commands}

\* Each span is written at most once; until then it is held by a guard or by
\* the registry, unless its launch failed.
OneRecordEach ==
  /\ Cardinality(WrittenSpans) = writes
  /\ (HeldSpans \ {0}) \intersect WrittenSpans = {}
  /\ 1 .. minted \subseteq HeldSpans \union WrittenSpans \union failed
  /\ failed \intersect WrittenSpans = {}

\* What a thread emits next belongs to the innermost span or context it is in.
ContextInnermost ==
  \A t \in SpanThreads :
    LET live == SelectSeq(frames[t], LAMBDA f : f.kind # "noop") IN
    context[t] = CASE live = <<>> -> NoContext
                   [] Last(live).kind = "span" -> Last(live).span
                   [] OTHER -> Last(live).parent

\* The forest shows every record once, below its parent's when that is written.
\* Once nothing is open it shows every event emitted inside a span that ran.
ForestWhole ==
  /\ Cardinality(BuildNodes(0, 0)) = writes
  /\ registry = "dropped" => \A e \in events \ ShownEvents : e.parent \in failed \union {0}

\* observer.rs and reader.rs: one record per span that ran, on whatever thread
\* and in whatever order launches, terminal hooks and guards end; contexts are
\* restored; the trace view loses nothing of it.
SpansExact == OneRecordEach /\ ContextInnermost /\ ForestWhole
=============================================================================
