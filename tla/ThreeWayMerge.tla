--------------------------- MODULE ThreeWayMerge ---------------------------
(***************************************************************************)
(* The merge of a file that a session and somebody else both changed       *)
(* (layerstack/src/stack/publish/merge.rs).  base is the file in the       *)
(* session's snapshot, active the file in the active manifest, command the *)
(* session's.  A Myers diff of each side against the base gives regions of *)
(* replaced lines; the merge walks the base and takes regions of either    *)
(* side as long as they do not meet.  Every line of the result is labelled *)
(* with its origin, from which the runtime keeps its blame records.        *)
(*                                                                         *)
(* A line is its text and whether it ends in a newline; only the last line *)
(* of a file may lack one.  Indices into files count from 0, as the code's *)
(* do.  Binary and oversized files are never merged and are left out.      *)
(***************************************************************************)
EXTENDS Integers, Sequences, SequencesExt, FiniteSetsExt

CONSTANTS
  Words,       \* the text of a line
  MaxLines     \* bound on the lines of a file

ASSUME MergeAssumption == MaxLines \in Nat

VARIABLES
  base, active, command,   \* the three files
  ra, rc,      \* the regions in which active and command differ from base
  bi,          \* lines of the base that are dealt with
  aCursor,     \* a_cursor: lines of the active side that are dealt with
  ia, ic,      \* regions of the active and of the command side that are dealt with
  out,         \* the merged lines
  origin,      \* the origin of each merged line
  outcome      \* "run", "clean" or "conflict"

inputs == <<base, active, command, ra, rc>>
mergeVars == <<inputs, bi, aCursor, ia, ic, out, origin, outcome>>

Lines == [word : Words, nl : BOOLEAN]
Files == {f \in BoundedSeq(Lines, MaxLines) : \A i \in 1..(Len(f) - 1) : f[i].nl}

Command == [side |-> "command", line |-> 0]
Active(i) == [side |-> "active", line |-> i]

(***************************************************************************)
(* diff: Myers' search for a shortest edit script.  v[k] is how far into a *)
(* a path on diagonal k gets; the search for d edits reads the v of d - 1. *)
(***************************************************************************)
RECURSIVE Snake(_, _, _, _)
Snake(a, b, x, y) ==
  IF x < Len(a) /\ y < Len(b) /\ a[x + 1] = b[y + 1] THEN Snake(a, b, x + 1, y + 1) ELSE x

TakesInsertion(v, d, k) == k = -d \/ (k # d /\ v[k - 1] < v[k + 1])
Advance(a, b, v, d, k) ==
  LET x == IF TakesInsertion(v, d, k) THEN v[k + 1] ELSE v[k - 1] + 1
  IN  [v EXCEPT ![k] = Snake(a, b, x, x - k)]
Diagonals(d) == [i \in 1..(d + 1) |-> 2 * (i - 1) - d]
Reach(a, b, v, d) == FoldLeft(LAMBDA w, k : Advance(a, b, w, d, k), v, Diagonals(d))

\* The v before each round, up to the round that reaches the end of both files.
RECURSIVE Trace(_, _, _, _)
Trace(a, b, v, d) ==
  LET w == Reach(a, b, v, d)
  IN  IF \E k \in Range(Diagonals(d)) : w[k] >= Len(a) /\ w[k] - k >= Len(b)
      THEN <<v>> ELSE <<v>> \o Trace(a, b, w, d + 1)

\* backtrack: the script, read from the end.  An edit is an equal line, a
\* deleted one, or an inserted one with its index in b.
Eq(y) == [kind |-> "eq", b |-> y]
Del == [kind |-> "del", b |-> 0]
Ins(y) == [kind |-> "ins", b |-> y]
RECURSIVE Backtrack(_, _, _, _)
Backtrack(trace, d, x, y) ==
  IF d < 0 THEN <<>>
  ELSE LET v == trace[d + 1]
           prevK == IF TakesInsertion(v, d, x - y) THEN x - y + 1 ELSE x - y - 1
           prevX == v[prevK]
           prevY == prevX - prevK
           n == Min({x - prevX, y - prevY})   \* equal lines at the end of this round
           step == IF d = 0 THEN <<>> ELSE IF x - n = prevX THEN <<Ins(y - n - 1)>> ELSE <<Del>>
       IN  Backtrack(trace, d - 1, prevX, prevY) \o step \o [i \in 1..n |-> Eq(y - n + i - 1)]

Diff(a, b) ==
  CASE a = <<>> -> [j \in 1..Len(b) |-> Ins(j - 1)]
    [] a # <<>> /\ b = <<>> -> [j \in 1..Len(a) |-> Del]
    [] OTHER -> LET max == Len(a) + Len(b)
                    trace == Trace(a, b, [k \in (-max - 1)..(max + 1) |-> 0], 0)
                IN  Backtrack(trace, Len(trace) - 1, Len(a), Len(b))

\* regions: the runs of edits between equal lines, as the base lines b0..b1-1
\* and the indices of the lines that replace them.
RECURSIVE RegionsFrom(_, _, _)
RegionsFrom(ops, b, open) ==
  IF ops = <<>> THEN open
  ELSE LET op == Head(ops)
           r == IF open = <<>> THEN [b0 |-> b, b1 |-> b, repl |-> <<>>] ELSE open[1]
       IN  CASE op.kind = "eq" -> open \o RegionsFrom(Tail(ops), b + 1, <<>>)
             [] op.kind = "del" -> RegionsFrom(Tail(ops), b + 1, <<[r EXCEPT !.b1 = b + 1]>>)
             [] op.kind = "ins" -> RegionsFrom(Tail(ops), b, <<[r EXCEPT !.repl = Append(@, op.b)]>>)
Regions(ops) == RegionsFrom(ops, 0, <<>>)

(***************************************************************************)
(* three_way_merge.                                                        *)
(***************************************************************************)
MergeOf(files) ==
  /\ base \in files /\ active \in files /\ command \in files
  /\ ra = Regions(Diff(base, active)) /\ rc = Regions(Diff(base, command))
  /\ bi = 0 /\ aCursor = 0 /\ ia = 0 /\ ic = 0
  /\ out = <<>> /\ origin = <<>> /\ outcome = "run"
MergeInit == MergeOf(Files)

Left(rs, i) == i < Len(rs)
Lines0(f, from, to) == SubSeq(f, from + 1, to)
Replacement(f, rs, from, to) ==
  FlattenSeq([i \in 1..(to - from) |-> [j \in DOMAIN rs[from + i].repl |-> f[rs[from + i].repl[j] + 1]]])
ActiveRun(from, n) == [i \in 1..n |-> Active(from + i - 1)]
CommandRun(n) == [i \in 1..n |-> Command]

\* The next base line at which a region starts.
Start == Min({rs[1][rs[2] + 1].b0 : rs \in {s \in {<<ra, ia>>, <<rc, ic>>} : Left(s[1], s[2])}})

\* The regions that belong together: those that start at the line, and those
\* that start inside what the others replace.
RECURSIVE Grow(_, _, _, _)
Grow(start, i, j, end) ==
  LET takes(rs, n) == Left(rs, n) /\ (rs[n + 1].b0 < end \/ rs[n + 1].b0 = start)
  IN  CASE takes(ra, i) -> Grow(start, i + 1, j, Max({end, ra[i + 1].b1}))
        [] ~takes(ra, i) /\ takes(rc, j) -> Grow(start, i, j + 1, Max({end, rc[j + 1].b1}))
        [] OTHER -> [ia |-> i, ic |-> j, end |-> end]
Cluster(start) == Grow(start, ia, ic, start)

\* One round of the loop: the base lines before the next region are kept, and
\* the regions that belong together are taken from the side that has them.
\* al and cl are the replacing lines of the two sides, here is the active line
\* that corresponds to base line start.
Emit(start, c, lines, origins, cursor) ==
  /\ out' = out \o Lines0(base, bi, start) \o lines
  /\ origin' = origin \o ActiveRun(aCursor, start - bi) \o origins
  /\ aCursor' = cursor
  /\ bi' = Min({c.end, Len(base)}) /\ ia' = c.ia /\ ic' = c.ic
  /\ UNCHANGED <<inputs, outcome>>

TakeActive(start, c, al, here) ==
  /\ c.ia # ia /\ c.ic = ic
  /\ Emit(start, c, al, ActiveRun(here, Len(al)), here + Len(al))

TakeCommand(start, c, cl, here) ==
  /\ c.ia = ia /\ c.ic # ic
  /\ Emit(start, c, cl, CommandRun(Len(cl)), here + (c.end - start))

\* Both sides changed the same place: the same replacement is taken once,
\* different ones are a conflict.
TakeBoth_PrefersActive(start, c, al, cl, here) ==
  /\ c.ia # ia /\ c.ic # ic
  /\ Emit(start, c, al, ActiveRun(here, Len(al)), here + Len(al))
TakeBoth(start, c, al, cl, here) ==
  /\ c.ia # ia /\ c.ic # ic
  /\ \/ al = cl /\ Emit(start, c, al, ActiveRun(here, Len(al)), here + Len(al))
     \/ /\ al # cl
        /\ outcome' = "conflict"
        /\ UNCHANGED <<inputs, bi, aCursor, ia, ic, out, origin>>

Round ==
  /\ outcome = "run" /\ (Left(ra, ia) \/ Left(rc, ic))
  /\ \E start \in {Start} : \E c \in {Cluster(start)} :
       \E al \in {Replacement(active, ra, ia, c.ia)}, cl \in {Replacement(command, rc, ic, c.ic)} :
         LET here == aCursor + (start - bi)
         IN  \/ TakeActive(start, c, al, here)
             \/ TakeCommand(start, c, cl, here)
             \/ TakeBoth(start, c, al, cl, here)

Finish ==
  /\ outcome = "run" /\ ~Left(ra, ia) /\ ~Left(rc, ic)
  /\ out' = out \o Lines0(base, bi, Len(base))
  /\ origin' = origin \o ActiveRun(aCursor, Len(base) - bi)
  /\ outcome' = "clean"
  /\ UNCHANGED <<inputs, bi, aCursor, ia, ic>>

MergeNext == Round \/ Finish

(***************************************************************************)
(* Properties.                                                             *)
(***************************************************************************)
\* The walk stays inside the files and labels every line it emits.
MergeTypeOK ==
  /\ {base, active, command} \subseteq Files
  /\ bi \in 0..Len(base) /\ ia \in 0..Len(ra) /\ ic \in 0..Len(rc)
  /\ \A i \in DOMAIN out : out[i] \in Lines
  /\ Len(origin) = Len(out)
  /\ outcome \in {"run", "clean", "conflict"}

\* The diff is an edit script: the regions, applied to the base, give the
\* file it was compared with.
RECURSIVE Patched(_, _, _, _)
Patched(f, g, rs, from) ==
  IF rs = <<>> THEN Lines0(f, from, Len(f))
  ELSE Lines0(f, from, Head(rs).b0) \o [j \in DOMAIN Head(rs).repl |-> g[Head(rs).repl[j] + 1]]
         \o Patched(f, g, Tail(rs), Head(rs).b1)
DiffPatches == Patched(base, active, ra, 0) = active /\ Patched(base, command, rc, 0) = command

\* A file only one side changed, or both in the same way, merges into the
\* changed file.
OneSidedMergeIsExact ==
  /\ outcome = "clean" /\ active = base => out = command
  /\ outcome = "clean" /\ command = base => out = active
  /\ outcome = "clean" /\ active = command => out = command
  /\ outcome = "conflict" => active # base /\ command # base /\ active # command

\* The regions of the two sides that meet, in the sense of the merge.
Meet(r, s) == (r.b0 < s.b1 /\ s.b0 < r.b1) \/ r.b0 = s.b0
Same(r, s) ==
  /\ r.b0 = s.b0 /\ r.b1 = s.b1
  /\ [i \in DOMAIN r.repl |-> active[r.repl[i] + 1]] = [i \in DOMAIN s.repl |-> command[s.repl[i] + 1]]
Meeting == {p \in (1..Len(ra)) \X (1..Len(rc)) : Meet(ra[p[1]], rc[p[2]])}

\* Edits that meet nowhere are always merged, and the result has every
\* replacement of both sides: a line of the result that the base does not
\* have comes from one of the sides, and no side's inserted line is lost.
DisjointEditsMerge == Meeting = {} => outcome # "conflict"
Inserted(f, rs) == {f[k + 1] : k \in UNION {Range(rs[i].repl) : i \in DOMAIN rs}}
NoEditLost ==
  outcome = "clean" => Inserted(active, ra) \cup Inserted(command, rc) \subseteq Range(out)

\* A line labelled with an active line is that line of the active file.
ActiveOriginTrue ==
  outcome = "clean" =>
    \A i \in DOMAIN origin :
      origin[i].side = "active" => origin[i].line < Len(active) /\ out[i] = active[origin[i].line + 1]

\* It is where every pair of edits that meet is the same edit.
ActiveOriginTrueUnlessUneven ==
  (\A p \in Meeting : Same(ra[p[1]], rc[p[2]])) => ActiveOriginTrue

\* The merge is exact - built from edit scripts that are right, unchanged where
\* one side changed nothing, every line attributed truly - and no edit of either
\* side disappears, and edits that do not meet never conflict (three_way_merge).
MergeCorrect ==
  /\ MergeTypeOK /\ DiffPatches /\ OneSidedMergeIsExact /\ ActiveOriginTrueUnlessUneven
  /\ NoEditLost /\ DisjointEditsMerge
=============================================================================
