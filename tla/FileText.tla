------------------------------ MODULE FileText ------------------------------
(* Text the file operations compute: ordered exact-string edits over a file  *)
(* with its line endings kept (operation/src/file/service/support.rs), and   *)
(* line windows read page by page (window_text, in two copies: the one that  *)
(* reads a snapshot, layerstack/service/impls/read.rs, and the one that      *)
(* reads inside a session, namespace-process/src/runner/setns/file_op.rs).   *)
(* The reads of a file come before the edits: neither affects the other.     *)
(* A text is a sequence of characters, of which only the line breaks and the *)
(* byte-order mark are told apart from the others.                           *)
EXTENDS Integers, Sequences, SequencesExt

CONSTANTS
  Texts,        \* the files
  Batches,      \* the edit batches: sequences of EditOp
  Limits,       \* the limits of a read
  MaxEdit,      \* max_edit_bytes
  OutputCap     \* max_output_bytes

VARIABLES
  entry,        \* what the path names: "file", "binary", "absent", "dir" or "link"
  text,         \* the file as it is on disk
  batch,        \* the edits asked for
  limit,        \* the limit of the reads
  current,      \* the normalized text the edits have reached
  applied,      \* edits applied so far
  verdict,      \* "asked", "editing", "edited", or the error of the edit
  pages,        \* lines returned so far
  offset        \* the next offset to read, 0 when the file is read or refused

textVars == <<entry, text, batch, limit, current, applied, verdict, pages, offset>>

LF == "lf"
CR == "cr"
BOM == "bom"
EditOp(old, new, all) == [old |-> old, new |-> new, replace_all |-> all]

\* normalize_line_endings: CRLF, then CR, becomes LF.
NormalizeLineEndings(t) ==
  LET kept == SelectSeq([i \in 1 .. Len(t) |-> i],
                        LAMBDA i : ~(t[i] = CR /\ i < Len(t) /\ t[i + 1] = LF))
  IN  [j \in 1 .. Len(kept) |-> IF t[kept[j]] = CR THEN LF ELSE t[kept[j]]]

\* detect_line_ending: what the first line break of the file is.
DetectLineEnding(t) ==
  LET breaks == {i \in 1 .. Len(t) : t[i] \in {CR, LF}}
      first  == CHOOSE i \in breaks : \A j \in breaks : i <= j
  IN  IF breaks = {} \/ t[first] = LF THEN <<LF>>
      ELSE IF first < Len(t) /\ t[first + 1] = LF THEN <<CR, LF>> ELSE <<CR>>

\* restore_line_endings
RestoreLineEndings(t, ending) ==
  FlattenSeq([i \in 1 .. Len(t) |-> IF t[i] = LF THEN ending ELSE <<t[i]>>])

\* str::matches: where `old` occurs, leftmost first and without overlap.
MatchesAt(t, old, i) == i + Len(old) - 1 <= Len(t) /\ SubSeq(t, i, i + Len(old) - 1) = old
Matches(t, old) ==
  FoldLeft(LAMBDA found, i :
             IF MatchesAt(t, old, i) /\ (found = <<>> \/ Last(found) + Len(old) <= i)
             THEN Append(found, i) ELSE found,
           <<>>, [i \in 1 .. Len(t) |-> i])

\* replacen / replace at the given places.
ReplaceMatches(t, old, new, places) ==
  FoldRight(LAMBDA i, s : SubSeq(s, 1, i - 1) \o new \o SubSeq(s, i + Len(old), Len(s)),
            places, t)

\* validate_edits, before the file is read.
Validated(b) ==
  IF \E i \in DOMAIN b : b[i].old = <<>> /\ \A j \in 1 .. i - 1 : b[j].old # b[j].new
  THEN "not_found"
  ELSE IF \E i \in DOMAIN b : b[i].old = b[i].new THEN "no_changes" ELSE "ok"

\* ManifestFileRead, bounded by max_edit_bytes, or the error it stands for.
Classified ==
  CASE entry = "absent" -> "not_found"
    [] entry \in {"dir", "link"} -> "not_regular"
    [] Len(text) > MaxEdit -> "too_large"
    [] entry = "binary" -> "not_utf8"
    [] OTHER -> "editing"

\* edit on the published head, up to the transform: malformed edits first, then the
\* path, and only a text of a fair size is edited.
BeginEdit ==
  /\ offset = 0 /\ verdict = "asked"
  /\ verdict' = IF Validated(batch) = "ok" THEN Classified ELSE Validated(batch)
  /\ UNCHANGED <<entry, text, batch, limit, current, applied, pages, offset>>

\* One edit of apply_edits, against what the edits before it left.
ApplyEdit ==
  /\ offset = 0 /\ verdict = "editing" /\ applied < Len(batch)
  /\ LET old    == NormalizeLineEndings(batch[applied + 1].old)
         new    == NormalizeLineEndings(batch[applied + 1].new)
         places == Matches(current, old)
     IN  \/ /\ places = <<>> /\ verdict' = "not_found" /\ UNCHANGED <<current, applied>>
         \/ /\ Len(places) > 1 /\ ~batch[applied + 1].replace_all
            /\ verdict' = "not_unique" /\ UNCHANGED <<current, applied>>
         \/ /\ places # <<>> /\ (Len(places) = 1 \/ batch[applied + 1].replace_all)
            /\ current' = ReplaceMatches(current, old, new, places)
            /\ applied' = applied + 1
            /\ UNCHANGED verdict
  /\ UNCHANGED <<entry, text, batch, limit, pages, offset>>

\* The end of apply_edits: a net no-op is refused, else the line endings come back.
FinishEdits ==
  /\ offset = 0 /\ verdict = "editing" /\ applied = Len(batch)
  /\ verdict' = IF current = NormalizeLineEndings(text) THEN "no_changes" ELSE "edited"
  /\ UNCHANGED <<entry, text, batch, limit, current, applied, pages, offset>>
Edited == RestoreLineEndings(current, DetectLineEnding(text))

\* normalize_text and split_lines: no byte-order mark, and no line after the last break.
NormalizeText(t) == NormalizeLineEndings(IF t # <<>> /\ Head(t) = BOM THEN Tail(t) ELSE t)
SplitLines(t) ==
  LET trimmed == IF t # <<>> /\ Last(t) = LF THEN Front(t) ELSE t
  IN  IF t = <<>> THEN <<>>
      ELSE FoldLeft(LAMBDA lines, c : IF c = LF THEN Append(lines, <<>>)
                                      ELSE [lines EXCEPT ![Len(lines)] = Append(@, c)],
                    << <<>> >>, trimmed)

\* effective_read_window and window_text: one read, and where the next begins.
ReadWindowAt ==
  /\ offset > 0 /\ entry = "file"
  /\ LET lines    == SplitLines(NormalizeText(text))
         selected == SubSeq(lines, offset, IF offset + limit - 1 < Len(lines)
                                            THEN offset + limit - 1 ELSE Len(lines))
         bytes    == Len(FlattenSeq(selected)) + Len(selected) - 1
         next     == offset + Len(selected)
     IN  \/ /\ bytes > OutputCap /\ offset' = 0 /\ pages' = << <<"refused">> >>
         \/ /\ bytes <= OutputCap
            /\ pages' = pages \o selected
            /\ offset' = IF next <= Len(lines) THEN next ELSE 0
  /\ UNCHANGED <<entry, text, batch, limit, current, applied, verdict>>

\* read of what is not a text.
ReadRefused ==
  /\ offset > 0 /\ entry # "file"
  /\ pages' = << <<"refused">> >> /\ offset' = 0
  /\ UNCHANGED <<entry, text, batch, limit, current, applied, verdict>>

TextsOf(kinds, texts, batches, limits) ==
  /\ entry \in kinds
  /\ text \in (IF entry = "file" THEN texts ELSE {<<>>})
  /\ batch \in batches /\ limit \in limits
  /\ current = NormalizeLineEndings(text) /\ applied = 0
  /\ verdict = "asked"
  /\ pages = <<>> /\ offset = 1

TextInit == TextsOf({"file", "binary", "absent", "dir", "link"}, Texts, Batches, Limits)

TextNext == BeginEdit \/ ApplyEdit \/ FinishEdits \/ ReadWindowAt \/ ReadRefused

TextSpec == TextInit /\ [][TextNext]_textVars

-----------------------------------------------------------------------------
\* What a text looks like with all its breaks written as `ending`.
Uniform(t, ending) == t = RestoreLineEndings(NormalizeLineEndings(t), ending)

\* An accepted batch changes the text, writes back what it computed, and a file
\* that uses one kind of line break throughout still uses that kind; a lone
\* edit replaced one place and left the text before and after it alone.
EditsExact ==
  verdict = "edited" =>
    /\ entry = "file" /\ Len(text) <= MaxEdit
    /\ NormalizeLineEndings(Edited) = current
    /\ current # NormalizeLineEndings(text)
    /\ \A ending \in {<<LF>>, <<CR>>, <<CR, LF>>} :
         Uniform(text, ending) /\ DetectLineEnding(text) = ending => Uniform(Edited, ending)
    /\ Len(batch) = 1 /\ ~batch[1].replace_all =>
         \E i \in 1 .. Len(text) + 1 :
           LET before == SubSeq(NormalizeLineEndings(text), 1, i - 1)
           IN  /\ IsPrefix(before \o NormalizeLineEndings(batch[1].old), NormalizeLineEndings(text))
               /\ IsPrefix(before \o NormalizeLineEndings(batch[1].new), current)
               /\ Len(current) - Len(NormalizeLineEndings(batch[1].new))
                    = Len(NormalizeLineEndings(text)) - Len(NormalizeLineEndings(batch[1].old))

\* Following next_offset from the first line returns every line of the file
\* once, in order, whatever the limit: as many as the file has line breaks, and
\* one more when the last line has none.
PagesTile ==
  offset = 0 /\ pages # << <<"refused">> >> =>
    LET t      == IF text # <<>> /\ Head(text) = BOM THEN Tail(text) ELSE text
        breaks == {i \in 1 .. Len(t) : t[i] = CR \/ (t[i] = LF /\ (i = 1 \/ t[i - 1] # CR))}
        ended  == t = <<>> \/ Last(t) \in {CR, LF}
    IN  /\ FlattenSeq(pages) = SelectSeq(t, LAMBDA c : c \notin {CR, LF})
        /\ Cardinality(breaks) + (IF ended THEN 0 ELSE 1) = Len(pages)

\* What the edits write and what the reads return, for every small text and
\* batch (support.rs:78-116, read.rs:118-162, file_op.rs:405-448).
TextExact == EditsExact /\ PagesTile
=============================================================================
