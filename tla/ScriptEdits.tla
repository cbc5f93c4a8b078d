---------------------------- MODULE ScriptEdits ----------------------------
(***************************************************************************)
(* Exact-text script edits planned against one source, and the unified     *)
(* diff that previews them (ScriptEdits.ts).                               *)
(*                                                                         *)
(* A source is a sequence of bytes.  An offset is 1-based, a match covers  *)
(* start .. finish - 1, and a line is told with its terminator: a last     *)
(* line without one differs from the same line with one, as it does in     *)
(* sameLine.  The character budget of a diff is left out.  A loop of the   *)
(* code is a function of how often its body was run, up to a number of     *)
(* times that is enough for it to end.                                     *)
(***************************************************************************)
EXTENDS Integers, Sequences, FiniteSets, SequencesExt

CONSTANTS
  Sources,          \* texts of a script
  EditLists,        \* lists of edits: [old, new, line], where no anchor is line 0
  LF,               \* the newline byte
  Bytes             \* what texts are made of

ASSUME ScriptsAssumption ==
  /\ Sources \subseteq Seq(Bytes)
  /\ EditLists \subseteq Seq([old : Seq(Bytes), new : Seq(Bytes), line : Nat])

VARIABLES
  asked,            \* what was asked: a script's text, and the edits of it
  plan              \* the answer

scriptVars == <<asked, plan>>

\* string.sub: an end past the text is its end.
Part(s, first, last) == SubSeq(s, first, IF last < Len(s) THEN last ELSE Len(s))

EndsLine(s) == s # <<>> /\ s[Len(s)] = LF

\* A trailing newline yields a final empty line.
LineStarts(source) ==
  LET Found[read \in 0 .. Len(source)] ==
        IF read = 0 THEN <<1>>
        ELSE LET found == Found[read - 1]
             IN  IF source[read] = LF THEN Append(found, read + 1) ELSE found
  IN  Found[Len(source)]

\* One halving of the lines that an offset can be in.
Halve(starts, offset, lines) ==
  LET middle == (lines.low + lines.high + 1) \div 2
  IN  IF lines.low >= lines.high THEN lines
      ELSE IF starts[middle] =< offset THEN [lines EXCEPT !.low = middle]
      ELSE [lines EXCEPT !.high = middle - 1]

LineAt(starts, offset) ==
  LET Between[times \in 0 .. Len(starts)] ==
        IF times = 0 THEN [low |-> 1, high |-> Len(starts)]
        ELSE Halve(starts, offset, Between[times - 1])
  IN  Between[Len(starts)].low

\* The offset just past the line's terminator.
LineEnd(starts, source, line) ==
  IF line < Len(starts) THEN starts[line + 1] ELSE Len(source) + 1

LineText(source, line) ==
  LET starts == LineStarts(source)
  IN  Part(source, starts[line], LineEnd(starts, source, line) - 1)

-----------------------------------------------------------------------------
(***************************************************************************)
(* Where an edit applies.                                                  *)
(***************************************************************************)
\* Overlapping occurrences are several.
Occurrences(source, text) ==
  {i \in DOMAIN source : Part(source, i, i + Len(text) - 1) = text}

\* locateEdit: the offset, as a set that is empty when the edit is refused.
LocateEdit(source, edit) ==
  IF edit.line # 0
  THEN {i \in {LineStarts(source)[l] : l \in {edit.line} \cap DOMAIN LineStarts(source)} :
          Part(source, i, i + Len(edit.old) - 1) = edit.old}
  ELSE {i \in Occurrences(source, edit.old) :
          edit.old # <<>> /\ Cardinality(Occurrences(source, edit.old)) = 1}

\* A finite set as a sequence, in an order given as a set of pairs.
InOrder(S, before) ==
  [n \in 1 .. Cardinality(S) |->
     CHOOSE x \in S : Cardinality({y \in S : <<y, x>> \in before}) = n - 1]

Located(source, edits) ==
  {[index |-> p[1], start |-> p[2], finish |-> p[2] + Len(edits[p[1]].old),
    new |-> edits[p[1]].new] :
     p \in {p \in (DOMAIN edits) \X (1 .. Len(source) + 1) :
             p[2] \in LocateEdit(source, edits[p[1]])}}

\* In the order of their positions; those at one position in the order asked.
ResolveEdits(source, edits) ==
  LET S == Located(source, edits)
  IN  InOrder(S, {p \in S \X S :
                    \/ p[1].start < p[2].start
                    \/ p[1].start = p[2].start /\ p[1].index < p[2].index})

Overlap(previous, current) ==
  current.start < previous.finish \/ current.start = previous.start

\* The text of first .. last - 1 with the edits from .. to - 1 applied.
ApplyWithin(source, resolved, from, to, first, last) ==
  LET Applied[n \in 0 .. to - from] ==
        IF n = 0 THEN [text |-> <<>>, cursor |-> first]
        ELSE LET done == Applied[n - 1]
                 edit == resolved[from + n - 1]
             IN  [text   |-> done.text \o Part(source, done.cursor, edit.start - 1) \o edit.new,
                  cursor |-> edit.finish]
      done == Applied[to - from]
  IN  done.text \o Part(source, done.cursor, last - 1)

-----------------------------------------------------------------------------
(***************************************************************************)
(* The diff.                                                               *)
(***************************************************************************)
TextLines(text) ==
  LET count == Len(LineStarts(text)) - (IF text = <<>> \/ EndsLine(text) THEN 1 ELSE 0)
  IN  [l \in 1 .. count |-> LineText(text, l)]

CommonPrefix(s, t, most) ==
  CHOOSE n \in 0 .. most :
    /\ SubSeq(s, 1, n) = SubSeq(t, 1, n)
    /\ n < most => s[n + 1] # t[n + 1]

Shorter(s, t) == IF Len(s) < Len(t) THEN Len(s) ELSE Len(t)

EditFirstLine(starts, edit) == LineAt(starts, edit.start)
EditLastLine(starts, edit) ==
  LineAt(starts, IF edit.finish > edit.start THEN edit.finish - 1 ELSE edit.start)

\* The lines first .. last of a source, before and after the edits from .. end - 1.
Region(source, starts, resolved, from, end, first, last) ==
  LET regionEnd == LineEnd(starts, source, last)
  IN  [end   |-> end, first |-> first,
       old   |-> Part(source, starts[first], regionEnd - 1),
       new   |-> ApplyWithin(source, resolved, from, end, starts[first], regionEnd)]

\* A group of edits takes in the next edit when that shares a line with it, and the
\* next line when its region loses its final newline.
Grow(source, starts, resolved, from, group) ==
  LET first == EditFirstLine(starts, resolved[from])
      joins == /\ group.end =< Len(resolved)
               /\ EditFirstLine(starts, resolved[group.end]) =< group.last
      further == EditLastLine(starts, resolved[group.end])
      nextHasText == group.last < Len(starts) /\ starts[group.last + 1] =< Len(source)
      region == Region(source, starts, resolved, from, group.end, first, group.last)
  IN  IF joins
      THEN [end |-> group.end + 1, last |-> IF further > group.last THEN further ELSE group.last]
      ELSE IF nextHasText /\ EndsLine(region.old) /\ ~EndsLine(region.new)
      THEN [end |-> group.end, last |-> group.last + 1]
      ELSE group

\* The edits from one on that share lines with it, and the lines they are in.
Group(source, starts, resolved, from) ==
  LET Grown[times \in 0 .. Len(resolved) + Len(starts)] ==
        IF times = 0
        THEN [end |-> from + 1, last |-> EditLastLine(starts, resolved[from])]
        ELSE Grow(source, starts, resolved, from, Grown[times - 1])
      group == Grown[Len(resolved) + Len(starts)]
  IN  Region(source, starts, resolved, from, group.end,
             EditFirstLine(starts, resolved[from]), group.last)

\* The line before is not told when there is none to show.
HunkStartOfLine(line, count) == line

HunkStart(line, count) == IF count = 0 THEN line - 1 ELSE line

\* The lines of a region that differ, as a hunk; none when all are alike.
Hunk(region, lineDelta) ==
  LET old == TextLines(region.old)
      new == TextLines(region.new)
      prefix == CommonPrefix(old, new, Shorter(old, new))
      suffix == CommonPrefix(Reverse(old), Reverse(new), Shorter(old, new) - prefix)
      removed == SubSeq(old, prefix + 1, Len(old) - suffix)
      added == SubSeq(new, prefix + 1, Len(new) - suffix)
      at == region.first + prefix
  IN  IF removed = <<>> /\ added = <<>> THEN <<>>
      ELSE << [oldStart |-> HunkStart(at, Len(removed)), removed |-> removed,
               newStart |-> HunkStart(at + lineDelta, Len(added)), added |-> added] >>

BuildDiff(source, resolved) ==
  LET starts == LineStarts(source)
      Built[times \in 0 .. Len(resolved)] ==
        IF times = 0 THEN [from |-> 1, lineDelta |-> 0, diff |-> <<>>]
        ELSE LET built == Built[times - 1]
                 region == Group(source, starts, resolved, built.from)
             IN  IF built.from > Len(resolved) THEN built
                 ELSE [from      |-> region.end,
                       lineDelta |-> built.lineDelta + Len(TextLines(region.new))
                                                     - Len(TextLines(region.old)),
                       diff      |-> built.diff \o Hunk(region, built.lineDelta)]
  IN  Built[Len(resolved)].diff

-----------------------------------------------------------------------------
(***************************************************************************)
(* The two ways to ask.                                                    *)
(***************************************************************************)
Refused == [ok |-> FALSE, newSource |-> <<>>, diff |-> <<>>]

\* planScriptEdits.
PlanScriptEdits(source, edits) ==
  LET resolved == ResolveEdits(source, edits)
  IN  IF \/ edits = <<>>
         \/ Len(resolved) < Len(edits)
         \/ \E at \in 2 .. Len(resolved) : Overlap(resolved[at - 1], resolved[at])
      THEN Refused
      ELSE [ok        |-> TRUE,
            newSource |-> ApplyWithin(source, resolved, 1, Len(resolved) + 1,
                                               1, Len(source) + 1),
            diff      |-> BuildDiff(source, resolved)]

\* diffSources: lines that are not alike at both ends, one edit each when their
\* number is the same, and one edit otherwise.
DiffSources(old, new) ==
  LET oldLines == [l \in DOMAIN LineStarts(old) |-> LineText(old, l)]
      newLines == [l \in DOMAIN LineStarts(new) |-> LineText(new, l)]
      prefix == CommonPrefix(oldLines, newLines, Shorter(oldLines, newLines))
      suffix == CommonPrefix(Reverse(oldLines), Reverse(newLines),
                             Shorter(oldLines, newLines) - prefix)
      StartOf(source, line) ==
        IF line \in DOMAIN LineStarts(source) THEN LineStarts(source)[line] ELSE Len(source) + 1
      OldEnd(line) == LineEnd(LineStarts(old), old, line)
      newEnd == LineEnd(LineStarts(new), new, Len(newLines) - suffix)
      changed == {l \in prefix + 1 .. Len(oldLines) - suffix : oldLines[l] # newLines[l]}
      resolved ==
        IF Len(oldLines) = Len(newLines)
        THEN LET inOrder == InOrder(changed, {p \in changed \X changed : p[1] < p[2]})
             IN  [i \in 1 .. Cardinality(changed) |->
                    [index |-> i, start |-> StartOf(old, inOrder[i]),
                     finish |-> OldEnd(inOrder[i]), new |-> newLines[inOrder[i]]]]
        ELSE << [index |-> 1, start |-> StartOf(old, prefix + 1),
                 finish |-> OldEnd(Len(oldLines) - suffix),
                 new |-> Part(new, StartOf(new, prefix + 1), newEnd - 1)] >>
  IN  IF old = new THEN <<>> ELSE BuildDiff(old, resolved)

NothingAsked == [source |-> <<>>, edits |-> <<>>]

ScriptInit == asked = NothingAsked /\ plan = Refused

\* edit_script_lines, of a dry run.
PlansEdits(source, edits) ==
  /\ asked' = [source |-> source, edits |-> edits]
  /\ plan' = PlanScriptEdits(source, edits)

\* The preview of a script whose whole text is replaced.
PreviewsReplacement(old, new) ==
  /\ asked' = [source |-> old, edits |-> <<>>]
  /\ plan' = [ok |-> TRUE, newSource |-> new, diff |-> DiffSources(old, new)]

\* One question is asked of each behaviour.
ScriptNext ==
  /\ asked = NothingAsked /\ plan = Refused
  /\ \/ \E source \in Sources, edits \in EditLists : PlansEdits(source, edits)
     \/ \E old, new \in Sources : PreviewsReplacement(old, new)

ScriptSpec == ScriptInit /\ [][ScriptNext]_scriptVars

-----------------------------------------------------------------------------
(***************************************************************************)
(* Properties.                                                             *)
(***************************************************************************)
\* The lines before the place that a hunk names.
Before(line, count) == IF count = 0 THEN line ELSE line - 1

Patch(lines, done, hunk) ==
  LET upTo == Before(hunk.oldStart, Len(hunk.removed))
      out == done.out \o Part(lines, done.read + 1, upTo)
  IN  [fits |-> /\ done.fits /\ done.read =< upTo
                /\ upTo + Len(hunk.removed) =< Len(lines)
                /\ SubSeq(lines, upTo + 1, upTo + Len(hunk.removed)) = hunk.removed
                /\ Before(hunk.newStart, Len(hunk.added)) = Len(out),
       read |-> upTo + Len(hunk.removed),
       out  |-> out \o hunk.added]

\* The lines of a file that a unified diff leaves, or nothing of a file that it
\* does not fit: each hunk names the lines it removes and where its lines go.
Patched(lines, diff) ==
  LET Done[n \in 0 .. Len(diff)] ==
        IF n = 0 THEN [fits |-> TRUE, read |-> 0, out |-> <<>>]
        ELSE Patch(lines, Done[n - 1], diff[n])
      done == Done[Len(diff)]
  IN  IF done.fits THEN {done.out \o SubSeq(lines, done.read + 1, Len(lines))} ELSE {}

\* The last edit is in the empty line that a final newline leaves, and the edits before
\* it drop that newline.
JoinsLastLine ==
  LET source == asked.source
      resolved == ResolveEdits(source, asked.edits)
      before == ApplyWithin(source, resolved, 1, Len(resolved), 1, Len(source) + 1)
  IN  /\ EndsLine(source) /\ Len(resolved) > 1
      /\ resolved[Len(resolved)].start = Len(source) + 1
      /\ before # <<>> /\ ~EndsLine(before)

\* The diff a preview shows is the change that is written: applied to the lines of
\* the old source, line numbers and missing final newlines included, it gives
\* those of the new one (buildDiff, for edits and for whole sources).  It is not
\* when an edit in the empty last line is joined to what the edits before it leave.
DiffIsTheChange ==
  plan.ok /\ ~JoinsLastLine =>
    TextLines(plan.newSource) \in Patched(TextLines(asked.source), plan.diff)

=============================================================================
