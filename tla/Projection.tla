----------------------------- MODULE Projection -----------------------------
(***************************************************************************)
(* One write under review (harness-kit/src: Edit.ts, Projection.ts,        *)
(* Matcher.ts, rule/Feedback.ts, and src/Snapshots.ts): what the gate is   *)
(* shown before the write, and the pattern matches in the text the write   *)
(* added.  Offsets count code units from 1, and a span is a set of them.   *)
(***************************************************************************)
EXTENDS Integers, FiniteSets, SequencesExt, FiniteSetsExt

CONSTANTS
  Units,         \* the code units of texts
  SourceTexts,   \* texts the file may have, sequences of units
  Replacements,  \* replacements of an edit: [old, new]
  MaxEdit,       \* replacements of one edit (bound)
  NoText         \* no content

\* Units: "x" is what the pattern looks for, "n" ends a line, "q" quotes, "e"
\* escapes, and a character outside the plane is "h" followed by "l".
Blank == "_"

Strings == Seq(Units)

ASSUME ProjectionAssumption ==
  /\ {Blank, "/"} \subseteq Units
  /\ SourceTexts \subseteq Strings
  /\ Replacements \subseteq [old : Strings, new : Strings]
  /\ MaxEdit \in Nat
  /\ NoText \notin Strings

VARIABLES
  progress,  \* where the write is
  source,    \* the file before the write, or NoText
  replacements, \* those of the intent
  proposed,  \* what the gate is shown: the content, or NoText, and its spans
  after,     \* the file after the write
  measured,  \* the spans actual() computes from the final text, or NoText
  matches    \* offsets of the matches reported

projectionVars == <<progress, source, replacements, proposed, after, measured, matches>>

NoMatches == [looked |-> FALSE, inComments |-> FALSE, at |-> {}]
Nothing == [content |-> NoText, spans |-> <<>>]

ProjectionInit ==
  /\ progress = "start"
  /\ source = NoText
  /\ replacements = <<>>
  /\ proposed = Nothing
  /\ after = NoText
  /\ measured = NoText
  /\ matches = NoMatches

At(text, part, i) == SubSeq(text, i, i + Len(part) - 1) = part
Places(text, part) == {i \in 1 .. Len(text) - Len(part) + 1 : At(text, part, i)}
Span(i, part) == i .. i + Len(part) - 1

\* occurrenceCount splits at the text: matches that overlap count once.  This
\* is the count up to each unit.
Occurrences(text, part) ==
  LET Count[i \in 0 .. Len(text)] ==
        IF i = 0 THEN [next |-> 1, count |-> 0]
        ELSE LET acc == Count[i - 1] IN
             IF i >= acc.next /\ i \in Places(text, part)
             THEN [next |-> i + Len(part), count |-> acc.count + 1] ELSE acc
  IN  Count

Counted(text, part) == Occurrences(text, part)[Len(text)].count

Resolution(r, text) ==
  CASE r.old = <<>> -> "empty"
    [] r.old # <<>> /\ Counted(text, r.old) = 0 -> "missing"
    [] r.old # <<>> /\ Counted(text, r.old) > 1 -> "ambiguous"
    [] OTHER -> "unique"

Located(text, rs) ==
  [k \in 1 .. Len(rs) |-> [at |-> Min(Places(text, rs[k].old)), old |-> rs[k].old, new |-> rs[k].new]]

\* The sort is stable.
Rank(located, i) ==
  Cardinality({j \in 1 .. Len(located) :
    located[j].at < located[i].at \/ (located[j].at = located[i].at /\ j <= i)})

Sorted(located) ==
  [k \in 1 .. Len(located) |->
     located[CHOOSE i \in 1 .. Len(located) : Rank(located, i) = k]]

Overlap(sorted) ==
  \E k \in 2 .. Len(sorted) : sorted[k].at < sorted[k - 1].at + Len(sorted[k - 1].old)

\* Every replacement matches once and no two of them overlap.
Resolves(text, rs) ==
  /\ \A k \in 1 .. Len(rs) : Resolution(rs[k], text) = "unique"
  /\ ~Overlap(Sorted(Located(text, rs)))

\* A mutant: the spans are those of the old text.
SpanInSource(r, kept) == Span(r.at, r.new)

SpanOf(r, kept) == Span(Len(kept) + 1, r.new)

\* Each edit copies the text up to its match, then its new text.
Edited(text, acc, r) ==
  LET kept == acc.content \o SubSeq(text, acc.cursor, r.at - 1) IN
  [cursor |-> r.at + Len(r.old),
   content |-> kept \o r.new,
   spans |-> IF r.new = <<>> THEN acc.spans ELSE Append(acc.spans, SpanOf(r, kept))]

\* What the first edits make of the text.
Edits(text, sorted) ==
  LET E[k \in 0 .. Len(sorted)] ==
        IF k = 0 THEN [cursor |-> 1, content |-> <<>>, spans |-> <<>>]
        ELSE Edited(text, E[k - 1], sorted[k])
  IN  E

ApplyEdits(text, sorted) ==
  LET end == Edits(text, sorted)[Len(sorted)] IN
  [content |-> end.content \o SubSeq(text, end.cursor, Len(text)), spans |-> end.spans]

\* prospective: a write is its content; an edit of a missing file, or one
\* that does not resolve, has none.
Intend ==
  /\ progress = "start"
  /\ progress' = "proposed"
  /\ \E text \in SourceTexts \cup {NoText} :
       /\ source' = text
       /\ \/ \E content \in SourceTexts :
               /\ replacements' = <<>>
               /\ proposed' = [content |-> content, spans |-> <<1 .. Len(content)>>]
          \/ \E n \in 1 .. MaxEdit : \E rs \in [1 .. n -> Replacements] :
               /\ replacements' = rs
               /\ proposed' = IF text # NoText /\ Resolves(text, rs)
                              THEN ApplyEdits(text, Sorted(Located(text, rs))) ELSE Nothing
  /\ UNCHANGED <<after, measured, matches>>

\* The host writes what it makes of the intent, or something else.
HostWrites ==
  /\ progress = "proposed"
  /\ progress' = "written"
  /\ after' \in SourceTexts \cup ({proposed.content} \ {NoText})
  /\ UNCHANGED <<source, replacements, proposed, measured, matches>>

\* A new text that occurs once in the output has a span.
OnlyPlace(text, part) ==
  {Span(i, part) : i \in {j \in Places(text, part) : Places(text, part) = {j}}}

\* The spans of all the new texts, or none at all.
SpansIn(text, rs) ==
  LET texts == {rs[k].new : k \in 1 .. Len(rs)} \ {<<>>}
  IN  CASE rs = <<>> -> {1 .. Len(text)}
        [] rs # <<>> /\ \A t \in texts : OnlyPlace(text, t) # {} ->
             UNION {OnlyPlace(text, t) : t \in texts}
        [] OTHER -> NoText

\* actual: the spans as the final text shows them.
Actual ==
  /\ progress = "written"
  /\ progress' = "measured"
  /\ measured' = SpansIn(after, replacements)
  /\ UNCHANGED <<source, replacements, proposed, after, matches>>

----------------------------------------------------------------------------
(* stripComments: the scanner of Matcher.ts.                               *)

Code == [tag |-> "code", slash |-> FALSE]
Line == [tag |-> "line"]
Block(star) == [tag |-> "block", star |-> star]
Quoted(escaped) == [tag |-> "quoted", escaped |-> escaped]

\* A character that is blanked leaves one blank, in whatever many units.
Blanked(u) == CASE u = "n" -> <<"n">> [] u = "l" -> <<>> [] OTHER -> <<Blank>>

ScanUnit(acc, u) ==
  LET To(state, units) == [state |-> state, out |-> acc.out \o units]
      tag == acc.state.tag
  IN CASE tag = "code" /\ acc.state.slash ->
            CASE u = "/" -> To(Line, <<Blank, Blank>>)
              [] u = "*" -> To(Block(FALSE), <<Blank, Blank>>)
              [] OTHER -> To(Code, <<"/", u>>)
       [] tag = "code" /\ ~acc.state.slash ->
            CASE u = "q" -> To(Quoted(FALSE), <<u>>)
              [] u = "/" -> To([tag |-> "code", slash |-> TRUE], <<>>)
              [] OTHER -> To(Code, <<u>>)
       [] tag = "line" -> IF u = "n" THEN To(Code, <<u>>) ELSE To(Line, Blanked(u))
       [] tag = "block" ->
            CASE acc.state.star /\ u = "/" -> To(Code, <<Blank>>)
              [] u = "*" -> To(Block(TRUE), Blanked(u))
              [] OTHER -> To(Block(FALSE), Blanked(u))
       [] tag = "quoted" ->
            CASE acc.state.escaped -> To(Quoted(FALSE), <<u>>)
              [] ~acc.state.escaped /\ u = "e" -> To(Quoted(TRUE), <<u>>)
              [] ~acc.state.escaped /\ u = "q" -> To(Code, <<u>>)
              [] OTHER -> To(Quoted(FALSE), <<u>>)

\* The scanner after each unit.
ScanOf(text) ==
  LET S[i \in 0 .. Len(text)] ==
        IF i = 0 THEN [state |-> Code, out |-> <<>>] ELSE ScanUnit(S[i - 1], text[i])
  IN  S

StripComments(text) ==
  LET end == ScanOf(text)[Len(text)]
  IN  IF end.state.tag = "code" /\ end.state.slash THEN Append(end.out, "/") ELSE end.out

----------------------------------------------------------------------------
(* The feedback after the write.                                           *)

\* What is left of each prefix of the text.
Left(text, A) ==
  LET L[i \in 0 .. Len(text)] ==
        IF i = 0 THEN <<>>
        ELSE IF i \in A THEN L[i - 1] ELSE Append(L[i - 1], text[i])
  IN  L

Without(text, A) == Left(text, A)[Len(text)]

\* How much of the part each prefix of the text has, in the same order.
Found(part, text) ==
  LET F[i \in 0 .. Len(text)] ==
        IF i = 0 THEN 0
        ELSE LET k == F[i - 1] IN IF k < Len(part) /\ part[k + 1] = text[i] THEN k + 1 ELSE k
  IN  F

IsWithin(part, text) == Found(part, text)[Len(text)] = Len(part)

\* computeChangedSpans: diffLines marks what was added, by lines or finer;
\* without a text before everything was.
Added(before, text) ==
  IF before = NoText THEN {1 .. Len(text)}
  ELSE {A \in SUBSET (1 .. Len(text)) : IsWithin(Without(text, A), before)}

\* The matches of the pattern that touch a changed span.
MatchesIn(text, spans, inComments) ==
  LET scanned == IF inComments THEN text ELSE StripComments(text)
  IN  {i \in 1 .. Len(scanned) : scanned[i] = "x" /\ i \in spans}

\* The pattern is for another event, tool or path; or it is looked for.
ReviewWrite ==
  /\ progress = "measured"
  /\ progress' = "reviewed"
  /\ \/ matches' = NoMatches
     \/ \E added \in Added(source, after), inComments \in BOOLEAN :
          matches' = [looked |-> TRUE, inComments |-> inComments,
                      at |-> MatchesIn(after, added, inComments)]
  /\ UNCHANGED <<source, replacements, proposed, after, measured>>

ProjectionNext == Intend \/ HostWrites \/ Actual \/ ReviewWrite

ProjectionSpec == ProjectionInit /\ [][ProjectionNext]_projectionVars

ProjectionTypeOK ==
  /\ progress \in {"start", "proposed", "written", "measured", "reviewed"}
  /\ source \in SourceTexts \cup {NoText}
  /\ \A k \in DOMAIN replacements : replacements[k] \in Replacements
  /\ proposed # Nothing => \A k \in DOMAIN proposed.spans :
       proposed.spans[k] \subseteq 1 .. Len(proposed.content)
  /\ measured # NoText => \A span \in measured : span \subseteq 1 .. Len(after)
  /\ matches.at \subseteq Nat /\ matches.looked \in BOOLEAN /\ matches.inComments \in BOOLEAN

Has(text, u) == u \in ToSet(text)

\* The edits that have a new text, up to each of them.
Insertions(sorted) ==
  LET N[k \in 0 .. Len(sorted)] ==
        IF k = 0 THEN <<>>
        ELSE IF sorted[k].new = <<>> THEN N[k - 1] ELSE Append(N[k - 1], sorted[k])
  IN  N

\* The text is on a line that begins with two slashes, and there are no
\* quotes or block comments.
InLineComment(text, i) ==
  /\ ~Has(text, "q") /\ ~Has(text, "*")
  /\ \E j \in 1 .. i - 2 : At(text, <<"/", "/">>, j) /\ \A k \in j .. i : text[k] # "n"

\* A character of two units after a slash may be in a comment and shift what
\* follows it.
MayShift(text) == \E i, j \in 1 .. Len(text) : i < j /\ text[i] = "/" /\ text[j] = "l"

(* Every offset names the text it is about.  The spans of a projected edit *)
(* are its new texts in the order of the file, and the rest is the source  *)
(* without the old ones; the spans of the final text agree with them when  *)
(* the host wrote the projected one (Edit.ts:46-80, Projection.ts:160-263).*)
(* A match is where the pattern's text is, in new text, not in a line      *)
(* comment unless it looks there, and new text before any comment is not   *)
(* missed (Matcher.ts:42-120, 283-320); a character of two units in a      *)
(* comment shifts the matches, as Matcher.ts:28-33 says they are not.      *)
OffsetsNameTheirText ==
  /\ progress \in {"proposed", "measured"} /\ replacements # <<>> /\ proposed # Nothing =>
       LET sorted == Sorted(Located(source, replacements))
           new == Insertions(sorted)[Len(sorted)]
           spans == proposed.spans
           NewText == UNION ToSet(spans)
           OldText == UNION {Span(sorted[k].at, sorted[k].old) : k \in 1 .. Len(sorted)}
       IN  /\ Len(spans) = Len(new)
           /\ \A k \in 1 .. Len(spans) :
                At(proposed.content, new[k].new, Min(spans[k]))
                /\ spans[k] = Span(Min(spans[k]), new[k].new)
           /\ Without(proposed.content, NewText) = Without(source, OldText)
           /\ measured # NoText /\ after = proposed.content => measured = ToSet(spans)
  /\ matches.looked /\ ~MayShift(after) =>
       /\ \A i \in matches.at : after[i] = "x" /\ (InLineComment(after, i) => matches.inComments)
       /\ \A i \in 1 .. Len(after) :
            /\ after[i] = "x"
            /\ source = NoText \/ ~Has(source, "x")
            /\ matches.inComments \/ \A j \in 1 .. i : after[j] # "/"
            => i \in matches.at
=============================================================================
