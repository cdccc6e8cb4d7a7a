--------------------------- MODULE ClaimExtraction ---------------------------
(***************************************************************************)
(* What the rules find in a post before any model is asked                 *)
(* (packages/domain/src/claims/extract.ts and time.ts): the literal        *)
(* candidates, how the post is split into fragments, and what its time     *)
(* expressions mean.  Pure functions.  A text is a sequence of paragraphs  *)
(* of lines; a line is how it is marked and its words.                     *)
(***************************************************************************)
EXTENDS Integers, SequencesExt

CONSTANTS
  Terms,           \* word -> threat type
  Amounts,         \* word of a count before a term -> its number; Unknown for a range or a group
  ClosureWords, HedgeWords, InjectionWords, NegationWords,
  SignalWords,     \* others that can carry a claim
  ClauseMarks,     \* words that end a clause
  TimeWords,       \* word -> time expression
  KyivToUtc(_, _), \* minute of (day, minute of the day) on the Kyiv calendar
  YearDays, AnchorDistance,    \* days of a year; ANCHOR_DISTANCE
  FutureTolerance, PastTolerance,    \* FUTURE_TOLERANCE_MS, PAST_TOLERANCE_MS
  Unknown

ASSUME ToleranceAssumption == {FutureTolerance, PastTolerance, AnchorDistance} \subseteq Nat /\ YearDays \in Nat \ {0}

-----------------------------------------------------------------------------
(* extractTimes *)

\* Of three moments the nearest to now, the earlier one of two as near.
Nearest(now, moments) ==
  LET Far(k) == IF moments[k] < now THEN now - moments[k] ELSE moments[k] - now
  IN  moments[CHOOSE k \in 1..3 : \A j \in 1..3 : Far(k) < Far(j) \/ (Far(k) = Far(j) /\ k <= j)]

\* The day of the year nearest to now, or of the year named.
DayOf(e, today, now) ==
  LET year == today \div YearDays
      Candidate == [k \in 1..3 |-> KyivToUtc((year + k - 2) * YearDays + e.day, 0)]
      k == CHOOSE k \in 1..3 : Candidate[k] = Nearest(now, Candidate)
  IN  (IF e.year # Unknown THEN e.year ELSE year + k - 2) * YearDays + e.day

\* The day that an expression gives a clock time near it.
AnchorDay(e, today, now) ==
  CASE e.kind = "date" -> DayOf(e, today, now)
    [] e.kind = "relative" /\ e.word = "yesterday" -> today - 1
    [] e.kind = "relative" /\ e.word = "tomorrow" -> today + 1
    [] OTHER -> today

IsAnchor(e) == e.kind = "date" \/ (e.kind = "relative" /\ e.word \notin {"just_now", "now"})

Timed(line) == {i \in DOMAIN line.words : line.words[i] \in DOMAIN TimeWords}

At(line, i) == TimeWords[line.words[i]]

\* The anchors of a clock time: on its line and close; relative days come before dates.
Anchors(line, i) ==
  LET near == {j \in Timed(line) \ {i} : IsAnchor(At(line, j)) /\ i - j \in -AnchorDistance..AnchorDistance}
      relative == {j \in near : At(line, j).kind = "relative"}
  IN  IF relative # {} THEN relative ELSE near

\* From when to when, the present being `now` of the day `today`.
Interval(line, i, today, now) ==
  LET e == At(line, i)
      day == AnchorDay(e, today, now)
      anchors == Anchors(line, i)
      clock == IF anchors # {} THEN KyivToUtc(AnchorDay(At(line, Min(anchors)), today, now), e.minute)
               ELSE Nearest(now, [k \in 1..3 |-> KyivToUtc(today + k - 2, e.minute)])
  IN  CASE e.kind = "clock" -> <<clock, clock>>
        [] e.kind = "relative" /\ e.word = "just_now" -> <<now - 10, now>>
        [] e.kind = "relative" /\ e.word = "now" -> <<now, now>>
        [] e.kind = "relative" /\ e.word = "night" -> <<KyivToUtc(today, 0), KyivToUtc(today, 360)>>
        [] e.kind = "date" -> <<KyivToUtc(day, 0), KyivToUtc(day + e.days, 0)>>
        [] OTHER -> <<KyivToUtc(day, 0), KyivToUtc(day + 1, 0)>>

\* What a time is about: clearly after now, clearly before it, or neither.
About(line, i, today, now) ==
  LET t == Interval(line, i, today, now)
  IN  CASE t[1] > now + FutureTolerance -> "future"
        [] t[1] <= now + FutureTolerance /\ t[2] < now - PastTolerance -> "past"
        [] OTHER -> "present"

-----------------------------------------------------------------------------
(* extractCandidates, on the lines of a fragment *)

\* The clause of a word holds a negation: "no UAVs are seen".
Negated(words, i) ==
  \E j \in DOMAIN words :
    /\ words[j] \in NegationWords
    /\ \A k \in Min({i, j})..Max({i, j}) : words[k] \notin ClauseMarks

\* The threat types that the lines name and do not deny, and so on.
Types(lines) ==
  UNION {{Terms[l.words[i]] : i \in {k \in DOMAIN l.words : l.words[k] \in DOMAIN Terms /\ ~Negated(l.words, k)}} : l \in lines}

Closures(lines) ==
  UNION {{l.words[i] : i \in {k \in DOMAIN l.words : l.words[k] \in ClosureWords /\ ~Negated(l.words, k)}} : l \in lines}

Quantities(lines) ==
  UNION {{Amounts[l.words[i]] : i \in {k \in DOMAIN l.words : l.words[k] \in DOMAIN Amounts}} : l \in lines}

Times(lines, today, now) == UNION {{About(l, i, today, now) : i \in Timed(l)} : l \in lines}

Said(lines, lexicon) == UNION {ToSet(l.words) \cap lexicon : l \in lines}

-----------------------------------------------------------------------------
(* units: paragraphs, or the marked lines of a list, each with its header *)

\* Lines without letters or digits only count as arrows.
LinesOf(paragraph) == SelectSeq(paragraph, LAMBDA l : l.words # <<>> \/ l.mark = "arrow")

\* Anything that can carry a claim of its own; footers and quotes do not.
Signals(line) ==
  line.mark = "arrow" \/ ToSet(line.words) \cap (DOMAIN Terms \cup SignalWords) # {}

Marked(line) == line.mark = "arrow" \/ (line.mark = "bullet" /\ Signals(line))

\* One arrow is a list of directions; one bullet is usually a quote.
IsList(lines) ==
  \/ \E l \in DOMAIN lines : lines[l].mark = "arrow"
  \/ Cardinality({l \in DOMAIN lines : Marked(lines[l])}) >= 2

\* The plain lines that end above line k, with no marked line among them.
Block(lines, k) ==
  LET plain == {l \in 1..(k - 1) : ~Marked(lines[l])}
  IN  {l \in plain : \A m \in l..Max(plain) : ~Marked(lines[m])}

Unit(header, body) == [header |-> header, body |-> body]

\* Plain lines head the marked lines below them; those at the end stand alone.
UnitsOf(lines) ==
  LET Of(S) == {lines[l] : l \in S}
      marked == SetToSortSeq({l \in DOMAIN lines : Marked(lines[l])}, <)
      listed == [n \in DOMAIN marked |-> Unit(Of(Block(lines, marked[n])), {lines[marked[n]]})]
      rest == {l \in DOMAIN lines : l > marked[Len(marked)]}
  IN  CASE lines = <<>> -> <<>>
        [] lines # <<>> /\ ~IsList(lines) -> <<Unit({}, Of(DOMAIN lines))>>
        [] OTHER -> IF rest = {} THEN listed ELSE Append(listed, Unit({}, Of(rest)))

Units(text) == FlattenSeq([p \in DOMAIN text |-> UnitsOf(LinesOf(text[p]))])

-----------------------------------------------------------------------------
(* extractClaimCandidates *)

LinesIn(text) == UNION {ToSet(text[p]) : p \in DOMAIN text}

\* What hedges or instructs is about the whole post; different counts are a conflict.
Fragment(text, lines, today, now) ==
  LET counts == Quantities(lines) \ {Unknown}
  IN  [lines |-> lines, types |-> Types(lines), closures |-> Closures(lines),
       times |-> Times(lines, today, now), quantities |-> Quantities(lines),
       tentative |-> Said(LinesIn(text), HedgeWords) # {},
       injection |-> Said(LinesIn(text), InjectionWords) # {},
       conflict |-> Cardinality(counts) > 1]

\* Several types that the rules could not split; guided bombs come with the aviation.
Unsplit(f) ==
  LET types == IF "kab" \in f.types THEN f.types \ {"aviation"} ELSE f.types
  IN  Cardinality(types) > 1

\* A fragment for each unit that carries a claim, when there are several.
ExtractClaims(text, today, now) ==
  LET bearing == SelectSeq(Units(text), LAMBDA u : \E l \in u.body : Signals(l))
      groups == IF Len(bearing) > 1 THEN [n \in DOMAIN bearing |-> bearing[n].header \cup bearing[n].body]
                ELSE <<LinesIn(text)>>
      fragments == [n \in DOMAIN groups |-> Fragment(text, groups[n], today, now)]
  IN  IF \A l \in LinesIn(text) : l.words = <<>> THEN [fragments |-> <<>>, needsReview |-> FALSE]
      ELSE [fragments |-> fragments, needsReview |-> \E n \in DOMAIN fragments : Unsplit(fragments[n])]
=============================================================================
