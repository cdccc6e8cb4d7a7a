---------------------------- MODULE PlaceMentions ----------------------------
(***************************************************************************)
(* The places a post names (packages/geo/src/match/index.ts) and the route *)
(* it lists (packages/geo/src/match/route.ts).  Pure functions.  A text is *)
(* a sequence of tokens, words and marks, white space left out; a word is  *)
(* its comparison key and how it is written.  How names are inflected is   *)
(* in Names, the wordings of the rules are constants.                      *)
(***************************************************************************)
EXTENDS Integers, SequencesExt

CONSTANTS
  Names,           \* dictionary: [placeId, level, subArea, ambiguous, proper, forms]
  RiverCity, River,    \* the city that shares its name with the river; words before a river
  Marks,           \* tokens that are no words
  ClauseBreaks,    \* marks that end a clause
  Separators,      \* between the items of a list
  Designators,     \* words before a name that say what it is
  RelationRules,   \* ending of the prefix -> relation
  Governing, Na,   \* prepositions whose case decides, and the one of a direction
  Joins, Water,    \* between two stops, and after the last one: "on to the water"
  NoPlace          \* null

Cases == {"nom", "gen", "dat", "acc", "ins", "loc"}

ASSUME NamesAssumption ==
  \A n \in Names : n.forms \in [Cases -> SUBSET Seq(STRING)] /\ n.proper \in BOOLEAN

-----------------------------------------------------------------------------
(* The index: a phrase may be a form of several names *)

Identity(n) == <<n.placeId, n.subArea>>

CasesOf(phrase, n) ==
  UNION {{c \in Cases : phrase \in m.forms[c]} : m \in {x \in Names : Identity(x) = Identity(n)}}

\* A name of a settlement, which may also be a common word, needs its capital.
Entries(phrase, capital) ==
  {[placeId |-> n.placeId, level |-> n.level, subArea |-> n.subArea, ambiguous |-> n.ambiguous,
    cases |-> CasesOf(phrase, n)] :
     n \in {x \in Names : (\E c \in Cases : phrase \in x.forms[c]) /\ (x.proper => capital)}}

-----------------------------------------------------------------------------
(* How the wording relates the threat to the place *)

EndsWith(s, endings) == \E e \in endings : IsSuffix(e, s)

\* The rules by their words; else the case that the preposition governs decides:
\* "on Poltava" is a location in the locative and a direction in the accusative.
RelationFromPrefix(prefix, cases) ==
  LET rules == {e \in DOMAIN RelationRules : IsSuffix(e, prefix)}
      governed == prefix # <<>> /\ Last(prefix) \in Governing
  IN  CASE rules # {} -> RelationRules[CHOOSE e \in rules : TRUE]
        [] rules = {} /\ governed /\ "loc" \in cases /\ "acc" \notin cases -> "in"
        [] rules = {} /\ governed /\ "acc" \in cases /\ "loc" \notin cases -> "towards"
        [] OTHER -> "unknown"

\* The words of the clause that s ends in.
Clause(s) == SubSeq(s, SelectLastInSeq(s, LAMBDA w : w \in ClauseBreaks) + 1, Len(s))

\* After a designator the name's own case says nothing.
Undesignated(s, cases) ==
  LET named == {d \in Designators : IsSuffix(d, s)}
      bare == SubSeq(s, 1, Len(s) - Len(CHOOSE d \in named : \A e \in named : Len(e) <= Len(d)))
  IN  IF named = {} THEN [words |-> s, cases |-> cases]
      ELSE [words |-> bare,
            cases |-> IF bare # <<>> /\ Last(bare) = Na THEN {"acc"} ELSE {"loc"}]

\* "on/past Poltava": two prepositions that disagree leave the direction open.
Paired(s) == Len(s) >= 3 /\ s[Len(s) - 1] = "/" /\ {s[Len(s) - 2], s[Len(s)]} \cap Marks = {}

\* gap: the words since the match before.  The items of a list share its first relation.
RelationOf(gap, cases, previous) ==
  LET said == Undesignated(gap, cases)
      prefix == Clause(said.words)
      n == Len(prefix)
      left == RelationFromPrefix(<<prefix[n - 2]>>, said.cases)
      right == RelationFromPrefix(<<prefix[n]>>, said.cases)
  IN  IF previous # NoPlace /\ Len(gap) = 1 /\ gap[1] \in Separators /\ cases \cap previous.cases # {}
      THEN previous.relation
      ELSE IF Paired(prefix) THEN (IF left = right THEN left ELSE "unknown")
      ELSE RelationFromPrefix(prefix, said.cases)

-----------------------------------------------------------------------------
(* extractPlaceCandidates *)

Words(s) == [k \in DOMAIN s |-> s[k].w]

\* The key of a phrase; white space in it may be a new line.
Phrase(text, i, j) == SelectSeq(Words(SubSeq(text, i, j)), LAMBDA w : w # "newline")

Matched(text, i, j) == Entries(Phrase(text, i, j), text[i].capital # "no")

\* The last token of the longest match that starts at i; 0 without one.
LongestAt(text, i) ==
  LET ends == {j \in i..Len(text) : /\ {text[i].w, text[j].w} \cap Marks = {}
                                    /\ Matched(text, i, j) # {}}
  IN  Max(ends \cup {0})

\* From left to right, each match after the end of the one before.
Spans(text) ==
  LET from[i \in 1..(Len(text) + 1)] ==
        IF i > Len(text) THEN <<>>
        ELSE IF LongestAt(text, i) = 0 THEN from[i + 1]
        ELSE <<[first |-> i, last |-> LongestAt(text, i)]>> \o from[LongestAt(text, i) + 1]
  IN  from[1]

\* The next match as a candidate: several entries, an ambiguous name, or one that may be
\* the river resolve to no place.
Candidate(text, span, previous) ==
  LET entries == Matched(text, span.first, span.last)
      one == CHOOSE e \in entries : TRUE
      before == Phrase(text, 1, span.first - 1)
      gap == IF previous = NoPlace THEN Words(SubSeq(text, 1, span.first - 1))
             ELSE Words(SubSeq(text, previous.span.last + 1, span.first - 1))
      river == (\E e \in entries : e.placeId = RiverCity) /\ EndsWith(before, River)
      ambiguous == Cardinality(entries) > 1 \/ (\E e \in entries : e.ambiguous) \/ river
      cases == UNION {e.cases : e \in entries}
  IN  [span |-> span, cases |-> cases, relation |-> RelationOf(gap, cases, previous),
       ambiguous |-> ambiguous,
       placeId |-> IF ambiguous THEN NoPlace ELSE one.placeId,
       subArea |-> IF ambiguous THEN NoPlace ELSE one.subArea,
       level |-> IF \A e \in entries : e.level = one.level THEN one.level ELSE NoPlace,
       alternatives |-> IF ambiguous THEN {e.placeId : e \in entries} \ {NoPlace} ELSE {}]

PlaceCandidates(text) ==
  FoldLeft(LAMBDA found, span : Append(found, Candidate(text, span, IF found = <<>> THEN NoPlace ELSE Last(found))),
           <<>>, Spans(text))

-----------------------------------------------------------------------------
(* extractRoute *)

Stop(name, placeId) == [name |-> name, placeId |-> placeId]

\* Settlements, and capitalised names outside the dictionary, in the order of the text.
Items(text) ==
  LET found == ToSet(PlaceCandidates(text))
      Name(c) == IF c.subArea # NoPlace THEN c.subArea
                 ELSE IF c.placeId # NoPlace THEN c.placeId ELSE Phrase(text, c.span.first, c.span.last)
      known == {[span |-> c.span, known |-> TRUE, stop |-> Stop(Name(c), c.placeId)] :
                  c \in {x \in found : x.level \notin {"oblast", "raion"}}}
      others == {i \in DOMAIN text : /\ text[i].capital = "first" /\ text[i].w \notin Marks
                                     /\ \A c \in found : i \notin c.span.first..c.span.last}
      unknown == {[span |-> [first |-> i, last |-> i], known |-> FALSE, stop |-> Stop(<<text[i].w>>, NoPlace)] :
                    i \in others}
  IN  SetToSortSeq(known \cup unknown, LAMBDA a, b : a.span.first < b.span.first)

Gap(text, a, b) == Words(SubSeq(text, a.span.last + 1, b.span.first - 1))

\* A bare comma joins dictionary names only.
OneList(text, a, b) ==
  /\ Gap(text, a, b) \in Joins
  /\ Gap(text, a, b) = <<",">> => a.known /\ b.known

\* The lists of the text: items from i to j, joined, and neither side goes on.
Lists(text, items) ==
  LET On(k) == k \in 1..(Len(items) - 1) /\ OneList(text, items[k], items[k + 1])
  IN  {<<i, j>> \in (1..Len(items)) \X (1..Len(items)) :
         i <= j /\ ~On(i - 1) /\ ~On(j) /\ \A k \in i..(j - 1) : On(k)}

\* At least one place of the dictionary; a list by commas alone takes three names.
IsRoute(text, items, l) ==
  /\ l[2] > l[1] /\ \E k \in l[1]..l[2] : items[k].stop.placeId # NoPlace
  /\ l[2] - l[1] >= 2 \/ \E k \in l[1]..(l[2] - 1) : Gap(text, items[k], items[k + 1]) # <<",">>

StopsOf(text, items, l) ==
  LET rest == Words(SubSeq(text, items[l[2]].span.last + 1, Len(text)))
  IN  [k \in 1..(l[2] - l[1] + 1) |-> items[l[1] + k - 1].stop]
        \o (IF \E w \in Water : IsPrefix(w, rest) THEN <<Stop("water", NoPlace)>> ELSE <<>>)

\* The longest, of equal ones the first; NoPlace without a list.
Route(text) ==
  LET items == Items(text)
      routes == {l \in Lists(text, items) : IsRoute(text, items, l)}
      Better(l, m) == \/ Len(StopsOf(text, items, l)) > Len(StopsOf(text, items, m))
                      \/ Len(StopsOf(text, items, l)) = Len(StopsOf(text, items, m)) /\ l[1] <= m[1]
  IN  IF routes = {} THEN NoPlace
      ELSE StopsOf(text, items, CHOOSE l \in routes : \A m \in routes : Better(l, m))
=============================================================================
