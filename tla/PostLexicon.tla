----------------------------- MODULE PostLexicon -----------------------------
(***************************************************************************)
(* What the lexicon finds in a post (packages/domain/src/situation):       *)
(* negation, forecasts, counts, the direction that its places give, and    *)
(* the noise filter.  The result is a member of Facts of SituationRules.   *)
(* A phrase of the lexicon is one word here.                               *)
(***************************************************************************)
EXTENDS PlaceMentions

CONSTANTS
  Lexicon,         \* pattern -> words
  Threats,         \* threat types in the order of priority
  Counts,          \* words of a count -> its upper bound, -1 for one that is not known
  City, RaionId, InRaion,    \* Kremenchuk, its raion and the places in it
  NotWords, NoneWords, YetWords   \* "not" before and after a verb, and "yet" between the two

-----------------------------------------------------------------------------
(* affirmed, lastAt, has *)

IsWord(text, i) == i \in DOMAIN text /\ text[i].w \notin Marks

\* "not clear", "not flying at us"; "all-clear will not yet be", "shaheds not seen".
Affirmed(text, i) ==
  LET Not(k) == IsWord(text, k) /\ text[k].w \in NotWords
      Denied(k) == IsWord(text, k) /\ text[k].w \in NoneWords
      yet == IsWord(text, i + 1) /\ text[i + 1].w \in YetWords
  IN  /\ ~Not(i - 1) /\ ~(IsWord(text, i - 1) /\ Not(i - 2))
      /\ ~Denied(i + 1) /\ ~(yet /\ Denied(i + 2))

Found(text, pattern) == {i \in DOMAIN text : text[i].w \in Lexicon[pattern]}

LastAt(text, pattern) == Max({i \in Found(text, pattern) : Affirmed(text, i)} \cup {-1})

Has(text, pattern) == LastAt(text, pattern) >= 0

-----------------------------------------------------------------------------
\* The first type by priority that the text affirms.
ThreatTypeOf(text) ==
  LET named == {k \in DOMAIN Threats : Has(text, Threats[k])}
  IN  IF named = {} THEN NoPlace ELSE Threats[Min(named)]

\* The last forecast of the post; "none" for a negated one or a question.
ForecastOf(text) ==
  LET expected == {"clear_expected", "alert_expected"}
      found == UNION {Found(text, f) : f \in expected}
      last == Max(found)
      ends == {i \in (last + 1)..Len(text) : text[i].w \in {".", "!", "newline"}}
      rest == {text[i].w : i \in (last + 1)..(Min(ends \cup {Len(text) + 1}) - 1)}
  IN  CASE found = {} -> NoPlace
        [] found # {} /\ (~Affirmed(text, last) \/ last \in Found(text, "negation") \/ "?" \in rest) -> "none"
        [] OTHER -> CHOOSE f \in expected : last \in Found(text, f)

\* A range counts as its upper bound; a group is a count that is not known.
QuantityOf(text) ==
  LET counts == {i \in DOMAIN text : text[i].w \in DOMAIN Counts}
      n == Counts[text[Min(counts)].w]
  IN  CASE counts = {} -> NoPlace
        [] counts # {} /\ n = -1 -> "unknown"
        [] counts # {} /\ n = 0 -> NoPlace
        [] OTHER -> IF n >= 4 THEN "4+" ELSE <<"1", "2", "3">>[n]

\* The city itself, a route through the raion, a turn away from it.
DirectionFromPlaces(text, places) ==
  LET known == SelectSeq(places, LAMBDA p : p.placeId # NoPlace)
      Near(p) == p.placeId = RaionId \/ p.placeId \in InRaion
      city == \E p \in ToSet(known) : p.placeId = City /\ p.relation \in {"towards", "over", "in", "near"}
      through == /\ Len(known) >= 2 /\ ~Near(Last(known))
                 /\ \E p \in ToSet(known) : Near(p)
      heading == {p \in ToSet(known) : p.relation = "towards"}
  IN  CASE city -> "towards"
        [] ~city /\ through -> "passing"
        [] ~city /\ ~through /\ (\E p \in heading : Near(p)) -> "towards"
        [] OTHER -> IF Has(text, "turn") /\ heading # {} THEN "away" ELSE NoPlace

\* The last name that starts a list: names around a slash or an arrow, or three between commas.
RouteAt(text) ==
  LET Capital(i) == IsWord(text, i) /\ text[i].capital = "first"
      Mark(i) == IF i \in DOMAIN text THEN text[i].w ELSE ""
      Starts(i) == /\ Capital(i) /\ Capital(i + 2)
                   /\ \/ Mark(i + 1) \in {"/", "->"}
                      \/ Mark(i + 1) = "," /\ Mark(i + 3) = "," /\ Capital(i + 4)
  IN  Max({i \in DOMAIN text : Starts(i)} \cup {-1})

\* The wording of the direction, before what the places say.
HeadingOf(text) ==
  CASE Has(text, "away") -> "away"
    [] ~Has(text, "away") /\ Has(text, "towards") -> "towards"
    [] ~Has(text, "away") /\ ~Has(text, "towards") /\ Has(text, "passing") -> "passing"
    [] OTHER -> IF Has(text, "other_oblast") THEN "away" ELSE NoPlace

\* isNoise: nothing to read, or an ad, a fundraiser or chit-chat that reports nothing.
IsNoise(text) ==
  LET words == {i \in DOMAIN text : IsWord(text, i)}
      report == \/ \E p \in {"move", "downed", "explosions", "air_defense", "clear", "clear_official",
                              "alert_official"} : Found(text, p) # {}
                \/ ForecastOf(text) # NoPlace \/ RouteAt(text) >= 0
      advert == Found(text, "payment") \cup Found(text, "commercial") # {}
      chatter == /\ Found(text, "emoji") # {} /\ Found(text, "chatter") # {} /\ Cardinality(words) <= 4
                 /\ ThreatTypeOf(text) = NoPlace /\ ~\E i \in words : text[i].w \in DOMAIN Counts
  IN  words = {} \/ (~report /\ (advert \/ chatter))

\* What cues() reads: the text of the post, and of the one it replies to.
FactsOf(text, reply) ==
  LET forecast == ForecastOf(text)
      clearOfficial == Has(text, "clear_official")
      alertOfficial == Has(text, "alert_official") /\ forecast # "alert_expected"
      route == IF clearOfficial \/ alertOfficial THEN -1 ELSE RouteAt(text)
  IN  [noise |-> IsNoise(text),
       aftermath |-> Has(text, "aftermath") /\ ~Has(text, "move"),
       hedged |-> Has(text, "hedge") \/ Found(text, "question") # {},
       own |-> ThreatTypeOf(text), reply |-> ThreatTypeOf(reply),
       moveAt |-> Max({LastAt(text, p) : p \in {"move", "towards", "passing", "away"}} \cup {route}),
       downedAt |-> LastAt(text, "downed"),
       clearAt |-> Max({LastAt(text, "clear"), LastAt(text, "clear_official")}),
       clearOfficial |-> clearOfficial, alertOfficial |-> alertOfficial,
       forecast |-> forecast, heading |-> HeadingOf(text),
       places |-> DirectionFromPlaces(text, PlaceCandidates(text)),
       quantity |-> QuantityOf(text),
       explosions |-> Has(text, "explosions"), airDefense |-> Has(text, "air_defense")]
=============================================================================
