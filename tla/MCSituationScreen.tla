------------------------- MODULE MCSituationScreen -------------------------
(* Instances of SituationScreen: eleven kinds of post, each as the lexicon    *)
(* reads its words, in every order of three posts at five rhythms; a browser  *)
(* watches one of the windows.                                                *)
EXTENDS SituationScreen, PostLexicon

-----------------------------------------------------------------------------
(* A dictionary of five names, one of a river's city, one of two villages.   *)

Name(id, level, proper, cases) ==
  [placeId |-> id, level |-> level, subArea |-> Nothing, ambiguous |-> FALSE, proper |-> proper, forms |-> cases]

\* The forms of a name: nominative and accusative, genitive, locative.
Forms(nom, gen, loc) ==
  [c \in Cases |-> IF c \in {"nom", "acc"} THEN {nom} ELSE IF c = "loc" THEN {loc} ELSE {gen}]

MCNames ==
  {Name("kremenchuk", "city", TRUE, Forms(<<"Kremenchuk">>, <<"Kremenchuka">>, <<"Kremenchutsi">>)),
   Name("hlobyne", "city", TRUE, Forms(<<"Hlobyne">>, <<"Hlobynoho">>, <<"Hlobynomu">>)),
   Name("poltava", "city", TRUE, Forms(<<"Poltavu">>, <<"Poltavy">>, <<"Poltavi">>)),
   Name("dnipro", "city", TRUE, Forms(<<"Dnipro">>, <<"Dnipra">>, <<"Dniprom">>)),
   Name("kremenchuk_raion", "raion", FALSE, Forms(<<"Kremenchuk", "raion">>, <<"Kremenchuk", "raionu">>, <<"Kremenchuk", "raioni">>)),
   [Name(Nothing, "village", TRUE, Forms(<<"Ivanivka">>, <<"Ivanivky">>, <<"Ivanivtsi">>)) EXCEPT !.ambiguous = TRUE]}

MCRules == (<<"do">> :> "towards") @@ (<<"->">> :> "towards") @@ (<<"nad">> :> "over") @@ (<<"povz">> :> "past") @@ (<<"bilia">> :> "near")
MCMarks == {",", ".", "/", "->", "-", "?", "newline"}
MCRiver == {<<"nad">>, <<"po">>}
MCDesignators == {<<"m", ".">>, <<"m">>}
MCJoins == {<<"/">>, <<"->">>, <<",">>, <<"-">>, <<",", "then">>, <<",", "then", "na">>}
MCWater == {<<"i", "na", "water">>, <<",", "na", "water">>}
MCLexicon ==
  [p \in {"jet_shahed", "ballistic", "kab", "missile", "aviation", "shahed"} |-> {p}] @@
  [p \in {"towards", "passing", "away", "other_oblast", "turn", "downed", "clear", "clear_official",
          "alert_official", "clear_expected", "alert_expected", "negation", "explosions", "air_defense",
          "aftermath", "hedge", "payment", "commercial", "emoji", "chatter"} |-> {p}] @@
  [p \in {"move"} |-> {"flies", "flew"}] @@ [p \in {"question"} |-> {"?"}]
MCThreats == <<"jet_shahed", "ballistic", "kab", "missile", "aviation", "shahed">>
MCCounts == ("one" :> 1) @@ ("two" :> 2) @@ ("five" :> 5) @@ ("group" :> -1)

Capitals == {"Kremenchuk", "Hlobyne", "Poltavu", "Poltavi", "Dniprom", "Ivanivka", "Sadky", "Kyiashky"}
Text(words) == [k \in DOMAIN words |-> [w |-> words[k], capital |-> IF words[k] \in Capitals THEN "first" ELSE "no"]]

FactsOfWords(words) == FactsOf(Text(words), <<>>)

WordsRead ==
  [flies      |-> FactsOfWords(<<"two", "shahed", "flies", "towards">>),
   rumour     |-> FactsOf(Text(<<"hedge", "flies", "Hlobyne", "/", "Poltavu">>), Text(<<"missile">>)),
   downed     |-> FactsOfWords(<<"shahed", "downed", ",", "not", "flies">>),
   another    |-> FactsOfWords(<<"downed", ",", "one", "flies">>),
   clear      |-> FactsOfWords(<<"flew", ",", "clear">>),
   alert      |-> FactsOfWords(<<"alert_official">>),
   allClear   |-> FactsOfWords(<<"clear_official", ".", "Kremenchuk", ",", "Hlobyne", ",", "Poltavu">>),
   clearSoon  |-> FactsOfWords(<<"clear_expected">>),
   alertSoon  |-> FactsOfWords(<<"alert_expected", "missile">>),
   aftermath  |-> FactsOfWords(<<"aftermath", "explosions", "shahed">>),
   advert     |-> FactsOfWords(<<"payment", "shahed">>)]

\* What the lexicon reads in them, in full, so that the instance holds values and no
\* computation.
MCFacts ==
  [flies      |-> [Silence EXCEPT !.heading = "towards", !.own = "shahed", !.moveAt = 4, !.quantity = "2"],
   rumour     |-> [Silence EXCEPT !.reply = "missile", !.places = "passing", !.hedged = TRUE, !.moveAt = 3],
   downed     |-> [Silence EXCEPT !.own = "shahed", !.downedAt = 2],
   another    |-> [Silence EXCEPT !.moveAt = 4, !.downedAt = 1, !.quantity = "1"],
   clear      |-> [Silence EXCEPT !.moveAt = 1, !.clearAt = 3],
   alert      |-> [Silence EXCEPT !.alertOfficial = TRUE],
   allClear   |-> [Silence EXCEPT !.places = "passing", !.clearOfficial = TRUE, !.clearAt = 1],
   clearSoon  |-> [Silence EXCEPT !.forecast = "clear_expected"],
   alertSoon  |-> [Silence EXCEPT !.forecast = "alert_expected", !.own = "missile"],
   aftermath  |-> [Silence EXCEPT !.aftermath = TRUE, !.own = "shahed", !.explosions = TRUE],
   advert     |-> [Silence EXCEPT !.noise = TRUE, !.own = "shahed"]]

ASSUME FactsOfTheWords == MCFacts = WordsRead

\* Sentences of the tests of packages/geo: the stops of their routes, and how they
\* relate the threat to a place.
StopsIn(words) == LET r == Route(Text(words)) IN IF r = Nothing THEN <<>> ELSE [k \in DOMAIN r |-> r[k].placeId]

Relations(words) ==
  LET found == PlaceCandidates(Text(words))
  IN  [k \in DOMAIN found |-> <<found[k].placeId, found[k].relation>>]

ASSUME RoutesOfTheTests ==
  /\ StopsIn(<<"Kyiashky", "/", "Kremenchuk">>) = <<Nothing, "kremenchuk">>
  /\ StopsIn(<<"Sadky", ",", "Kremenchuk">>) = <<>>
  /\ StopsIn(<<"Kremenchuk", ",", "Poltavu">>) = <<>>
  /\ StopsIn(<<"Kremenchuk", ",", "Poltavu", ",", "Hlobyne", "i", "na", "water">>)
       = <<"kremenchuk", "poltava", "hlobyne", Nothing>>
  /\ StopsIn(<<"Kremenchuk", "raion", "/", "Poltavu">>) = <<>>

ASSUME RelationsOfTheTests ==
  /\ Relations(<<"na", "Poltavu", "/", "Hlobyne">>) = <<<<"poltava", "towards">>, <<"hlobyne", "towards">>>>
  /\ Relations(<<"na", "Poltavi">>) = <<<<"poltava", "in">>>>
  /\ Relations(<<"na", "/", "povz", "Poltavu">>) = <<<<"poltava", "unknown">>>>
  /\ Relations(<<"u", "m", ".", "Kremenchuk">>) = <<<<"kremenchuk", "in">>>>
  /\ Relations(<<"nad", "Dniprom">>) = <<<<Nothing, "over">>>>
  /\ Relations(<<"Kremenchuk", "raion">>) = <<<<"kremenchuk_raion", "unknown">>>>
  /\ Relations(<<"bilia", "Ivanivka">>) = <<<<Nothing, "near">>>>

-----------------------------------------------------------------------------
Timeline(times, texts) == [p \in 1..3 |-> [at |-> times[p], text |-> texts[p]]]

Rhythms == {<<0, 1, 2>>, <<2, 1, 0>>, <<0, 0, 1>>, <<0, 2, 2>>, <<0, 1, 3>>}

MCTimelines == {Timeline(r, t) : r \in Rhythms, t \in [1..3 -> DOMAIN MCFacts]}

MCWatched == {Timeline(<<0, 1, 2>>, <<"flies", "clear", "flies">>)}

\* A calm and an alarmed answer about up to three posts, and one that is not valid.
Odds(q, choice) == [o \in Options[q] |-> IF o = choice THEN 100 ELSE 0]

SaysOf(threat, n) ==
  [relevant |-> [k \in 1..n |-> IF threat = 40 /\ k = 1 THEN 20 ELSE 80],
   status |-> [q \in Questions |->
                 CASE q = "threat_now" -> threat
                   [] q \in {"explosions", "air_defense"} -> 10
                   [] q = "threat_type" -> [choice |-> "shahed", odds |-> Odds(q, "shahed")]
                   [] q = "direction" -> [choice |-> "unknown", odds |-> Nothing]
                   [] q = "quantity" -> [choice |-> "unknown", odds |-> Odds(q, "unknown")]
                   [] OTHER -> [choice |-> "none", odds |-> Odds(q, "none")]]]

MCAiSays == {SaysOf(threat, n) : threat \in {40, 90, 120}, n \in 1..3}
=============================================================================
