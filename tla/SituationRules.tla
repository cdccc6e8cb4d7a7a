--------------------------- MODULE SituationRules ---------------------------
(***************************************************************************)
(* The free statuses of the Kremenchuk screen                              *)
(* (packages/domain/src/situation/index.ts): what each post of the window  *)
(* says, and which post decides each status.  A text is the facts the      *)
(* lexicon finds in it; positions in it only matter by their order, -1 for *)
(* a phrase that is absent.  Evidence lists are left out.                  *)
(***************************************************************************)
EXTENDS Integers, FiniteSetsExt

CONSTANTS
  NowAge, TrackAge, ForecastAge, ExplicitAge,   \* NOW_MS, TRACK_MS, FORECAST_MS, EXPLICIT_MS
  Facts,      \* texts, each with what the lexicon finds in it
  Nothing

\* KnownThreat, and what a status may say.
KnownThreats == {"jet_shahed", "ballistic", "kab", "missile", "aviation", "shahed"}
Headings == {"towards", "passing", "away"}
Forecasts == {"alert_expected", "clear_expected", "none"}
Amounts == {"1", "2", "3", "4+", "unknown"}
Values == KnownThreats \cup Headings \cup Forecasts \cup Amounts \cup {"downed"}

Findings ==
  [noise: BOOLEAN, aftermath: BOOLEAN, hedged: BOOLEAN,
   own: KnownThreats \cup {Nothing}, reply: KnownThreats \cup {Nothing},
   moveAt: Int, downedAt: Int, clearAt: Int, clearOfficial: BOOLEAN, alertOfficial: BOOLEAN,
   forecast: Forecasts \cup {Nothing}, heading: Headings \cup {Nothing}, places: Headings \cup {Nothing},
   quantity: Amounts \cup {Nothing}, explosions: BOOLEAN, airDefense: BOOLEAN]

ASSUME RulesAssumption ==
  /\ {NowAge, TrackAge, ForecastAge, ExplicitAge} \subseteq Nat
  /\ ExplicitAge <= NowAge /\ NowAge <= ForecastAge /\ ForecastAge <= TrackAge
  /\ Facts \in [DOMAIN Facts -> Findings]

\* No value of a post or of a status is Nothing.
ASSUME RulesNothing ==
  /\ Nothing \notin [value: Values, explicit: BOOLEAN]
  /\ Nothing \notin [top: Nat, s: [value: Values, high: BOOLEAN]]

\* What the lexicon finds in a post that says nothing at all.
Silence ==
  [noise |-> FALSE, aftermath |-> FALSE, hedged |-> FALSE,
   own |-> Nothing, reply |-> Nothing,          \* threat type of the post, of the post it replies to
   moveAt |-> -1, downedAt |-> -1, clearAt |-> -1,
   clearOfficial |-> FALSE, alertOfficial |-> FALSE,
   forecast |-> Nothing,                        \* "none" for a negated one
   heading |-> Nothing, places |-> Nothing,     \* direction by the words, by the places
   quantity |-> Nothing, explosions |-> FALSE, airDefense |-> FALSE]

-----------------------------------------------------------------------------
(* What one post says *)

\* "1 мінус, ще 1 летить" still flies, "летіли, тепер чисто" is over.
Flying(t) == t.moveAt > Max({t.downedAt, t.clearAt})

Over(t) == ~Flying(t) /\ (t.downedAt >= 0 \/ t.clearAt >= 0 \/ t.forecast = "clear_expected")

Cleared(t) == ~Flying(t) /\ t.clearAt >= 0 /\ t.downedAt < 0

Threatens(t) == Flying(t) \/ (~Over(t) /\ (t.own # Nothing \/ t.alertOfficial))

Says(v, explicit) == [value |-> v, explicit |-> explicit]

TypeCue(t) ==
  CASE t.own # Nothing -> Says(t.own, TRUE)
    [] t.own = Nothing /\ Threatens(t) /\ t.reply # Nothing -> Says(t.reply, FALSE)
    [] t.own = Nothing /\ Cleared(t) -> Says("none", TRUE)
    [] OTHER -> Nothing

DirectionCue(t) ==
  CASE ~Flying(t) /\ t.downedAt >= 0 -> Says("downed", TRUE)
    [] Cleared(t) -> Says("none", TRUE)
    [] Threatens(t) /\ t.heading # Nothing -> Says(t.heading, TRUE)
    [] Threatens(t) /\ t.heading = Nothing /\ t.places # Nothing -> Says(t.places, FALSE)
    [] OTHER -> Nothing

QuantityCue(t) ==
  CASE Cleared(t) -> Says("unknown", FALSE)
    [] ~Cleared(t) /\ t.quantity # Nothing -> Says(t.quantity, t.quantity # "unknown")
    [] OTHER -> Nothing

\* An official alert or all-clear fulfils whatever was expected.
ForecastCue(t) ==
  CASE t.alertOfficial \/ t.clearOfficial -> Says("none", TRUE)
    [] ~(t.alertOfficial \/ t.clearOfficial) /\ t.forecast # Nothing -> Says(t.forecast, TRUE)
    [] OTHER -> Nothing

\* News of consequences say nothing of the sky now.
Cues(t) ==
  [threat     |-> ~t.aftermath /\ Threatens(t),
   stop       |-> ~t.aftermath /\ Over(t),
   threatType |-> IF t.aftermath THEN Nothing ELSE TypeCue(t),
   direction  |-> IF t.aftermath THEN Nothing ELSE DirectionCue(t),
   quantity   |-> IF t.aftermath THEN Nothing ELSE QuantityCue(t),
   forecast   |-> IF t.aftermath THEN Nothing ELSE ForecastCue(t),
   explosions |-> t.explosions, airDefense |-> t.airDefense, hedged |-> t.hedged]

CuesOf == [x \in DOMAIN Facts |-> Cues(Facts[x])]

-----------------------------------------------------------------------------
(* The window: a function of post numbers, in the order of the query, to    *)
(* [at, text].                                                               *)

\* isNoise: ads and chit-chat.
Noise == {x \in DOMAIN Facts : Facts[x].noise}

Relevant(window) == {p \in DOMAIN window : window[p].text \notin Noise}

\* The posts young enough to count, each with its cues and its age.
Tracked(window, now) ==
  LET Age(p) == Max({0, now - window[p].at})
  IN  [p \in {q \in Relevant(window) : Age(q) <= TrackAge} |->
         [cues |-> CuesOf[window[p].text], age |-> Age(p)]]

\* The order of the sort by age, which keeps the order of the query.
Newer(posts, p, q) ==
  posts[p].age < posts[q].age \/ (posts[p].age = posts[q].age /\ p < q)

Newest(posts, S) == CHOOSE p \in S : \A q \in S \ {p} : Newer(posts, p, q)

Status(v, high) == [value |-> v, high |-> high]
Low(v) == Status(v, FALSE)

\* One post is enough for high confidence when it is explicit, fresh and not hedged.
Sure(post, explicit) == explicit /\ ~post.cues.hedged /\ post.age <= ExplicitAge

\* latest: the newest post that carries a value decides, those that agree support it.
Latest(posts, maxAge, cue) ==
  LET carrying == {p \in DOMAIN posts : posts[p].age <= maxAge /\ posts[p].cues[cue] # Nothing}
      top      == Newest(posts, carrying)
      said     == posts[top].cues[cue]
      agreeing == {p \in carrying : posts[p].cues[cue].value = said.value}
  IN  IF carrying = {} THEN Nothing
      ELSE [top |-> top,
            s |-> Status(said.value,
                         /\ said.value \notin {"none", "unknown"}
                         /\ Cardinality(agreeing) >= 2 \/ Sure(posts[top], said.explicit))]

\* flag: explosions and air defense of the last quarter of an hour.
FlagOf(posts, cue) ==
  LET hits == {p \in DOMAIN posts : posts[p].age <= NowAge /\ posts[p].cues[cue]}
  IN  IF hits = {} THEN Low(FALSE)
      ELSE Status(TRUE, Cardinality(hits) >= 2 \/ Sure(posts[Newest(posts, hits)], TRUE))

\* Fault: a stop counts only while it is fresh enough to be explicit.
StopsWhileFresh(posts) == {p \in DOMAIN posts : posts[p].cues.stop /\ posts[p].age <= ExplicitAge}

Stops(posts) == {p \in DOMAIN posts : posts[p].cues.stop}

\* A recent threat that no newer post answers.
Live(posts) ==
  {p \in DOMAIN posts : /\ posts[p].age <= NowAge /\ posts[p].cues.threat
                        /\ \A q \in Stops(posts) : Newer(posts, p, q)}

ThreatNow(posts) ==
  LET live == Live(posts)
      top  == posts[Newest(posts, live)]
      type == top.cues.threatType
  IN  IF live = {} THEN Low(FALSE)
      ELSE Status(TRUE, Cardinality(live) >= 2 \/ Sure(top, type # Nothing /\ type.explicit))

\* Fault: a newer threat that says nothing of it voids no type and no direction.
TrackedAlways(posts, cue) ==
  LET hit     == Latest(posts, TrackAge, cue)
      threats == {p \in DOMAIN posts : posts[p].cues.threat}
  IN  CASE hit # Nothing -> hit.s
        [] OTHER -> IF threats = {} THEN Low("none") ELSE Low("unknown")

\* Type and direction: after an all-clear or a downing, a newer threat makes them unknown.
TrackedStatus(posts, cue) ==
  LET hit     == Latest(posts, TrackAge, cue)
      threats == {p \in DOMAIN posts : posts[p].cues.threat}
      voided  == /\ hit.s.value \in {"none", "downed"}
                 /\ \E p \in threats : posts[p].age < posts[hit.top].age
  IN  CASE hit # Nothing /\ ~voided -> hit.s
        [] OTHER -> IF threats = {} THEN Low("none") ELSE Low("unknown")

\* The newest forecast, unless a newer post contradicts it.
ForecastStatus(posts) ==
  LET said == Latest(posts, ForecastAge, "forecast")
      contrary == {p \in DOMAIN posts :
                     /\ posts[p].age < posts[said.top].age
                     /\ CASE said.s.value = "clear_expected" -> posts[p].cues.threat
                          [] said.s.value = "alert_expected" -> posts[p].cues.stop
                          [] OTHER -> FALSE}
  IN  IF said = Nothing THEN Low("none")
      ELSE IF contrary # {} THEN Low("none") ELSE said.s

RulesSituation(window, now) ==
  LET posts == Tracked(window, now)
      count == Latest(posts, TrackAge, "quantity")
  IN  [threatNow  |-> ThreatNow(posts),
       threatType |-> TrackedStatus(posts, "threatType"),
       direction  |-> TrackedStatus(posts, "direction"),
       quantity   |-> IF count = Nothing THEN Low("unknown") ELSE count.s,
       forecast   |-> ForecastStatus(posts),
       explosions |-> FlagOf(posts, "explosions"),
       airDefense |-> FlagOf(posts, "airDefense")]
=============================================================================
