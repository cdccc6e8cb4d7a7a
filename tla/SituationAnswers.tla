-------------------------- MODULE SituationAnswers --------------------------
(***************************************************************************)
(* What the answers of the AI say of the window: their validation          *)
(* (packages/ai/src/evaluator.ts, toAssessments, and again in              *)
(* packages/ai/src/situation/index.ts, validate) and their translation     *)
(* into statuses and the posts that are relevant.  Probabilities are       *)
(* percentages; the evidence lists of the statuses are left out.           *)
(***************************************************************************)
EXTENDS SituationRules, Functions

\* The options of each choice.
Options ==
  [threat_type |-> {"shahed", "jet_shahed", "missile", "ballistic", "kab", "aviation", "unknown", "none"},
   direction   |-> {"towards", "passing", "away", "downed", "unknown", "none"},
   quantity    |-> {"1", "2", "3", "4+", "unknown"},
   forecast    |-> {"alert_expected", "clear_expected", "none"}]

Questions == DOMAIN Options \cup {"threat_now", "explosions", "air_defense"}

Percent == 0..100

\* Providers round distributions.
SumTolerance == 1

\* A distribution over all options that peaks at the chosen one; it may be missing.
ChoiceAnswer(q, a) ==
  /\ a.choice \in Options[q]
  /\ a.odds # Nothing =>
       /\ DOMAIN a.odds = Options[q] /\ Range(a.odds) \subseteq Percent
       /\ MapThenSumSet(LAMBDA o : a.odds[o], Options[q]) \in (100 - SumTolerance)..(100 + SumTolerance)
       /\ a.odds[a.choice] = Max(Range(a.odds))

\* toAssessments: one answer of the schema per question asked, about the statuses and
\* about each post; anything else is refused as a whole.
Accepted(answers, posts) ==
  /\ DOMAIN answers.status = Questions
  /\ \A q \in Questions :
       IF q \in DOMAIN Options THEN ChoiceAnswer(q, answers.status[q]) ELSE answers.status[q] \in Percent
  /\ answers.relevant \in [1..posts -> Percent]

\* A missing distribution becomes an empty one.
ToAssessments(answers) ==
  [answers EXCEPT !.status =
     [q \in Questions |-> IF q \in DOMAIN Options /\ answers.status[q].odds = Nothing
                          THEN [answers.status[q] EXCEPT !.odds = <<>>] ELSE answers.status[q]]]

\* validate, once more: a distribution names options only, and one that is there
\* sums to 1 and peaks at the selected option.
ValidChoice(q, a) ==
  /\ a.choice \in Options[q] /\ DOMAIN a.odds \subseteq Options[q] /\ Range(a.odds) \subseteq Percent
  /\ a.odds # <<>> =>
       /\ MapThenSumSet(LAMBDA o : a.odds[o], DOMAIN a.odds) \in (100 - SumTolerance)..(100 + SumTolerance)
       /\ a.choice \in DOMAIN a.odds /\ a.odds[a.choice] = Max(Range(a.odds))

Valid(assessments, posts) ==
  /\ DOMAIN assessments.status = Questions
  /\ \A q \in Questions :
       IF q \in DOMAIN Options THEN ValidChoice(q, assessments.status[q]) ELSE assessments.status[q] \in Percent
  /\ assessments.relevant \in [1..posts -> Percent]

BooleanHigh == 85
ChoiceTop == 75
ChoiceMargin == 20

BooleanStatus(p) == Status(p >= 50, p >= BooleanHigh \/ p <= 100 - BooleanHigh)

\* With an empty distribution an answer is not confident.
ChoiceStatus(a) ==
  LET others == {a.odds[o] : o \in DOMAIN a.odds \ {a.choice}}
  IN  Status(a.choice,
             /\ a.choice \in DOMAIN a.odds
             /\ a.odds[a.choice] >= ChoiceTop
             /\ a.odds[a.choice] - Max({0} \cup others) >= ChoiceMargin)

RelevantAt == 50

\* The posts are numbered in publish order.
Number(window, posts, p) ==
  Cardinality({q \in posts : window[q].at < window[p].at \/ (window[q].at = window[p].at /\ q <= p)})

\* The posts that the answers find relevant.
RelevantOf(answers, window, posts) ==
  {p \in posts : answers.relevant[Number(window, posts, p)] >= RelevantAt}

InterpretSituation(answers) ==
  LET said == answers.status
  IN  [threatNow  |-> BooleanStatus(said.threat_now),
       threatType |-> ChoiceStatus(said.threat_type),
       direction  |-> ChoiceStatus(said.direction),
       quantity   |-> ChoiceStatus(said.quantity),
       forecast   |-> ChoiceStatus(said.forecast),
       explosions |-> BooleanStatus(said.explosions),
       airDefense |-> BooleanStatus(said.air_defense)]
=============================================================================
