------------------------- MODULE MCOperatorCommands -------------------------
(* Instances of OperatorCommands with the policy before it and the feed behind it:   *)
(* two incidents, of three claims and of one.                                        *)
EXTENDS IncidentFeed, ClaimExtraction, TLC

CONSTANTS c1, c2, c3, c4, src, msg, other, rev, adm, view, s1, s2, k1, k2

MCRankOf == (rev :> 1) @@ (adm :> 2) @@ (view :> 0)
MCFirstEvidence == (1 :> {c1, c2, c4}) @@ (2 :> {c3}) @@ (3 :> {})
MCMessageOf == (c1 :> msg) @@ (c2 :> msg) @@ (c3 :> other) @@ (c4 :> other)

MCPublishedAt == (c1 :> 3) @@ (c2 :> 3) @@ (c3 :> 2) @@ (c4 :> 2)

Cmd(action, actor, entity) ==
  [action |-> action, actor |-> actor, entity |-> entity, target |-> Nothing, claims |-> {}]

\* Opposite merges, a split, a review of a claim that is split off, and of a viewer
\* who may do nothing.
MCTemplate ==
  {[Cmd("merge", rev, 1) EXCEPT !.target = 2], [Cmd("merge", rev, 2) EXCEPT !.target = 1],
   [Cmd("split", rev, 1) EXCEPT !.claims = {c1, c2}],
   Cmd("exclude", rev, c1), Cmd("confirm", view, c1),
   Cmd("pause", adm, src), Cmd("resume", rev, src), Cmd("reprocess", rev, msg)}

-----------------------------------------------------------------------------
(* The words of the posts *)

MCTerms == ("shahed" :> "uav") @@ ("drone" :> "uav") @@ ("missile" :> "missile") @@ ("kab" :> "kab") @@ ("bomber" :> "aviation")
MCAmounts == ("two" :> 2) @@ ("three" :> 3) @@ ("group" :> None)

Relative(word) == [kind |-> "relative", word |-> word]
Clock(minute) == [kind |-> "clock", minute |-> minute]
Date(day, year) == [kind |-> "date", day |-> day, days |-> 1, year |-> year]
MCTimeWords ==
  ("now" :> Relative("now")) @@ ("just_now" :> Relative("just_now")) @@ ("night" :> Relative("night")) @@
  ("yesterday" :> Relative("yesterday")) @@ ("tomorrow" :> Relative("tomorrow")) @@
  ("0:10" :> Clock(10)) @@ ("23:50" :> Clock(1430)) @@ ("12:00" :> Clock(720)) @@ ("31 Dec" :> Date(364, None)) @@ ("1 Jan 0" :> Date(0, 0))

\* Kyiv is 120 minutes ahead, 180 from 03:00 of day 400 on.
MCKyivToUtc(day, minute) == LET m == day * 1440 + minute IN m - (IF m >= 400 * 1440 + 180 THEN 180 ELSE 120)

Line(mark, words) == [mark |-> mark, words |-> words]
Plain(words) == Line("none", words)

\* The instant of the posts: 00:05 of the first day of the second year.
Today == 365
Now == MCKyivToUtc(Today, 5)

\* Every text of up to three lines, in one paragraph or two.
Lines == {Plain(<<>>), Plain(<<"footer">>), Plain(<<"no", "missile">>), Line("bullet", <<"two", "shahed">>),
          Line("bullet", <<"subscribe">>), Line("arrow", <<"city">>)}
Paragraphs == UNION {[1..n -> Lines] : n \in 1..3}
Texts == {<<p>> : p \in Paragraphs} \cup {<<p, q>> : p \in [1..2 -> Lines], q \in [1..2 -> Lines]}

\* However a text is split, no threat that it names is lost, none is found twice in the
\* bodies of two fragments, and none appears that the text denies.
ASSUME SplitKeepsTheThreats ==
  \A text \in Texts :
    LET found == ExtractClaims(text, Today, Now).fragments
    IN  UNION {found[n].types : n \in DOMAIN found} = Types(LinesIn(text)) /\ "missile" \notin Types(LinesIn(text))

\* A marked line never shares a fragment with another.
ASSUME MarkedLinesStandAlone ==
  \A text \in Texts :
    LET found == ExtractClaims(text, Today, Now).fragments
    IN  Len(found) > 1 => \A n \in DOMAIN found :
          ~IsList(SetToSeq(found[n].lines)) \/ Cardinality({l \in found[n].lines : Marked(l)}) = 1

TimeOf(words, i) == Interval(Plain(words), i, Today, Now)
AboutTime(words, i) == About(Plain(words), i, Today, Now)

\* Sentences of the tests: around midnight and the turn of the year.
ASSUME TimesOfTheTests ==
  /\ AboutTime(<<"23:50">>, 1) = "present" /\ AboutTime(<<"0:10">>, 1) = "present"
  /\ AboutTime(<<"12:00">>, 1) = "future" /\ AboutTime(<<"tomorrow", "12:00">>, 2) = "future"
  /\ TimeOf(<<"31 Dec">>, 1)[2] = MCKyivToUtc(365, 0) /\ AboutTime(<<"31 Dec">>, 1) = "present"
  /\ AboutTime(<<"31 Dec", "12:00">>, 2) = "past" /\ AboutTime(<<"1 Jan 0">>, 1) = "past"
  /\ AboutTime(<<"night">>, 1) = "present" /\ AboutTime(<<"yesterday", "23:50">>, 2) = "present"

-----------------------------------------------------------------------------
(* One channel: a post that names its place, a reply to it that names none, and a  *)
(* post that lists what flies towards a place, and asks for donations.             *)

Post(id, at, replyTo) == [source |-> src, id |-> id, at |-> at, replyTo |-> replyTo]
Posts == {Post(1, 0, None), Post(2, 2, 1), Post(3, 3, None)}

TextOf ==
  (1 :> <<<<Plain(<<"shahed", "over", "city">>)>>>>) @@
  (2 :> <<<<Plain(<<"two", "shahed", "now">>)>>, <<Plain(<<"missile", "hit", "yesterday", "12:00">>)>>>>) @@
  (3 :> <<<<Plain(<<"to", "city">>), Line("bullet", <<"shahed">>), Line("bullet", <<"donate", "drone">>)>>>>)

PostOf == (c1 :> Post(3, 3, None)) @@ (c2 :> Post(3, 3, None)) @@ (c3 :> Post(2, 2, 1)) @@ (c4 :> Post(2, 2, 1))
FragmentNo == (c1 :> 1) @@ (c2 :> 2) @@ (c3 :> 1) @@ (c4 :> 2)

\* A place, and whether it is only a heading.
Mentions(lines) ==
  UNION {{[place |-> "city", direction |-> "to" \in ToSet(l.words)] : i \in {k \in DOMAIN l.words : l.words[k] = "city"}} : l \in lines}

\* What the model answers about each fragment.
Kinds == (c1 :> "threat_report") @@ (c2 :> "advertisement") @@ (c3 :> "threat_report") @@ (c4 :> "aftermath")
TypeSaid == (c1 :> "uav") @@ (c2 :> "uav") @@ (c3 :> "uav") @@ (c4 :> "missile")

PolicyInput ==
  [c \in Claim |->
     LET post == PostOf[c]
         extraction == ExtractClaims(TextOf[post.id], Today, Now)
         fragment == extraction.fragments[FragmentNo[c]]
         context == Context(post, Posts, post.at)
         place == ResolvePlace(Mentions(fragment.lines),
                               UNION {Mentions(LinesIn(TextOf[p.id])) : p \in context.replyParent}, None)
     IN  [kind |-> Kinds[c], score |-> 95, margin |-> 90, needsReview |-> extraction.needsReview,
          several |-> FALSE, missingContext |-> context.missingContext, needsContext |-> TRUE,
          conflict |-> fragment.conflict, injection |-> fragment.injection, scope |-> "present",
          times |-> fragment.times, type |-> TypeSaid[c], typeScore |-> 90, typeMargin |-> 80,
          terms |-> fragment.types, spans |-> fragment.lines, closure |-> fragment.closures # {},
          basis |-> place.basis]]

ASSUME Splits ==
  \A n \in 1..3 : ~ExtractClaims(TextOf[n], Today, Now).needsReview

\* The same in full, so that the instance holds values and no computation.
Sure ==
  [score |-> 95, margin |-> 90, needsReview |-> FALSE, several |-> FALSE, missingContext |-> FALSE,
   needsContext |-> TRUE, conflict |-> FALSE, injection |-> FALSE, scope |-> "present",
   typeScore |-> 90, typeMargin |-> 80, closure |-> FALSE]

Stated(kind, type, times, basis, lines) ==
  [kind |-> kind, type |-> type, terms |-> {type}, times |-> times, basis |-> basis, spans |-> lines] @@ Sure

MCInput ==
  (c1 :> Stated("threat_report", "uav", {}, "unresolved", {Plain(<<"to", "city">>), Line("bullet", <<"shahed">>)})) @@
  (c2 :> Stated("advertisement", "uav", {}, "unresolved", {Plain(<<"to", "city">>), Line("bullet", <<"donate", "drone">>)})) @@
  (c3 :> Stated("threat_report", "uav", {"present"}, "reply_context", {Plain(<<"two", "shahed", "now">>)})) @@
  (c4 :> Stated("aftermath", "missile", {"past", "present"}, "reply_context", {Plain(<<"missile", "hit", "yesterday", "12:00">>)}))

ASSUME InputsOfThePosts == MCInput = PolicyInput

MCFirstDecision == (c1 :> "review") @@ (c2 :> "exclude") @@ (c3 :> "publish") @@ (c4 :> "publish")
=============================================================================
