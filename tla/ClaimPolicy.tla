----------------------------- MODULE ClaimPolicy -----------------------------
(***************************************************************************)
(* What decides whether a claim is published without an operator:          *)
(* the context of its post (packages/domain/src/claims/context.ts), its    *)
(* place and the publication policy (packages/domain/src/claims/policy.ts).*)
(* Pure functions.  Probabilities are percentages, and of the uncertainty  *)
(* labels only those are kept that the decision rests on.                  *)
(***************************************************************************)
EXTENDS Integers, FiniteSets

CONSTANTS
  ContextWindow, MaxPrior,    \* contextWindowMs, maxPriorPosts
  Threshold, MinMargin,       \* defaultThreshold, minMargin
  None                        \* no answer, no place, no reply

ASSUME PolicyAssumption == {ContextWindow, MaxPrior, Threshold, MinMargin} \subseteq Nat

-----------------------------------------------------------------------------
(* selectContext *)

\* Ids grow within a channel: they order the posts of one moment.
Before(p, q) == p.at < q.at \/ (p.at = q.at /\ p.id < q.id)

\* The post replied to, and the newest of the posts shortly before.
Context(post, candidates, now) ==
  LET earlier == {p \in candidates : p.source = post.source /\ Before(p, post) /\ p.at <= now}
      parent == {p \in earlier : p.id = post.replyTo}
      eligible == {p \in earlier \ parent : p.at >= post.at - ContextWindow}
      prior == {p \in eligible : Cardinality({q \in eligible : Before(p, q)}) < MaxPrior}
  IN  [replyParent |-> parent, prior |-> prior, truncated |-> prior # eligible,
       missingContext |-> post.replyTo # None /\ parent = {}]

-----------------------------------------------------------------------------
(* resolvePlace *)

\* A heading is no location; a mention of several possible places is None.
Located(mentions) == {m.place : m \in {x \in mentions : ~x.direction}}

\* The one place that the mentions agree on.
Only(mentions) ==
  IF Cardinality(Located(mentions)) = 1 THEN CHOOSE p \in Located(mentions) : TRUE ELSE None

\* An explicit place, else the reply parent's, else the channel's; never a guess among several.
ResolvePlace(explicit, replyParent, channelDefault) ==
  CASE Only(explicit) # None -> [place |-> Only(explicit), basis |-> "explicit"]
    [] Located(explicit) = {} /\ Only(replyParent) # None
         -> [place |-> Only(replyParent), basis |-> "reply_context"]
    [] Located(explicit) = {} /\ Only(replyParent) = None /\ channelDefault # None
         -> [place |-> channelDefault, basis |-> "channel_default"]
    [] OTHER -> [place |-> None, basis |-> "unresolved"]

-----------------------------------------------------------------------------
(* decidePublication *)

CURRENT == {"threat_report", "alert_claim", "clear_claim"}
RELEVANT == CURRENT \cup {"aftermath"}
EXCLUDABLE == {"advertisement", "fundraising", "background_news", "other"}

\* The reasons about the answers: x is the DecisionInput, `times` what its times are about.
AnswerDoubts(x) ==
  LET found ==
        [no_kind_assessment |-> x.kind = None,
         below_threshold |-> x.score < Threshold,
         small_margin |-> x.margin < MinMargin,
         multi_claim_unsplit |-> x.needsReview \/ x.several,
         missing_context |-> x.missingContext /\ x.needsContext,
         conflict |-> x.conflict,
         suspected_prompt_injection |-> x.injection,
         future_time |-> x.kind \in RELEVANT /\ (x.scope = "future" \/ "future" \in x.times),
         past_time |-> x.kind \in CURRENT /\ (x.scope = "past" \/ x.times = {"past"})]
  IN  {r \in DOMAIN found : found[r]}

\* The reasons about the evidence of a relevant kind: a named type needs its own term in
\* the text and a confident answer.
EvidenceDoubts(x) ==
  LET named == x.type \notin {None, "unknown"}
      found ==
        [missing_evidence |-> \/ x.spans = {} \/ (named /\ x.type \notin x.terms)
                              \/ (x.kind = "clear_claim" /\ ~x.closure),
         uncertain_threat_type |-> named /\ (x.typeScore < Threshold \/ x.typeMargin < MinMargin),
         unresolved_geo |-> x.basis = "unresolved"]
  IN  {r \in DOMAIN found : found[r]}

Confident(x) == x.kind # None /\ x.score >= Threshold /\ x.margin >= MinMargin

Answered(x) == x.kind # None /\ ~x.injection

\* The decision; without a classification, or with an instruction to the model, never an automatic one.
DecidePublication(x) ==
  CASE Answered(x) /\ x.kind \in EXCLUDABLE /\ Confident(x) /\ ~x.several -> "exclude"
    [] Answered(x) /\ x.kind \in RELEVANT /\ AnswerDoubts(x) \cup EvidenceDoubts(x) = {} -> "publish"
    [] OTHER -> "review"
=============================================================================
