---------------------------- MODULE IncidentFeed ----------------------------
(***************************************************************************)
(* What the public API shows of the incidents while operators work on them *)
(* (packages/db/src/repos/read, apps/api/src/routes/public): one page of   *)
(* GET /v1/incidents, the cursor of the next one, and GET /v1/incidents/id.*)
(* A response is one repeatable-read snapshot, so it is a function of the  *)
(* state; a reader's next page is read in a later state.  The columns that *)
(* no command changes (area, kind, lifecycle, mode) only choose a subset   *)
(* of the incidents, and are left out.                                     *)
(***************************************************************************)
EXTENDS OperatorCommands, ClaimPolicy

CONSTANTS
  MessageOf,    \* the message of each claim
  Input,        \* what the policy was given about each claim
  Limit         \* rows of a page

ASSUME FeedAssumption ==
  /\ MessageOf \in [Claim -> Message]
  /\ DOMAIN Input = Claim
  /\ \A c \in Claim : Input[c].kind # None => {Input[c].score, Input[c].margin} \subseteq 0..100
  /\ FirstDecision = [c \in Claim |-> DecidePublication(Input[c])]
  /\ Limit \in Nat \ {0}

-----------------------------------------------------------------------------
(* listIncidents and getIncident *)

\* publicClaim: no excluded or review-only claim, and none of a deleted post.
PublicClaim(c) == decision[c] = "publish" /\ MessageOf[c] \notin deleted

\* hasPublicEvidence
PublicEvidence(i) == {c \in Active(i) : PublicClaim(c)}

\* Without a range the live incidents; with one, those that overlap [from, to].
InRange(i, range) ==
  range # Nothing => span[i].last >= range.from /\ span[i].first <= range.to

Rows(range) == {i \in alive : InRange(i, range) /\ PublicEvidence(i) # {}}

\* The cursor of a row, exact to the microsecond.
KeyOf(i) == [t |-> span[i].last, id |-> i]

\* order by last_evidence_at desc, id desc
After(i, key) == span[i].last < key.t \/ (span[i].last = key.t /\ i < key.id)

\* The rows that follow a cursor; all of them, without one.
Rest(range, cursor) == {i \in Rows(range) : cursor # Nothing => After(i, cursor)}

\* incidentGeoBasis: the strongest of the bases.
GeoStrength == <<"explicit", "reply_context", "channel_default", "unresolved">>
GeoBasis(bases) == GeoStrength[Min({k \in DOMAIN GeoStrength : GeoStrength[k] \in bases})]

\* withEvidenceStats: what a list says of an incident rests on its public claims alone.
Item(i) ==
  LET cs == PublicEvidence(i)
  IN  [incident |-> i, types |-> {Input[c].type : c \in cs}, basis |-> GeoBasis({Input[c].basis : c \in cs}),
       first |-> span[i].first, last |-> span[i].last, revision |-> version[i]]

\* GET /v1/incidents: an empty range is refused (the 31 days it may span are more
\* than passes here).
Accepts(range) == range = Nothing \/ range.from < range.to

Precedes(i, j) == After(j, KeyOf(i))

\* One page, a set in this order; `next` when more rows follow.
Page(range, cursor) ==
  LET rows == Rest(range, cursor)
      page == {i \in rows : Cardinality({j \in rows : Precedes(j, i)}) < Limit}
      last == CHOOSE i \in page : \A j \in page \ {i} : Precedes(j, i)
  IN  [items |-> {Item(i) : i \in page}, next |-> IF page # rows THEN KeyOf(last) ELSE Nothing]

\* getIncident: every public claim ever linked, while the incident is public.
Detail(i) ==
  IF i \in Rows(Nothing) THEN {c \in Claim : evidence[i][c] # "none" /\ PublicClaim(c)} ELSE {}

-----------------------------------------------------------------------------
(* reviewQueue *)

\* The incident an operator is shown beside a claim: the newest in which it is active.
Linked(c) ==
  LET homes == {i \in alive : c \in Active(i)}
  IN  IF homes = {} THEN Nothing ELSE CHOOSE i \in homes : \A j \in homes : span[j].last <= span[i].last

\* The claims left for review, but for those of deleted posts.
Waiting == {c \in Claim : decision[c] = "review" /\ MessageOf[c] \notin deleted}

\* The first n of them, the newest first: the order within one moment is left out.
ReviewQueue(n) ==
  LET newer(c) == {d \in Waiting : PublishedAt[d] > PublishedAt[c]}
  IN  {[claim |-> c, incident |-> Linked(c)] : c \in {d \in Waiting : Cardinality(newer(d)) < n}}

-----------------------------------------------------------------------------
(* Properties *)

\* The ranges a reader may ask for, at the times of the claims and just after.
Ranges ==
  LET ends == UNION {{PublishedAt[c], PublishedAt[c] + 1} : c \in Claim}
  IN  {r \in {Nothing} \cup [from: ends, to: ends] : Accepts(r)}

\* A reader who follows the cursors while operators merge, split, review and delete is
\* shown no incident twice, and misses none that is public throughout with its evidence
\* unchanged: a cursor compares exactly as the rows are ordered, and no command moves
\* an incident down behind a cursor.
PagesAcrossWrites ==
  [][tables' # tables => \A range \in Ranges :
       LET page == Page(range, Nothing)
           shown == {x.incident : x \in page.items}
           before == Rows(range)
       IN  page.next # Nothing =>
             \A cursor \in {page.next} :
               /\ shown \cap Rest(range, cursor)' = {}
               /\ \A i \in before \ shown :
                    i \in Rows(range)' /\ span[i] = span'[i] => i \in Rest(range, cursor)']_vars

\* A verdict of an operator's that makes c public: a confirmation, or a split that
\* separated what the policy had left for review.
Confirmed(c) ==
  \E a \in applied :
    /\ c \in a.rows
    /\ a.req.cmd.action = "confirm" \/ (a.req.cmd.action = "split" /\ FirstDecision[c] = "review")

\* What the policy asks for: a confident answer about the present in words that are the
\* post's own, about one thing at one known place, and nobody's instruction to the model.
Vouched(x) ==
  /\ x.kind \in RELEVANT /\ Confident(x)
  /\ x.basis # "unresolved" /\ x.spans # {}
  /\ ~x.injection /\ ~x.conflict /\ ~x.several /\ ~x.needsReview
  /\ "future" \notin x.times /\ x.scope # "future"

\* Nothing is public, in a list or in the detail of an incident, but what the policy vouches
\* for or an operator has confirmed: no merge or split brings an excluded claim back,
\* whatever they do to the incident around it.  And what the policy doubts is not lost
\* either: it waits in the queue, in its incident unless retention took that, until an operator has
\* judged it or its post is deleted.
PublicIsVouched ==
  LET queue == ReviewQueue(Cardinality(Claim))
      shown == UNION {PublicEvidence(i) \cup Detail(i) : i \in Incident}
  IN  /\ \A c \in shown : Vouched(Input[c]) \/ Confirmed(c)
      /\ \A c \in Claim :
           FirstDecision[c] = "review" /\ MessageOf[c] \notin deleted /\ ~(\E a \in applied : c \in a.rows)
           => \E x \in queue :
                /\ x.claim = c
                /\ x.incident = Nothing => expired # {} \/ \A i \in alive : evidence[i][c] = "none"
=============================================================================
