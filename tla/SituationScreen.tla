-------------------------- MODULE SituationScreen --------------------------
(***************************************************************************)
(* From the posts and the alert row to the tile in a browser: the rules    *)
(* and AI snapshots of the window, GET /v1/situation                       *)
(* (apps/api/src/routes/public/situation.ts), its ETag, and the poll of    *)
(* the web client (apps/web/src/features/situation/api.ts) with requests   *)
(* that are superseded, lost, slow or failed.  How the loop schedules its  *)
(* evaluations is in Situation, how the row is kept in NeptunAlerts.       *)
(***************************************************************************)
EXTENDS SituationAnswers

CONSTANTS
  AlertStale, AlertUnknown,     \* ALERT_STALE_AFTER_MS, ALERT_UNKNOWN_AFTER_MS
  EvalStale, EvalUnknown,       \* EVALUATION_FRESHNESS
  VisiblePoll, HiddenPoll, RequestTimeout, MaxAge,    \* of the web client
  Timelines,      \* windows: what is posted, and when
  Watched,        \* those during which a browser may have the screen open
  AiSays,         \* what the AI may answer
  FeedAge, FeedSize,            \* FEED_WINDOW_MS, FEED_SIZE
  MaxTime, MaxConfirms, MaxEvaluations, MaxRefreshes  \* bounds

\* A timeline numbers its posts in the order of the query.
ASSUME TimelinesAssumption ==
  \A t \in Timelines :
    /\ IsFiniteSet(DOMAIN t) /\ DOMAIN t \subseteq Nat
    /\ t \in [DOMAIN t -> [at: Nat, text: DOMAIN Facts]]

ASSUME ScreenAssumption ==
  /\ {AlertStale, AlertUnknown, EvalStale, EvalUnknown} \subseteq Nat
  /\ {VisiblePoll, HiddenPoll, RequestTimeout, MaxAge} \subseteq Nat
  /\ AlertStale <= AlertUnknown /\ EvalStale <= EvalUnknown /\ VisiblePoll <= HiddenPoll
  /\ {FeedAge, FeedSize, MaxTime, MaxConfirms, MaxEvaluations, MaxRefreshes} \subseteq Nat

VARIABLES
  now,
  timeline,    \* the posts of this behaviour
  row,         \* the alert row of the raion
  rules, ai,   \* the newest rules snapshot and the newest AI snapshot
  tab,         \* the hook useSituation of the open screen
  req,         \* its request in flight
  old,         \* a superseded request whose answer may still arrive
  check,       \* the last successful check: when, and what was answered (history)
  confirms, evaluations, refreshes

MaybeTime == Nat \cup {Nothing}

Answers == [tile: {"alert", "threat", "clear", "unknown"}, tileStale: BOOLEAN, alertAt: MaybeTime,
            evaluation: {"fresh", "stale", "unknown"}, evaluatedAt: MaybeTime]

MaybeAnswer == Answers \cup {Nothing}

Requests == [sentAt: Nat, etag: MaybeAnswer, reply: MaybeAnswer, servedAt: MaybeTime]

\* The hook's variables, and the React state data, error, expired.
Tabs == [data: MaybeAnswer, error: BOOLEAN, expired: BOOLEAN, etag: MaybeAnswer,
         failed: BOOLEAN, lastOk: Nat, timer: MaybeTime, visible: BOOLEAN]

Checks == [servedAt: Nat, answer: Answers]

ASSUME NothingAssumption ==
  Nothing \notin Nat /\ Nothing \notin Answers /\ Nothing \notin Requests
  /\ Nothing \notin Tabs /\ Nothing \notin Checks

server == <<row, rules, ai, confirms, evaluations>>
client == <<tab, req, old, check, refreshes>>
vars == <<now, timeline, row, rules, ai, tab, req, old, check, confirms, evaluations, refreshes>>

Posted == {p \in DOMAIN timeline : timeline[p].at <= now}
Window == [p \in Posted |-> timeline[p]]

-----------------------------------------------------------------------------
(* GET /v1/situation *)

Freshness(age, stale, unknown) ==
  CASE age > unknown -> "unknown" [] age > stale /\ age <= unknown -> "stale" [] OTHER -> "fresh"

\* kremenchukAlert, alertDto: a row too old to trust is unknown, as is no row.
KremenchukAlert ==
  IF row = Nothing THEN [state |-> "unknown", freshness |-> "unknown", at |-> Nothing]
  ELSE LET freshness == Freshness(now - row.at, AlertStale, AlertUnknown)
       IN  [state |-> IF freshness = "unknown" THEN "unknown" ELSE row.state,
            freshness |-> freshness, at |-> row.at]

EvaluationFreshness(at) == Freshness(now - at, EvalStale, EvalUnknown)

\* pickCurrent: the AI snapshot while it is not expired and has seen what the rules
\* saw, confirmed as of a later rules run; otherwise the newer one.
PickCurrent ==
  LET Picked(s, at) == [s |-> s, checkedAt |-> at]
      keep == /\ EvaluationFreshness(ai.at) # "unknown"
              /\ rules = Nothing \/ rules.seen \subseteq ai.seen
  IN  CASE ai = Nothing /\ rules = Nothing -> Nothing
        [] ai = Nothing /\ rules # Nothing -> Picked(rules, rules.at)
        [] ai # Nothing /\ rules = Nothing -> Picked(ai, ai.at)
        [] OTHER -> IF keep THEN Picked(ai, Max({ai.at, rules.at}))
                    ELSE IF rules.at >= ai.at THEN Picked(rules, rules.at)
                    ELSE Picked(ai, ai.at)

\* situationTile: NEPTUN decides, channels can only raise inactive to threat.
SituationTile(alert, threat) ==
  CASE alert.state = "active" -> "alert"
    [] alert.state = "unknown" \/ alert.freshness = "unknown" -> "unknown"
    [] OTHER -> IF threat # Nothing /\ threat = Status(TRUE, TRUE) THEN "threat" ELSE "clear"

\* The answer at this moment, as far as the tile goes, and its ETag: two answers have
\* the same version exactly when they are equal.
Answer ==
  LET alert == KremenchukAlert
      cur   == PickCurrent
      fresh == IF cur = Nothing THEN "unknown" ELSE EvaluationFreshness(cur.checkedAt)
      tile  == SituationTile(alert, IF fresh = "unknown" THEN Nothing ELSE cur.s.threatNow)
  IN  [tile |-> tile,
       tileStale |-> alert.freshness = "stale" \/ (tile = "threat" /\ fresh = "stale"),
       alertAt |-> alert.at, evaluation |-> fresh,
       evaluatedAt |-> IF cur = Nothing THEN Nothing ELSE cur.s.at]

\* Fault: whatever the AI has read last is left to its judgement.
KeptByAi(cur) ==
  {p \in Posted : IF ai # Nothing /\ p \in ai.seen THEN p \in ai.relevant ELSE timeline[p].text \notin Noise}

\* keep: the picked snapshot decides about the posts it has read, the noise rule
\* about the others.
Kept(cur) ==
  {p \in Posted : IF cur # Nothing /\ p \in cur.s.seen THEN p \in cur.s.relevant ELSE timeline[p].text \notin Noise}

\* situationFeed: the newest posts of the last hours; those of the same time in a
\* fixed order.
Later(p, q) == timeline[p].at > timeline[q].at \/ (timeline[p].at = timeline[q].at /\ p > q)

Feed ==
  LET recent == {p \in Kept(PickCurrent) : timeline[p].at >= now - FeedAge}
  IN  {p \in recent : Cardinality({q \in recent : Later(q, p)}) < FeedSize}

-----------------------------------------------------------------------------
(* The worker's side, as the answer sees it *)

Untouched == UNCHANGED <<timeline, client>>

\* A confirmed set of NEPTUN.
Confirm(state) ==
  /\ confirms < MaxConfirms
  /\ row' = [state |-> state, at |-> now]
  /\ confirms' = confirms + 1
  /\ UNCHANGED <<now, rules, ai, evaluations>> /\ Untouched

RulesRun ==
  /\ evaluations < MaxEvaluations
  /\ rules' = [at |-> now, seen |-> Relevant(Window), relevant |-> Relevant(Window),
               threatNow |-> RulesSituation(Window, now).threatNow]
  /\ evaluations' = evaluations + 1
  /\ UNCHANGED <<now, row, ai, confirms>> /\ Untouched

\* What the AI makes of the window is its own affair; answers that are not valid store
\* no snapshot.
AiSnapshots(says) ==
  LET posts == Cardinality(Relevant(Window))
  IN  {[at |-> now, seen |-> Relevant(Window), relevant |-> RelevantOf(a, Window, Relevant(Window)),
        threatNow |-> InterpretSituation(a).threatNow] :
         a \in {b \in {ToAssessments(answers) : answers \in {x \in says : posts > 0 /\ Accepted(x, posts)}} : Valid(b, posts)}}

AiRun ==
  /\ evaluations < MaxEvaluations
  /\ ai' \in AiSnapshots(AiSays)
  /\ evaluations' = evaluations + 1
  /\ UNCHANGED <<now, row, rules, confirms>> /\ Untouched

-----------------------------------------------------------------------------
(* The web client *)

NewTab ==
  [data |-> Nothing, error |-> FALSE, expired |-> FALSE,
   etag |-> Nothing, failed |-> FALSE, lastOk |-> 0, timer |-> Nothing, visible |-> TRUE]

Request(etag) == [sentAt |-> now, etag |-> etag, reply |-> Nothing, servedAt |-> Nothing]

\* The part of run() up to its first await: the timer is cleared, the request in
\* flight superseded, and a full refresh forgets the version it holds.  A request
\* without an answer rejects at once, one that has it may still run on.
Start(full, t) ==
  LET etag == IF full THEN Nothing ELSE t.etag
  IN  /\ tab' = [t EXCEPT !.etag = etag, !.timer = Nothing]
      /\ old' = IF req # Nothing /\ req.reply # Nothing THEN req ELSE Nothing
      /\ req' = Request(etag)

PollAgain(t) == now + (IF t.visible THEN VisiblePoll ELSE HiddenPoll)

TimerFires ==
  /\ tab # Nothing /\ tab.timer # Nothing /\ now >= tab.timer
  /\ Start(FALSE, tab)
  /\ UNCHANGED <<now, timeline, server, check, refreshes>>

\* The online event: the network is back.
Refresh ==
  /\ tab # Nothing /\ refreshes < MaxRefreshes
  /\ refreshes' = refreshes + 1
  /\ Start(TRUE, tab)
  /\ UNCHANGED <<now, timeline, server, check>>

Hide ==
  /\ tab # Nothing /\ tab.visible /\ refreshes < MaxRefreshes
  /\ tab' = [tab EXCEPT !.visible = FALSE]
  /\ UNCHANGED <<now, timeline, server, req, old, check, refreshes>>

Show ==
  /\ tab # Nothing /\ ~tab.visible /\ refreshes < MaxRefreshes
  /\ refreshes' = refreshes + 1
  /\ Start(FALSE, [tab EXCEPT !.visible = TRUE])
  /\ UNCHANGED <<now, timeline, server, check>>

Served(r) == [r EXCEPT !.reply = Answer, !.servedAt = now]

\* send: 304 when the client holds this version.
NotModified(r) == r.reply = r.etag

\* Fault: the version counts as held as soon as the headers are there.
ServeSetsEtag ==
  /\ req # Nothing /\ req.reply = Nothing
  /\ req' = Served(req)
  /\ tab' = [tab EXCEPT !.etag = Answer]
  /\ UNCHANGED <<now, timeline, server, old, check, refreshes>>

\* The answer is on its way: what it says is of this moment, whenever it lands.
Serve ==
  /\ req # Nothing /\ req.reply = Nothing
  /\ req' = Served(req)
  /\ UNCHANGED <<now, timeline, server, tab, old, check, refreshes>>

\* A 304 changes no state but that of a failure before it.
Landed(t, r) ==
  IF NotModified(r)
  THEN [t EXCEPT !.lastOk = now, !.failed = FALSE,
                 !.error = IF t.failed THEN FALSE ELSE t.error,
                 !.expired = IF t.failed THEN FALSE ELSE t.expired,
                 !.timer = PollAgain(t)]
  ELSE [t EXCEPT !.lastOk = now, !.failed = FALSE, !.error = FALSE, !.expired = FALSE,
                 !.data = r.reply, !.etag = r.reply, !.timer = PollAgain(t)]

\* A reply in time: the check succeeded.
Land ==
  /\ req # Nothing /\ req.reply # Nothing
  /\ tab' = Landed(tab, req)
  /\ check' = [servedAt |-> req.servedAt, answer |-> req.reply]
  /\ req' = Nothing
  /\ UNCHANGED <<now, timeline, server, old, refreshes>>

\* Fault: a failed refresh leaves the tile as it is.
RequestFailsQuietly ==
  /\ req # Nothing
  /\ tab' = [tab EXCEPT !.failed = TRUE, !.error = TRUE, !.timer = PollAgain(tab)]
  /\ req' = Nothing
  /\ UNCHANGED <<now, timeline, server, old, check, refreshes>>

\* An error, or the timeout of a request that hangs.
RequestFails ==
  /\ req # Nothing
  /\ tab' = [tab EXCEPT !.failed = TRUE, !.error = TRUE, !.timer = PollAgain(tab),
                        !.expired = now - tab.lastOk > MaxAge]
  /\ req' = Nothing
  /\ UNCHANGED <<now, timeline, server, old, check, refreshes>>

\* Fault: a late response lands.
SupersededLands ==
  /\ old # Nothing /\ old.reply # Nothing
  /\ tab' = Landed(tab, old)
  /\ check' = [servedAt |-> old.servedAt, answer |-> old.reply]
  /\ old' = Nothing
  /\ UNCHANGED <<now, timeline, server, req, refreshes>>

\* "Superseded or unmounted: a late response must not land."
Superseded ==
  /\ old # Nothing
  /\ old' = Nothing
  /\ UNCHANGED <<now, timeline, server, tab, req, check, refreshes>>

\* The timers of the browser fire in time; a suspended tab is not modelled.
Tick ==
  /\ now < MaxTime
  /\ req # Nothing => now < req.sentAt + RequestTimeout
  /\ tab # Nothing /\ tab.timer # Nothing => now < tab.timer
  /\ now' = now + 1
  /\ UNCHANGED <<timeline, server, client>>

\* The bound on time.
AtEnd == now = MaxTime /\ UNCHANGED vars

-----------------------------------------------------------------------------
Init ==
  /\ now = 0
  /\ timeline \in Timelines
  /\ row = Nothing /\ rules = Nothing
  /\ \/ tab = Nothing /\ req = Nothing /\ ai = Nothing
     \/ /\ timeline \in Watched /\ tab = NewTab /\ req = Request(Nothing)
        /\ ai \in {Nothing} \cup AiSnapshots(AiSays)
  /\ old = Nothing /\ check = Nothing
  /\ confirms = 0 /\ evaluations = 0 /\ refreshes = 0

\* What the worker stores only matters to an open screen: without one, only time passes.
Next ==
  \/ Tick
  \/ /\ tab # Nothing
     /\ \/ \E s \in {"active", "inactive"} : Confirm(s)
        \/ RulesRun
        \/ AiRun
  \/ TimerFires \/ Refresh \/ Hide \/ Show
  \/ Serve \/ Land \/ RequestFails \/ Superseded
  \/ AtEnd

Spec == Init /\ [][Next]_vars

TypeOK ==
  /\ now \in Nat /\ refreshes \in Nat
  /\ row # Nothing => row.state \in {"active", "inactive"} /\ row.at \in Nat
  /\ \A s \in {rules, ai} : s # Nothing => s.at \in Nat
  /\ tab \in Tabs \cup {Nothing} /\ req \in Requests \cup {Nothing} /\ old \in Requests \cup {Nothing}
  /\ check \in Checks \cup {Nothing}
  /\ tab = Nothing => req = Nothing /\ old = Nothing /\ check = Nothing
  /\ tab # Nothing => (req = Nothing) = (tab.timer # Nothing)
  /\ req # Nothing /\ req.reply # Nothing => req.servedAt \in Nat

-----------------------------------------------------------------------------
(* What the screen makes of the statuses *)

Negative(k, status) ==
  IF k \in {"explosions", "airDefense"} THEN ~status.value ELSE status.value \in {"none", "unknown"}

\* statusViews: facts only, and nothing to count when no threat is mentioned at all.
StatusViews(s) ==
  LET shown == {k \in {"threatType", "direction", "quantity", "explosions", "airDefense"} :
                  ~Negative(k, s[k]) /\ (k = "quantity" => s.threatType.value # "none")}
  IN  [k \in shown |-> [value |-> s[k].value, low |-> ~s[k].high]]

-----------------------------------------------------------------------------
(* Properties of the rules: of the window alone, so it is enough to look where no  *)
(* screen is open.                                                                 *)

\* A threat that is on is never shown with the type or the direction of one that
\* is over: the statuses are computed apart, from different posts of the window
\* (index.ts:227-244).  Posts of the same second are left out: which of them is
\* the newer is up to the query.
ThreatNotOver ==
  LET s == RulesSituation(Window, now)
  IN  tab = Nothing /\ s.threatNow.value /\ (\A p, q \in Posted : p # q => timeline[p].at # timeline[q].at)
      => s.threatType.value # "none" /\ s.direction.value \notin {"none", "downed"}

\* Time alone only calms: until there is a new post, no status becomes a claim,
\* changes to another claim, or gains confidence, whichever of the four horizons a
\* post passes first; and nothing appears on screen, a count that was left out for
\* want of a threat neither.
AgeingOnlyCalms ==
  LET before == RulesSituation(Window, now)
      after  == RulesSituation(Window, now + 1)
      shown  == StatusViews(before)
      still  == StatusViews(after)
  IN  tab = Nothing =>
        /\ \A k \in DOMAIN still : k \in DOMAIN shown /\ still[k].value = shown[k].value
        /\ \A f \in DOMAIN before :
             /\ IF f \in {"threatNow", "explosions", "airDefense"}
                THEN after[f].value => before[f].value
                ELSE after[f].value \in {before[f].value, "none", "unknown"}
             /\ after[f].high => before[f].high

-----------------------------------------------------------------------------
(* Properties of the screen *)

\* SituationScreen: no response at all, or none for too long, is unknown.
Shown ==
  CASE tab.data # Nothing /\ ~tab.expired -> tab.data.tile
    [] tab.data # Nothing /\ tab.expired -> "unknown"
    [] OTHER -> IF tab.error THEN "unknown" ELSE Nothing

\* What is on screen is what the server said at the last successful check, also
\* when it only said that nothing changed: the version sent is that of the data held.
ShownIsChecked ==
  tab # Nothing => tab.data = IF check = Nothing THEN Nothing ELSE check.answer

\* The screen never goes back to an older answer of the server.
AnswersForward ==
  [][check # Nothing => check'.servedAt >= check.servedAt]_check

\* SituationScreen: a tile shown as possibly old, by the server or after a failure.
Marked == tab.data.tileStale \/ tab.data.evaluation # "fresh" \/ tab.error

\* The posts beside the tile: what the statuses rest on, and every post that they do
\* not know of yet, stays in view until newer posts fill the list or it is too old -
\* whichever of the two snapshots is the current one.
NothingHidden ==
  LET cur  == PickCurrent
  IN  tab # Nothing /\ cur # Nothing =>
        \A p \in cur.s.relevant \cup (Relevant(Window) \ cur.s.seen) :
          \/ p \in Feed
          \/ timeline[p].at < now - FeedAge
          \/ Cardinality(Feed) = FeedSize /\ \A q \in Feed : Later(q, p)

\* A tile that says something was confirmed: the row was young enough when the
\* server last answered, and that was no longer ago than the age limit, one poll
\* and one timeout, plus a timeout for each refresh that cut off a request.  A tile
\* without the mark of old data is fresh by the same measure.
TileIsRecent ==
  tab # Nothing /\ Shown \notin {Nothing, "unknown"} =>
    /\ check.servedAt - tab.data.alertAt <= IF Marked THEN AlertUnknown ELSE AlertStale
    /\ now - tab.lastOk <= (IF Marked THEN MaxAge ELSE 0) + HiddenPoll + RequestTimeout * (1 + refreshes)
=============================================================================
