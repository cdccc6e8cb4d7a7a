---------------------------- MODULE ScreenProofs ----------------------------
(***************************************************************************)
(* Proofs about SituationScreen.  What an open screen shows is what the    *)
(* server answered last, never an older answer, and recent, for every poll *)
(* interval, timeout, age limit and window, and any number of refreshes.   *)
(* A threat is not described by one that is over, ageing only calms, and   *)
(* no post is hidden unseen, for any texts, posts, answers and horizons.   *)
(***************************************************************************)
EXTENDS SituationScreen, FiniteSetTheorems, WellFoundedInduction, TLAPS

\* The versions the client holds and sends are those of the data it shows.
Versions ==
  tab # Nothing =>
    /\ tab.data = IF check = Nothing THEN Nothing ELSE check.answer
    /\ tab.etag \in {Nothing, tab.data}
    /\ req # Nothing => req.etag \in {Nothing, tab.data}

\* An answer that says something of the alert rests on a row that was young enough
\* when it was made, and fresh unless it says otherwise.
Confirmed(answer, at) ==
  answer.tile # "unknown" =>
    /\ answer.alertAt \in Nat /\ at - answer.alertAt <= AlertUnknown
    /\ ~answer.tileStale => at - answer.alertAt <= AlertStale

Answered ==
  /\ check # Nothing => check.servedAt <= now /\ Confirmed(check.answer, check.servedAt)
  /\ req # Nothing /\ req.reply # Nothing =>
       /\ req.servedAt <= now /\ Confirmed(req.reply, req.servedAt)
       /\ check # Nothing => check.servedAt <= req.servedAt

\* While the tile is shown, the next request starts, and the one in flight ends,
\* in time.
Paced ==
  tab # Nothing =>
    /\ tab.lastOk <= now
    /\ req = Nothing => now <= tab.timer
    /\ req # Nothing => req.sentAt <= now /\ now <= req.sentAt + RequestTimeout
    /\ ~tab.expired /\ req = Nothing => tab.timer <= tab.lastOk + MaxAge + HiddenPoll
    /\ ~tab.expired /\ req # Nothing =>
         req.sentAt <= tab.lastOk + MaxAge + HiddenPoll + RequestTimeout * refreshes
    /\ ~tab.error /\ req = Nothing => tab.timer <= tab.lastOk + HiddenPoll
    /\ ~tab.error /\ req # Nothing => req.sentAt <= tab.lastOk + HiddenPoll + RequestTimeout * refreshes

ScreenInv == TypeOK /\ Versions /\ Answered /\ Paced

-----------------------------------------------------------------------------
(* Lemmas about the operators *)

\* The answer is of its type.
LEMMA AnswerType ==
  ASSUME TypeOK
  PROVE  Answer \in Answers
PROOF
  <1> USE DEF TypeOK, Answers, MaybeTime
  <1>1. KremenchukAlert.at \in MaybeTime
    BY DEF KremenchukAlert, Freshness
  <1>2. ASSUME PickCurrent # Nothing
        PROVE  PickCurrent.s.at \in Nat
    BY <1>2 DEF PickCurrent
  <1>3. \A alert, threat : SituationTile(alert, threat) \in {"alert", "threat", "clear", "unknown"}
    BY DEF SituationTile
  <1>4. \A at : EvaluationFreshness(at) \in {"fresh", "stale", "unknown"}
    BY DEF EvaluationFreshness, Freshness
  <1> DEFINE alert == KremenchukAlert
             cur == PickCurrent
             fresh == IF cur = Nothing THEN "unknown" ELSE EvaluationFreshness(cur.checkedAt)
             tile == SituationTile(alert, IF fresh = "unknown" THEN Nothing ELSE cur.s.threatNow)
             stale == alert.freshness = "stale" \/ (tile = "threat" /\ fresh = "stale")
             at == IF cur = Nothing THEN Nothing ELSE cur.s.at
  <1>5. tile \in {"alert", "threat", "clear", "unknown"}
    BY <1>3
  <1>6. fresh \in {"fresh", "stale", "unknown"}
    BY <1>4
  <1>7. at \in MaybeTime
    BY <1>2
  <1>8. stale \in BOOLEAN
    OBVIOUS
  <1>9. Answer = [tile |-> tile, tileStale |-> stale, alertAt |-> alert.at,
                  evaluation |-> fresh, evaluatedAt |-> at]
    BY DEF Answer
  <1> HIDE DEF tile, stale, fresh, at, alert
  <1>10. alert.at \in MaybeTime
    BY <1>1 DEF alert
  <1> QED
    BY <1>5, <1>6, <1>7, <1>8, <1>9, <1>10

\* Behind a tile that is not unknown is a row that is not too old.
LEMMA AnswerConfirmed ==
  ASSUME TypeOK
  PROVE  Confirmed(Answer, now)
PROOF
  <1> SUFFICES ASSUME Answer.tile # "unknown"
               PROVE  /\ Answer.alertAt \in Nat /\ now - Answer.alertAt <= AlertUnknown
                      /\ ~Answer.tileStale => now - Answer.alertAt <= AlertStale
    BY DEF Confirmed
  <1> DEFINE freshness == Freshness(now - row.at, AlertStale, AlertUnknown)
  <1>1. Answer.alertAt = KremenchukAlert.at
    BY DEF Answer
  <1>2. KremenchukAlert.state # "unknown"
    <2>1. \A alert, threat : alert.state = "unknown" => SituationTile(alert, threat) = "unknown"
      BY DEF SituationTile
    <2> QED
      BY <2>1 DEF Answer
  <1>3. row # Nothing /\ freshness # "unknown" /\ KremenchukAlert.freshness = freshness
    BY <1>2 DEF KremenchukAlert
  <1>4. row.at \in Nat /\ KremenchukAlert.at = row.at
    BY <1>3 DEF TypeOK, KremenchukAlert
  <1>5. ~(now - row.at > AlertUnknown)
    BY <1>3, <1>4, ScreenAssumption DEF Freshness, TypeOK
  <1>6. ~Answer.tileStale => KremenchukAlert.freshness # "stale"
    BY DEF Answer
  <1>7. ~Answer.tileStale => ~(now - row.at > AlertStale)
    BY <1>3, <1>4, <1>5, <1>6, ScreenAssumption DEF Freshness, TypeOK
  <1> QED
    BY <1>1, <1>4, <1>5, <1>7, ScreenAssumption DEF TypeOK

-----------------------------------------------------------------------------
(* The invariant *)

\* A snapshot of the AI is of the moment it is taken.
LEMMA AiSnapshotTime ==
  ASSUME NEW says, NEW s \in AiSnapshots(says)
  PROVE  s.at = now
  BY DEF AiSnapshots

LEMMA ScreenInit == Init => ScreenInv
PROOF
  <1> SUFFICES ASSUME Init PROVE ScreenInv
    OBVIOUS
  <1>1. /\ now = 0 /\ row = Nothing /\ rules = Nothing /\ old = Nothing /\ check = Nothing
        /\ refreshes = 0
    BY DEF Init
  <1>2. ai # Nothing => ai.at \in Nat
    BY <1>1, AiSnapshotTime DEF Init
  <1>3. CASE tab = Nothing /\ req = Nothing
    BY <1>1, <1>2, <1>3 DEF ScreenInv, TypeOK, Versions, Answered, Paced
  <1>4. CASE tab = NewTab /\ req = Request(Nothing)
    <2> USE DEF NewTab, Request, MaybeTime, MaybeAnswer
    <2>1. NewTab \in Tabs /\ Request(Nothing) \in Requests
      BY <1>1 DEF Tabs, Requests
    <2>2. TypeOK
      BY <1>1, <1>2, <1>4, <2>1, NothingAssumption DEF TypeOK
    <2>3. Versions /\ Answered
      BY <1>1, <1>4, NothingAssumption DEF Versions, Answered
    <2>4. Paced
      BY <1>1, <1>4, <2>1, NothingAssumption, ScreenAssumption DEF Paced
    <2> QED
      BY <2>2, <2>3, <2>4 DEF ScreenInv
  <1> QED
    BY <1>3, <1>4 DEF Init

\* The worker's side changes nothing the client has.
LEMMA WorkerKeeps ==
  ASSUME ScreenInv, UNCHANGED client, now' = now,
         row' # Nothing => row'.state \in {"active", "inactive"} /\ row'.at \in Nat,
         rules' # Nothing => rules'.at \in Nat,
         ai' # Nothing => ai'.at \in Nat
  PROVE  ScreenInv'
  BY DEF ScreenInv, client, TypeOK, Versions, Answered, Confirmed, Paced

\* A new request, by the timer or by a refresh, starts no later than the pace allows.
LEMMA StartKeeps ==
  ASSUME ScreenInv, tab # Nothing,
         NEW full \in BOOLEAN, NEW t \in {tab, [tab EXCEPT !.visible = TRUE]}, Start(full, t),
         refreshes' \in Nat,
         ~tab.expired => now <= tab.lastOk + MaxAge + HiddenPoll + RequestTimeout * refreshes',
         ~tab.error => now <= tab.lastOk + HiddenPoll + RequestTimeout * refreshes',
         UNCHANGED <<now, timeline, server, check>>
  PROVE  ScreenInv'
PROOF
  <1> DEFINE etag == IF full THEN Nothing ELSE t.etag
  <1>1. t \in Tabs /\ t.data = tab.data /\ t.etag = tab.etag /\ t.lastOk = tab.lastOk /\ t.expired = tab.expired /\ t.error = tab.error
    BY DEF ScreenInv, TypeOK, Tabs
  <1>2. tab' = [t EXCEPT !.etag = etag, !.timer = Nothing] /\ req' = Request(etag)
    BY DEF Start
  <1>3. old' \in Requests \cup {Nothing}
    BY DEF Start, ScreenInv, TypeOK
  <1>4. etag \in MaybeAnswer /\ etag \in {Nothing, tab.data}
    BY <1>1 DEF ScreenInv, Versions, Tabs, MaybeAnswer
  <1> HIDE DEF etag
  <1>5. tab' \in Tabs /\ tab' # Nothing
    BY <1>1, <1>2, <1>4, NothingAssumption DEF Tabs, MaybeTime
  <1>6. /\ tab'.data = tab.data /\ tab'.etag = etag /\ tab'.lastOk = tab.lastOk
        /\ tab'.expired = tab.expired /\ tab'.error = tab.error /\ tab'.timer = Nothing
    BY <1>1, <1>2 DEF Tabs
  <1>7. req' \in Requests /\ req' # Nothing
    BY <1>2, <1>4, NothingAssumption DEF Request, Requests, MaybeAnswer, MaybeTime, ScreenInv, TypeOK
  <1>8. req'.sentAt = now /\ req'.etag = etag /\ req'.reply = Nothing
    BY <1>2 DEF Request
  <1>9. TypeOK'
    BY <1>3, <1>5, <1>6, <1>7, <1>8 DEF ScreenInv, TypeOK, server
  <1>10. Versions'
    BY <1>4, <1>6, <1>8 DEF ScreenInv, Versions
  <1>11. Answered'
    BY <1>8 DEF ScreenInv, Answered, Confirmed
  <1>12. Paced'
    BY <1>6, <1>7, <1>8, ScreenAssumption DEF ScreenInv, Paced, TypeOK
  <1> QED
    BY <1>9, <1>10, <1>11, <1>12 DEF ScreenInv

\* A product of the pace, unfolded once.
LEMMA OneMoreTimeout ==
  ASSUME NEW n \in Nat
  PROVE  /\ RequestTimeout * n \in Nat
         /\ RequestTimeout * (n + 1) = RequestTimeout * n + RequestTimeout
  BY ScreenAssumption

LEMMA TimerKeeps == ScreenInv /\ TimerFires => ScreenInv'
PROOF
  <1> SUFFICES ASSUME ScreenInv, TimerFires PROVE ScreenInv'
    OBVIOUS
  <1>1. refreshes' = refreshes /\ refreshes \in Nat /\ tab # Nothing
    BY DEF TimerFires, ScreenInv, TypeOK
  <1>2. RequestTimeout * refreshes \in Nat
    BY <1>1, OneMoreTimeout
  <1>3. tab \in Tabs /\ tab.timer \in Nat /\ req = Nothing
    BY <1>1 DEF TimerFires, ScreenInv, TypeOK, Tabs, MaybeTime
  <1>4. ~tab.expired => now <= tab.lastOk + MaxAge + HiddenPoll + RequestTimeout * refreshes
    BY <1>1, <1>2, <1>3, ScreenAssumption DEF ScreenInv, TypeOK, Paced, Tabs
  <1>5. ~tab.error => now <= tab.lastOk + HiddenPoll + RequestTimeout * refreshes
    BY <1>1, <1>2, <1>3, ScreenAssumption DEF ScreenInv, TypeOK, Paced, Tabs
  <1> QED
    BY <1>1, <1>3, <1>4, <1>5, StartKeeps DEF TimerFires

\* A refresh cuts off a request no later than its timeout.
LEMMA RefreshPace ==
  ASSUME ScreenInv, tab # Nothing
  PROVE  /\ ~tab.expired => now <= tab.lastOk + MaxAge + HiddenPoll + RequestTimeout * (refreshes + 1)
         /\ ~tab.error => now <= tab.lastOk + HiddenPoll + RequestTimeout * (refreshes + 1)
PROOF
  <1> DEFINE product == RequestTimeout * refreshes
  <1>1. product \in Nat /\ RequestTimeout * (refreshes + 1) = product + RequestTimeout
    BY OneMoreTimeout DEF ScreenInv, TypeOK
  <1>2. req # Nothing =>
          /\ ~tab.expired => req.sentAt <= tab.lastOk + MaxAge + HiddenPoll + product
          /\ ~tab.error => req.sentAt <= tab.lastOk + HiddenPoll + product
    BY DEF ScreenInv, Paced
  <1> HIDE DEF product
  <1>3. tab.lastOk \in Nat /\ now \in Nat
    BY DEF ScreenInv, TypeOK, Tabs
  <1>4. CASE req = Nothing
    <2>1. tab.timer \in Nat
      BY <1>4 DEF ScreenInv, TypeOK, Tabs, MaybeTime
    <2> QED
      BY <1>1, <1>3, <1>4, <2>1, ScreenAssumption DEF ScreenInv, Paced
  <1>5. CASE req # Nothing
    <2>1. req.sentAt \in Nat
      BY <1>5 DEF ScreenInv, TypeOK, Requests
    <2> QED
      BY <1>1, <1>2, <1>3, <1>5, <2>1, ScreenAssumption DEF ScreenInv, Paced
  <1> QED
    BY <1>4, <1>5

LEMMA RefreshKeeps == ScreenInv /\ (Refresh \/ Show) => ScreenInv'
PROOF
  <1>1. ASSUME ScreenInv, Refresh PROVE ScreenInv'
    <2>1. refreshes' = refreshes + 1 /\ refreshes' \in Nat /\ tab # Nothing
      BY <1>1 DEF Refresh, ScreenInv, TypeOK
    <2> QED
      BY <1>1, <2>1, RefreshPace, StartKeeps DEF Refresh
  <1>2. ASSUME ScreenInv, Show PROVE ScreenInv'
    <2>1. refreshes' = refreshes + 1 /\ refreshes' \in Nat /\ tab # Nothing
      BY <1>2 DEF Show, ScreenInv, TypeOK
    <2> QED
      BY <1>2, <2>1, RefreshPace, StartKeeps DEF Show
  <1> QED
    BY <1>1, <1>2

LEMMA HideKeeps == ScreenInv /\ Hide => ScreenInv'
PROOF
  <1> SUFFICES ASSUME ScreenInv, Hide PROVE ScreenInv'
    OBVIOUS
  <1>1. tab \in Tabs /\ tab # Nothing /\ tab' = [tab EXCEPT !.visible = FALSE]
    BY DEF Hide, ScreenInv, TypeOK
  <1>2. /\ tab' \in Tabs /\ tab' # Nothing /\ tab'.data = tab.data /\ tab'.etag = tab.etag
        /\ tab'.lastOk = tab.lastOk /\ tab'.timer = tab.timer /\ tab'.expired = tab.expired
        /\ tab'.error = tab.error
    BY <1>1, NothingAssumption DEF Tabs
  <1>3. UNCHANGED <<now, server, req, old, check, refreshes>>
    BY DEF Hide
  <1>4. TypeOK'
    BY <1>1, <1>2, <1>3 DEF ScreenInv, TypeOK, server
  <1>5. Versions'
    BY <1>1, <1>2, <1>3 DEF ScreenInv, Versions
  <1>6. Answered'
    BY <1>3 DEF ScreenInv, Answered, Confirmed
  <1>7. Paced'
    BY <1>1, <1>2, <1>3 DEF ScreenInv, Paced
  <1> QED
    BY <1>4, <1>5, <1>6, <1>7 DEF ScreenInv

LEMMA ServeKeeps == ScreenInv /\ Serve => ScreenInv'
PROOF
  <1> SUFFICES ASSUME ScreenInv, Serve PROVE ScreenInv'
    OBVIOUS
  <1>1. Answer \in Answers /\ Confirmed(Answer, now)
    BY AnswerType, AnswerConfirmed DEF ScreenInv
  <1> DEFINE a == Answer
  <1>2. req \in Requests /\ req # Nothing /\ req' = [req EXCEPT !.reply = a, !.servedAt = now]
    BY DEF Serve, Served, ScreenInv, TypeOK
  <1>3. a \in Answers /\ Confirmed(a, now) /\ a # Nothing
    BY <1>1, NothingAssumption
  <1> HIDE DEF a
  <1>4. now \in Nat
    BY DEF ScreenInv, TypeOK
  <1>5. /\ req' \in Requests /\ req' # Nothing /\ req'.sentAt = req.sentAt /\ req'.etag = req.etag
        /\ req'.reply = a /\ req'.servedAt = now
    BY <1>2, <1>3, <1>4, NothingAssumption DEF Requests, MaybeAnswer, MaybeTime
  <1>6. UNCHANGED <<now, server, tab, old, check, refreshes>>
    BY DEF Serve
  <1>7. TypeOK'
    BY <1>2, <1>4, <1>5, <1>6 DEF ScreenInv, TypeOK, server
  <1>8. Versions'
    BY <1>2, <1>5, <1>6 DEF ScreenInv, Versions
  <1>9. Answered'
    BY <1>3, <1>4, <1>5, <1>6 DEF ScreenInv, Answered, Confirmed
  <1>10. Paced'
    BY <1>2, <1>5, <1>6 DEF ScreenInv, Paced
  <1> QED
    BY <1>7, <1>8, <1>9, <1>10 DEF ScreenInv

\* The tab after a check that succeeded: it shows what was answered, as of now.
LEMMA LandedTab ==
  ASSUME TypeOK, Versions, tab # Nothing, req # Nothing, req.reply # Nothing,
         NEW t, t = Landed(tab, req)
  PROVE  /\ t \in Tabs /\ t.data = req.reply /\ t.etag \in {Nothing, req.reply}
         /\ t.lastOk = now /\ t.timer \in Nat /\ now <= t.timer /\ t.timer <= now + HiddenPoll
PROOF
  <1>1. tab \in Tabs /\ req \in Requests /\ now \in Nat
    BY DEF TypeOK
  <1>2. PollAgain(tab) \in Nat /\ now <= PollAgain(tab) /\ PollAgain(tab) <= now + HiddenPoll
    BY <1>1, ScreenAssumption DEF PollAgain
  <1> DEFINE timer == PollAgain(tab)
  <1>3. timer \in Nat /\ now <= timer /\ timer <= now + HiddenPoll
    BY <1>2
  <1>4. t = IF req.reply = req.etag
            THEN [tab EXCEPT !.lastOk = now, !.failed = FALSE,
                             !.error = IF tab.failed THEN FALSE ELSE tab.error,
                             !.expired = IF tab.failed THEN FALSE ELSE tab.expired,
                             !.timer = timer]
            ELSE [tab EXCEPT !.lastOk = now, !.failed = FALSE, !.error = FALSE, !.expired = FALSE,
                             !.data = req.reply, !.etag = req.reply, !.timer = timer]
    BY DEF Landed, NotModified
  <1> HIDE DEF timer
  <1>5. CASE req.reply = req.etag
    <2>1. req.reply = tab.data
      BY <1>5 DEF Versions
    <2> QED
      BY <1>1, <1>3, <1>4, <1>5, <2>1 DEF Tabs, MaybeTime, Versions
  <1>6. CASE req.reply # req.etag
    BY <1>1, <1>3, <1>4, <1>6 DEF Tabs, Requests, MaybeTime
  <1> QED
    BY <1>5, <1>6

LEMMA LandKeeps == ScreenInv /\ Land => ScreenInv'
PROOF
  <1> SUFFICES ASSUME ScreenInv, Land PROVE ScreenInv'
    OBVIOUS
  <1>1. req # Nothing /\ req.reply # Nothing /\ tab # Nothing /\ req \in Requests
    BY DEF Land, ScreenInv, TypeOK
  <1>2. /\ tab' \in Tabs /\ tab'.data = req.reply /\ tab'.etag \in {Nothing, req.reply}
        /\ tab'.lastOk = now /\ tab'.timer \in Nat /\ now <= tab'.timer /\ tab'.timer <= now + HiddenPoll
    BY <1>1, LandedTab DEF Land, ScreenInv
  <1>3. /\ check' \in Checks /\ check' # Nothing
        /\ check'.servedAt = req.servedAt /\ check'.answer = req.reply
    <2>1. req.servedAt \in Nat /\ req.reply \in Answers
      BY <1>1 DEF ScreenInv, TypeOK, Requests, MaybeAnswer
    <2> QED
      BY <2>1, NothingAssumption DEF Land, Checks
  <1>4. req' = Nothing /\ UNCHANGED <<now, server, old, refreshes>>
    BY DEF Land
  <1>5. tab' # Nothing /\ tab'.timer # Nothing
    BY <1>2, NothingAssumption
  <1>6. TypeOK'
    BY <1>2, <1>3, <1>4, <1>5 DEF ScreenInv, TypeOK, server
  <1>7. Versions'
    BY <1>2, <1>3, <1>4 DEF Versions
  <1>8. Answered'
    BY <1>1, <1>3, <1>4 DEF ScreenInv, Answered, Confirmed
  <1>9. Paced'
    BY <1>2, <1>4, ScreenAssumption DEF ScreenInv, TypeOK, Paced
  <1> QED
    BY <1>6, <1>7, <1>8, <1>9 DEF ScreenInv

LEMMA FailureKeeps == ScreenInv /\ RequestFails => ScreenInv'
PROOF
  <1> SUFFICES ASSUME ScreenInv, RequestFails PROVE ScreenInv'
    OBVIOUS
  <1>1. req # Nothing /\ tab # Nothing /\ tab \in Tabs /\ now \in Nat /\ tab.lastOk \in Nat
    BY DEF RequestFails, ScreenInv, TypeOK, Tabs
  <1> DEFINE timer == PollAgain(tab)
             late == now - tab.lastOk > MaxAge
  <1>2. timer \in Nat /\ now <= timer /\ timer <= now + HiddenPoll
    BY <1>1, ScreenAssumption DEF PollAgain
  <1>3. late \in BOOLEAN
    OBVIOUS
  <1>4. ~late => now <= tab.lastOk + MaxAge
    BY <1>1, ScreenAssumption
  <1>5. tab' = [tab EXCEPT !.failed = TRUE, !.error = TRUE, !.timer = timer, !.expired = late]
    BY DEF RequestFails
  <1> HIDE DEF timer, late
  <1>6. /\ tab' \in Tabs /\ tab'.data = tab.data /\ tab'.etag = tab.etag /\ tab'.lastOk = tab.lastOk
        /\ tab'.timer = timer /\ tab'.expired = late /\ tab'.error
    BY <1>1, <1>2, <1>3, <1>5 DEF Tabs, MaybeTime
  <1>7. req' = Nothing /\ UNCHANGED <<now, server, old, check, refreshes>>
    BY DEF RequestFails
  <1>8. tab' # Nothing /\ tab'.timer # Nothing
    BY <1>2, <1>6, NothingAssumption
  <1>9. TypeOK'
    BY <1>6, <1>7, <1>8 DEF ScreenInv, TypeOK, server
  <1>10. Versions'
    BY <1>1, <1>6, <1>7 DEF ScreenInv, Versions
  <1>11. Answered'
    BY <1>7 DEF ScreenInv, Answered, Confirmed
  <1>12. Paced'
    BY <1>1, <1>2, <1>4, <1>6, <1>7, ScreenAssumption DEF ScreenInv, Paced
  <1> QED
    BY <1>9, <1>10, <1>11, <1>12 DEF ScreenInv

LEMMA SupersededKeeps == ScreenInv /\ Superseded => ScreenInv'
  BY DEF Superseded, ScreenInv, TypeOK, Versions, Answered, Confirmed, Paced, server

LEMMA TickKeeps == ScreenInv /\ Tick => ScreenInv'
PROOF
  <1> SUFFICES ASSUME ScreenInv, Tick PROVE ScreenInv'
    OBVIOUS
  <1>1. now \in Nat /\ now' = now + 1 /\ UNCHANGED <<server, client>>
    BY DEF Tick, ScreenInv, TypeOK
  <1>2. TypeOK'
    BY <1>1 DEF ScreenInv, TypeOK, server, client
  <1>3. Versions'
    BY <1>1 DEF ScreenInv, Versions, client
  <1>4. Answered'
    BY <1>1 DEF ScreenInv, TypeOK, Answered, Confirmed, Checks, client
  <1>5. Paced'
    <2>1. ASSUME tab # Nothing, req = Nothing
          PROVE  now + 1 <= tab.timer
      BY <1>1, <2>1 DEF Tick, ScreenInv, TypeOK, Tabs, MaybeTime
    <2>2. ASSUME req # Nothing
          PROVE  req.sentAt \in Nat /\ now + 1 <= req.sentAt + RequestTimeout
      BY <1>1, <2>2, ScreenAssumption DEF Tick, ScreenInv, TypeOK, Requests
    <2>3. tab # Nothing => tab.lastOk \in Nat
      BY DEF ScreenInv, TypeOK, Tabs
    <2> QED
      BY <1>1, <2>1, <2>2, <2>3 DEF ScreenInv, Paced, client
  <1> QED
    BY <1>2, <1>3, <1>4, <1>5 DEF ScreenInv

LEMMA WorkerStepKeeps ==
  ASSUME ScreenInv,
         \/ \E s \in {"active", "inactive"} : Confirm(s)
         \/ RulesRun
         \/ AiRun
  PROVE  ScreenInv'
PROOF
  <1>1. now \in Nat
    BY DEF ScreenInv, TypeOK
  <1>2. CASE \E s \in {"active", "inactive"} : Confirm(s)
    BY <1>1, <1>2, WorkerKeeps DEF Confirm, Untouched, ScreenInv, TypeOK
  <1>3. CASE RulesRun
    <2>1. rules'.at = now
      BY <1>3 DEF RulesRun
    <2> QED
      BY <1>1, <1>3, <2>1, WorkerKeeps DEF RulesRun, Untouched, ScreenInv, TypeOK
  <1>4. CASE AiRun
    <2>1. ai'.at = now
      BY <1>4, AiSnapshotTime DEF AiRun
    <2> QED
      BY <1>1, <1>4, <2>1, WorkerKeeps DEF AiRun, Untouched, ScreenInv, TypeOK
  <1> QED
    BY <1>2, <1>3, <1>4

LEMMA StutterKeeps == ScreenInv /\ UNCHANGED vars => ScreenInv'
  BY DEF vars, ScreenInv, TypeOK, Versions, Answered, Confirmed, Paced

\* ScreenInv is inductive.
THEOREM ScreenInvariant == Spec => []ScreenInv
PROOF
  <1>1. ScreenInv /\ [Next]_vars => ScreenInv'
    BY TickKeeps, WorkerStepKeeps, TimerKeeps, RefreshKeeps, HideKeeps, ServeKeeps, LandKeeps,
       FailureKeeps, SupersededKeeps, StutterKeeps DEF Next, AtEnd
  <1> QED
    BY <1>1, ScreenInit, PTL DEF Spec

-----------------------------------------------------------------------------
(* What follows *)

\* Every variable keeps its type, and an open screen always has a request in flight
\* or the timer of the next one, never both.
THEOREM ScreenTypes == Spec => []TypeOK
  BY ScreenInvariant, PTL DEF ScreenInv

\* What is on screen is what the server said at the last successful check.
THEOREM ScreenShowsTheCheck == Spec => []ShownIsChecked
PROOF
  <1>1. ScreenInv => ShownIsChecked
    BY DEF ScreenInv, Versions, ShownIsChecked
  <1> QED
    BY <1>1, ScreenInvariant, PTL

\* A tile that says something was confirmed, and not too long ago.
THEOREM ScreenTileIsRecent == Spec => []TileIsRecent
PROOF
  <1>1. ScreenInv => TileIsRecent
    <2> SUFFICES ASSUME ScreenInv, tab # Nothing, Shown \notin {Nothing, "unknown"}
                 PROVE  /\ check.servedAt - tab.data.alertAt <= IF Marked THEN AlertUnknown ELSE AlertStale
                        /\ now - tab.lastOk <= (IF Marked THEN MaxAge ELSE 0) + HiddenPoll
                                                + RequestTimeout * (1 + refreshes)
      BY DEF TileIsRecent
    <2>1. tab \in Tabs /\ tab.data # Nothing /\ ~tab.expired /\ tab.data.tile # "unknown"
      BY DEF ScreenInv, TypeOK, Shown
    <2>2. check # Nothing /\ tab.data = check.answer
      BY <2>1 DEF ScreenInv, Versions
    <2>3. /\ check.servedAt - tab.data.alertAt <= AlertUnknown
          /\ ~Marked => check.servedAt - tab.data.alertAt <= AlertStale
      BY <2>1, <2>2 DEF ScreenInv, Answered, Confirmed, Marked
    <2>4. /\ now <= tab.lastOk + MaxAge + HiddenPoll + RequestTimeout * (refreshes + 1)
          /\ ~Marked => now <= tab.lastOk + HiddenPoll + RequestTimeout * (refreshes + 1)
      BY <2>1, RefreshPace DEF Marked
    <2>5. /\ now \in Nat /\ tab.lastOk \in Nat /\ 1 + refreshes = refreshes + 1
          /\ RequestTimeout * (refreshes + 1) \in Nat
      BY <2>1, OneMoreTimeout DEF ScreenInv, TypeOK, Tabs
    <2>6. now - tab.lastOk <= (IF Marked THEN MaxAge ELSE 0) + HiddenPoll + RequestTimeout * (1 + refreshes)
      <3> DEFINE product == RequestTimeout * (refreshes + 1)
      <3>1. /\ product \in Nat
            /\ now <= tab.lastOk + MaxAge + HiddenPoll + product
            /\ ~Marked => now <= tab.lastOk + HiddenPoll + product
        BY <2>4, <2>5
      <3> HIDE DEF product
      <3>2. now - tab.lastOk <= (IF Marked THEN MaxAge ELSE 0) + HiddenPoll + product
        BY <2>5, <3>1, ScreenAssumption
      <3> QED
        BY <2>5, <3>2 DEF product
    <2> QED
      BY <2>3, <2>6
  <1> QED
    BY <1>1, ScreenInvariant, PTL

\* The screen never goes back to an older answer.
THEOREM ScreenAnswersForward == Spec => AnswersForward
PROOF
  <1>1. ScreenInv /\ [Next]_vars => [check # Nothing => check'.servedAt >= check.servedAt]_check
    <2> SUFFICES ASSUME ScreenInv, Next, check' # check, check # Nothing
                 PROVE  check'.servedAt >= check.servedAt
      BY DEF vars
    <2>1. Land
      BY DEF Next, AtEnd, vars, Tick, Confirm, RulesRun, AiRun, Untouched, client, server,
             TimerFires, Refresh, Hide, Show, Serve, RequestFails, Superseded
    <2>2. check'.servedAt = req.servedAt
      BY <2>1 DEF Land
    <2>3. check.servedAt \in Nat /\ req.servedAt \in Nat /\ check.servedAt <= req.servedAt
      BY <2>1 DEF Land, ScreenInv, TypeOK, Checks, Answered
    <2> QED
      BY <2>2, <2>3
  <1> QED
    BY <1>1, ScreenInvariant, PTL DEF Spec, AnswersForward

-----------------------------------------------------------------------------
(* The rules: what is read in the posts, and the newest of them *)

\* Posts with their cues and ages, as the rules see them.
Sighted(posts) ==
  /\ IsFiniteSet(DOMAIN posts) /\ DOMAIN posts \subseteq Nat
  /\ \A p \in DOMAIN posts : posts[p].age \in Nat /\ \E f \in Findings : posts[p].cues = Cues(f)

Below == {p \in Nat \X Nat : p[1] < p[2]}

LEMMA BelowWellFounded == IsWellFoundedOn(Below, Nat)
PROOF
  <1>1. OpToRel(<, Nat) = Below
    BY Zenon DEF OpToRel, Below
  <1> QED
    BY <1>1, NatLessThanWellFounded, Zenon

\* A set of numbers that is not empty has a least one.
LEMMA Least ==
  ASSUME NEW T \in SUBSET Nat, T # {}
  PROVE  \E m \in T : \A x \in T : m <= x
PROOF
  <1>1. PICK m \in T : \A x \in T : <<x, m>> \notin Below
    BY BelowWellFounded, WFMin
  <1>2. \A x, y \in Nat : x < y => <<x, y>> \in Below
    BY DEF Below
  <1>3. \A x \in T : m <= x
    <2> TAKE x \in T
    <2>1. x \in Nat /\ m \in Nat /\ ~(x < m)
      BY <1>1, <1>2
    <2> QED
      BY <2>1
  <1> QED
    BY <1>3

\* Posts have a newest one: of the least age, and the first of those in the query.
LEMMA NewestIs ==
  ASSUME NEW posts, Sighted(posts), NEW S \in SUBSET DOMAIN posts, S # {}
  PROVE  /\ Newest(posts, S) \in S
         /\ \A q \in S \ {Newest(posts, S)} : Newer(posts, Newest(posts, S), q)
PROOF
  <1>1. S \in SUBSET Nat /\ \A p \in S : posts[p].age \in Nat
    BY DEF Sighted
  <1> DEFINE Ages == {posts[p].age : p \in S}
  <1>2. PICK a \in Ages : \A b \in Ages : a <= b
    <2>1. Ages \in SUBSET Nat /\ Ages # {}
      BY <1>1
    <2> QED
      BY <2>1, Least
  <1> DEFINE First == {p \in S : posts[p].age = a}
  <1>3. PICK m \in First : \A p \in First : m <= p
    <2>1. First \in SUBSET Nat /\ First # {}
      BY <1>1, <1>2
    <2> QED
      BY <2>1, Least
  <1>4. \A q \in S \ {m} : Newer(posts, m, q)
    <2> TAKE q \in S \ {m}
    <2>1. m \in S /\ m \in Nat /\ q \in Nat /\ posts[m].age = a /\ posts[m].age \in Nat /\ posts[q].age \in Nat
      BY <1>1, <1>3
    <2>2. posts[m].age <= posts[q].age
      BY <1>2, <2>1
    <2>3. posts[q].age = posts[m].age => m < q
      BY <1>3, <2>1
    <2> QED
      BY <2>1, <2>2, <2>3 DEF Newer
  <1>5. \E p \in S : \A q \in S \ {p} : Newer(posts, p, q)
    BY <1>3, <1>4
  <1> QED
    BY <1>5 DEF Newest

Said == {"threatType", "direction", "quantity", "forecast"}

\* What a post says of a status is a value of that kind, or nothing.
LEMMA CueType ==
  ASSUME NEW f \in Findings
  PROVE  \A c \in Said : Cues(f)[c] \in [value: Values, explicit: BOOLEAN] \cup {Nothing}
PROOF
  <1> USE DEF Findings
  <1>1. TypeCue(f) \in [value: Values, explicit: BOOLEAN] \cup {Nothing}
    BY DEF TypeCue, Says, Values, Forecasts
  <1>2. DirectionCue(f) \in [value: Values, explicit: BOOLEAN] \cup {Nothing}
    BY DEF DirectionCue, Says, Values, Forecasts
  <1>3. QuantityCue(f) \in [value: Values, explicit: BOOLEAN] \cup {Nothing}
    BY DEF QuantityCue, Says, Values, Amounts
  <1>4. ForecastCue(f) \in [value: Values, explicit: BOOLEAN] \cup {Nothing}
    BY DEF ForecastCue, Says, Values, Forecasts
  <1> QED
    BY <1>1, <1>2, <1>3, <1>4 DEF Cues, Said

\* A post whose type or direction is of a threat that is over says that it is over.
LEMMA OverIsStop ==
  ASSUME NEW f \in Findings, NEW c \in {"threatType", "direction"},
         Cues(f)[c] # Nothing, Cues(f)[c].value \in {"none", "downed"}
  PROVE  Cues(f).stop
PROOF
  <1>1. ~f.aftermath
    BY DEF Cues, Findings
  <1>2. Cues(f).threatType = TypeCue(f) /\ Cues(f).direction = DirectionCue(f) /\ (Over(f) => Cues(f).stop)
    BY <1>1 DEF Cues
  <1>3. CASE c = "threatType"
    <2>1. TypeCue(f) # Nothing /\ TypeCue(f).value \in {"none", "downed"}
      BY <1>2, <1>3
    <2>2. Cleared(f)
      BY <2>1 DEF TypeCue, Says, Findings, KnownThreats
    <2> QED
      BY <1>2, <2>2 DEF Cleared, Over
  <1>4. CASE c = "direction"
    <2>1. DirectionCue(f) # Nothing /\ DirectionCue(f).value \in {"none", "downed"}
      BY <1>2, <1>4
    <2>2. Cleared(f) \/ (~Flying(f) /\ f.downedAt >= 0)
      BY <2>1 DEF DirectionCue, Says, Findings, Headings
    <2> QED
      BY <1>2, <2>2 DEF Cleared, Over
  <1> QED
    BY <1>3, <1>4

Carrying(posts, maxAge, cue) ==
  {p \in DOMAIN posts : posts[p].age <= maxAge /\ posts[p].cues[cue] # Nothing}

\* Two posts that agree, or one that is sure: what makes a status that is no "none".
Backed(posts, maxAge, cue) ==
  LET carrying == Carrying(posts, maxAge, cue)
      top      == Newest(posts, carrying)
      said     == posts[top].cues[cue]
  IN  /\ said.value \notin {"none", "unknown"}
      /\ \/ Cardinality({p \in carrying : posts[p].cues[cue].value = said.value}) >= 2
         \/ Sure(posts[top], said.explicit)

\* The newest carrying post decides.
LEMMA LatestIs ==
  ASSUME NEW posts, Sighted(posts), NEW maxAge, NEW cue \in Said,
         NEW top, top = Newest(posts, Carrying(posts, maxAge, cue)),
         NEW hit, hit = Latest(posts, maxAge, cue)
  PROVE  /\ Carrying(posts, maxAge, cue) = {} => hit = Nothing
         /\ Carrying(posts, maxAge, cue) # {} =>
              /\ hit # Nothing /\ hit.top = top /\ top \in Carrying(posts, maxAge, cue)
              /\ hit.s.value = posts[top].cues[cue].value
              /\ hit.s.high <=> Backed(posts, maxAge, cue)
PROOF
  <1> DEFINE carrying == Carrying(posts, maxAge, cue)
             value == posts[top].cues[cue].value
             high == Backed(posts, maxAge, cue)
  <1>1. hit = IF carrying = {} THEN Nothing ELSE [top |-> top, s |-> Status(value, high)]
    BY DEF Latest, Carrying, Backed
  <1>2. ASSUME carrying # {} PROVE top \in carrying /\ top \in Nat /\ value \in Values
    <2>1. top \in carrying
      BY <1>2, NewestIs DEF Carrying
    <2>2. top \in DOMAIN posts /\ posts[top].cues[cue] # Nothing
      BY <2>1 DEF Carrying
    <2>3. PICK f \in Findings : posts[top].cues = Cues(f)
      BY <2>2 DEF Sighted
    <2>4. posts[top].cues[cue] \in [value: Values, explicit: BOOLEAN]
      BY <2>2, <2>3, CueType
    <2> QED
      BY <2>1, <2>2, <2>4 DEF Sighted
  <1>3. high \in BOOLEAN
    BY DEF Backed
  <1> HIDE DEF carrying, value, high
  <1>4. ASSUME carrying # {}
        PROVE  hit # Nothing /\ hit.top = top /\ hit.s.value = value /\ (hit.s.high <=> high)
    <2>1. hit = [top |-> top, s |-> [value |-> value, high |-> high]]
      BY <1>1, <1>4 DEF Status
    <2>2. hit \in [top: Nat, s: [value: Values, high: BOOLEAN]]
      BY <1>2, <1>3, <1>4, <2>1
    <2>3. hit # Nothing
      BY <2>2, RulesNothing
    <2> QED
      BY <2>1, <2>3
  <1> QED
    BY <1>1, <1>2, <1>4 DEF carrying, value, high

\* A type or direction of a threat that is over, and no newer threat: every threat is
\* answered by a stop that is as new, or newer.
LEMMA OverAnswers ==
  ASSUME NEW posts, Sighted(posts), NEW cue \in {"threatType", "direction"},
         NEW p \in Live(posts), \A q \in DOMAIN posts \ {p} : posts[q].age # posts[p].age
  PROVE  TrackedStatus(posts, cue).value \notin {"none", "downed"}
PROOF
  <1> DEFINE hit == Latest(posts, TrackAge, cue)
             top == Newest(posts, Carrying(posts, TrackAge, cue))
             threats == {q \in DOMAIN posts : posts[q].cues.threat}
             voided == /\ hit.s.value \in {"none", "downed"}
                       /\ \E q \in threats : posts[q].age < posts[hit.top].age
  <1>1. p \in threats /\ p \in DOMAIN posts /\ \A q \in Stops(posts) : Newer(posts, p, q)
    BY DEF Live
  <1>2. TrackedStatus(posts, cue) = IF hit # Nothing /\ ~voided THEN hit.s ELSE Low("unknown")
    BY <1>1 DEF TrackedStatus
  <1>3. cue \in Said
    BY DEF Said
  <1>4. SUFFICES ASSUME hit # Nothing, ~voided, hit.s.value \in {"none", "downed"} PROVE FALSE
    BY <1>2 DEF Low, Status
  <1>5. /\ top \in Carrying(posts, TrackAge, cue) /\ hit.top = top
        /\ hit.s.value = posts[top].cues[cue].value
    BY <1>3, <1>4, LatestIs
  <1> HIDE DEF hit, top
  <1>6. top \in DOMAIN posts /\ posts[top].cues[cue] # Nothing
    BY <1>5 DEF Carrying
  <1>7. PICK f \in Findings : posts[top].cues = Cues(f)
    BY <1>6 DEF Sighted
  <1>8. posts[top].cues.stop
    BY <1>4, <1>5, <1>6, <1>7, OverIsStop
  <1>9. Newer(posts, p, top)
    BY <1>1, <1>6, <1>8 DEF Stops
  <1>10. posts[p].age < posts[top].age
    <2>1. p \in Nat /\ top \in Nat /\ posts[p].age \in Nat /\ posts[top].age \in Nat
      BY <1>1, <1>6 DEF Sighted
    <2>2. top # p => posts[top].age # posts[p].age
      BY <1>6
    <2> QED
      BY <1>9, <2>1, <2>2 DEF Newer
  <1> QED
    BY <1>1, <1>4, <1>5, <1>10

\* The posts of D that are young enough, with their ages at time m.
SeenAt(posts, t, D, m) ==
  /\ Sighted(posts)
  /\ DOMAIN posts = {p \in D : t[p].text \notin Noise /\ m - t[p].at <= TrackAge}
  /\ \A p \in DOMAIN posts :
       t[p].at \in Nat /\ posts[p].age = m - t[p].at /\ posts[p].cues = Cues(Facts[t[p].text])

\* What the rules track of a window, at a time when all of it is published.
LEMMA TrackedIs ==
  ASSUME NEW t \in Timelines, NEW D \in SUBSET DOMAIN t, NEW m \in Nat, \A p \in D : t[p].at <= m,
         NEW window, window = [p \in D |-> t[p]],
         NEW posts, posts = Tracked(window, m)
  PROVE  SeenAt(posts, t, D, m)
PROOF
  <1> DEFINE Age(p) == Max({0, m - window[p].at})
             E == {q \in Relevant(window) : Age(q) <= TrackAge}
  <1>1. IsFiniteSet(DOMAIN t) /\ DOMAIN t \subseteq Nat /\ t \in [DOMAIN t -> [at: Nat, text: DOMAIN Facts]]
    BY TimelinesAssumption
  <1>2. \A p \in D : window[p] = t[p] /\ t[p].at \in Nat /\ t[p].text \in DOMAIN Facts
    BY <1>1
  <1>3. \A p \in D : Age(p) = m - t[p].at /\ m - t[p].at \in Nat
    <2> TAKE p \in D
    <2>1. m - t[p].at \in Nat /\ Age(p) = Max({0, m - t[p].at})
      BY <1>2
    <2>2. ASSUME NEW k \in Nat PROVE Max({0, k}) = k
      BY DEF Max
    <2> QED
      BY <2>1, <2>2
  <1>4. posts = [p \in E |-> [cues |-> CuesOf[window[p].text], age |-> Age(p)]]
    BY DEF Tracked
  <1>5. Relevant(window) = {p \in D : t[p].text \notin Noise}
    BY <1>2 DEF Relevant
  <1> HIDE DEF Age
  <1>6. E = {p \in D : t[p].text \notin Noise /\ m - t[p].at <= TrackAge}
    BY <1>3, <1>5
  <1>7. E \in SUBSET D /\ DOMAIN posts = E
    BY <1>4, <1>6
  <1> HIDE DEF E
  <1>8. \A p \in E : posts[p].age = m - t[p].at /\ posts[p].cues = Cues(Facts[t[p].text])
    <2> TAKE p \in E
    <2>1. p \in D /\ window[p].text = t[p].text /\ t[p].text \in DOMAIN Facts
      BY <1>2, <1>7
    <2>2. posts[p].age = Age(p) /\ posts[p].cues = CuesOf[t[p].text]
      BY <1>4, <2>1
    <2>3. CuesOf[t[p].text] = Cues(Facts[t[p].text])
      BY <2>1 DEF CuesOf
    <2> QED
      BY <1>3, <2>1, <2>2, <2>3
  <1>9. Sighted(posts)
    <2>1. IsFiniteSet(E) /\ E \subseteq Nat
      BY <1>1, <1>7, FS_Subset
    <2>2. ASSUME NEW p \in E PROVE posts[p].age \in Nat /\ \E f \in Findings : posts[p].cues = Cues(f)
      <3>1. posts[p].age \in Nat
        BY <1>3, <1>7, <1>8
      <3>2. Facts[t[p].text] \in Findings
        BY <1>2, <1>7, RulesAssumption
      <3> QED
        BY <1>8, <3>1, <3>2
    <2> QED
      BY <1>7, <2>1, <2>2 DEF Sighted
  <1> QED
    BY <1>2, <1>6, <1>7, <1>8, <1>9 DEF SeenAt

\* The posts of this behaviour never change.
LEMMA TimelineKept == Spec => [](timeline \in Timelines)
PROOF
  <1>1. Init => timeline \in Timelines
    BY DEF Init
  <1>2. timeline \in Timelines /\ [Next]_vars => (timeline \in Timelines)'
    BY DEF Next, AtEnd, vars, Tick, Confirm, RulesRun, AiRun, Untouched, TimerFires, Refresh, Hide, Show,
           Serve, Land, RequestFails, Superseded
  <1> QED
    BY <1>1, <1>2, PTL DEF Spec

\* A threat that is on is never described by what is said of one that is over, for all
\* texts, windows and horizons.
THEOREM ThreatTheorem == Spec => []ThreatNotOver
PROOF
  <1>1. TypeOK /\ timeline \in Timelines => ThreatNotOver
    <2> DEFINE posts == Tracked(Window, now)
               s == RulesSituation(Window, now)
    <2> SUFFICES ASSUME TypeOK, timeline \in Timelines, s.threatNow.value,
                        \A p, q \in Posted : p # q => timeline[p].at # timeline[q].at
                 PROVE  s.threatType.value # "none" /\ s.direction.value \notin {"none", "downed"}
      BY DEF ThreatNotOver
    <2>1. /\ s.threatNow = ThreatNow(posts)
          /\ s.threatType = TrackedStatus(posts, "threatType")
          /\ s.direction = TrackedStatus(posts, "direction")
      BY DEF RulesSituation
    <2>2. now \in Nat /\ Posted \in SUBSET DOMAIN timeline /\ \A p \in Posted : timeline[p].at <= now
      BY DEF TypeOK, Posted
    <2>3. posts = Tracked(Window, now) /\ Window = [p \in Posted |-> timeline[p]]
      BY DEF Window
    <2> HIDE DEF posts, s
    <2>4. /\ Sighted(posts) /\ DOMAIN posts \subseteq Posted
          /\ \A p \in DOMAIN posts : timeline[p].at \in Nat /\ posts[p].age = now - timeline[p].at
      <3>1. SeenAt(posts, timeline, Posted, now)
        BY <2>2, <2>3, TrackedIs
      <3> QED
        BY <3>1 DEF SeenAt
    <2>5. PICK p \in Live(posts) : TRUE
      BY <2>1 DEF ThreatNow, Low, Status
    <2>6. \A q \in DOMAIN posts \ {p} : posts[q].age # posts[p].age
      <3>1. p \in DOMAIN posts
        BY DEF Live
      <3> TAKE q \in DOMAIN posts \ {p}
      <3>2. timeline[q].at # timeline[p].at
        BY <2>4, <3>1
      <3> QED
        BY <2>2, <2>4, <3>1, <3>2
    <2> QED
      BY <2>1, <2>4, <2>6, OverAnswers
  <1> QED
    BY <1>1, ScreenTypes, TimelineKept, PTL

-----------------------------------------------------------------------------
(* The rules as time passes *)

\* The same posts one tick later: each is older by one, and the oldest drop out.
Aged(posts, later) ==
  /\ DOMAIN later = {p \in DOMAIN posts : posts[p].age + 1 <= TrackAge}
  /\ \A p \in DOMAIN later : later[p].age = posts[p].age + 1 /\ later[p].cues = posts[p].cues

LEMMA AgedSighted ==
  ASSUME NEW posts, NEW later, Sighted(posts), Aged(posts, later)
  PROVE  Sighted(later) /\ DOMAIN later \subseteq DOMAIN posts
PROOF
  <1>1. DOMAIN later \in SUBSET DOMAIN posts
    BY DEF Aged
  <1>2. IsFiniteSet(DOMAIN later) /\ DOMAIN later \subseteq Nat
    BY <1>1, FS_Subset DEF Sighted
  <1>3. \A p \in DOMAIN later : posts[p].age \in Nat /\ \E f \in Findings : posts[p].cues = Cues(f)
    BY <1>1 DEF Sighted
  <1>4. \A p \in DOMAIN later : later[p].age \in Nat /\ \E f \in Findings : later[p].cues = Cues(f)
    BY <1>3 DEF Aged
  <1> QED
    BY <1>1, <1>2, <1>4 DEF Sighted

\* A post that is sure was sure before.
LEMMA SureBefore ==
  ASSUME NEW posts, NEW later, Sighted(posts), Aged(posts, later),
         NEW p \in DOMAIN later, NEW explicit, Sure(later[p], explicit)
  PROVE  Sure(posts[p], explicit)
PROOF
  <1>1. posts[p].age \in Nat /\ later[p].age = posts[p].age + 1 /\ later[p].cues = posts[p].cues
    BY AgedSighted DEF Aged, Sighted
  <1> QED
    BY <1>1, RulesAssumption DEF Sure

\* If, of the posts that counted, those that still count include every newer one, the
\* newest is the same.
LEMMA TopStays ==
  ASSUME NEW posts, NEW later, Sighted(posts), Aged(posts, later),
         NEW S \in SUBSET DOMAIN posts, NEW T \in SUBSET S, T \subseteq DOMAIN later, T # {},
         \A p \in S, q \in T : Newer(posts, p, q) => p \in T
  PROVE  /\ Newest(later, T) = Newest(posts, S) /\ Newest(posts, S) \in T
         /\ Cardinality(T) \in Nat /\ Cardinality(S) \in Nat /\ Cardinality(T) <= Cardinality(S)
PROOF
  <1> DEFINE m == Newest(posts, S)
             n == Newest(later, T)
  <1>1. m \in S /\ \A q \in S \ {m} : Newer(posts, m, q)
    BY NewestIs
  <1>2. n \in T /\ \A q \in T \ {n} : Newer(later, n, q)
    BY AgedSighted, NewestIs
  <1> HIDE DEF m, n
  <1>3. m \in T
    BY <1>1, <1>2
  <1>4. n = m
    <2> SUFFICES ASSUME n # m PROVE FALSE
      OBVIOUS
    <2>1. Newer(posts, m, n) /\ Newer(later, n, m)
      BY <1>1, <1>2, <1>3
    <2>2. /\ m \in Nat /\ n \in Nat /\ posts[m].age \in Nat /\ posts[n].age \in Nat
          /\ later[m].age = posts[m].age + 1 /\ later[n].age = posts[n].age + 1
      BY <1>1, <1>2, <1>3 DEF Sighted, Aged
    <2> QED
      BY <2>1, <2>2 DEF Newer
  <1>5. IsFiniteSet(S)
    BY FS_Subset DEF Sighted
  <1>6. Cardinality(T) \in Nat /\ Cardinality(S) \in Nat /\ Cardinality(T) <= Cardinality(S)
    BY <1>5, FS_Subset, FS_CardinalityType
  <1> QED
    BY <1>3, <1>4, <1>6 DEF m, n

\* The newest post that carries a value still decides, until none is left; and then
\* the one that did was too old.
LEMMA LatestAges ==
  ASSUME NEW posts, NEW later, Sighted(posts), Aged(posts, later),
         NEW maxAge \in Nat, maxAge <= TrackAge, NEW cue \in Said,
         NEW a, a = Latest(posts, maxAge, cue), NEW b, b = Latest(later, maxAge, cue)
  PROVE  /\ b # Nothing =>
              /\ a # Nothing /\ a.top = b.top /\ b.top \in DOMAIN later
              /\ b.s.value = a.s.value /\ (b.s.high => a.s.high)
         /\ a # Nothing => a.top \in DOMAIN posts
         /\ a # Nothing /\ b = Nothing => ~(posts[a.top].age + 1 <= maxAge)
PROOF
  <1> DEFINE S == Carrying(posts, maxAge, cue)
             T == Carrying(later, maxAge, cue)
             m == Newest(posts, S)
             n == Newest(later, T)
  <1>1. Sighted(later) /\ DOMAIN later \subseteq DOMAIN posts
    BY AgedSighted
  <1>2. /\ S = {} => a = Nothing
        /\ S # {} => /\ a # Nothing /\ a.top = m /\ m \in S
                     /\ a.s.value = posts[m].cues[cue].value /\ (a.s.high <=> Backed(posts, maxAge, cue))
    BY LatestIs
  <1>3. /\ T = {} => b = Nothing
        /\ T # {} => /\ b # Nothing /\ b.top = n /\ n \in T
                     /\ b.s.value = later[n].cues[cue].value /\ (b.s.high <=> Backed(later, maxAge, cue))
    BY <1>1, LatestIs
  <1>4. S \in SUBSET DOMAIN posts /\ T \in SUBSET DOMAIN later
    BY DEF Carrying
  <1>5. \A p \in DOMAIN posts : posts[p].age \in Nat
    BY DEF Sighted
  <1>6. \A p \in DOMAIN posts : p \in T <=> p \in S /\ posts[p].age + 1 <= maxAge
    <2> TAKE p \in DOMAIN posts
    <2>1. CASE p \in DOMAIN later
      BY <1>5, <2>1 DEF Aged, Carrying
    <2>2. CASE p \notin DOMAIN later
      BY <1>5, <2>2, RulesAssumption DEF Aged, Carrying
    <2> QED
      BY <2>1, <2>2
  <1>7. T \in SUBSET S
    BY <1>1, <1>4, <1>6
  <1>8. \A p \in S, q \in T : Newer(posts, p, q) => p \in T
    <2> TAKE p \in S, q \in T
    <2> HAVE Newer(posts, p, q)
    <2>1. p \in DOMAIN posts /\ q \in DOMAIN posts /\ posts[p].age \in Nat /\ posts[q].age \in Nat
      BY <1>1, <1>4, <1>5
    <2>2. posts[q].age + 1 <= maxAge
      BY <1>6, <2>1
    <2>3. posts[p].age + 1 <= maxAge
      BY <2>1, <2>2 DEF Newer
    <2> QED
      BY <1>6, <2>1, <2>3
  <1> HIDE DEF S, T, m, n
  <1>9. ASSUME T # {}
        PROVE  m = n /\ m \in T /\ (Backed(later, maxAge, cue) => Backed(posts, maxAge, cue))
    <2>1. n = m /\ m \in T
      BY <1>4, <1>7, <1>8, <1>9, TopStays DEF m, n
    <2> DEFINE said == posts[m].cues[cue]
               U == {p \in S : posts[p].cues[cue].value = said.value}
               V == {p \in T : later[p].cues[cue].value = said.value}
    <2>2. later[m].cues = posts[m].cues /\ m \in DOMAIN later
      BY <1>4, <2>1 DEF Aged
    <2>3. V \in SUBSET U
      BY <1>4, <1>7 DEF Aged
    <2>4. IsFiniteSet(U)
      <3>1. IsFiniteSet(DOMAIN posts) /\ U \in SUBSET DOMAIN posts
        BY <1>4 DEF Sighted
      <3> QED
        BY <3>1, FS_Subset
    <2>5. Cardinality(V) \in Nat /\ Cardinality(U) \in Nat /\ Cardinality(V) <= Cardinality(U)
      BY <2>3, <2>4, FS_Subset, FS_CardinalityType
    <2>6. /\ Backed(posts, maxAge, cue) <=>
               said.value \notin {"none", "unknown"} /\ (Cardinality(U) >= 2 \/ Sure(posts[m], said.explicit))
          /\ Backed(later, maxAge, cue) <=>
               said.value \notin {"none", "unknown"} /\ (Cardinality(V) >= 2 \/ Sure(later[m], said.explicit))
      BY <2>1, <2>2 DEF Backed, m, n, S, T
    <2>7. Sure(later[m], said.explicit) => Sure(posts[m], said.explicit)
      BY <2>2, SureBefore
    <2> HIDE DEF U, V, said
    <2>8. Cardinality(V) >= 2 => Cardinality(U) >= 2
      BY <2>5
    <2> QED
      BY <2>1, <2>6, <2>7, <2>8, Zenon
  <1>10. ASSUME b # Nothing
         PROVE  /\ a # Nothing /\ a.top = b.top /\ b.top \in DOMAIN later
                /\ b.s.value = a.s.value /\ (b.s.high => a.s.high)
    <2>1. T # {} /\ S # {}
      BY <1>3, <1>7, <1>10
    <2>2. m \in DOMAIN later /\ later[m].cues = posts[m].cues
      BY <1>4, <1>9, <2>1 DEF Aged
    <2>3. a # Nothing /\ a.top = m /\ b.top = m /\ b.s.value = a.s.value
      BY <1>2, <1>3, <1>9, <2>1, <2>2
    <2>4. b.s.high => a.s.high
      BY <1>2, <1>3, <1>9, <2>1, Zenon
    <2> QED
      BY <2>2, <2>3, <2>4
  <1>11. ASSUME a # Nothing
         PROVE  /\ a.top \in DOMAIN posts
                /\ b = Nothing => ~(posts[a.top].age + 1 <= maxAge)
    <2>1. a.top = m /\ m \in S /\ m \in DOMAIN posts
      BY <1>2, <1>4, <1>11
    <2>2. b = Nothing => T = {}
      BY <1>3
    <2> QED
      BY <1>6, <2>1, <2>2
  <1> QED
    BY <1>10, <1>11

\* A status that only becomes vaguer and less certain.
Calms(before, after) ==
  /\ after.value \in {before.value, "none", "unknown"}
  /\ after.high => before.high

\* Type and direction; and "none" stays "none".
LEMMA TrackedCalms ==
  ASSUME NEW posts, NEW later, Sighted(posts), Aged(posts, later),
         NEW cue \in {"threatType", "direction"},
         NEW before, before = TrackedStatus(posts, cue), NEW after, after = TrackedStatus(later, cue)
  PROVE  Calms(before, after) /\ (before.value = "none" => after.value = "none")
PROOF
  <1> DEFINE a == Latest(posts, TrackAge, cue)
             b == Latest(later, TrackAge, cue)
             threatsA == {p \in DOMAIN posts : posts[p].cues.threat}
             threatsB == {p \in DOMAIN later : later[p].cues.threat}
             voidA == /\ a.s.value \in {"none", "downed"}
                      /\ \E p \in threatsA : posts[p].age < posts[a.top].age
             voidB == /\ b.s.value \in {"none", "downed"}
                      /\ \E p \in threatsB : later[p].age < later[b.top].age
             rest(threats) == IF threats = {} THEN Low("none") ELSE Low("unknown")
  <1>1. /\ before = IF a # Nothing /\ ~voidA THEN a.s ELSE rest(threatsA)
        /\ after = IF b # Nothing /\ ~voidB THEN b.s ELSE rest(threatsB)
    BY DEF TrackedStatus
  <1>2. /\ b # Nothing =>
              /\ a # Nothing /\ a.top = b.top /\ b.top \in DOMAIN later
              /\ b.s.value = a.s.value /\ (b.s.high => a.s.high)
        /\ a # Nothing => a.top \in DOMAIN posts
        /\ a # Nothing /\ b = Nothing => ~(posts[a.top].age + 1 <= TrackAge)
    <2>1. TrackAge \in Nat /\ TrackAge <= TrackAge /\ cue \in Said
      BY RulesAssumption DEF Said
    <2> QED
      BY <2>1, LatestAges
  <1> HIDE DEF a, b
  <1>3. /\ \A p \in DOMAIN posts : posts[p].age \in Nat
        /\ DOMAIN later \subseteq DOMAIN posts
        /\ \A p \in DOMAIN later : later[p].age = posts[p].age + 1 /\ later[p].cues = posts[p].cues
        /\ \A p \in DOMAIN posts : p \in DOMAIN later <=> posts[p].age + 1 <= TrackAge
    BY DEF Sighted, Aged
  <1>4. threatsB \subseteq threatsA
    BY <1>3
  <1>5. ASSUME b # Nothing PROVE voidA <=> voidB
    <2>1. /\ a.top = b.top /\ b.top \in DOMAIN later /\ b.top \in DOMAIN posts /\ b.s.value = a.s.value
          /\ later[b.top].age = posts[b.top].age + 1
      BY <1>2, <1>3, <1>5
    <2>2. ASSUME voidA PROVE voidB
      <3>1. PICK p \in threatsA : posts[p].age < posts[a.top].age
        BY <2>2
      <3>2. posts[p].age \in Nat /\ posts[a.top].age \in Nat /\ posts[a.top].age + 1 <= TrackAge
        BY <1>3, <2>1
      <3>3. p \in DOMAIN later
        BY <1>3, <3>1, <3>2, RulesAssumption
      <3>4. p \in threatsB /\ later[p].age < later[b.top].age
        BY <1>3, <2>1, <3>1, <3>2, <3>3
      <3> QED
        BY <2>1, <2>2, <3>4
    <2>3. ASSUME voidB PROVE voidA
      <3>1. PICK p \in threatsB : later[p].age < later[b.top].age
        BY <2>3
      <3>2. p \in threatsA /\ posts[p].age < posts[a.top].age
        BY <1>3, <1>4, <2>1, <3>1
      <3> QED
        BY <2>1, <2>3, <3>2
    <2> QED
      BY <2>2, <2>3
  <1>6. \A threats : rest(threats).value \in {"none", "unknown"} /\ rest(threats).high = FALSE
    BY DEF Low, Status
  <1>7. rest({}).value = "none" /\ \A threats : threats # {} => rest(threats).value = "unknown"
    BY DEF Low, Status
  <1> HIDE DEF rest
  <1>8. Calms(before, after)
    <2>1. CASE b # Nothing /\ ~voidB
      <3>1. after = b.s /\ before = a.s
        BY <1>1, <1>2, <1>5, <2>1
      <3> QED
        BY <1>2, <2>1, <3>1 DEF Calms
    <2>2. CASE ~(b # Nothing /\ ~voidB)
      <3>1. after = rest(threatsB)
        BY <1>1, <2>2
      <3> QED
        BY <1>6, <3>1 DEF Calms
    <2> QED
      BY <2>1, <2>2
  <1>9. ASSUME before.value = "none" PROVE after.value = "none"
    <2>1. CASE b # Nothing /\ ~voidB
      <3>1. after = b.s /\ before = a.s /\ b.s.value = a.s.value
        BY <1>1, <1>2, <1>5, <2>1
      <3> QED
        BY <1>9, <3>1
    <2>2. CASE ~(b # Nothing /\ ~voidB) /\ threatsB = {}
      BY <1>1, <1>7, <2>2
    <2>3. CASE ~(b # Nothing /\ ~voidB) /\ threatsB # {}
      <3>1. threatsA # {}
        BY <1>4, <2>3
      <3>2. a # Nothing /\ ~voidA
        BY <1>1, <1>7, <1>9, <3>1
      <3>3. a.s.value = "none" /\ b = Nothing
        BY <1>1, <1>5, <1>9, <2>3, <3>2
      <3>4. PICK p \in threatsB : TRUE
        BY <2>3
      <3>5. p \in threatsA /\ posts[p].age \in Nat /\ posts[p].age + 1 <= TrackAge
        BY <1>3, <1>4, <3>4
      <3>6. a.top \in DOMAIN posts /\ posts[a.top].age \in Nat /\ ~(posts[a.top].age + 1 <= TrackAge)
        BY <1>2, <1>3, <3>2, <3>3
      <3>7. posts[p].age < posts[a.top].age
        BY <3>5, <3>6, RulesAssumption
      <3> QED
        BY <3>2, <3>3, <3>5, <3>7
    <2> QED
      BY <2>1, <2>2, <2>3
  <1> QED
    BY <1>8, <1>9

\* The count.
LEMMA QuantityCalms ==
  ASSUME NEW posts, NEW later, Sighted(posts), Aged(posts, later),
         NEW a, a = Latest(posts, TrackAge, "quantity"), NEW b, b = Latest(later, TrackAge, "quantity"),
         NEW before, before = IF a = Nothing THEN Low("unknown") ELSE a.s,
         NEW after, after = IF b = Nothing THEN Low("unknown") ELSE b.s
  PROVE  Calms(before, after)
PROOF
  <1>1. TrackAge \in Nat /\ TrackAge <= TrackAge /\ "quantity" \in Said
    BY RulesAssumption DEF Said
  <1>2. b # Nothing => a # Nothing /\ b.s.value = a.s.value /\ (b.s.high => a.s.high)
    BY <1>1, LatestAges
  <1>3. CASE b = Nothing
    BY <1>3 DEF Calms, Low, Status
  <1>4. CASE b # Nothing
    BY <1>2, <1>4 DEF Calms
  <1> QED
    BY <1>3, <1>4

\* The forecast: what contradicts it is newer, and so stays.
LEMMA ForecastCalms ==
  ASSUME NEW posts, NEW later, Sighted(posts), Aged(posts, later),
         NEW before, before = ForecastStatus(posts), NEW after, after = ForecastStatus(later)
  PROVE  Calms(before, after)
PROOF
  <1> DEFINE a == Latest(posts, ForecastAge, "forecast")
             b == Latest(later, ForecastAge, "forecast")
             C(said, p) == CASE said.s.value = "clear_expected" -> p.cues.threat
                             [] said.s.value = "alert_expected" -> p.cues.stop
                             [] OTHER -> FALSE
             contraryA == {p \in DOMAIN posts : posts[p].age < posts[a.top].age /\ C(a, posts[p])}
             contraryB == {p \in DOMAIN later : later[p].age < later[b.top].age /\ C(b, later[p])}
  <1>1. /\ before = IF a = Nothing THEN Low("none") ELSE IF contraryA # {} THEN Low("none") ELSE a.s
        /\ after = IF b = Nothing THEN Low("none") ELSE IF contraryB # {} THEN Low("none") ELSE b.s
    BY DEF ForecastStatus
  <1>2. b # Nothing => /\ a # Nothing /\ a.top = b.top /\ b.top \in DOMAIN later
                       /\ b.s.value = a.s.value /\ (b.s.high => a.s.high)
    <2>1. ForecastAge \in Nat /\ ForecastAge <= TrackAge /\ "forecast" \in Said
      BY RulesAssumption DEF Said
    <2> QED
      BY <2>1, LatestAges
  <1> HIDE DEF a, b
  <1>3. ASSUME b # Nothing, contraryB = {} PROVE contraryA = {}
    <2>1. SUFFICES ASSUME NEW p \in contraryA PROVE FALSE
      OBVIOUS
    <2>2. /\ b.top \in DOMAIN later /\ b.top \in DOMAIN posts /\ posts[b.top].age \in Nat
          /\ later[b.top].age = posts[b.top].age + 1 /\ posts[b.top].age + 1 <= TrackAge
          /\ p \in DOMAIN posts /\ posts[p].age \in Nat /\ posts[p].age < posts[b.top].age
      BY <1>2, <1>3 DEF Sighted, Aged
    <2>3. p \in DOMAIN later
      BY <2>2, RulesAssumption DEF Aged
    <2>4. later[p].age < later[b.top].age /\ later[p].cues = posts[p].cues
      BY <2>2, <2>3 DEF Aged
    <2>5. C(b, later[p])
      BY <1>2, <1>3, <2>4
    <2> QED
      BY <1>3, <2>3, <2>4, <2>5
  <1>4. CASE b # Nothing /\ contraryB = {}
    <2>1. after = b.s /\ before = a.s
      BY <1>1, <1>2, <1>3, <1>4
    <2> QED
      BY <1>2, <1>4, <2>1 DEF Calms
  <1>5. CASE b = Nothing \/ contraryB # {}
    <2>1. after = Low("none")
      BY <1>1, <1>5
    <2> QED
      BY <2>1 DEF Calms, Low, Status
  <1> QED
    BY <1>4, <1>5

\* A flag that only goes out, and becomes less certain.
Fades(before, after) ==
  /\ after.value => before.value
  /\ after.high => before.high

\* Explosions and air defense.
LEMMA FlagFades ==
  ASSUME NEW posts, NEW later, Sighted(posts), Aged(posts, later), NEW cue,
         NEW before, before = FlagOf(posts, cue), NEW after, after = FlagOf(later, cue)
  PROVE  Fades(before, after)
PROOF
  <1> DEFINE S == {p \in DOMAIN posts : posts[p].age <= NowAge /\ posts[p].cues[cue]}
             T == {p \in DOMAIN later : later[p].age <= NowAge /\ later[p].cues[cue]}
             m == Newest(posts, S)
             n == Newest(later, T)
             highA == Cardinality(S) >= 2 \/ Sure(posts[m], TRUE)
             highB == Cardinality(T) >= 2 \/ Sure(later[n], TRUE)
  <1>1. /\ before = IF S = {} THEN Low(FALSE) ELSE Status(TRUE, highA)
        /\ after = IF T = {} THEN Low(FALSE) ELSE Status(TRUE, highB)
    BY DEF FlagOf
  <1>2. /\ \A p \in DOMAIN posts : posts[p].age \in Nat
        /\ DOMAIN later \subseteq DOMAIN posts
        /\ \A p \in DOMAIN later : later[p].age = posts[p].age + 1 /\ later[p].cues = posts[p].cues
        /\ \A p \in DOMAIN posts : p \in DOMAIN later <=> posts[p].age + 1 <= TrackAge
    BY DEF Sighted, Aged
  <1>3. CASE T = {}
    <2>1. after = Low(FALSE)
      BY <1>1, <1>3
    <2> QED
      BY <2>1 DEF Fades, Low, Status
  <1>4. CASE T # {}
    <2>1. S \in SUBSET DOMAIN posts /\ T \in SUBSET S /\ T \subseteq DOMAIN later
      BY <1>2, RulesAssumption
    <2>2. \A p \in S, q \in T : Newer(posts, p, q) => p \in T
      BY <1>2, RulesAssumption DEF Newer
    <2> HIDE DEF S, T
    <2>3. /\ n = m /\ m \in T
          /\ Cardinality(T) \in Nat /\ Cardinality(S) \in Nat /\ Cardinality(T) <= Cardinality(S)
      BY <1>4, <2>1, <2>2, TopStays
    <2> HIDE DEF m, n
    <2>4. Sure(later[n], TRUE) => Sure(posts[m], TRUE)
      BY <2>1, <2>3, SureBefore
    <2>5. highB => highA
      <3>1. Cardinality(T) >= 2 => Cardinality(S) >= 2
        BY <2>3
      <3> QED
        BY <2>4, <3>1, Zenon
    <2>6. S # {}
      BY <1>4, <2>1
    <2>7. before = Status(TRUE, highA) /\ after = Status(TRUE, highB)
      BY <1>1, <1>4, <2>6
    <2> HIDE DEF highA, highB
    <2> QED
      BY <2>5, <2>7 DEF Fades, Status
  <1> QED
    BY <1>3, <1>4

\* A threat: what answers it is newer, and so stays.
LEMMA ThreatFades ==
  ASSUME NEW posts, NEW later, Sighted(posts), Aged(posts, later),
         NEW before, before = ThreatNow(posts), NEW after, after = ThreatNow(later)
  PROVE  Fades(before, after)
PROOF
  <1> DEFINE S == Live(posts)
             T == Live(later)
             m == Newest(posts, S)
             n == Newest(later, T)
             Explicit(p) == p.cues.threatType # Nothing /\ p.cues.threatType.explicit
             highA == Cardinality(S) >= 2 \/ Sure(posts[m], Explicit(posts[m]))
             highB == Cardinality(T) >= 2 \/ Sure(later[n], Explicit(later[n]))
  <1>1. /\ before = IF S = {} THEN Low(FALSE) ELSE Status(TRUE, highA)
        /\ after = IF T = {} THEN Low(FALSE) ELSE Status(TRUE, highB)
    BY DEF ThreatNow
  <1>2. /\ \A p \in DOMAIN posts : p \in Nat /\ posts[p].age \in Nat
        /\ DOMAIN later \subseteq DOMAIN posts
        /\ \A p \in DOMAIN later : later[p].age = posts[p].age + 1 /\ later[p].cues = posts[p].cues
        /\ \A p \in DOMAIN posts : p \in DOMAIN later <=> posts[p].age + 1 <= TrackAge
    BY DEF Sighted, Aged
  <1>3. CASE T = {}
    <2>1. after = Low(FALSE)
      BY <1>1, <1>3
    <2> QED
      BY <2>1 DEF Fades, Low, Status
  <1>4. CASE T # {}
    <2>1. S \in SUBSET DOMAIN posts /\ T \in SUBSET DOMAIN later
      BY DEF Live
    <2>2. \A p, q \in DOMAIN later : Newer(later, p, q) <=> Newer(posts, p, q)
      BY <1>2 DEF Newer
    <2>3. ASSUME NEW p \in DOMAIN later, posts[p].age + 1 <= NowAge
          PROVE  p \in S <=> p \in T
      <3>1. p \in DOMAIN posts /\ posts[p].age \in Nat /\ posts[p].age <= NowAge /\ later[p].age <= NowAge
            /\ later[p].cues = posts[p].cues
        BY <1>2, <2>3, RulesAssumption
      <3>2. ASSUME \A q \in Stops(later) : Newer(later, p, q), NEW q \in Stops(posts)
            PROVE  Newer(posts, p, q)
        <4>1. q \in DOMAIN posts /\ posts[q].cues.stop
          BY DEF Stops
        <4>2. CASE q \in DOMAIN later
          BY <1>2, <2>2, <3>2, <4>1, <4>2 DEF Stops
        <4>3. CASE q \notin DOMAIN later
          BY <1>2, <2>3, <3>1, <4>1, <4>3, RulesAssumption DEF Newer
        <4> QED
          BY <4>2, <4>3
      <3>3. ASSUME \A q \in Stops(posts) : Newer(posts, p, q), NEW q \in Stops(later)
            PROVE  Newer(later, p, q)
        BY <1>2, <2>2, <3>3 DEF Stops
      <3> QED
        BY <3>1, <3>2, <3>3 DEF Live
    <2>4. \A q \in T : q \in DOMAIN later /\ posts[q].age \in Nat /\ posts[q].age + 1 <= NowAge
      BY <1>2, <2>1 DEF Live
    <2>5. T \in SUBSET S
      BY <2>3, <2>4
    <2>6. \A p \in S, q \in T : Newer(posts, p, q) => p \in T
      <3> TAKE p \in S, q \in T
      <3> HAVE Newer(posts, p, q)
      <3>1. p \in DOMAIN posts /\ posts[p].age \in Nat /\ posts[p].age + 1 <= NowAge
        BY <1>2, <2>1, <2>4, RulesAssumption DEF Newer
      <3>2. p \in DOMAIN later
        BY <1>2, <3>1, RulesAssumption
      <3> QED
        BY <2>3, <3>1, <3>2
    <2> HIDE DEF S, T
    <2>7. /\ n = m /\ m \in T
          /\ Cardinality(T) \in Nat /\ Cardinality(S) \in Nat /\ Cardinality(T) <= Cardinality(S)
      BY <1>4, <2>1, <2>5, <2>6, TopStays
    <2> HIDE DEF m, n
    <2>8. m \in DOMAIN later /\ later[m].cues = posts[m].cues
      BY <1>2, <2>1, <2>7
    <2>9. Sure(later[n], Explicit(later[n])) => Sure(posts[m], Explicit(posts[m]))
      BY <2>7, <2>8, SureBefore
    <2> HIDE DEF Explicit
    <2>10. highB => highA
      BY <2>7, <2>9
    <2>11. before = Status(TRUE, highA) /\ after = Status(TRUE, highB)
      BY <1>1, <1>4, <2>5
    <2> HIDE DEF highA, highB
    <2> QED
      BY <2>10, <2>11 DEF Fades, Status
  <1> QED
    BY <1>3, <1>4

\* One tick makes the posts that the rules track one older.
LEMMA TrackedAges ==
  ASSUME NEW t \in Timelines, NEW D \in SUBSET DOMAIN t, NEW m \in Nat, \A p \in D : t[p].at <= m,
         NEW posts, SeenAt(posts, t, D, m), NEW later, SeenAt(later, t, D, m + 1)
  PROVE  Sighted(posts) /\ Aged(posts, later)
PROOF
  <1>1. \A p \in D : t[p].at \in Nat /\ t[p].at <= m
    BY TimelinesAssumption
  <1>2. /\ DOMAIN posts = {p \in D : t[p].text \notin Noise /\ m - t[p].at <= TrackAge}
        /\ DOMAIN later = {p \in D : t[p].text \notin Noise /\ (m + 1) - t[p].at <= TrackAge}
        /\ \A p \in DOMAIN posts : posts[p].age = m - t[p].at /\ posts[p].cues = Cues(Facts[t[p].text])
        /\ \A p \in DOMAIN later : later[p].age = (m + 1) - t[p].at /\ later[p].cues = Cues(Facts[t[p].text])
    BY DEF SeenAt
  <1>3. \A p \in DOMAIN later : p \in DOMAIN posts
    BY <1>1, <1>2, RulesAssumption
  <1>4. \A p \in DOMAIN later : later[p].age = posts[p].age + 1 /\ later[p].cues = posts[p].cues
    <2> TAKE p \in DOMAIN later
    <2>1. p \in DOMAIN posts /\ p \in D
      BY <1>2, <1>3
    <2> QED
      BY <1>1, <1>2, <2>1
  <1>5. \A p \in DOMAIN posts : p \in DOMAIN later <=> posts[p].age + 1 <= TrackAge
    <2> TAKE p \in DOMAIN posts
    <2>1. p \in D /\ t[p].text \notin Noise /\ posts[p].age = m - t[p].at
      BY <1>2
    <2>2. posts[p].age + 1 = (m + 1) - t[p].at
      BY <1>1, <2>1
    <2> QED
      BY <1>2, <2>1, <2>2
  <1>6. DOMAIN later = {p \in DOMAIN posts : posts[p].age + 1 <= TrackAge}
    BY <1>3, <1>5
  <1>7. Sighted(posts)
    BY DEF SeenAt
  <1> QED
    BY <1>4, <1>6, <1>7 DEF Aged

\* All statuses of the rules, one tick later.
RulesCalm(before, after) ==
  /\ \A f \in {"threatNow", "explosions", "airDefense"} : Fades(before[f], after[f])
  /\ \A f \in {"threatType", "direction", "quantity", "forecast"} : Calms(before[f], after[f])
  /\ before.threatType.value = "none" => after.threatType.value = "none"

LEMMA RulesCalmDown ==
  ASSUME TypeOK, timeline \in Timelines,
         NEW before, before = RulesSituation(Window, now),
         NEW after, after = RulesSituation(Window, now + 1)
  PROVE  RulesCalm(before, after)
PROOF
  <1> DEFINE posts == Tracked(Window, now)
             later == Tracked(Window, now + 1)
  <1>1. /\ now \in Nat /\ now + 1 \in Nat /\ Posted \in SUBSET DOMAIN timeline
        /\ Window = [p \in Posted |-> timeline[p]]
        /\ \A p \in Posted : timeline[p].at <= now
    BY DEF TypeOK, Posted, Window
  <1>2. \A p \in Posted : timeline[p].at <= now + 1
    <2> TAKE p \in Posted
    <2>1. timeline[p].at \in Nat /\ timeline[p].at <= now
      BY <1>1, TimelinesAssumption
    <2> QED
      BY <1>1, <2>1
  <1>3. SeenAt(posts, timeline, Posted, now) /\ SeenAt(later, timeline, Posted, now + 1)
    BY <1>1, <1>2, TrackedIs
  <1>4. /\ before = [threatNow |-> ThreatNow(posts),
                     threatType |-> TrackedStatus(posts, "threatType"),
                     direction |-> TrackedStatus(posts, "direction"),
                     quantity |-> IF Latest(posts, TrackAge, "quantity") = Nothing THEN Low("unknown")
                                  ELSE Latest(posts, TrackAge, "quantity").s,
                     forecast |-> ForecastStatus(posts),
                     explosions |-> FlagOf(posts, "explosions"),
                     airDefense |-> FlagOf(posts, "airDefense")]
        /\ after = [threatNow |-> ThreatNow(later),
                    threatType |-> TrackedStatus(later, "threatType"),
                    direction |-> TrackedStatus(later, "direction"),
                    quantity |-> IF Latest(later, TrackAge, "quantity") = Nothing THEN Low("unknown")
                                 ELSE Latest(later, TrackAge, "quantity").s,
                    forecast |-> ForecastStatus(later),
                    explosions |-> FlagOf(later, "explosions"),
                    airDefense |-> FlagOf(later, "airDefense")]
    BY DEF RulesSituation
  <1> HIDE DEF posts, later
  <1>5. Sighted(posts) /\ Aged(posts, later)
    BY <1>1, <1>3, TrackedAges
  <1>6. Fades(before.threatNow, after.threatNow)
    BY <1>4, <1>5, ThreatFades
  <1>7. Fades(before.explosions, after.explosions) /\ Fades(before.airDefense, after.airDefense)
    BY <1>4, <1>5, FlagFades
  <1>8. /\ Calms(before.threatType, after.threatType) /\ Calms(before.direction, after.direction)
        /\ before.threatType.value = "none" => after.threatType.value = "none"
    BY <1>4, <1>5, TrackedCalms
  <1>9. Calms(before.quantity, after.quantity)
    BY <1>4, <1>5, QuantityCalms
  <1>10. Calms(before.forecast, after.forecast)
    BY <1>4, <1>5, ForecastCalms
  <1> QED
    BY <1>6, <1>7, <1>8, <1>9, <1>10 DEF RulesCalm

\* Nothing is on screen later that was not there before, and what is says the same.
LEMMA NothingAppears ==
  ASSUME NEW before, NEW after, RulesCalm(before, after),
         NEW shown, shown = StatusViews(before), NEW still, still = StatusViews(after)
  PROVE  \A k \in DOMAIN still : k \in DOMAIN shown /\ still[k].value = shown[k].value
PROOF
  <1> DEFINE Asked == {"threatType", "direction", "quantity", "explosions", "airDefense"}
  <1>1. /\ DOMAIN shown = {k \in Asked : ~Negative(k, before[k]) /\ (k = "quantity" => before.threatType.value # "none")}
        /\ \A k \in DOMAIN shown : shown[k].value = before[k].value
        /\ DOMAIN still = {k \in Asked : ~Negative(k, after[k]) /\ (k = "quantity" => after.threatType.value # "none")}
        /\ \A k \in DOMAIN still : still[k].value = after[k].value
    BY DEF StatusViews
  <1> TAKE k \in DOMAIN still
  <1>2. k \in Asked /\ ~Negative(k, after[k]) /\ still[k].value = after[k].value
        /\ (k = "quantity" => after.threatType.value # "none")
    BY <1>1
  <1>3. CASE k \in {"explosions", "airDefense"}
    <2>1. after[k].value /\ (after[k].value => before[k].value)
      BY <1>2, <1>3 DEF Negative, RulesCalm, Fades
    <2>2. ~Negative(k, before[k])
      BY <1>3, <2>1 DEF Negative
    <2>3. k \in DOMAIN shown /\ shown[k].value = before[k].value
      BY <1>1, <1>2, <1>3, <2>2
    <2> QED
      BY <1>2, <2>1, <2>3
  <1>4. CASE k \notin {"explosions", "airDefense"}
    <2>1. k \in {"threatType", "direction", "quantity"} /\ after[k].value \notin {"none", "unknown"}
      BY <1>2, <1>4 DEF Negative
    <2>2. after[k].value = before[k].value
      BY <2>1 DEF RulesCalm, Calms
    <2>3. ~Negative(k, before[k])
      BY <1>4, <2>1, <2>2 DEF Negative
    <2>4. k = "quantity" => before.threatType.value # "none"
      BY <1>2 DEF RulesCalm
    <2> QED
      BY <1>1, <1>2, <2>2, <2>3, <2>4
  <1> QED
    BY <1>3, <1>4

\* Until there is a new post, time only calms the statuses and the screen, for all
\* texts, windows and horizons.
THEOREM AgeingTheorem == Spec => []AgeingOnlyCalms
PROOF
  <1>1. TypeOK /\ timeline \in Timelines => AgeingOnlyCalms
    <2> DEFINE before == RulesSituation(Window, now)
               after == RulesSituation(Window, now + 1)
               shown == StatusViews(before)
               still == StatusViews(after)
    <2> SUFFICES ASSUME TypeOK, timeline \in Timelines
                 PROVE  /\ \A k \in DOMAIN still : k \in DOMAIN shown /\ still[k].value = shown[k].value
                        /\ \A f \in DOMAIN before :
                             /\ IF f \in {"threatNow", "explosions", "airDefense"}
                                THEN after[f].value => before[f].value
                                ELSE after[f].value \in {before[f].value, "none", "unknown"}
                             /\ after[f].high => before[f].high
      BY DEF AgeingOnlyCalms
    <2>1. RulesCalm(before, after)
      BY RulesCalmDown
    <2>2. DOMAIN before = {"threatNow", "explosions", "airDefense",
                           "threatType", "direction", "quantity", "forecast"}
      BY DEF RulesSituation
    <2> HIDE DEF before, after
    <2>3. \A k \in DOMAIN still : k \in DOMAIN shown /\ still[k].value = shown[k].value
      BY <2>1, NothingAppears
    <2>4. ASSUME NEW f \in DOMAIN before
          PROVE  /\ IF f \in {"threatNow", "explosions", "airDefense"}
                    THEN after[f].value => before[f].value
                    ELSE after[f].value \in {before[f].value, "none", "unknown"}
                 /\ after[f].high => before[f].high
      <3>1. CASE f \in {"threatNow", "explosions", "airDefense"}
        BY <2>1, <3>1 DEF RulesCalm, Fades
      <3>2. CASE f \notin {"threatNow", "explosions", "airDefense"}
        BY <2>1, <2>2, <3>2 DEF RulesCalm, Calms
      <3> QED
        BY <3>1, <3>2
    <2> QED
      BY <2>3, <2>4
  <1> QED
    BY <1>1, ScreenTypes, TimelineKept, PTL

-----------------------------------------------------------------------------
(* The feed *)

FirstOf(R, n) == {p \in R : Cardinality({q \in R : Later(q, p)}) < n}

\* A list of the n latest of some posts leaves out a post only when it is full, and
\* then only posts that are older than all of it.
LEMMA LatestOf ==
  ASSUME timeline \in Timelines, NEW R \in SUBSET DOMAIN timeline, NEW n \in Nat,
         NEW F, F = FirstOf(R, n),
         NEW p \in R \ F
  PROVE  Cardinality(F) = n /\ \A q \in F : Later(q, p)
PROOF
  <1> DEFINE Ahead(x) == {q \in R : Later(q, x)}
             Rank(x) == Cardinality(Ahead(x))
  <1>1. IsFiniteSet(R) /\ \A x \in R : x \in Nat /\ timeline[x].at \in Nat
    <2>1. /\ IsFiniteSet(DOMAIN timeline) /\ DOMAIN timeline \subseteq Nat
          /\ timeline \in [DOMAIN timeline -> [at: Nat, text: DOMAIN Facts]]
      BY TimelinesAssumption
    <2> QED
      BY <2>1, FS_Subset
  <1>2. /\ \A x \in R : ~Later(x, x)
        /\ \A x, y \in R : x = y \/ Later(x, y) \/ Later(y, x)
        /\ \A x, y, z \in R : Later(x, y) /\ Later(y, z) => Later(x, z)
    BY <1>1 DEF Later
  <1>3. \A x \in R : IsFiniteSet(Ahead(x)) /\ Rank(x) \in Nat /\ x \notin Ahead(x)
    <2> TAKE x \in R
    <2>1. Ahead(x) \in SUBSET R
      OBVIOUS
    <2>2. IsFiniteSet(Ahead(x)) /\ Rank(x) \in Nat
      BY <1>1, <2>1, FS_Subset, FS_CardinalityType
    <2> QED
      BY <1>2, <2>2
  <1>4. ASSUME NEW x \in R, NEW y \in R, Later(x, y)
        PROVE  Rank(x) + 1 <= Rank(y)
    <2>1. Ahead(x) \cup {x} \in SUBSET Ahead(y)
      BY <1>2, <1>4
    <2>2. Cardinality(Ahead(x) \cup {x}) = Rank(x) + 1
      BY <1>3, FS_AddElement
    <2>3. Cardinality(Ahead(x) \cup {x}) <= Rank(y)
      BY <1>3, <2>1, FS_Subset
    <2> QED
      BY <2>2, <2>3
  <1>5. F = {x \in R : Rank(x) < n}
    BY DEF FirstOf
  <1> HIDE DEF Rank
  <1>6. ASSUME NEW x \in R \ F, NEW q \in F PROVE Later(q, x)
    <2>1. Rank(q) < n /\ ~(Rank(x) < n) /\ Rank(q) \in Nat /\ Rank(x) \in Nat /\ q \in R
      BY <1>3, <1>5
    <2>2. ~Later(x, q) /\ x # q
      BY <1>4, <2>1
    <2> QED
      BY <1>2, <2>1, <2>2
  <1>7. ~(Cardinality(F) < n) /\ IsFiniteSet(F)
    <2>1. PICK r \in R \ F : \A x \in R \ F : Rank(r) <= Rank(x)
      <3> DEFINE Ranks == {Rank(x) : x \in R \ F}
      <3>1. Ranks \in SUBSET Nat /\ Ranks # {}
        BY <1>3
      <3>2. PICK k \in Ranks : \A m \in Ranks : k <= m
        BY <3>1, Least
      <3> QED
        BY <3>2
    <2>2. \A q \in Ahead(r) : q \in F
      <3> TAKE q \in Ahead(r)
      <3>1. q \in R /\ Rank(q) + 1 <= Rank(r) /\ Rank(q) \in Nat /\ Rank(r) \in Nat
        BY <1>3, <1>4
      <3>2. ~(Rank(r) <= Rank(q))
        BY <3>1
      <3> QED
        BY <2>1, <3>1, <3>2
    <2>3. \A q \in F : q \in Ahead(r)
      BY <1>5, <1>6
    <2>4. F = Ahead(r)
      BY <2>2, <2>3
    <2> QED
      BY <1>3, <1>5, <2>4 DEF Rank
  <1>8. Cardinality(F) <= n
    <2>1. CASE F = {}
      <3>1. Cardinality(F) = 0
        BY <2>1, FS_EmptySet
      <3> QED
        BY <3>1
    <2>2. CASE F # {}
      <3>1. PICK f \in F : \A q \in F : Rank(q) <= Rank(f)
        <4> DEFINE Gaps == {n - Rank(q) : q \in F}
        <4>1. \A q \in F : n - Rank(q) \in Nat /\ Rank(q) \in Nat
          <5> TAKE q \in F
          <5>1. Rank(q) \in Nat /\ Rank(q) < n
            BY <1>3, <1>5
          <5> QED
            BY <5>1
        <4>2. Gaps \in SUBSET Nat /\ Gaps # {}
          BY <2>2, <4>1
        <4>3. PICK k \in Gaps : \A m \in Gaps : k <= m
          BY <4>2, Least
        <4>4. PICK f \in F : k = n - Rank(f)
          BY <4>3
        <4>5. \A q \in F : Rank(q) <= Rank(f)
          <5> TAKE q \in F
          <5>1. n - Rank(f) <= n - Rank(q)
            BY <4>3, <4>4
          <5> QED
            BY <4>1, <5>1
        <4> QED
          BY <4>4, <4>5
      <3>2. f \in R /\ Rank(f) \in Nat /\ Rank(f) < n
        BY <1>3, <1>5
      <3>3. \A q \in F : q = f \/ q \in Ahead(f)
        <4> TAKE q \in F
        <4>1. q \in R /\ Rank(q) \in Nat /\ Rank(q) <= Rank(f)
          BY <1>3, <1>5, <3>1
        <4>2. ~Later(f, q)
          <5>1. SUFFICES ASSUME Later(f, q) PROVE FALSE
            OBVIOUS
          <5>2. Rank(f) + 1 <= Rank(q)
            BY <1>4, <3>2, <4>1, <5>1
          <5> QED
            BY <3>2, <4>1, <5>2
        <4> QED
          BY <1>2, <3>2, <4>1, <4>2
      <3>4. F \in SUBSET (Ahead(f) \cup {f})
        BY <3>3
      <3>5. /\ IsFiniteSet(Ahead(f) \cup {f}) /\ Cardinality(Ahead(f) \cup {f}) = Rank(f) + 1
        BY <1>3, <3>2, FS_AddElement DEF Rank
      <3>6. Cardinality(F) <= Rank(f) + 1
        <4>1. Cardinality(F) <= Cardinality(Ahead(f) \cup {f})
          BY <3>4, <3>5, FS_Subset
        <4> QED
          BY <3>5, <4>1
      <3>7. Cardinality(F) \in Nat
        BY <1>7, FS_CardinalityType
      <3> QED
        BY <3>2, <3>6, <3>7
    <2> QED
      BY <2>1, <2>2
  <1>9. Cardinality(F) \in Nat
    BY <1>7, FS_CardinalityType
  <1> QED
    BY <1>6, <1>7, <1>8, <1>9

\* What a snapshot finds relevant it has read, and what it has read was posted.
Snapshots ==
  \A s \in {rules, ai} : s # Nothing => s.relevant \subseteq s.seen /\ s.seen \subseteq Posted

LEMMA AiSnapshotReads ==
  ASSUME NEW says, NEW s \in AiSnapshots(says)
  PROVE  s.relevant \subseteq s.seen /\ s.seen \subseteq Posted
PROOF
  <1>1. PICK a : s = [at |-> now, seen |-> Relevant(Window),
                      relevant |-> RelevantOf(a, Window, Relevant(Window)),
                      threatNow |-> InterpretSituation(a).threatNow]
    BY DEF AiSnapshots
  <1>2. Relevant(Window) \subseteq Posted
    BY DEF Relevant, Window
  <1>3. RelevantOf(a, Window, Relevant(Window)) \subseteq Relevant(Window)
    BY DEF RelevantOf
  <1> QED
    BY <1>1, <1>2, <1>3

\* Posts stay posted.
LEMMA PostedGrows ==
  ASSUME TypeOK, timeline \in Timelines, timeline' = timeline, now' \in {now, now + 1}
  PROVE  Posted \subseteq Posted'
PROOF
  <1>1. \A p \in DOMAIN timeline : timeline[p].at \in Nat
    BY TimelinesAssumption
  <1>2. now \in Nat
    BY DEF TypeOK
  <1> QED
    BY <1>1, <1>2 DEF Posted

LEMMA SnapshotsInvariant == Spec => []Snapshots
PROOF
  <1>1. Init => Snapshots
    BY AiSnapshotReads DEF Init, Snapshots
  <1>2. TypeOK /\ timeline \in Timelines /\ Snapshots /\ [Next]_vars => Snapshots'
    <2> SUFFICES ASSUME TypeOK, timeline \in Timelines, Snapshots, [Next]_vars PROVE Snapshots'
      OBVIOUS
    <2>1. CASE RulesRun
      <3>1. rules'.relevant = Relevant(Window) /\ rules'.seen = Relevant(Window)
            /\ UNCHANGED <<now, timeline, ai>>
        BY <2>1 DEF RulesRun, Untouched
      <3>2. Relevant(Window) \subseteq Posted /\ Posted' = Posted
        BY <3>1 DEF Relevant, Window, Posted
      <3> QED
        BY <3>1, <3>2 DEF Snapshots
    <2>2. CASE AiRun
      <3>1. PICK s \in AiSnapshots(AiSays) : ai' = s
        BY <2>2 DEF AiRun
      <3>2. UNCHANGED <<now, timeline, rules>> /\ Posted' = Posted
        BY <2>2 DEF AiRun, Untouched, Posted
      <3> QED
        BY <3>1, <3>2, AiSnapshotReads DEF Snapshots
    <2>3. CASE UNCHANGED <<timeline, rules, ai>> /\ now' \in {now, now + 1}
      BY <2>3, PostedGrows DEF Snapshots
    <2> QED
      BY <2>1, <2>2, <2>3 DEF Next, AtEnd, vars, server, Tick, Confirm, Untouched, TimerFires, Refresh, Hide,
         Show, Serve, Land, RequestFails, Superseded
  <1> QED
    BY <1>1, <1>2, ScreenTypes, TimelineKept, PTL DEF Spec

\* The feed hides no post that the current snapshot rests on or does not know of, for
\* any size and age of the feed, whatever the AI finds relevant.
THEOREM FeedTheorem == Spec => []NothingHidden
PROOF
  <1>1. TypeOK /\ timeline \in Timelines /\ Snapshots => NothingHidden
    <2> DEFINE cur == PickCurrent
    <2> SUFFICES ASSUME TypeOK, timeline \in Timelines, Snapshots, cur # Nothing,
                        NEW p \in cur.s.relevant \cup (Relevant(Window) \ cur.s.seen)
                 PROVE  \/ p \in Feed
                        \/ timeline[p].at < now - FeedAge
                        \/ Cardinality(Feed) = FeedSize /\ \A q \in Feed : Later(q, p)
      BY DEF NothingHidden
    <2>1. cur.s \in {rules, ai} /\ cur.s # Nothing
      BY DEF PickCurrent
    <2>2. cur.s.relevant \subseteq cur.s.seen /\ cur.s.seen \subseteq Posted
      BY <2>1 DEF Snapshots
    <2>3. p \in Kept(cur)
      BY <2>2 DEF Kept, Relevant, Window
    <2> DEFINE recent == {q \in Kept(cur) : timeline[q].at >= now - FeedAge}
               feed == Feed
    <2>4. recent \in SUBSET DOMAIN timeline
      BY DEF Kept, Posted
    <2>5. feed = FirstOf(recent, FeedSize)
      BY DEF Feed, FirstOf
    <2>6. now \in Nat /\ timeline[p].at \in Nat
      BY <2>3, TimelinesAssumption DEF TypeOK, Kept, Posted
    <2>7. p \in recent \/ timeline[p].at < now - FeedAge
      BY <2>3, <2>6, ScreenAssumption
    <2> HIDE DEF recent, feed
    <2>8. ASSUME p \in recent \ feed PROVE Cardinality(feed) = FeedSize /\ \A q \in feed : Later(q, p)
      <3>1. FeedSize \in Nat
        BY ScreenAssumption
      <3> QED
        BY <2>4, <2>5, <2>8, <3>1, LatestOf
    <2> QED
      BY <2>7, <2>8 DEF feed
  <1> QED
    BY <1>1, ScreenTypes, TimelineKept, SnapshotsInvariant, PTL
=============================================================================
