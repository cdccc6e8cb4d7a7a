# Verification of aerial-threat

TLA+ modules, TLC runs and TLAPS proofs about this repository: its worker, its database layer, its API, its
rules and its web client. Paths are relative to the root of the repository. `PROJECT.json` maps every definition
to the lines it models, lists the runs, the findings, the hazards and the theorems.

    tlc -workers 2 -config JobQueue.cfg MCJobQueue.tla    # a run: <run>.cfg with its MC module
    tlapm JobQueueProofs.tla                              # the proofs: each *Proofs module

## 1. The system

A worker process runs four loops under a supervisor (`apps/worker/src/main.ts`, `supervise.ts`); an API
process reads the database and takes operator commands; a web client polls the API. PostgreSQL is the only
thing they share.

| component | state | operations | talks to |
| --- | --- | --- | --- |
| job queue (`packages/db/src/queue.ts`) | rows of `jobs` | enqueue, claim (two statements), heartbeat, complete, fail, releaseLeases | ingestion and operator commands enqueue; the situation loop claims |
| NEPTUN connector (`packages/neptun`) | chain of events, last applied set, request in flight, socket | REST snapshot, stream frame, control poll | provider; one handler, one event at a time |
| alert projection (`db/repos/alerts.ts`, `loops/neptun.ts`) | `alert_states`, `source_health` | apply a set, record a failure, age to stale and unknown | connector; read API; situation loop |
| Telegram collector (`loops/telegram.ts`) | update queue, cursor per channel, checkpoint, advisory lock | resync, catch up, re-read windows, apply updates, tick, drain | Telegram; ingestion |
| ingestion (`db/ingest.ts`) and archive import | messages, revisions | store one post and enqueue its job | collector, import; job queue |
| situation loop (`apps/worker/src/situation`) | cadence in memory, `situation_snapshots` | claim jobs, read alert, rules snapshot, AI snapshot | queue, alerts, AI gateway |
| situation rules and answers (`domain/situation`, `ai/situation`) | none (pure) | statuses of a window; statuses of the answers | situation loop |
| AI evaluation call (`packages/ai/src/evaluator.ts`) | daily and lifetime budget, breaker, slots | one call with retries | gateway |
| `GET /v1/situation` and the screen | none in the API; data, ETag, timer, request in the browser | choose the snapshot, tile, feed; poll, refresh, expire | snapshots, alerts |
| operator commands (`db/repos/admin`) | audit rows with idempotency keys, versions, incidents, decisions | review, merge, split, reprocess, pause | queue, incidents |
| public feed (`db/repos/read`) | none | pages of incidents, details, alerts, overview | incidents, alerts |
| aggregation (`domain/aggregation`) | none (pure) | link, withdraw, merge, split, refresh | tools only, so far |
| claims (`domain/claims`), places (`packages/geo`) | none (pure) | fragments and times of a post, publication decision; places and routes | rules; tools |
| retention, migrations | none | batched deletes and scrubs; one migration run | every table |

What is hard: the loops share tables but not transactions; every `await` lets something else run; the
provider pushes, answers late, twice or not at all; a process may die between any two statements, or is told
to stop while a call is under way; leases and locks can be lost without the holder knowing; operators repeat
commands, and readers page through what they change; a browser's requests overtake each other. `PROJECT.json`
lists these places one by one under `hazards`, with the property that covers each.

What makes the parts correct:

- queue: one active job per key, each result committed once, only by the holder of the latest lease, no
  more attempts than allowed, and every job of a claimed kind is settled in the end;
- alerts: the projection is that of the newest accepted set, only a set clears an alert, what is published
  is as recent as its freshness says, and the last set of the provider is reached in the end;
- collector: the checkpoint never passes unsaved content that the backfill can reach, nor a deletion that was told, no live
  post is marked deleted, and the stored posts converge to those of the channel, as far as a window reaches;
- ingestion: an import never rewrites a post of the live collector nor puts an earlier text back, and the worker
  is told of every text that becomes current;
- situation: no post of the rules window is hidden, every new post reaches the AI, calls keep their distance;
- rules: a threat that is on is not described by one that is over, and time alone only calms;
- evaluation call: no limit is exceeded, a half-open circuit has one trial, every call ends;
- screen: it shows what the server said last, marks or drops it in time, and hides no post;
- operator commands: nothing applied twice or lost, nobody waits forever, evidence has one home, and what is
  public was vouched for by the policy or an operator;
- aggregation: a claim counts once, nothing is lost for audit, only reports revive an incident.

## 2. Modules

| module | models | extended by |
| --- | --- | --- |
| `JobLifecycle` | what the queue promises: the abstract specification | instantiated by `JobQueue` |
| `JobQueue` | the queue, the processes that lease from it, shutdown and crash, retention of done jobs | `MCJobQueue`, `JobQueueProofs` |
| `NeptunAlerts` | provider, network, connector, handler, projection, ageing, published alerts and overview | `MCNeptunAlerts`, `NeptunProofs` |
| `TelegramCollector` | channel log, lease, update queue, resync, differences, windows, checkpoint transaction, tick, shutdown | `MCTelegramCollector`, `CollectorProofs` |
| `Ingestion` | the transactions that store one post: live collector and archive imports, revisions, the job | `MCIngestion`, `EvidenceProofs` |
| `Situation` | posts and their jobs, one tick with every await, snapshots, restart, the choice of the screen | `MCSituation`, `SituationProofs` |
| `PlaceMentions` | places a text names, how they relate to the threat, and routes | `PostLexicon` |
| `PostLexicon` | what the lexicon finds in a post: a member of `Facts` | `MCSituationScreen` |
| `SituationRules` | cues of a post, and which post decides each status | `SituationAnswers` |
| `SituationAnswers` | validation and translation of the answers of the AI | `SituationScreen` |
| `SituationScreen` | alert row and snapshots, the answer of the API, the browser's polling | `MCSituationScreen`, `ScreenProofs` |
| `EvaluationCall` | slots, budget, breaker, retries, abort | `MCEvaluationCall`, `EvaluationProofs` |
| `Aggregation` | claims and incidents, driven by the callers its comments describe | `MCAggregation`, `EvidenceProofs` |
| `OperatorCommands` | requests as transactions with locks, retries and failures; edits, deletions and retention beside them | `IncidentFeed` |
| `ClaimPolicy` | context, place and publication decision of a claim | `IncidentFeed` |
| `IncidentFeed` | what is public, in pages, details and the review queue, while operators work | `MCOperatorCommands`, `OperatorProofs` |
| `ClaimExtraction` | fragments, literal candidates and times of a post | `MCOperatorCommands` |
| `JobQueueProofs`, `NeptunProofs`, `CollectorProofs`, `EvidenceProofs`, `SituationProofs`, `EvaluationProofs`, `ScreenProofs`, `OperatorProofs` | the theorems (section 4) | |

Two groups are compositions. `SituationScreen` runs the rules on posts and puts the snapshots they give, and those
of the AI, behind the API and a browser; its MC module makes the texts from words with `PostLexicon` and
`PlaceMentions`. `IncidentFeed` runs the operator commands on claims about which `ClaimPolicy` has decided, on what
`ClaimExtraction` found in their posts, and reads them as the public API does.

In each of them a statement, a transaction or the code between two awaits is one action, named after the
function it stands for. A definition marked `Fault:` is not part of any specification: it is the definition
after it with a plausible mistake, used to see that a property would notice.

**JobQueue.** `job` is the table, `held[w][j]` the `attempts` of the row that `claim` returned to worker `w` (the handle),
`proc` where the worker is, `enq` where a call of `enqueue` is between its statements. `claim` is
`Bury` and then `Lease`, as its two statements are not in one transaction. Time is kept as distances to
`now()`: `wait` (next_attempt_at) and `lease` (lease_until); below -1 a lease is just over, and below
`-MaxAge` two waits are not told apart. `ReleaseLeases` is not guarded by what the worker does: after the drain
timeout it happens while the loops still run. A process that starts again may have the same owner name (host
and pid). `results` counts committed results. Jobs whose key is not in `Consumed` are of a kind no loop claims.

**NeptunAlerts.** The provider's sets are numbered; `updatedAt` is the number, or 0 when the payload has none
that is valid; a set gives each area a level and the start of its alert, which an entry may lack. `rest` is the request in flight, from the trigger to the end of its event in the chain;
`wire` the frames under way; `chain` the events not handled yet; `last` the ordering guard. `rows[a].stamp` is
last_provider_change_at, with whose time it is: the start of an alert that began, the `updatedAt` of the set that changed the row, or, without one,
the moment it was observed. `shown` (history) the number of the last accepted set. The freshness tick is two actions,
one per statement, with one `now`. `ListAlerts` and `Overview` are what the read API makes of the rows at any moment.

**TelegramCollector.** The server's `log` of changes is the truth; a change's index is its pts and names the
content it sets. A post in `lost` was deleted without an entry in the log, since Telegram does not tell every deletion. `stored`, `gone` and `checkpoint` are the database, `col[c]` a collector whose `pc` names
the await it has reached, `lock` who really holds the advisory lock. `ChannelDifference` has the three answers of the
adapter: nothing new, a page, or too long. A window shows the live posts newer than its
`horizon` (24 hours for the backfill, one hour for the recheck, as `Elapse` moves them) that have fewer than `RecentLimit` newer ones (2000 in `gramjs.ts`). `CommitUnknown` is a transaction that committed although its caller saw an error.
`missed` (history) holds the changes that a first start or too long a gap leaves to a window, and that this does not find: content beyond
the backfill, and deletions that are not between two posts it shows.

**Ingestion.** One post and everybody who stores it. `log` is what the channel made of it; a version is an index
into it and stands for the time of that edit. `row`, `revision` and `job` are what is committed, `ses[w]` the
transaction of a writer, `holder` who has the row locked or inserted but not committed: PostgreSQL makes the others
wait there, so that only the first read of an import, the wait, the enqueue and the commit are steps of their own.
`EditedAt` is the one subtle point of PostgreSQL: a locking read that waited re-evaluates its join with
the new message but the revision of its snapshot, and the outer join then gives no date.

**Situation.** A snapshot is reduced to when it was made and which posts it has seen. `tick` is the tick in
progress, with the `now` it started with. `seen`, `drained` and `early` are history variables for the
properties. `RulesEvery`, `AlertEvery`, `QuietEvery` and the windows stand for the configured intervals; as in the default
configuration a quiet call reaches back as far as the rules do: `WindowsReach` of `SituationProofs`, on which two theorems depend.

**SituationRules, PostLexicon, PlaceMentions.** A post is a record of what the lexicon finds in it; `Cues` is
`cues()`, `RulesSituation` is `rulesSituation()`. Positions in a text matter only by their order. In `PostLexicon` a text is a
sequence of tokens and a phrase of the lexicon is one word; `PlaceMentions` has the dictionary as a constant, with the
inflected forms of each name.

**SituationScreen.** `row` is the alert of the raion, `rules` and `ai` the latest snapshots, `Answer` the body the API would
send now: its ETag is a hash of the body, so two answers have the same version exactly when they are equal. `tab` is the
state of `useSituation`, `req` the current request, `old` a superseded one whose answer may still arrive. `check`
(history) is the last answer that landed. Posts are numbered, and the feed is a set, ordered by time and number. The worker's side is as coarse as the answer can tell.

**EvaluationCall.** `call[c]` is where the caller is between two awaits, `waiting` the queue for a slot. The timeout of a request is
the `Transient` outcome; a 4xx, an unusable answer and the caller's abort are `Answer`, since the breaker treats them alike.

**OperatorCommands, IncidentFeed.** `ses[s]` is a request from its arrival to its answer: it takes the advisory lock of its key, its
row locks and runs its body; a failure rolls it back. `Revise` and `Delete` are the collector and the imports, which change a
message and its version between two requests and wait for its row; `ingested` (history) counts them. `holder` is who has each row locked. A repeated request is one of `sent`.
A page and the review queue are sets in the model, whose order is that of their keys. The reader of `IncidentFeed` has no state: `PagesAcrossWrites` compares the page before a step with what the cursor gives after it.

**Aggregation.** The functions are pure, so the module adds the callers: a claim is stored, searched for, linked or given a new incident,
delivered again, reviewed, withdrawn; incidents are merged, split and swept. Scores only order candidates and are left out. Its names
carry the module's (`AggregationSpec`, `None`), since its proofs stand beside those of `Ingestion`.

## 3. Runs

| run | asks | states |
| --- | --- | --- |
| `JobQueue` | one job per key, the lifecycle, and is every job settled; two workers, two rows, two stops | 149 000 |
| `NeptunAlerts` | safety of the alerts with one restart, while they begin, end and are restarted, and is the last set reached | 263 000 |
| `TelegramCollector` | checkpoint, content and deletions under disturbances, and do the stored posts converge to those of the channel | 237 000 |
| `Ingestion_safety` | live posts, older exports and announcements, with a live collector and two imports | 424 000 |
| `Ingestion_older` | violation: an older export over a newer text | |
| `Situation_safety` | screen, signal and cadence through failures, a stopped call and a crash | 2 600 000 |
| `Situation_live` | does every post reach the AI when nothing stops the process | 76 000 |
| `Situation_abort` | violation: a call cut short is not retried | |
| `EvaluationCall` | limits, the trial and the end of every call, with three callers on two slots | 169 000 |
| `Aggregation` | one home, audit, and what revives an incident, over six stories of three claims | 172 000 |
| `OperatorCommands` | versions, evidence, retries, what is public and pages, with two requests at a time, and do requests that lock the same rows end | 158 000 |
| `SituationScreen` | rules over every order of three posts, and the browser on one of them | 1 080 000 |

Bounds, and why they are enough:

- *Queue*: `MaxAttempts = 2` has a first, a last and no further attempt; `LeaseTicks = 1` lets a lease run out and
  be extended; one key is of a kind nobody claims. Two stops suffice for a handle that outlives its lease, and for
  a successor that stops as well. The proofs cover any number of rows, workers and keys.
- *Alerts*: two sets over four areas, one after the other. The alert of a raion, from which that of its oblast is derived, is
  restarted at its level; that of an area no dictionary knows, without a start, ends; and that of another oblast begins, at a moment before
  the set that shows it; two versions; the clock runs past both
  thresholds; one event may wait in the chain while another is handled. `StreamDelay` bounds how long a frame is
  under way, since without it no statement about recency could hold. The two request intervals are 0: they are lower
  bounds on when a request may start, and a bounded clock would turn them into a ban. `NullAllowed = FALSE`: `NoRollback` relies on
  provider times; with a payload that has none, the order is that of arrival and an older set can land until the next poll.
- *Collector*: three changes of three posts (publish, edit, delete in every order that fits), a page
  of one change, a queue of one update so that it overflows, gaps over two changes too long. A window holds two posts and
  may be cut by age before each of them: with three posts a deletion can lie between two that it shows, and content beyond them.
  `MaxWeight` bounds the disturbances: two of an update, a crash, a shutdown and an unknown commit go together; a lost lock, a
  dropped channel, an untold deletion or the passing of time comes alone. There is one collector in the run; any number of them,
  logs and disturbances is what `CollectorProofs` is for.
  `NoOldWriter` names the two sequences that are known to put older content back (section 5); `CursorCovered` and
  `DeletionsCovered` leave them out, the other properties do not.
- *Ingestion*: three texts and four versions have every pattern of edits up to two edits back, so that an export may lie between two versions
  of one text (`Ingestion_older` needs three); two imports of any two
  versions beside the live collector, with four versions one at a time (`MaxLoad`); any transaction may fail at any step. `NotOlder` and `Announced` name their
  exceptions, which are the findings and observations of section 5.
- *Situation*: two posts, five instants, each interval and window longer or shorter than the others as in the
  default configuration; one alert change, one failure, one stopped call and one crash. The clock moves between
  any two steps; `SignalKept` and `PostsReachAi` leave out the posts of `early`, published after the tick began that
  drained them (section 5).
- *Evaluation call*: two slots for three callers, so that one waits; a daily limit below the lifetime cap, so that each refuses
  first in some run; two UTC days; a threshold of two and a cooldown of one tick; one retry. Any caller aborts at any moment.
- *Aggregation*: six stories are the situations the rules tell apart: two channels on one city with a clear claim for the oblast,
  a report after its own clear claim, a place too broad to link, copies with an assumed place, the aftermath of two days,
  and a live report beside its import. Four instants cross both windows and both ages of the lifecycle; two changes allow a merge after a
  split, or a review of what was withdrawn elsewhere.
- *Operator commands*: two incidents and a free id, opposite merges, a split of reviewed and excluded claims, a review of a claim that is
  being split off, pause, resume, reprocess; two requests different by key or content, each repeated any number of times and failing at
  any point; one edit or deletion of a post, or deletion by retention, beside them (`MaxBeside`). Pages have one row.
- *Screen*: eleven kinds of post, each in every place of three, at five rhythms that pass each of the four horizons of the rules; the
  rules' properties are looked at only where no screen is open, since they depend on the posts alone. A browser watches the one timeline where the all-clear
  lies between two threats, opened with or without an AI snapshot; one confirmed alert set, one evaluation and one refresh or change of visibility beside
  polls that fail, hang or are answered by 304. `AtEnd` stops the clock. The two polls have one length here; the proofs take any.

Symmetry is used over imports, texts and posts, in runs of safety properties only.

Bounded facts about the pure functions are assumptions of the MC modules, which TLC evaluates with the run: `SplitKeepsTheThreats` and
`MarkedLinesStandAlone` over every text of up to three lines of six kinds in one paragraph or two, `TimesOfTheTests`, `RoutesOfTheTests`,
`RelationsOfTheTests` (sentences of the repository's tests), `FactsOfTheWords` and `InputsOfThePosts` (the facts and the inputs of
the policy that the instances write out are those the lexicon and the extraction find in the words of their posts), and `ErrorsCountPairs` over every pair of groupings of three claims.

**Fairness.** Queue: a live process takes its next step, gives up or completes what it holds, a stopped one is
replaced (a service manager restarts the worker), and time passes; nobody is obliged to enqueue or to stop. Alerts: strong fairness of the
provider's answer, of the arrival of a response and of `Apply`, as requests and transactions that are
repeated for ever succeed in the end; nothing is assumed of the stream. Collector: the same for its calls and its transaction;
nothing of pushed updates. Situation: weak fairness of the steps of a tick, strong fairness of the expiry of a
lease, and failures are bounded. Evaluation call: weak fairness of each caller's next step, as the event loop runs what is ready and a timer ends every
request and every delay; nobody is obliged to call or to abort. Operator commands: strong fairness of the work of each request, as PostgreSQL grants
a lock to those who wait in turn; failures are never obliged to happen.

## 4. Proofs

Eight modules hold theorems; each theorem is proved for all values of the constants that satisfy the named assumptions of its
component. Every invariant and every action property of the passing runs is among them, so that what TLC shows of a small instance
holds of any. In each the argument is an inductive invariant, with a lemma per action.

`JobQueueProofs`: the safety of the queue (`TypeOK`, `UniqueActive`, `HandleFresh`, `AttemptsBounded`, `ResultOnce`, `OutcomeByHolder`), and that it
implements `JobLifecycle`. `QueueInv` is `TypeOK`, `UniqueActive`, `LeaseShape` (a row has an owner exactly while it runs),
`HandleFresh`, `AttemptsBounded` and `ResultOnce`. It is inductive only as a whole: that a handle which passes the
fence is the one of the latest claim needs to know that the owner is cleared whenever a run ends; that `Fail` respects the
bound on attempts needs the handle to be fresh; that a result is committed once needs that the row of a
completed job is running, which the fence gives. In the refinement `Complete` maps to `Commit`, `EnqueueInsert` to `Submit`, `Bury` and a
last `Fail` to `Abandon`, `DeleteDone` to `Forget`, and everything else to a stutter.

`NeptunProofs`: `ProjectionFaithful`, `HealthHonest`, `PublishedIsRecent` and `StampOnChange`, for any areas, alert sets, thresholds and
number of crashes, and `NoRollback` if `NullAllowed = FALSE`. Whatever is on its way to the rows is followed from the provider on: `NeptunInv` says that each
frame (`WireOK`), the request (`RestOK`), each event in the chain (`ChainOK`) and the rows (`RowsOK`) carry a set that was the provider's at a moment the
connector knows (`Observed`, give or take `StreamDelay`), that the rows say of each area what the accepted set says, its start included, and that the health and the ordering guard speak of the set that is in the rows (`GuardOK`). The rows alone are not inductive: what
`Apply` writes is what the chain held, and how old that may be was settled when it was sent. Assumed are finitely many areas and a tracked one.

`CollectorProofs`: the four safety properties of the collector, for any number of collectors, of which several may be at work once a lock is lost, any log
and any number of faults. There are three invariants, each resting on the one before it.
`CursorInv` gives `CursorBehindCheckpoint`: no cursor is ahead, since only `Save` moves the checkpoint, to the later of the old and the new.
`ToldInv` gives `NoFalseDeletion`: what a collector holds and what is stored know of no deletion that did not happen, told or not (`Told`, `StoreOK`), and no change of a post
follows its deletion (`LogOK`). `WriterInv`, which holds while `NoOldWriter` does, gives `CursorCovered` and `DeletionsCovered`: there is one
collector at work, it holds the lock, it is at the checkpoint or one page behind it (`InStep`), and its batch leaves out no change between the checkpoint
and its own pts but those in `missed` (`Complete`): what a window is to cover and cannot show is recorded when it is read, for any horizons and limit. The lemma `Page` says what a page of a difference contains, and what is left for the next.

`EvidenceProofs`, ingestion: every property `Ingestion_safety` checks, for any number of imports, texts and versions.
`IngestionInv` adds to the types what a transaction knows (`KnowsRow`: the mode of the row never changes, and between `Lock` or
`Store` and the commit nobody else changes the row; `KnowsJob`: the job the enqueue found is active unless it was overtaken),
that every stored date is that of a version with this text (`Dated`), and that the row shows the version `current` stands for.
`NotOlder` then follows: the text that is replaced has the date of a version before the export, which the comparison passed. It uses
`IngestionAssumption`: the live collector is none of the imports, and `Nothing` is none of the values.

`EvidenceProofs`, aggregation: `OneHome`, `KeptForAudit` and `OnlyReportsRevive`, for any claims, places, windows and scenarios and any number of changes.
`AggregationInv` says of each incident that it has one row per claim, all of its own mode, that its last report is the latest of the active
ones and its lifecycle that of a moment that has passed (`Good`), and of each claim that it is at home in one incident at most, and in one at least if some incident
has kept a row of it and it was not withdrawn (`Housed`). The last part is what redelivery needs: a claim that comes again goes back to
its home, or finds none and has no row anywhere; with an inactive row left behind `Apply` would change nothing and the claim be lost. That the home is open to it (`HomesAreOpen`) needs
`Good`. `MostSpecific`: of nested places one is the most specific, from the finiteness of the dictionary and the transitivity of `Ancestors`,
both in `AggregationAssumption`.

`SituationProofs`: `TypeOK` and `AiSpacing` for any posts, delays, intervals, failures, aborts and crashes. `SituationInv` adds to the types that jobs are of published posts
(`JobsOK`), that the process remembers its last call at least as late as the database (`CadenceOK`: after a restart it is read
back), and when what was seen was published (`SeenOK`). `SignalKept` and `ScreenComplete` are proved under `WindowsReach`: the window of the rules is no longer than the longest
a quiet call may reach back, nor than a quiet interval and its overlap. The code has 30 minutes against six hours, and against an hour and five minutes
(`packages/config/src/index.ts:59`). The hypothesis is needed: with a quiet interval of less than 25 minutes, which the configuration allows, the window of a call may
begin after posts that the rules' snapshot still has, and TLC shows the screen then losing them. `CallComplete` is the step between: a call under way has in its window every post that it owes.

`EvaluationProofs`: `WithinLimits` and `OneTrial`, and that slots are accounted for (`SlotsKept`), for any number of callers and all limits.
`EvaluationInv` relates the counter of the day to what was sent on it, with nothing sent on later days (`Counted`): this is what carries the daily
limit across midnight. The queue holds each waiting call once (`Orderly`), a trial is in flight and `probing` says whether there is one
(`OneProbe`), and `active` counts the calls that hold a slot (`SlotsKept`), which with `active <= Concurrency` bounds the requests in flight. The lemmas on
`Holding` say how its cardinality changes when a call enters, leaves, or hands its slot to the head of the queue.

`OperatorProofs`: `VersionsAudited`, `OneHome`, `RetryAnswered`, `PublicIsVouched` and `PagesAcrossWrites`, for any number of requests at a time, keys, claims
and incidents. `OperatorInv` has the types, no key held by two requests (`KeysApart`), an audit row that answers for what was applied
(`KeysAnswer`), each version equal to the number of commands that changed the row and, for a message, of its edits and deletions (`Counted`), a claim active in one incident at most (`Homes`), and a claim
published only by the policy or by a command that was applied (`Judged`). `Counted` needs the keys: a command that was already applied would not count
as another one. `PagesAcrossWrites` goes by the ranks of the rows (`RankIn`): a page holds those that come before its cursor, and no write moves the last
evidence of an incident down. `FeedAssumption` says that the claims start with the decisions of the policy.

`ScreenProofs`, the browser: `ShownIsChecked`, `AnswersForward` and `TileIsRecent` for all intervals, age limits, posts and answers, and any number of refreshes.
`ScreenInv` says that the version held and the version sent are those of the data on screen (`Versions`), that every answer was true to the row's age
when it was made, and is later than the one that landed before (`Answered`), and when the next timer or timeout is due (`Paced`).

`ScreenProofs`, the rules and the feed: `ThreatNotOver`, `AgeingOnlyCalms` and `NothingHidden` for any timelines, horizons and posts. `ThreatNotOver`: the newest
post that speaks of a status decides it, and whatever contradicts, voids or answers that post is newer still, so that it is within its horizon too and would be seen
(`Sighted`, `SeenAt`). `AgeingOnlyCalms` compares the rules at two moments cue by cue: with time a cue only leaves (`Aged`), and each status is
either decided as before or by less (`Calms`, `Fades`). `NothingHidden` needs that every snapshot holds posts of the timeline (`Snapshots`), and that the newest `n` of a finite set are those with
fewer than `n` later ones (`FirstOf`). Assumed are finite, numbered timelines and posts typed as the lexicon types them.

Only model-checked: liveness (`JobsSettle`, `Convergence`, `Converges`, `PostsReachAi`, `CallsEnd`, `CommandsEnd`), which is out of the prover's reach; the bounded facts about pure
functions, most of which are inductions over a text; and what the violation runs show.

## 5. Findings

1. *Import.* An older export replaces a newer text when the import did not find the post and another import stores
   it in between, when the post was edited back to a text whose revision keeps no date or one before the export, or when it changed while
   the import waited for its row (`Ingestion_older`). `NotOlder` shows that there is no other way.
2. *Situation.* A call cut short by shutdown is not retried by the next start (`Situation_abort`).

Observations the modules reach but no run is kept for; each is excluded by name from a property, and dropping that
exclusion makes TLC show it:

- *Alerts* (`NullAllowed`). A set without a valid `updatedAt` disarms the order by provider time; a delayed frame of the set before
  it then lands after it. The next request repairs it.
- *Collector* (`NoOldWriter`). A collector that lost its session lock writes until its next tick, and puts the content of a
  post back behind the checkpoint. So does the drain of a shutdown after a commit that succeeded although it failed
  for its caller.
- *Collector* (`missed`). Posts and edits older than 24 hours, or with 2000 newer posts, that were published while a gap grew too long to be
  served, or before a first start, are passed by the checkpoint and stay missing; `docs/runbooks.md:106` has them imported from an export. A
  deletion that Telegram does not tell is found only between two posts of a window, and otherwise never (`loops/telegram.ts:369`); so
  are the told ones of such a gap.
- *Ingestion* (`unheard` in `Announced`). An enqueue that finds the job of a text edited back to still active relies on
  it; if the job is completed before the transaction commits, nothing announces the change.
- *Situation* (`early` in `SignalKept`). The window of a tick ends at the `now` it began with, so a post that is published
  before the tick claims its jobs is drained but not in the window, and the empty window resets the signal.
- *Situation* (`WindowsReach`). With a quiet interval under 25 minutes the snapshot of a quiet call may replace that of the rules on the screen although its
  window is the shorter one, and posts of the last half hour disappear.
- *Feed* (`PagesAcrossWrites`). An incident whose key rises between two pages, as the target of a merge, is missed by the rest
  of that listing, and the incident a split makes may appear later in the same listing; a new listing shows both.
- *Screen* (`refreshes` in `TileIsRecent`). Each refresh that supersedes a request in flight may postpone the expiry of the tile by one timeout;
  the statuses stay on screen, marked, after the tile has expired.
- *Rules* (`ThreatNotOver`). Of two posts of the same second, which is the newer is up to the query.

## 6. Not modelled

- *Alerts*: `heartbeat` events, payload rows; the incidents in the overview, and links.
- *Collector*: several channels over one queue, paused sources, FLOOD_WAIT (the same call after a pause), source health, the jobs of `markDeleted`.
- *Situation*: routes stored with a snapshot, the cap of 20 posts, evidence lists, the row of the oblast as a fallback for that of the raion.
- *Screen*: route and sources in the answer, deleted posts and the texts replied to in the feed, a suspended or throttled browser tab, clocks that
  disagree, layout and wording; a stored freshness that is worse than the age of its row.
- *Texts*: caps on the length of gaps and headings, line breaks inside separators, unknown names of two words; redaction; the term lists, the lexicon's
  regular expressions and the geo dictionary, which are constants. Distances in a text are in words.
- *Answers of the AI*: prompts and schemas, tokens; an answer that is refused leaves an error row nobody reads.
- *Operator commands*: the fields a correction changes, `claim.active`, the refusal of a merge across modes, the jobs a command enqueues (as many as audit rows).
- *Feed*: columns that only filter (area, kind, lifecycle, mode), evidence statistics, failed runs in the review queue.
- *Migrations*: one advisory lock and one transaction per file, before a start. *Tools*, the export parser, configuration, logging, schemas and DTOs:
  no state, or the same functions on a virtual clock. Verification of tokens is a library's.

## 7. Plan

1. `CollectorChannels`: several channels over one queue and one resync flag, and a paused source.
2. `Retention`: payloads and texts, and an edit back to a text that was scrubbed (`loops/retention.ts:49`, `db/src/ingest.ts:60`), which would be shown empty.
3. Proofs: each of these modules with its own, `CollectorChannels` on the invariants of `CollectorProofs`; lemmas about `ClaimPolicy` and `SituationAnswers`,
   which are not recursive.
