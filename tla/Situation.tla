----------------------------- MODULE Situation -----------------------------
(***************************************************************************)
(* The Kremenchuk screen: the situation loop of the worker                 *)
(* (apps/worker/src/situation/index.ts) - new-post signal, alert, rules    *)
(* snapshot, AI snapshot - and what the API shows of its snapshots         *)
(* (packages/db/src/repos/situation.ts).  Each await of a tick is a step,  *)
(* so that posts, alerts, time, failures and stops fall between them.      *)
(* What a snapshot says is abstracted to the posts it has seen.            *)
(***************************************************************************)
EXTENDS Integers, FiniteSetsExt

CONSTANTS
  Post,          \* posts of the Kremenchuk channels
  Noise,         \* those the noise rule drops from every window
  MaxLate,       \* a post may be ingested this long after it was published
  RulesEvery, AlertEvery, QuietEvery,    \* the three intervals
  RecentWindow, QuietMax, Overlap,       \* the windows
  Expiry,        \* EVALUATION_FRESHNESS.unknownAfterMs
  MaxTime, MaxFlips, MaxAborts, MaxCrashes, MaxFails,   \* bounds
  Nothing

ASSUME SituationAssumption ==
  /\ Noise \subseteq Post
  /\ {MaxLate, RulesEvery, AlertEvery, QuietEvery, RecentWindow, QuietMax, Overlap, Expiry} \subseteq Nat
  /\ {MaxTime, MaxFlips, MaxAborts, MaxCrashes, MaxFails} \subseteq Nat
  /\ Nothing \notin Int

VARIABLES
  now,
  published,   \* when a post was published, Nothing before it is ingested
  job,         \* its process_revision job
  alert,       \* NEPTUN reports the raion under alert
  rules, ai,   \* the newest rules snapshot and the newest AI snapshot that is ok
  aiAt,        \* evaluated_at of the newest AI snapshot, failed ones included
  st,          \* SituationState of the running process
  tick,        \* the tick in progress
  seen,        \* posts some AI snapshot has seen (history)
  drained,     \* posts whose jobs the running process completed (history)
  early,       \* those of drained published after the tick began that completed them (history)
  flips, aborts, crashes, fails

store == <<rules, ai, aiAt>>
history == <<seen, drained, early>>
bounds == <<flips, aborts, crashes, fails>>
vars == <<now, published, job, alert, rules, ai, aiAt, st, tick,
          seen, drained, early, flips, aborts, crashes, fails>>

Time == 0..MaxTime
MaybeTime == Time \cup {Nothing}
Snapshot == [at: Time, posts: SUBSET Post]

State == [lastRulesAt: MaybeTime, lastAiAt: MaybeTime, lastAiOkAt: MaybeTime,
          lastAiInAlert: BOOLEAN \cup {Nothing}, newForAi: BOOLEAN]

newState == [lastRulesAt |-> Nothing, lastAiAt |-> Nothing, lastAiOkAt |-> Nothing,
             lastAiInAlert |-> Nothing, newForAi |-> FALSE]

(* pc names the await a tick has reached; t is its `now`, posts what it     *)
(* claimed or the window it sent to the evaluator, wrote whether it wrote a *)
(* rules snapshot.                                                          *)
TickState == [pc: {"down", "idle", "claim", "drain", "alert", "rules", "ai", "call"},
              t: Time, posts: SUBSET Post, alert: BOOLEAN, wrote: BOOLEAN]

NoTick(pc) == [pc |-> pc, t |-> 0, posts |-> {}, alert |-> FALSE, wrote |-> FALSE]

TypeOK ==
  /\ now \in Time
  /\ published \in [Post -> (-MaxLate)..now \cup {Nothing}]
  /\ job \in [Post -> {"none", "ready", "running", "done"}]
  /\ alert \in BOOLEAN
  /\ rules \in Snapshot \cup {Nothing} /\ ai \in Snapshot \cup {Nothing}
  /\ aiAt \in MaybeTime
  /\ st \in State
  /\ tick \in TickState /\ tick.t <= now
  /\ seen \subseteq Post \ Noise /\ drained \subseteq {p \in Post : job[p] = "done"}
  /\ early \subseteq drained
  /\ flips \in 0..MaxFlips /\ aborts \in 0..MaxAborts
  /\ crashes \in 0..MaxCrashes /\ fails \in 0..MaxFails

Init ==
  /\ now = 0
  /\ published = [p \in Post |-> Nothing] /\ job = [p \in Post |-> "none"]
  /\ alert = FALSE
  /\ rules = Nothing /\ ai = Nothing /\ aiAt = Nothing
  /\ st = newState /\ tick = NoTick("idle")
  /\ seen = {} /\ drained = {} /\ early = {}
  /\ flips = 0 /\ aborts = 0 /\ crashes = 0 /\ fails = 0

-----------------------------------------------------------------------------
(* Around the loop *)

Clock ==
  /\ now < MaxTime
  /\ now' = now + 1
  /\ UNCHANGED <<published, job, alert, store, st, tick, history, bounds>>

\* ingestMessage: the post and its job, in one transaction.
Ingest(p, late) ==
  /\ published[p] = Nothing
  /\ published' = [published EXCEPT ![p] = now - late]
  /\ job' = [job EXCEPT ![p] = "ready"]
  /\ UNCHANGED <<now, alert, store, st, tick, history, bounds>>

\* The lease of a batch whose tick is over runs out.
LeaseExpires(p) ==
  /\ job[p] = "running" /\ tick.pc # "drain"
  /\ job' = [job EXCEPT ![p] = "ready"]
  /\ UNCHANGED <<now, published, alert, store, st, tick, history, bounds>>

AlertFlips ==
  /\ flips < MaxFlips
  /\ alert' = ~alert
  /\ flips' = flips + 1
  /\ UNCHANGED <<now, published, job, store, st, tick, history, aborts, crashes, fails>>

-----------------------------------------------------------------------------
(* One tick *)

\* loadWindow: current posts published in (from, to], noise dropped.
Window(from, to) ==
  {p \in Post \ Noise : published[p] # Nothing /\ published[p] > from /\ published[p] <= to}

Begin ==
  /\ tick.pc = "idle"
  /\ tick' = [NoTick("claim") EXCEPT !.t = now]
  /\ UNCHANGED <<now, published, job, alert, store, st, history, bounds>>

Claim ==
  /\ tick.pc = "claim"
  /\ LET batch == {p \in Post : job[p] = "ready"}
     IN  /\ job' = [p \in Post |-> IF p \in batch THEN "running" ELSE job[p]]
         /\ tick' = [tick EXCEPT !.pc = IF batch = {} THEN "alert" ELSE "drain", !.posts = batch]
  /\ UNCHANGED <<now, published, alert, store, st, history, bounds>>

\* Fault: the batch is signalled but its jobs are not completed.
DrainKeepsJobs ==
  /\ tick.pc = "drain"
  /\ drained' = drained \cup tick.posts
  /\ early' = early \cup {p \in tick.posts : published[p] > tick.t}
  /\ st' = [st EXCEPT !.newForAi = TRUE]
  /\ tick' = [tick EXCEPT !.pc = "alert", !.posts = {}]
  /\ UNCHANGED <<now, published, job, alert, store, seen, bounds>>

\* The transaction that completes the jobs; the signal is set once it committed.
Drain ==
  /\ tick.pc = "drain"
  /\ job' = [p \in Post |-> IF p \in tick.posts THEN "done" ELSE job[p]]
  /\ drained' = drained \cup tick.posts
  /\ early' = early \cup {p \in tick.posts : published[p] > tick.t}
  /\ st' = [st EXCEPT !.newForAi = TRUE]
  /\ tick' = [tick EXCEPT !.pc = "alert", !.posts = {}]
  /\ UNCHANGED <<now, published, alert, store, seen, bounds>>

ReadAlert ==
  /\ tick.pc = "alert"
  /\ tick' = [tick EXCEPT !.pc = "rules", !.alert = alert]
  /\ UNCHANGED <<now, published, job, alert, store, st, history, bounds>>

Since(at, every) == at = Nothing \/ tick.t - (IF at = Nothing THEN 0 ELSE at) >= every

\* writeRules: a new row, or the old one confirmed as current.
WriteRules == rules' = [at |-> tick.t, posts |-> Window(tick.t - RecentWindow, tick.t)]

Rules ==
  /\ tick.pc = "rules"
  /\ IF Since(st.lastRulesAt, RulesEvery)
     THEN /\ WriteRules
          /\ st' = [st EXCEPT !.lastRulesAt = tick.t]
          /\ tick' = [tick EXCEPT !.pc = "ai", !.wrote = TRUE]
     ELSE /\ UNCHANGED <<rules, st>>
          /\ tick' = [tick EXCEPT !.pc = "ai"]
  /\ UNCHANGED <<now, published, job, alert, ai, aiAt, history, bounds>>

Due ==
  IF tick.alert
  THEN st.lastAiInAlert = FALSE \/ Since(st.lastAiAt, AlertEvery)
  ELSE Since(st.lastAiAt, QuietEvery)

\* Fault: an alert looks back no further than the previous AI call.
WindowFromLast ==
  IF tick.alert /\ st.lastAiOkAt # Nothing THEN st.lastAiOkAt
  ELSE tick.t - RecentWindow

\* Where the AI's window starts.
WindowFrom ==
  IF tick.alert THEN tick.t - RecentWindow
  ELSE Max({(IF st.lastAiOkAt = Nothing THEN -QuietMax ELSE st.lastAiOkAt) - Overlap, tick.t - QuietMax})

SkipAi ==
  /\ tick.pc = "ai"
  /\ ~st.newForAi \/ ~Due
  /\ tick' = NoTick("idle")
  /\ UNCHANGED <<now, published, job, alert, store, st, history, bounds>>

EmptyWindow ==
  /\ tick.pc = "ai"
  /\ st.newForAi /\ Due
  /\ Window(WindowFrom, tick.t) = {}
  /\ st' = [st EXCEPT !.newForAi = FALSE]
  /\ tick' = NoTick("idle")
  /\ UNCHANGED <<now, published, job, alert, store, history, bounds>>

\* Fault: the signal counts as consumed when the call starts.
CallConsumes ==
  /\ tick.pc = "ai"
  /\ st.newForAi /\ Due
  /\ LET window == Window(WindowFrom, tick.t)
     IN  /\ window # {}
         /\ tick' = [tick EXCEPT !.pc = "call", !.posts = window]
  /\ st' = [st EXCEPT !.lastAiAt = tick.t, !.lastAiInAlert = tick.alert, !.newForAi = FALSE]
  /\ UNCHANGED <<now, published, job, alert, store, history, bounds>>

Call ==
  /\ tick.pc = "ai"
  /\ st.newForAi /\ Due
  /\ LET window == Window(WindowFrom, tick.t)
     IN  /\ window # {}
         /\ tick' = [tick EXCEPT !.pc = "call", !.posts = window]
  /\ st' = [st EXCEPT !.lastAiAt = tick.t, !.lastAiInAlert = tick.alert]
  /\ UNCHANGED <<now, published, job, alert, store, history, bounds>>

CallOk ==
  /\ tick.pc = "call"
  /\ ai' = [at |-> tick.t, posts |-> tick.posts]
  /\ aiAt' = tick.t
  /\ seen' = seen \cup tick.posts
  /\ st' = [st EXCEPT !.newForAi = FALSE, !.lastAiOkAt = tick.t]
  /\ tick' = NoTick("idle")
  /\ UNCHANGED <<now, published, job, alert, rules, drained, early, bounds>>

\* A failed row, and rules if this tick has not written them.
CallFails ==
  /\ tick.pc = "call" /\ fails < MaxFails
  /\ aiAt' = tick.t
  /\ IF tick.wrote THEN UNCHANGED <<rules, st>>
     ELSE WriteRules /\ st' = [st EXCEPT !.lastRulesAt = tick.t]
  /\ tick' = NoTick("idle")
  /\ fails' = fails + 1
  /\ UNCHANGED <<now, published, job, alert, ai, history, flips, aborts, crashes>>

\* The database fails an await: the tick ends, what it has set in memory stays.
TickFails ==
  /\ tick.pc \in {"claim", "drain", "alert", "rules", "ai", "call"} /\ fails < MaxFails
  /\ tick' = NoTick("idle")
  /\ fails' = fails + 1
  /\ UNCHANGED <<now, published, job, alert, store, st, history, flips, aborts, crashes>>

-----------------------------------------------------------------------------
(* Stopping and starting *)

\* Shutdown cuts the call short: "nothing recorded".
Abort ==
  /\ tick.pc = "call" /\ aborts < MaxAborts
  /\ tick' = NoTick("down")
  /\ aborts' = aborts + 1
  /\ UNCHANGED <<now, published, job, alert, store, st, history, flips, crashes, fails>>

Crash ==
  /\ tick.pc # "down" /\ crashes < MaxCrashes
  /\ tick' = NoTick("down")
  /\ crashes' = crashes + 1
  /\ UNCHANGED <<now, published, job, alert, store, st, history, flips, aborts, fails>>

\* Fault: a restart starts from a new state.
RestoredNew == newState

\* restoreState: the cadence continues from the stored snapshots.
Restored ==
  [newState EXCEPT !.lastRulesAt = IF rules = Nothing THEN Nothing ELSE rules.at,
                   !.lastAiAt = aiAt,
                   !.lastAiOkAt = IF ai = Nothing THEN Nothing ELSE ai.at]

Start ==
  /\ tick.pc = "down"
  /\ st' = Restored
  /\ tick' = NoTick("idle")
  /\ drained' = {} /\ early' = {}
  /\ UNCHANGED <<now, published, job, alert, store, seen, bounds>>

Work == Begin \/ Claim \/ Drain \/ ReadAlert \/ Rules \/ SkipAi \/ EmptyWindow \/ Call \/ CallOk

Next ==
  \/ Clock \/ AlertFlips
  \/ \E p \in Post, late \in 0..MaxLate : Ingest(p, late)
  \/ \E p \in Post : LeaseExpires(p)
  \/ Work \/ CallFails \/ TickFails \/ Abort \/ Crash \/ Start

Spec == Init /\ [][Next]_vars

-----------------------------------------------------------------------------
(* What the screen shows *)

Fresh(s) == now - s.at <= Expiry

\* Fault: an AI snapshot wins until it expires, whatever the rules have seen.
PickFreshAi ==
  IF ai # Nothing /\ (IF ai = Nothing THEN FALSE ELSE Fresh(ai)) THEN ai ELSE rules

\* pickCurrent: the AI snapshot while it has seen all the rules saw, else the newer.
Pick ==
  CASE ai = Nothing -> rules
    [] ai # Nothing /\ rules = Nothing -> ai
    [] OTHER -> IF (Fresh(ai) /\ rules.posts \subseteq ai.posts) \/ ai.at > rules.at THEN ai ELSE rules

-----------------------------------------------------------------------------
(* Properties *)

\* The screen leaves out no post that the newest rules run saw and that was
\* still recent when the shown snapshot was made: an AI snapshot of another
\* window, older or newer, never hides it.
ScreenComplete ==
  rules # Nothing =>
    \A p \in rules.posts : published[p] > Pick.at - RecentWindow => p \in Pick.posts

\* The signal of a post outlives failed calls, failed ticks and calls of other
\* windows: once its job is completed, the process wants an AI call until one
\* has seen the post or the post is no longer recent.  A post published after the
\* tick began that drains it is the exception: the window ends where the tick began.
SignalKept ==
  \A p \in drained \ (Noise \cup seen \cup early) :
    published[p] > now - RecentWindow => st.newForAi \/ tick.pc = "down"

\* AI cadence, also across restarts: a call waits for the interval since the last
\* recorded one, failed ones included, but for the first call of an alert.
AiSpacing ==
  [][tick'.pc = "call" /\ tick.pc # "call" /\ aiAt # Nothing =>
       \/ tick.t - aiAt >= (IF tick.alert THEN AlertEvery ELSE QuietEvery)
       \/ tick.alert /\ st.lastAiInAlert = FALSE]_vars

\* The loop keeps ticking, a stopped worker is started again, leases run out,
\* and the evaluator answers in the end.
Fairness ==
  /\ WF_vars(Begin) /\ WF_vars(Claim) /\ WF_vars(ReadAlert) /\ WF_vars(Rules)
  /\ WF_vars(SkipAi) /\ WF_vars(EmptyWindow) /\ WF_vars(Call) /\ WF_vars(Start)
  /\ WF_vars(Drain) /\ WF_vars(CallOk)
  /\ \A p \in Post : SF_vars(LeaseExpires(p))

FairSpec == Spec /\ Fairness

\* Every post whose job is queued is seen by the AI in the end, across failed
\* batches and calls (index.ts:241 of a call cut short: "the next start retries"),
\* but for the exception of SignalKept.
PostsReachAi == \A p \in Post \ Noise : job[p] = "ready" ~> p \in seen \cup early
=============================================================================
