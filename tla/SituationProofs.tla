-------------------------- MODULE SituationProofs --------------------------
(***************************************************************************)
(* Proofs about Situation: the AI keeps its cadence across restarts, no    *)
(* post's signal is lost and no snapshot hides what the rules have seen,   *)
(* for any posts, delays, intervals, failures, aborts and crashes.         *)
(***************************************************************************)
EXTENDS Situation, TLAPS

InTick == tick.pc \notin {"down", "idle"}

\* What was stamped before a tick began is no later than the tick.
Past(t) == t <= now /\ (InTick => t <= tick.t)

\* Only a post that is published has a job; a batch holds such posts, a call no noise.
JobsOK ==
  /\ \A p \in Post : published[p] = Nothing => job[p] = "none"
  /\ tick.pc = "drain" => \A p \in tick.posts : published[p] # Nothing
  /\ tick.pc = "call" => tick.posts \cap Noise = {}

\* The process remembers its last call at least as late as the database does.
CadenceOK ==
  /\ st.lastAiAt # Nothing => Past(st.lastAiAt)
  /\ st.lastAiOkAt # Nothing => st.lastAiAt # Nothing /\ st.lastAiOkAt <= st.lastAiAt
  /\ aiAt # Nothing =>
       /\ aiAt <= now
       /\ tick.pc # "down" => st.lastAiAt # Nothing /\ aiAt <= st.lastAiAt
  /\ ai # Nothing => aiAt # Nothing /\ ai.at <= aiAt
  /\ tick.pc = "call" => st.lastAiAt = tick.t

\* What the rules saw, and what a tick drained and did not miss, was published by then.
SeenOK ==
  /\ rules # Nothing =>
       /\ Past(rules.at)
       /\ \A p \in rules.posts : p \notin Noise /\ published[p] # Nothing /\ published[p] <= rules.at
  /\ \A p \in drained \ early : Past(published[p])

SituationInv == TypeOK /\ JobsOK /\ CadenceOK /\ SeenOK

\* Posts a call must not leave out: those signalled and those the rules saw.
Owed == (drained \ early) \cup (IF rules = Nothing THEN {} ELSE rules.posts)

\* A call holds every recent post of these.
CallComplete ==
  tick.pc = "call" => \A p \in Owed \ Noise : published[p] > tick.t - RecentWindow => p \in tick.posts

\* An AI snapshot newer than the rules holds what they saw that was still recent.
AiComplete ==
  ai # Nothing /\ rules # Nothing /\ ai.at > rules.at =>
    \A p \in rules.posts : published[p] > ai.at - RecentWindow => p \in ai.posts

WindowInv == CallComplete /\ AiComplete /\ SignalKept

-----------------------------------------------------------------------------
(* Types *)

LEMMA Fields ==
  ASSUME TypeOK
  PROVE  /\ now \in Nat /\ tick.t \in Nat /\ tick.t <= now /\ tick.alert \in BOOLEAN
         /\ tick.posts \subseteq Post /\ tick.pc \in {"down", "idle", "claim", "drain", "alert", "rules", "ai", "call"}
         /\ st.lastRulesAt \in Nat \cup {Nothing} /\ st.lastAiAt \in Nat \cup {Nothing}
         /\ st.lastAiOkAt \in Nat \cup {Nothing} /\ aiAt \in Nat \cup {Nothing}
         /\ rules # Nothing => rules.at \in Nat /\ rules.posts \subseteq Post
         /\ ai # Nothing => ai.at \in Nat /\ ai.posts \subseteq Post
         /\ \A p \in Post : published[p] = Nothing \/ published[p] \in Int
<1>1. Time \subseteq Nat
  BY SituationAssumption DEF Time
<1>2. tick \in TickState /\ st \in State
  BY DEF TypeOK
<1>3. rules \in Snapshot \cup {Nothing} /\ ai \in Snapshot \cup {Nothing} /\ aiAt \in Time \cup {Nothing}
  BY DEF TypeOK, MaybeTime
<1>4. \A s \in Snapshot : s.at \in Nat /\ s.posts \subseteq Post
  BY <1>1 DEF Snapshot
<1>5. \A p \in Post : published[p] = Nothing \/ published[p] \in Int
  <2>1. now \in Int /\ MaxLate \in Int
    BY <1>1, SituationAssumption DEF TypeOK
  <2> QED
    BY <2>1 DEF TypeOK
<1> QED
  BY <1>1, <1>2, <1>3, <1>4, <1>5 DEF TypeOK, TickState, State, MaybeTime

LEMMA NewTypes == newState \in State /\ \A pc \in {"down", "idle", "claim"} : NoTick(pc) \in TickState
<1>1. 0 \in Time
  BY SituationAssumption DEF Time
<1> QED
  BY <1>1 DEF newState, State, MaybeTime, NoTick, TickState

\* A window holds published posts that are not noise, of its interval.
LEMMA Windows ==
  ASSUME NEW from, NEW to
  PROVE  /\ Window(from, to) \subseteq Post \ Noise
         /\ \A p \in Window(from, to) : published[p] # Nothing /\ published[p] > from /\ published[p] <= to
  BY DEF Window

LEMMA SituationInit == Init => SituationInv /\ WindowInv
<1> SUFFICES ASSUME Init PROVE SituationInv /\ WindowInv
  OBVIOUS
<1>1. TypeOK
  <2>1. 0 \in Time
    BY SituationAssumption DEF Time
  <2>2. tick \in TickState /\ tick.t <= now /\ st \in State
    <3>1. tick.t = 0 /\ tick = NoTick("idle")
      BY DEF Init, NoTick
    <3> QED
      BY <3>1, NewTypes DEF Init
  <2>3. /\ now \in Time /\ published \in [Post -> (-MaxLate)..now \cup {Nothing}]
        /\ job \in [Post -> {"none", "ready", "running", "done"}]
    BY <2>1 DEF Init
  <2>4. flips \in 0..MaxFlips /\ aborts \in 0..MaxAborts /\ crashes \in 0..MaxCrashes /\ fails \in 0..MaxFails
    BY SituationAssumption DEF Init
  <2> QED
    BY <2>2, <2>3, <2>4 DEF Init, TypeOK, MaybeTime
<1>2. JobsOK /\ CadenceOK /\ SeenOK
  BY DEF Init, JobsOK, CadenceOK, SeenOK, NoTick, newState
<1>3. WindowInv
  BY DEF Init, WindowInv, CallComplete, AiComplete, SignalKept, NoTick
<1> QED
  BY <1>1, <1>2, <1>3 DEF SituationInv

\* The type of the state and of the tick after a step.
LEMMA TypeStep == SituationInv /\ [Next]_vars => TypeOK'
<1> SUFFICES ASSUME SituationInv, [Next]_vars PROVE TypeOK'
  OBVIOUS
<1> USE DEF SituationInv
<1>1. /\ now \in Time /\ tick.t \in Time /\ 0 \in Time
      /\ \A n \in Time : n + 1 <= MaxTime => n + 1 \in Time
  BY SituationAssumption DEF TypeOK, TickState, Time
<1>2. ASSUME Clock PROVE TypeOK'
  <2>1. now' \in Time /\ tick'.t <= now'
    BY <1>1, <1>2, Fields, SituationAssumption DEF Clock, Time
  <2>2. published' \in [Post -> (-MaxLate)..now' \cup {Nothing}]
    BY <1>2, Fields, SituationAssumption DEF Clock, TypeOK
  <2> QED
    BY <2>1, <2>2, <1>2 DEF Clock, TypeOK, store, history, bounds
<1>3. ASSUME NEW p \in Post, NEW late \in 0..MaxLate, Ingest(p, late) PROVE TypeOK'
  <2>1. now - late \in (-MaxLate)..now
    BY Fields, SituationAssumption
  <2>2. published' \in [Post -> (-MaxLate)..now' \cup {Nothing}]
    BY <1>3, <2>1 DEF Ingest, TypeOK
  <2>3. job' \in [Post -> {"none", "ready", "running", "done"}]
    BY <1>3 DEF Ingest, TypeOK
  <2>4. drained \subseteq {q \in Post : job'[q] = "done"}
    BY <1>3 DEF Ingest, TypeOK, JobsOK
  <2> QED
    BY <2>2, <2>3, <2>4, <1>3 DEF Ingest, TypeOK, store, history, bounds
<1>4. ASSUME NEW p \in Post, LeaseExpires(p) PROVE TypeOK'
  BY <1>4 DEF LeaseExpires, TypeOK, store, history, bounds
<1>5. ASSUME AlertFlips PROVE TypeOK'
  BY <1>5, SituationAssumption DEF AlertFlips, TypeOK, store, history
<1>6. ASSUME Begin PROVE TypeOK'
  <2>1. tick' \in TickState /\ tick'.t <= now
    <3>1. tick' = [pc |-> "claim", t |-> now, posts |-> {}, alert |-> FALSE, wrote |-> FALSE]
      BY <1>6 DEF Begin, NoTick
    <3> QED
      BY <1>1, <3>1, Fields DEF TickState
  <2> QED
    BY <1>6, <2>1 DEF Begin, TypeOK, store, history, bounds
<1>7. ASSUME Claim PROVE TypeOK'
  <2>1. tick' \in TickState /\ tick'.t <= now
    BY <1>7 DEF Claim, TypeOK, TickState
  <2>2. /\ job' \in [Post -> {"none", "ready", "running", "done"}]
        /\ \A q \in Post : job[q] = "done" => job'[q] = "done"
    BY <1>7 DEF Claim, TypeOK
  <2> QED
    BY <1>7, <2>1, <2>2 DEF Claim, TypeOK, store, history, bounds
<1>8. ASSUME Drain PROVE TypeOK'
  <2>1. tick' \in TickState /\ tick'.t <= now /\ st' \in State
    BY <1>8 DEF Drain, TypeOK, TickState, State
  <2>2. /\ job' \in [Post -> {"none", "ready", "running", "done"}]
        /\ \A q \in Post : job[q] = "done" \/ q \in tick.posts => job'[q] = "done"
    BY <1>8 DEF Drain, TypeOK
  <2>3. drained' \subseteq {q \in Post : job'[q] = "done"} /\ early' \subseteq drained'
    BY <1>8, <2>2, Fields DEF Drain, TypeOK
  <2> QED
    BY <1>8, <2>1, <2>2, <2>3 DEF Drain, TypeOK, store, bounds
<1>9. ASSUME ReadAlert PROVE TypeOK'
  <2>1. tick' \in TickState /\ tick'.t <= now
    BY <1>9 DEF ReadAlert, TypeOK, TickState
  <2> QED
    BY <1>9, <2>1 DEF ReadAlert, TypeOK, store, history, bounds
<1>10. ASSUME rules' = rules \/ WriteRules PROVE rules' \in Snapshot \cup {Nothing}
  BY <1>1, <1>10, Windows DEF WriteRules, Snapshot, TypeOK
<1>11. ASSUME st' = st \/ st' = [st EXCEPT !.lastRulesAt = tick.t] PROVE st' \in State
  BY <1>1, <1>11 DEF TypeOK, State, MaybeTime
<1>12. ASSUME Rules PROVE TypeOK'
  <2>1. tick' \in TickState /\ tick'.t <= now
    <3>1. tick' \in {[tick EXCEPT !.pc = "ai"], [tick EXCEPT !.pc = "ai", !.wrote = TRUE]}
      BY <1>12 DEF Rules
    <3>2. tick \in TickState /\ tick.t <= now
      BY DEF TypeOK
    <3>3. CASE tick' = [tick EXCEPT !.pc = "ai"]
      BY <3>2, <3>3 DEF TickState
    <3>4. CASE tick' = [tick EXCEPT !.pc = "ai", !.wrote = TRUE]
      BY <3>2, <3>4 DEF TickState
    <3> QED
      BY <3>1, <3>3, <3>4
  <2>2. rules' \in Snapshot \cup {Nothing} /\ st' \in State
    BY <1>10, <1>11, <1>12 DEF Rules
  <2> QED
    BY <1>12, <2>1, <2>2 DEF Rules, TypeOK, history, bounds
<1>13. ASSUME NEW pc \in {"idle", "down"}, tick' = NoTick(pc) PROVE tick' \in TickState /\ tick'.t <= now
  <2>1. tick'.t = 0
    BY <1>13 DEF NoTick
  <2> QED
    BY <1>13, <2>1, Fields, NewTypes
<1>14. ASSUME SkipAi \/ EmptyWindow PROVE TypeOK'
  <2>1. tick' \in TickState /\ tick'.t <= now
    BY <1>13, <1>14 DEF SkipAi, EmptyWindow
  <2>2. st' \in State
    BY <1>14 DEF SkipAi, EmptyWindow, TypeOK, State
  <2> QED
    BY <1>14, <2>1, <2>2 DEF SkipAi, EmptyWindow, TypeOK, store, history, bounds
<1>15. ASSUME Call PROVE TypeOK'
  <2>1. tick' \in TickState /\ tick'.t <= now
    BY <1>15, Windows DEF Call, TypeOK, TickState
  <2>2. st' \in State
    BY <1>1, <1>15, Fields DEF Call, TypeOK, State, MaybeTime
  <2> QED
    BY <1>15, <2>1, <2>2 DEF Call, TypeOK, store, history, bounds
<1>16. ASSUME CallOk PROVE TypeOK'
  <2>1. tick' \in TickState /\ tick'.t <= now
    BY <1>13, <1>16 DEF CallOk
  <2>2. st' \in State
    BY <1>1, <1>16 DEF CallOk, TypeOK, State, MaybeTime
  <2>3. ai' \in Snapshot \cup {Nothing} /\ seen' \subseteq Post \ Noise
    BY <1>1, <1>16, Fields DEF CallOk, Snapshot, TypeOK, JobsOK
  <2> QED
    BY <1>1, <1>16, <2>1, <2>2, <2>3 DEF CallOk, TypeOK, MaybeTime, bounds
<1>17. ASSUME CallFails \/ TickFails PROVE TypeOK'
  <2>1. tick' \in TickState /\ tick'.t <= now
    BY <1>13, <1>17 DEF CallFails, TickFails
  <2>2. rules' \in Snapshot \cup {Nothing} /\ st' \in State
    BY <1>10, <1>11, <1>17 DEF CallFails, TickFails, store
  <2>3. fails' \in 0..MaxFails /\ aiAt' \in MaybeTime
    BY <1>1, <1>17, SituationAssumption DEF CallFails, TickFails, TypeOK, MaybeTime, store
  <2> QED
    BY <1>17, <2>1, <2>2, <2>3 DEF CallFails, TickFails, TypeOK, store, history
<1>18. ASSUME Abort \/ Crash PROVE TypeOK'
  <2>1. tick' \in TickState /\ tick'.t <= now
    BY <1>13, <1>18 DEF Abort, Crash
  <2>2. aborts' \in 0..MaxAborts /\ crashes' \in 0..MaxCrashes
    BY <1>18, SituationAssumption DEF Abort, Crash, TypeOK
  <2> QED
    BY <1>18, <2>1, <2>2 DEF Abort, Crash, TypeOK, store, history
<1>19. ASSUME Start PROVE TypeOK'
  <2>1. tick' \in TickState /\ tick'.t <= now
    BY <1>13, <1>19 DEF Start
  <2>2. st' \in State
    BY <1>19, NewTypes DEF Start, Restored, TypeOK, State, Snapshot, MaybeTime
  <2> QED
    BY <1>19, <2>1, <2>2 DEF Start, TypeOK, store, bounds
<1>20. ASSUME UNCHANGED vars PROVE TypeOK'
  BY <1>20 DEF vars, TypeOK
<1> QED
  BY <1>2, <1>3, <1>4, <1>5, <1>6, <1>7, <1>8, <1>9, <1>12, <1>14, <1>15, <1>16, <1>17, <1>18, <1>19, <1>20
  DEF Next, Work

-----------------------------------------------------------------------------
(* What the process remembers *)

LEMMA JobsStep == SituationInv /\ [Next]_vars => JobsOK'
<1> SUFFICES ASSUME SituationInv, [Next]_vars PROVE JobsOK'
  OBVIOUS
<1> USE DEF SituationInv
<1>1. \A p \in Post : published[p] = Nothing => job[p] = "none"
  BY DEF JobsOK
<1>2. ASSUME NEW p \in Post, NEW late \in 0..MaxLate, Ingest(p, late) PROVE JobsOK'
  <2>1. now - late # Nothing
    BY Fields, SituationAssumption
  <2> QED
    BY <1>2, <2>1, Fields DEF Ingest, JobsOK, TypeOK
<1>3. ASSUME NEW p \in Post, LeaseExpires(p) PROVE JobsOK'
  BY <1>3, Fields DEF LeaseExpires, JobsOK, TypeOK
<1>4. ASSUME Claim PROVE JobsOK'
  BY <1>4, Fields DEF Claim, JobsOK, TypeOK, TickState
<1>5. ASSUME Drain PROVE JobsOK'
  BY <1>5, Fields DEF Drain, JobsOK, TypeOK, TickState
<1>6. ASSUME Call PROVE JobsOK'
  BY <1>6, Windows DEF Call, JobsOK, TypeOK, TickState
<1>7. ASSUME UNCHANGED <<published, job>>, tick'.pc \notin {"drain", "call"} \/ UNCHANGED tick PROVE JobsOK'
  BY <1>7 DEF JobsOK
<1>8. CASE Begin \/ ReadAlert \/ Rules
  BY <1>7, <1>8 DEF Begin, ReadAlert, Rules, NoTick, TypeOK, TickState
<1>9. CASE SkipAi \/ EmptyWindow \/ CallOk \/ CallFails \/ TickFails \/ Abort \/ Crash \/ Start
  BY <1>7, <1>9 DEF SkipAi, EmptyWindow, CallOk, CallFails, TickFails, Abort, Crash, Start, NoTick
<1>10. CASE Clock \/ AlertFlips \/ UNCHANGED vars
  BY <1>7, <1>10 DEF Clock, AlertFlips, vars
<1> QED
  BY <1>2, <1>3, <1>4, <1>5, <1>6, <1>8, <1>9, <1>10 DEF Next, Work

LEMMA TickMoves ==
  ASSUME [Next]_vars
  PROVE  \/ tick' = NoTick("idle") \/ tick' = NoTick("down") \/ UNCHANGED tick
         \/ Begin \/ Claim \/ Drain \/ ReadAlert \/ Rules \/ Call
  BY DEF Next, Work, vars, Clock, AlertFlips, Ingest, LeaseExpires, SkipAi,
         EmptyWindow, CallOk, CallFails, TickFails, Abort, Crash, Start

\* A tick keeps its time to its end.
LEMMA Steps ==
  ASSUME SituationInv, [Next]_vars
  PROVE  /\ now \in Nat /\ now' \in Nat /\ now <= now' /\ tick.t <= now
         /\ InTick' => tick'.t = now \/ (InTick /\ tick'.t = tick.t)
<1>1. tick \in TickState
  BY DEF SituationInv, TypeOK
<1>2. now' = now \/ now' = now + 1
  BY DEF Next, Work, vars, Clock, AlertFlips, Ingest, LeaseExpires, Begin, Claim, Drain, ReadAlert, Rules, SkipAi,
         EmptyWindow, Call, CallOk, CallFails, TickFails, Abort, Crash, Start
<1>3. \/ tick' = NoTick("idle") \/ tick' = NoTick("down") \/ UNCHANGED tick
      \/ Begin \/ Claim \/ Drain \/ ReadAlert \/ Rules \/ Call
  BY TickMoves
<1>4. InTick' => tick'.t = now \/ (InTick /\ tick'.t = tick.t)
  <2>1. CASE tick' = NoTick("idle") \/ tick' = NoTick("down") \/ UNCHANGED tick
    BY <2>1 DEF InTick, NoTick
  <2>2. CASE Begin
    BY <2>2 DEF Begin, NoTick
  <2>3. CASE Claim \/ Drain \/ ReadAlert \/ Rules \/ Call
    <3>1. tick'.t = tick.t /\ InTick
      BY <1>1, <2>3 DEF Claim, Drain, ReadAlert, Rules, Call, TickState, InTick
    <3> QED
      BY <3>1
  <2> QED
    BY <1>3, <2>1, <2>2, <2>3
<1> QED
  BY <1>2, <1>4, Fields DEF SituationInv

\* What lies in the past stays there.
LEMMA PastStays ==
  ASSUME SituationInv, [Next]_vars, NEW t \in Int, t <= now, InTick => t <= tick.t
  PROVE  t <= now' /\ (InTick' => t <= tick'.t)
<1>1. InTick' => t <= tick'.t
  BY Steps
<1> QED
  BY <1>1, Steps

LEMMA CadenceStep == SituationInv /\ [Next]_vars => CadenceOK'
<1> SUFFICES ASSUME SituationInv, [Next]_vars PROVE CadenceOK'
  OBVIOUS
<1>1. TypeOK /\ CadenceOK /\ tick \in TickState /\ st \in State
  BY DEF SituationInv, TypeOK
<1>2. st.lastAiAt # Nothing => st.lastAiAt <= now' /\ (InTick' => st.lastAiAt <= tick'.t)
  BY <1>1, Fields, PastStays DEF CadenceOK, Past
<1>3. aiAt # Nothing => aiAt <= now'
  BY <1>1, Fields, Steps DEF CadenceOK
<1>4. ASSUME st'.lastAiAt = st.lastAiAt, st'.lastAiOkAt = st.lastAiOkAt, UNCHANGED <<ai, aiAt>>,
             tick'.pc # "down" => tick.pc # "down",
             tick'.pc = "call" => tick.pc = "call" /\ tick'.t = tick.t
      PROVE  CadenceOK'
  BY <1>1, <1>2, <1>3, <1>4 DEF CadenceOK, Past
<1>5. CASE Clock \/ AlertFlips \/ UNCHANGED vars \/ \E p \in Post, late \in 0..MaxLate : Ingest(p, late)
  BY <1>4, <1>5 DEF Clock, AlertFlips, vars, Ingest, store
<1>6. CASE \E p \in Post : LeaseExpires(p)
  BY <1>4, <1>6 DEF LeaseExpires, store
<1>7. CASE Begin \/ Claim \/ Drain \/ ReadAlert \/ Rules
  BY <1>1, <1>4, <1>7 DEF Begin, Claim, Drain, ReadAlert, Rules, store, TickState, State, NoTick
<1>8. CASE SkipAi \/ EmptyWindow \/ TickFails \/ Abort \/ Crash
  BY <1>1, <1>4, <1>8 DEF SkipAi, EmptyWindow, TickFails, Abort, Crash, store, State, NoTick
<1>9. CASE Call
  <2>1. /\ st'.lastAiAt = tick.t /\ st'.lastAiOkAt = st.lastAiOkAt /\ UNCHANGED <<ai, aiAt, now>>
        /\ tick'.pc = "call" /\ tick'.t = tick.t /\ InTick /\ tick.pc # "down"
    BY <1>1, <1>9 DEF Call, store, State, TickState, InTick
  <2> QED
    BY <1>1, <2>1, Fields, SituationAssumption DEF CadenceOK, Past
<1>10. CASE CallOk
  <2>1. /\ st'.lastAiAt = st.lastAiAt /\ st'.lastAiOkAt = tick.t /\ ai'.at = tick.t /\ aiAt' = tick.t
        /\ tick'.pc = "idle" /\ now' = now /\ tick.pc = "call"
    BY <1>1, <1>10 DEF CallOk, store, State, NoTick
  <2> QED
    BY <1>1, <1>2, <2>1, Fields, SituationAssumption DEF CadenceOK, Past
<1>11. CASE CallFails
  <2>1. /\ st'.lastAiAt = st.lastAiAt /\ st'.lastAiOkAt = st.lastAiOkAt /\ ai' = ai /\ aiAt' = tick.t
        /\ tick'.pc = "idle" /\ now' = now /\ tick.pc = "call"
    BY <1>1, <1>11 DEF CallFails, State, NoTick
  <2> QED
    BY <1>1, <1>2, <2>1, Fields, SituationAssumption DEF CadenceOK, Past
<1>12. CASE Start
  <2>1. /\ st'.lastAiAt = aiAt /\ st'.lastAiOkAt = (IF ai = Nothing THEN Nothing ELSE ai.at)
        /\ UNCHANGED <<ai, aiAt, now>> /\ tick'.pc = "idle"
    BY <1>12 DEF Start, Restored, newState, store, NoTick
  <2> QED
    BY <1>1, <2>1, Fields DEF CadenceOK, Past, InTick
<1> QED
  BY <1>5, <1>6, <1>7, <1>8, <1>9, <1>10, <1>11, <1>12 DEF Next, Work

-----------------------------------------------------------------------------
(* What was seen *)

\* A post that is published keeps its time.
LEMMA Kept ==
  ASSUME SituationInv, [Next]_vars, NEW p \in Post, published[p] # Nothing
  PROVE  published'[p] = published[p] /\ published[p] \in Int
<1>1. UNCHANGED published \/ \E q \in Post, late \in 0..MaxLate : Ingest(q, late)
  BY DEF Next, Work, vars, Clock, AlertFlips, LeaseExpires, Begin, Claim, Drain, ReadAlert, Rules, SkipAi,
         EmptyWindow, Call, CallOk, CallFails, TickFails, Abort, Crash, Start
<1>2. ASSUME NEW q \in Post, NEW late \in 0..MaxLate, Ingest(q, late) PROVE published'[p] = published[p]
  BY <1>2 DEF Ingest, SituationInv, TypeOK
<1> QED
  BY <1>1, <1>2, Fields DEF SituationInv

LEMMA DrainedPublished ==
  ASSUME SituationInv
  PROVE  \A p \in drained : p \in Post /\ published[p] # Nothing
  BY DEF SituationInv, TypeOK, JobsOK

\* What a step adds to the drained posts, and when it replaces the rules.
LEMMA Changes ==
  ASSUME SituationInv, [Next]_vars
  PROVE  /\ \/ UNCHANGED <<drained, early>>
            \/ drained' = {}
            \/ /\ Drain /\ InTick /\ UNCHANGED now
               /\ drained' \ early' \subseteq (drained \ early) \cup {p \in tick.posts : ~(published[p] > tick.t)}
         /\ rules' = rules \/ (WriteRules /\ InTick /\ UNCHANGED <<now, published>>)
<1>1. CASE Drain
  BY <1>1 DEF Drain, InTick, store
<1>2. CASE Start
  BY <1>2 DEF Start, store
<1>3. CASE Rules \/ CallFails
  BY <1>3 DEF Rules, CallFails, InTick, history
<1>4. CASE UNCHANGED <<rules, drained, early>>
  BY <1>4
<1>5. CASE Clock \/ AlertFlips \/ UNCHANGED vars
  BY <1>4, <1>5 DEF Clock, AlertFlips, vars, store, history
<1>6. CASE \/ \E p \in Post, late \in 0..MaxLate : Ingest(p, late)
           \/ \E p \in Post : LeaseExpires(p)
  BY <1>4, <1>6 DEF Ingest, LeaseExpires, store, history
<1>7. CASE Begin \/ Claim \/ ReadAlert \/ SkipAi \/ EmptyWindow \/ Call \/ CallOk
  BY <1>4, <1>7 DEF Begin, Claim, ReadAlert, SkipAi, EmptyWindow, Call, CallOk, store, history
<1>8. CASE TickFails \/ Abort \/ Crash
  BY <1>4, <1>8 DEF TickFails, Abort, Crash, store, history
<1> QED
  BY <1>1, <1>2, <1>3, <1>5, <1>6, <1>7, <1>8 DEF Next, Work

LEMMA SeenStep == SituationInv /\ [Next]_vars => SeenOK'
<1> SUFFICES ASSUME SituationInv, [Next]_vars PROVE SeenOK'
  OBVIOUS
<1>1. TypeOK /\ SeenOK
  BY DEF SituationInv
<1>2. ASSUME rules' # Nothing
      PROVE  /\ rules'.at <= now' /\ (InTick' => rules'.at <= tick'.t)
             /\ \A p \in rules'.posts : p \notin Noise /\ published'[p] # Nothing /\ published'[p] <= rules'.at
  <2>1. CASE rules' = rules
    <3>1. rules'.at <= now' /\ (InTick' => rules'.at <= tick'.t)
      BY <1>1, <1>2, <2>1, Fields, PastStays DEF SeenOK, Past
    <3>2. \A p \in rules.posts : p \in Post /\ published[p] # Nothing
      BY <1>1, <1>2, <2>1, Fields DEF SeenOK
    <3> QED
      BY <1>1, <1>2, <2>1, <3>1, <3>2, Kept DEF SeenOK
  <2>2. CASE WriteRules /\ InTick /\ UNCHANGED <<now, published>>
    <3>1. rules'.at = tick.t /\ rules'.posts = Window(tick.t - RecentWindow, tick.t)
      BY <2>2 DEF WriteRules
    <3>2. tick.t <= now' /\ (InTick' => tick.t <= tick'.t)
      BY <1>1, Fields, PastStays
    <3> QED
      BY <2>2, <3>1, <3>2, Windows
  <2> QED
    BY <2>1, <2>2, Changes
<1>3. ASSUME NEW p \in drained' \ early'
      PROVE  published'[p] <= now' /\ (InTick' => published'[p] <= tick'.t)
  <2>1. CASE p \in drained \ early
    <3>1. published'[p] = published[p] /\ published[p] \in Int
      BY <2>1, DrainedPublished, Kept
    <3> QED
      BY <1>1, <2>1, <3>1, PastStays DEF SeenOK, Past
  <2>2. CASE Drain /\ InTick /\ p \in tick.posts /\ ~(published[p] > tick.t)
    <3>1. p \in Post /\ published[p] # Nothing
      BY <1>1, <2>2, Fields DEF SituationInv, JobsOK, Drain
    <3>2. published'[p] = published[p] /\ published[p] \in Int
      BY <3>1, Kept
    <3>3. published[p] <= tick.t
      BY <1>1, <2>2, <3>2, Fields
    <3>4. published[p] <= now
      BY <1>1, <3>2, <3>3, Fields
    <3> QED
      BY <3>2, <3>3, <3>4, PastStays
  <2> QED
    BY <1>3, <2>1, <2>2, Changes
<1> QED
  BY <1>2, <1>3 DEF SeenOK, Past

\* The invariant of the loop, for any posts, intervals and windows.
THEOREM LoopInvariant == Spec => []SituationInv
<1>1. Init => SituationInv
  BY SituationInit
<1>2. SituationInv /\ [Next]_vars => SituationInv'
  BY TypeStep, JobsStep, CadenceStep, SeenStep DEF SituationInv
<1> QED
  BY <1>1, <1>2, PTL DEF Spec

\* The state of the loop keeps its type: ticks in their order, batches and windows of
\* known posts, a signal only of posts whose jobs are completed.
THEOREM TypeTheorem == Spec => []TypeOK
<1>1. SituationInv => TypeOK
  BY DEF SituationInv
<1> QED
  BY <1>1, LoopInvariant, PTL

\* The worker never calls the AI before the interval since the last recorded call has
\* passed, except at the start of an alert, however often it fails, stops or restarts.
THEOREM SpacingTheorem == Spec => AiSpacing
<1> DEFINE spaced == tick'.pc = "call" /\ tick.pc # "call" /\ aiAt # Nothing =>
              \/ tick.t - aiAt >= (IF tick.alert THEN AlertEvery ELSE QuietEvery)
              \/ tick.alert /\ st.lastAiInAlert = FALSE
<1>1. ASSUME SituationInv, [Next]_vars, tick'.pc = "call", tick.pc # "call", aiAt # Nothing
      PROVE  \/ tick.t - aiAt >= (IF tick.alert THEN AlertEvery ELSE QuietEvery)
             \/ tick.alert /\ st.lastAiInAlert = FALSE
  <2>1. Call
    <3>1. tick \in TickState
      BY <1>1 DEF SituationInv, TypeOK
    <3>2. CASE tick' = NoTick("idle") \/ tick' = NoTick("down") \/ UNCHANGED tick
      BY <1>1, <3>2 DEF NoTick
    <3>3. CASE Begin \/ Claim \/ Drain \/ ReadAlert \/ Rules
      BY <1>1, <3>1, <3>3 DEF Begin, Claim, Drain, ReadAlert, Rules, NoTick, TickState
    <3> QED
      BY <1>1, <3>2, <3>3, TickMoves
  <2>2. Due /\ tick.pc = "ai"
    BY <2>1 DEF Call
  <2>3. st.lastAiAt # Nothing /\ aiAt <= st.lastAiAt /\ {st.lastAiAt, aiAt, tick.t} \subseteq Nat
    BY <1>1, <2>2, Fields DEF SituationInv, CadenceOK
  <2>4. \A every \in Nat : Since(st.lastAiAt, every) => tick.t - aiAt >= every
    BY <2>3 DEF Since
  <2> QED
    BY <2>2, <2>4, SituationAssumption DEF Due
<1>2. SituationInv /\ [Next]_vars => [spaced]_vars
  BY <1>1
<1> QED
  BY <1>2, LoopInvariant, PTL DEF Spec, AiSpacing

-----------------------------------------------------------------------------
(* What the screen is owed *)

\* The windows of index.ts:22-26 (30 min, 6 h, 5 min) and the default quiet interval
\* (1 h): a quiet call reaches back as far as the rules do.
WindowsReach == RecentWindow <= QuietMax /\ RecentWindow <= QuietEvery + Overlap

LEMMA MaxOfTwo ==
  ASSUME NEW a \in Int, NEW b \in Int
  PROVE  Max({a, b}) \in {a, b}
<1>1. \E x \in {a, b} : \A y \in {a, b} : x >= y
  OBVIOUS
<1> QED
  BY <1>1 DEF Max

\* The window of any call holds every recent post.
LEMMA WindowReaches ==
  ASSUME WindowsReach, SituationInv, Due, tick.pc = "ai", NEW p \in Post \ Noise,
         published[p] # Nothing, published[p] > tick.t - RecentWindow, published[p] <= tick.t
  PROVE  p \in Window(WindowFrom, tick.t)
<1> DEFINE quiet == (IF st.lastAiOkAt = Nothing THEN -QuietMax ELSE st.lastAiOkAt) - Overlap
<1>1. /\ tick.t \in Nat /\ published[p] \in Int /\ tick.alert \in BOOLEAN
      /\ RecentWindow \in Nat /\ QuietMax \in Nat /\ Overlap \in Nat /\ QuietEvery \in Nat
  BY Fields, SituationAssumption DEF SituationInv
<1>2. CASE tick.alert
  BY <1>1, <1>2 DEF WindowFrom, Window
<1>3. CASE ~tick.alert
  <2>1. quiet \in Int /\ quiet <= tick.t - RecentWindow
    <3>1. CASE st.lastAiOkAt = Nothing
      BY <1>1, <3>1 DEF WindowsReach
    <3>2. CASE st.lastAiOkAt # Nothing
      <4>1. /\ st.lastAiAt # Nothing /\ st.lastAiOkAt <= st.lastAiAt
            /\ st.lastAiAt \in Nat /\ st.lastAiOkAt \in Nat
        BY <3>2, Fields DEF SituationInv, CadenceOK
      <4>2. tick.t - st.lastAiAt >= QuietEvery
        BY <1>3, <4>1 DEF Due, Since
      <4> QED
        BY <1>1, <3>2, <4>1, <4>2 DEF WindowsReach
    <3> QED
      BY <3>1, <3>2
  <2>2. WindowFrom = Max({quiet, tick.t - QuietMax})
    BY <1>3 DEF WindowFrom
  <2> HIDE DEF quiet
  <2>3. WindowFrom \in {quiet, tick.t - QuietMax}
    BY <1>1, <2>1, <2>2, MaxOfTwo
  <2>4. WindowFrom < published[p]
    BY <1>1, <2>1, <2>3 DEF WindowsReach
  <2>5. WindowFrom \in Int
    BY <1>1, <2>1, <2>3
  <2> QED
    BY <1>1, <2>4, <2>5 DEF Window
<1> QED
  BY <1>1, <1>2, <1>3

\* Every post owed was published before the tick.
LEMMA OwedPublished ==
  ASSUME SituationInv, InTick
  PROVE  \A p \in Owed : p \in Post /\ published[p] # Nothing /\ published[p] <= tick.t
<1>1. TypeOK /\ SeenOK
  BY DEF SituationInv
<1>2. \A p \in drained \ early : p \in Post /\ published[p] # Nothing /\ published[p] <= tick.t
  BY <1>1, DrainedPublished DEF SeenOK, Past
<1>3. ASSUME rules # Nothing, NEW p \in rules.posts
      PROVE  p \in Post /\ published[p] # Nothing /\ published[p] <= tick.t
  <2>1. p \in Post /\ published[p] # Nothing /\ published[p] <= rules.at /\ rules.at <= tick.t
    BY <1>1, <1>3, Fields DEF SeenOK, Past
  <2> QED
    BY <1>1, <1>3, <2>1, Fields
<1> QED
  BY <1>2, <1>3 DEF Owed

\* What is owed while a call runs was owed when it began.
LEMMA CallCompleteStep ==
  ASSUME WindowsReach, SituationInv, CallComplete, [Next]_vars
  PROVE  CallComplete'
<1>1. tick \in TickState
  BY DEF SituationInv, TypeOK
<1>2. CASE Call
  <2>1. /\ Due /\ tick.pc = "ai" /\ UNCHANGED <<published, rules, drained, early>>
        /\ tick'.t = tick.t /\ tick'.posts = Window(WindowFrom, tick.t)
    BY <1>1, <1>2 DEF Call, TickState, store, history
  <2>2. \A p \in Owed \ Noise : published[p] > tick.t - RecentWindow => p \in tick'.posts
    BY <2>1, OwedPublished, WindowReaches DEF InTick
  <2>3. Owed' = Owed
    BY <2>1 DEF Owed
  <2> QED
    BY <2>1, <2>2, <2>3 DEF CallComplete
<1>3. CASE tick'.pc # "call"
  BY <1>3 DEF CallComplete
<1>4. CASE UNCHANGED tick /\ tick.pc = "call"
  <2>1. UNCHANGED <<rules, drained, early>>
    <3>1. ~Drain /\ ~Start /\ ~Rules /\ ~CallFails
      BY <1>1, <1>4 DEF Drain, Start, Rules, CallFails, NoTick
    <3> QED
      BY <3>1 DEF Next, Work, vars, Clock, AlertFlips, Ingest, LeaseExpires, Begin, Claim, ReadAlert, SkipAi,
         EmptyWindow, Call, CallOk, TickFails, Abort, Crash, store, history
  <2>2. Owed' = Owed
    BY <2>1 DEF Owed
  <2>3. \A p \in Owed : published'[p] = published[p]
    BY <1>4, OwedPublished, Kept DEF InTick
  <2> QED
    BY <1>4, <2>2, <2>3 DEF CallComplete
<1>5. CASE tick' = NoTick("idle") \/ tick' = NoTick("down")
  BY <1>3, <1>5 DEF NoTick
<1>6. CASE Begin \/ Claim \/ Drain \/ ReadAlert \/ Rules
  BY <1>1, <1>3, <1>6 DEF Begin, Claim, Drain, ReadAlert, Rules, NoTick, TickState
<1> QED
  BY <1>2, <1>3, <1>4, <1>5, <1>6, TickMoves

LEMMA AiCompleteStep ==
  ASSUME SituationInv, CallComplete, AiComplete, [Next]_vars
  PROVE  AiComplete'
<1>1. TypeOK /\ SeenOK /\ CadenceOK
  BY DEF SituationInv
<1>2. CASE CallOk
  <2>1. /\ tick.pc = "call" /\ ai'.at = tick.t /\ ai'.posts = tick.posts /\ UNCHANGED <<rules, published>>
    BY <1>2 DEF CallOk
  <2>2. rules # Nothing => \A p \in rules.posts : p \in Owed \ Noise
    BY <1>1 DEF Owed, SeenOK
  <2> QED
    BY <2>1, <2>2 DEF AiComplete, CallComplete
<1>3. CASE UNCHANGED ai
  <2>1. CASE rules' = rules
    <3>1. rules # Nothing => \A p \in rules.posts : published'[p] = published[p]
      BY <1>1, Fields, Kept DEF SeenOK
    <3> QED
      BY <1>3, <2>1, <3>1 DEF AiComplete
  <2>2. CASE WriteRules /\ InTick
    <3>1. rules'.at = tick.t /\ tick.t \in Nat
      BY <1>1, <2>2, Fields DEF WriteRules
    <3>2. ai # Nothing => ai.at <= tick.t
      BY <1>1, <2>2, <3>1, Fields DEF CadenceOK, Past, InTick
    <3>3. ai # Nothing => ~(ai.at > tick.t)
      BY <1>1, <3>1, <3>2, Fields
    <3> QED
      BY <1>3, <3>1, <3>3 DEF AiComplete
  <2> QED
    BY <2>1, <2>2, Changes
<1> QED
  BY <1>2, <1>3 DEF Next, Work, vars, store, Clock, AlertFlips, Ingest, LeaseExpires, Begin, Claim, Drain, ReadAlert,
     Rules, SkipAi, EmptyWindow, Call, CallFails, TickFails, Abort, Crash, Start

\* A signal is put down only by a call that saw the post, or by a window that is empty.
LEMMA SignalStep ==
  ASSUME WindowsReach, SituationInv, CallComplete, SignalKept, [Next]_vars
  PROVE  SignalKept'
<1>1. TypeOK /\ tick \in TickState /\ st \in State
  BY DEF SituationInv, TypeOK
<1>2. SUFFICES ASSUME NEW p \in drained' \ (Noise \cup seen' \cup early'), published'[p] > now' - RecentWindow,
                      ~st'.newForAi, tick'.pc # "down"
               PROVE  FALSE
  BY DEF SignalKept
<1>3. ~Drain
  BY <1>1, <1>2 DEF Drain, State
<1>4. CASE Start
  BY <1>2, <1>4 DEF Start
<1>5. CASE ~Start
  <2>1. UNCHANGED <<drained, early>> /\ p \in drained \ early /\ p \in Post \ Noise
    <3>1. UNCHANGED <<drained, early>>
      BY <1>3, <1>5 DEF Next, Work, vars, Clock, AlertFlips, Ingest, LeaseExpires, Begin, Claim, ReadAlert, Rules, SkipAi,
         EmptyWindow, Call, CallOk, CallFails, TickFails, Abort, Crash, store, history
    <3> QED
      BY <1>1, <1>2, <3>1 DEF TypeOK
  <2>2. published'[p] = published[p] /\ published[p] \in Int /\ published[p] # Nothing
    BY <2>1, DrainedPublished, Kept
  <2>3. /\ now \in Nat /\ now <= now' /\ tick.t \in Nat /\ tick.t <= now
        /\ published[p] > now - RecentWindow /\ published[p] > tick.t - RecentWindow
    BY <1>1, <1>2, <2>2, Steps, Fields, SituationAssumption
  <2>4. CASE CallOk
    <3>1. tick.pc = "call" /\ p \notin tick.posts
      BY <1>2, <2>4 DEF CallOk
    <3> QED
      BY <2>1, <2>3, <3>1 DEF CallComplete, Owed
  <2>5. CASE EmptyWindow
    <3>1. tick.pc = "ai" /\ Due /\ Window(WindowFrom, tick.t) = {}
      BY <2>5 DEF EmptyWindow
    <3>2. published[p] <= tick.t
      BY <2>1, <3>1, OwedPublished DEF Owed, InTick
    <3> QED
      BY <2>1, <2>2, <2>3, <3>1, <3>2, WindowReaches
  <2>6. CASE ~CallOk /\ ~EmptyWindow
    <3>1. st'.newForAi = st.newForAi /\ seen' = seen /\ tick.pc # "down"
      BY <1>1, <1>2, <1>3, <1>5, <2>6 DEF Next, Work, vars, Clock, AlertFlips, Ingest, LeaseExpires, Begin, Claim,
         ReadAlert, Rules, SkipAi, Call, CallFails, TickFails, Abort, Crash, store, history, State, NoTick
    <3> QED
      BY <1>2, <2>1, <2>3, <3>1 DEF SignalKept
  <2> QED
    BY <2>4, <2>5, <2>6
<1> QED
  BY <1>4, <1>5

LEMMA ScreenInvariant ==
  ASSUME WindowsReach
  PROVE  Spec => [](SituationInv /\ WindowInv)
<1>1. Init => SituationInv /\ WindowInv
  BY SituationInit
<1>2. SituationInv /\ [Next]_vars => SituationInv'
  BY TypeStep, JobsStep, CadenceStep, SeenStep DEF SituationInv
<1>3. SituationInv /\ WindowInv /\ [Next]_vars => WindowInv'
  BY CallCompleteStep, AiCompleteStep, SignalStep DEF WindowInv
<1> QED
  BY <1>1, <1>2, <1>3, PTL DEF Spec

\* Once the job of a post is completed, the process wants an AI call until one has seen
\* the post or it is no longer recent: no failure, abort or other window loses it.
THEOREM SignalTheorem ==
  ASSUME WindowsReach
  PROVE  Spec => []SignalKept
<1>1. WindowInv => SignalKept
  BY DEF WindowInv
<1> QED
  BY <1>1, ScreenInvariant, PTL

\* The snapshot the screen shows holds every post of the newest rules run that was still
\* recent when it was made: an AI snapshot never hides what the rules saw.
THEOREM ScreenTheorem ==
  ASSUME WindowsReach
  PROVE  Spec => []ScreenComplete
<1>1. ASSUME SituationInv, WindowInv PROVE ScreenComplete
  <2>1. CASE Pick = rules
    BY <2>1 DEF ScreenComplete
  <2>2. CASE rules # Nothing /\ ai # Nothing /\ Pick = ai /\ Pick # rules
    <3>1. rules.posts \subseteq ai.posts \/ ai.at > rules.at
      BY <2>2 DEF Pick
    <3> QED
      BY <1>1, <2>2, <3>1 DEF ScreenComplete, WindowInv, AiComplete
  <2>3. CASE rules = Nothing
    BY <2>3 DEF ScreenComplete
  <2> QED
    BY <2>1, <2>2, <2>3 DEF Pick
<1> QED
  BY <1>1, ScreenInvariant, PTL
====
