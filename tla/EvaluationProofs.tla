-------------------------- MODULE EvaluationProofs --------------------------
(***************************************************************************)
(* The limits of the AI evaluation call, its slots and its circuit         *)
(* breaker, for any number of callers and every limit, threshold, cooldown *)
(* and day length.                                                         *)
(***************************************************************************)
EXTENDS EvaluationCall, FiniteSetTheorems, SequenceTheorems, TLAPS

\* The calls in the queue are those that wait, each once; a trial is in flight; the
\* attempts that are left.
Orderly ==
  /\ \A i \in 1..Len(waiting) : call[waiting[i]].pc = "waiting"
  /\ \A i, j \in 1..Len(waiting) : waiting[i] = waiting[j] => i = j
  /\ \A c \in Call : /\ call[c].probe => call[c].pc = "flight"
                     /\ call[c].pc = "idle" => call[c].attempt = 0
                     /\ call[c].pc = "sleep" => call[c].attempt <= MaxRetries

\* At most one call is the trial, and `probing` says whether one is.
OneProbe ==
  /\ \A c, d \in Call : call[c].probe /\ call[d].probe => c = d
  /\ probing <=> \E c \in Call : call[c].probe

CallTypes ==
  /\ active \in 0..Concurrency
  /\ waiting \in Seq(Call)
  /\ call \in [Call -> Evaluation]
  /\ probing \in BOOLEAN

Calls == CallTypes /\ Orderly /\ OneProbe /\ SlotsKept

\* What is known of the day's counter is what was sent on that day, and nothing was
\* sent on a later one.
Counted ==
  /\ day # Nothing => day <= Today /\ sent[day] = used
  /\ \A d \in Days : (day = Nothing \/ d > day) => sent[d] = 0
  /\ \A d \in Days : sent[d] <= DailyLimit
  /\ total <= MaxRequests

OtherTypes ==
  /\ now \in 0..MaxTime
  /\ day \in Days \cup {Nothing}
  /\ used \in Nat /\ total \in Nat /\ failures \in Nat
  /\ warned \in {0, 50, 80, 100}
  /\ openedAt \in Nat \cup {Nothing}
  /\ aborted \subseteq Call
  /\ sent \in [Days -> Nat]

EvaluationInv == OtherTypes /\ Counted /\ Calls

-----------------------------------------------------------------------------
(* Slots *)

\* Holding a slot is having its pc.
LEMMA HoldingFinite ==
  ASSUME CallTypes
  PROVE  IsFiniteSet(Holding) /\ Cardinality(Holding) \in Nat
<1>1. Holding \in SUBSET Call /\ IsFiniteSet(Call)
  BY EvaluationAssumption DEF Holding
<1> QED
  BY <1>1, FS_Subset, FS_CardinalityType

\* A call that takes a free slot, or queues.
LEMMA AcquireKeeps ==
  ASSUME Calls, NEW c \in Call, call[c].pc \in {"idle", "sleep"}, Acquire(c), UNCHANGED probing
  PROVE  Calls'
<1> DEFINE slot == [call[c] EXCEPT !.attempt = call[c].attempt + 1, !.pc = "slot"]
           queued == [call[c] EXCEPT !.attempt = call[c].attempt + 1, !.pc = "waiting"]
<1>1. /\ call \in [Call -> Evaluation] /\ waiting \in Seq(Call) /\ active \in 0..Concurrency
      /\ probing \in BOOLEAN /\ call[c] \in Evaluation /\ ~call[c].probe
      /\ call[c].attempt <= MaxRetries /\ MaxRetries \in Nat /\ Concurrency \in Nat
  BY EvaluationAssumption DEF Calls, CallTypes, Orderly, Evaluation
<1>2. /\ slot \in Evaluation /\ slot.pc = "slot" /\ ~slot.probe
      /\ queued \in Evaluation /\ queued.pc = "waiting" /\ ~queued.probe
  <2>1. call[c].attempt + 1 \in 0..(MaxRetries + 1)
    BY <1>1 DEF Evaluation
  <2>2. ASSUME NEW p \in {"slot", "waiting"}
        PROVE  /\ [call[c] EXCEPT !.attempt = call[c].attempt + 1, !.pc = p] \in Evaluation
               /\ [call[c] EXCEPT !.attempt = call[c].attempt + 1, !.pc = p].pc = p
               /\ [call[c] EXCEPT !.attempt = call[c].attempt + 1, !.pc = p].probe = call[c].probe
    BY <1>1, <2>1 DEF Evaluation
  <2> QED
    BY <1>1, <2>2
<1>3. \A i \in 1..Len(waiting) : waiting[i] \in Call /\ waiting[i] # c
  BY <1>1 DEF Calls, Orderly
<1>4. CASE active < Concurrency
  <2>1. /\ active' = active + 1 /\ waiting' = waiting
        /\ call' = [call EXCEPT ![c] = slot]
    BY <1>4 DEF Acquire
  <2> HIDE DEF slot, queued
  <2>2. CallTypes'
    BY <1>1, <1>2, <1>4, <2>1 DEF CallTypes
  <2>3. call'[c] = slot /\ \A d \in Call : d # c => call'[d] = call[d]
    BY <1>1, <2>1
  <2>4. Orderly'
    BY <1>1, <1>2, <1>3, <2>1, <2>3 DEF Orderly, Calls
  <2>5. OneProbe'
    BY <1>1, <1>2, <2>3 DEF OneProbe, Calls
  <2>6. Holding' = Holding \cup {c} /\ c \notin Holding
    BY <1>1, <1>2, <2>3 DEF Holding
  <2>7. SlotsKept'
    <3>1. IsFiniteSet(Holding) /\ active = Cardinality(Holding) /\ waiting = <<>>
      BY <1>1, <1>4, HoldingFinite DEF SlotsKept, Calls
    <3>2. Cardinality(Holding \cup {c}) = Cardinality(Holding) + 1
      BY <2>6, <3>1, FS_AddElement
    <3> QED
      BY <2>1, <2>6, <3>1, <3>2 DEF SlotsKept
  <2> QED
    BY <2>2, <2>4, <2>5, <2>7 DEF Calls
<1>5. CASE ~(active < Concurrency)
  <2>1. /\ active' = active /\ waiting' = Append(waiting, c)
        /\ call' = [call EXCEPT ![c] = queued]
    BY <1>5 DEF Acquire
  <2> HIDE DEF slot, queued
  <2>2. /\ waiting' \in Seq(Call) /\ Len(waiting') = Len(waiting) + 1
        /\ \A i \in 1..Len(waiting) : waiting'[i] = waiting[i]
        /\ waiting'[Len(waiting) + 1] = c
        /\ Len(waiting) \in Nat
    BY <1>1, <2>1, AppendProperties, LenProperties
  <2>3. CallTypes'
    BY <1>1, <1>2, <2>1, <2>2 DEF CallTypes
  <2>4. call'[c] = queued /\ \A d \in Call : d # c => call'[d] = call[d]
    BY <1>1, <2>1
  <2>5. Orderly'
    <3>1. ASSUME NEW i \in 1..Len(waiting')
          PROVE  call'[waiting'[i]].pc = "waiting"
      BY <1>2, <1>3, <2>2, <2>4 DEF Orderly, Calls
    <3>2. ASSUME NEW i \in 1..Len(waiting'), NEW j \in 1..Len(waiting'), waiting'[i] = waiting'[j]
          PROVE  i = j
      BY <1>3, <2>2, <3>2 DEF Orderly, Calls
    <3>3. ASSUME NEW d \in Call
          PROVE  /\ call'[d].probe => call'[d].pc = "flight"
                 /\ call'[d].pc = "idle" => call'[d].attempt = 0
                 /\ call'[d].pc = "sleep" => call'[d].attempt <= MaxRetries
      BY <1>2, <2>4 DEF Orderly, Calls
    <3> QED
      BY <3>1, <3>2, <3>3 DEF Orderly
  <2>6. OneProbe'
    BY <1>1, <1>2, <2>4 DEF OneProbe, Calls
  <2>7. Holding' = Holding
    BY <1>1, <1>2, <2>4 DEF Holding
  <2>8. SlotsKept'
    <3>1. active' = Concurrency
      BY <1>1, <1>5, <2>1
    <3>2. active' = Cardinality(Holding')
      BY <2>1, <2>7 DEF SlotsKept, Calls
    <3> QED
      BY <3>1, <3>2 DEF SlotsKept
  <2> QED
    BY <2>3, <2>5, <2>6, <2>8 DEF Calls
<1> QED
  BY <1>4, <1>5

\* A call that gives its slot up, to the first in the queue if there is one.
LEMMA LeaveKeeps ==
  ASSUME Calls, NEW c \in Call, call[c].pc \in {"slot", "flight"},
         NEW e \in Evaluation, ~e.probe,
         \/ e.pc = "idle" /\ e.attempt = 0
         \/ e.pc = "sleep" /\ e.attempt <= MaxRetries,
         Leave(c, e), probing' = (probing /\ ~call[c].probe)
  PROVE  Calls'
<1>1. /\ call \in [Call -> Evaluation] /\ waiting \in Seq(Call) /\ active \in 0..Concurrency
      /\ probing \in BOOLEAN /\ call[c] \in Evaluation /\ Concurrency \in Nat
  BY EvaluationAssumption DEF Calls, CallTypes
<1>2. c \in Holding /\ IsFiniteSet(Holding) /\ active = Cardinality(Holding)
  BY HoldingFinite DEF Holding, Calls, SlotsKept
<1>3. \A i \in 1..Len(waiting) : waiting[i] \in Call /\ waiting[i] # c
  BY <1>1 DEF Calls, Orderly
<1>4. CASE waiting = <<>>
  <2>1. call' = [call EXCEPT ![c] = e] /\ active' = active - 1 /\ waiting' = waiting
    BY <1>4 DEF Leave
  <2>2. call'[c] = e /\ \A d \in Call : d # c => call'[d] = call[d]
    BY <1>1, <2>1
  <2>3. Holding' = Holding \ {c}
    BY <1>1, <2>2 DEF Holding
  <2>4. active' = Cardinality(Holding') /\ active' \in Nat
    <3>1. IsFiniteSet(Holding \ {c}) /\ Cardinality(Holding \ {c}) = Cardinality(Holding) - 1
      BY <1>2, FS_RemoveElement
    <3>2. Cardinality(Holding \ {c}) \in Nat
      BY <3>1, FS_CardinalityType
    <3> QED
      BY <1>2, <2>1, <2>3, <3>1, <3>2
  <2>5. CallTypes'
    BY <1>1, <2>1, <2>4 DEF CallTypes
  <2>6. Orderly'
    BY <1>1, <1>3, <2>1, <2>2 DEF Orderly, Calls
  <2>7. OneProbe'
    BY <1>1, <2>2 DEF OneProbe, Calls
  <2>8. SlotsKept'
    BY <1>4, <2>1, <2>4 DEF SlotsKept
  <2> QED
    BY <2>5, <2>6, <2>7, <2>8 DEF Calls
<1>5. CASE waiting # <<>>
  <2> DEFINE h == Head(waiting)
             next == [call[h] EXCEPT !.pc = "slot"]
  <2>1. /\ h = waiting[1] /\ 1 \in 1..Len(waiting)
        /\ Len(waiting) \in Nat
        /\ Tail(waiting) \in Seq(Call) /\ Len(Tail(waiting)) = Len(waiting) - 1
        /\ \A i \in 1..Len(Tail(waiting)) : Tail(waiting)[i] = waiting[i + 1]
    BY <1>1, <1>5, HeadTailProperties, EmptySeq, LenProperties
  <2>2. h \in Call /\ h # c /\ call[h].pc = "waiting" /\ ~call[h].probe
    BY <1>3, <2>1 DEF Calls, Orderly
  <2>3. active' = active /\ waiting' = Tail(waiting)
    BY <1>5 DEF Leave
  <2>4. call' = [call EXCEPT ![c] = e, ![h].pc = "slot"]
    BY <1>5 DEF Leave
  <2>5. next \in Evaluation /\ next.pc = "slot" /\ ~next.probe
    BY <1>1, <2>2 DEF Evaluation
  <2>6. /\ call'[c] = e /\ call'[h] = next /\ \A d \in Call : d \notin {c, h} => call'[d] = call[d]
        /\ call' \in [Call -> Evaluation]
    <3> HIDE DEF h
    <3> QED
      BY <1>1, <2>2, <2>4, <2>5
  <2> HIDE DEF next, h
  <2>7. Holding' = (Holding \ {c}) \cup {h} /\ h \notin Holding
    BY <1>1, <2>2, <2>5, <2>6 DEF Holding
  <2>8. active' = Cardinality(Holding')
    <3>1. IsFiniteSet(Holding \ {c}) /\ Cardinality(Holding \ {c}) = Cardinality(Holding) - 1
      BY <1>2, FS_RemoveElement
    <3>2. Cardinality((Holding \ {c}) \cup {h}) = Cardinality(Holding) - 1 + 1
      BY <2>7, <3>1, FS_AddElement
    <3> QED
      BY <1>1, <1>2, <2>3, <2>7, <3>2
  <2>9. CallTypes'
    BY <1>1, <2>1, <2>3, <2>6 DEF CallTypes
  <2>10. Orderly'
    <3>1. ASSUME NEW i \in 1..Len(waiting')
          PROVE  /\ i + 1 \in 1..Len(waiting) /\ waiting'[i] = waiting[i + 1]
                 /\ waiting'[i] \in Call \ {c, h} /\ call'[waiting'[i]].pc = "waiting"
      <4>1. i + 1 \in 1..Len(waiting) /\ waiting'[i] = waiting[i + 1] /\ i + 1 # 1
        BY <2>1, <2>3
      <4>2. waiting[i + 1] # h
        BY <2>1, <4>1 DEF Calls, Orderly
      <4> QED
        BY <1>3, <2>6, <4>1, <4>2 DEF Calls, Orderly
    <3>2. ASSUME NEW i \in 1..Len(waiting'), NEW j \in 1..Len(waiting'), waiting'[i] = waiting'[j]
          PROVE  i = j
      <4>1. i + 1 = j + 1
        BY <3>1, <3>2 DEF Calls, Orderly
      <4> QED
        BY <4>1
    <3>3. ASSUME NEW d \in Call
          PROVE  /\ call'[d].probe => call'[d].pc = "flight"
                 /\ call'[d].pc = "idle" => call'[d].attempt = 0
                 /\ call'[d].pc = "sleep" => call'[d].attempt <= MaxRetries
      BY <2>5, <2>6 DEF Calls, Orderly
    <3> QED
      BY <3>1, <3>2, <3>3 DEF Orderly
  <2>11. OneProbe'
    BY <1>1, <2>2, <2>5, <2>6 DEF OneProbe, Calls
  <2>12. SlotsKept'
    BY <1>5, <2>3, <2>8 DEF SlotsKept, Calls
  <2> QED
    BY <2>9, <2>10, <2>11, <2>12 DEF Calls
<1> QED
  BY <1>4, <1>5

\* A request is sent in a closed circuit, or as the trial of an open one with no other
\* trial under way.
LEMMA SendKeeps ==
  ASSUME Calls, NEW c \in Call, Send(c)
  PROVE  Calls'
<1> DEFINE flight == [call[c] EXCEPT !.pc = "flight", !.probe = (openedAt # Nothing)]
<1>1. /\ call \in [Call -> Evaluation] /\ probing \in BOOLEAN /\ call[c] \in Evaluation
      /\ call[c].pc = "slot" /\ ~call[c].probe
  BY DEF Calls, CallTypes, Orderly, Send
<1>2. /\ call' = [call EXCEPT ![c] = flight] /\ active' = active /\ waiting' = waiting
      /\ probing' = (probing \/ openedAt # Nothing)
      /\ openedAt # Nothing => ~probing
  BY DEF Send, Shut
<1>3. flight \in Evaluation /\ flight.pc = "flight" /\ (flight.probe <=> openedAt # Nothing)
  BY <1>1 DEF Evaluation
<1> HIDE DEF flight
<1>4. call'[c] = flight /\ \A d \in Call : d # c => call'[d] = call[d]
  BY <1>1, <1>2
<1>5. CallTypes'
  BY <1>1, <1>2, <1>3 DEF CallTypes, Calls
<1>6. Orderly'
  <2>1. \A i \in 1..Len(waiting) : waiting[i] \in Call /\ waiting[i] # c
    BY <1>1 DEF Calls, CallTypes, Orderly
  <2> QED
    BY <1>2, <1>3, <1>4, <2>1 DEF Orderly, Calls
<1>7. OneProbe'
  BY <1>1, <1>2, <1>3, <1>4 DEF OneProbe, Calls
<1>8. Holding' = Holding
  BY <1>1, <1>3, <1>4 DEF Holding
<1>9. SlotsKept'
  BY <1>2, <1>8 DEF SlotsKept, Calls
<1> QED
  BY <1>5, <1>6, <1>7, <1>9 DEF Calls

LEMMA CallsStay ==
  ASSUME Calls, UNCHANGED <<active, waiting, call, probing>>
  PROVE  Calls'
BY DEF Calls, CallTypes, Orderly, OneProbe, SlotsKept, Holding

-----------------------------------------------------------------------------
(* Budget and breaker *)

\* Later moments are on the same day or a later one.
LEMMA DaysGrow ==
  ASSUME NEW a \in Nat, NEW b \in Nat, NEW k \in Nat \ {0}, a <= b
  PROVE  /\ a \div k \in Nat /\ b \div k \in Nat
         /\ a \div k <= b \div k
<1>1. /\ a \div k \in Nat /\ a = k * (a \div k) + (a % k) /\ a % k \in 0..(k - 1)
      /\ b \div k \in Nat /\ b = k * (b \div k) + (b % k) /\ b % k \in 0..(k - 1)
  OBVIOUS
<1>2. ASSUME a \div k > b \div k
      PROVE  FALSE
  <2> DEFINE p == a \div k
             q == b \div k
  <2>1. p \in Nat /\ q \in Nat /\ p >= q + 1
    BY <1>1, <1>2
  <2>2. k * p >= k * (q + 1) /\ k * (q + 1) = k * q + k
    <3> HIDE DEF p, q
    <3> QED
      BY <2>1
  <2>3. a >= k * p /\ b < k * q + k
    <3> DEFINE x == k * p
               y == k * q
    <3>1. x \in Int /\ y \in Int
      BY <2>1
    <3>2. a = x + (a % k) /\ b = y + (b % k)
      BY <1>1
    <3> HIDE DEF x, y
    <3>3. a >= x /\ b < y + k
      BY <1>1, <3>1, <3>2
    <3> QED
      BY <3>3 DEF x, y
  <2> HIDE DEF p, q
  <2> QED
    BY <2>1, <2>2, <2>3
<1> QED
  BY <1>1, <1>2

LEMMA TodayIsDay ==
  ASSUME now \in 0..MaxTime
  PROVE  Today \in Days /\ Days \subseteq Nat
<1>1. now \in Nat /\ MaxTime \in Nat /\ DayLength \in Nat \ {0} /\ now <= MaxTime
  BY EvaluationAssumption
<1> QED
  BY <1>1, DaysGrow DEF Today, Days

\* countRequest picks one of its levels.
LEMMA WarnedLevel ==
  ASSUME OtherTypes, NEW n \in Nat
  PROVE  Warned(n) \in {0, 50, 80, 100}
<1>1. WarnedToday \in {0, 50, 80, 100} /\ DailyLimit \in Nat
  BY EvaluationAssumption DEF WarnedToday, OtherTypes
<1> DEFINE Reached(p) == /\ p >= WarnedToday /\ (p = WarnedToday \/ n * 100 >= DailyLimit * p)
                         /\ \A q \in {50, 80, 100} : q > p => n * 100 < DailyLimit * q
<1>2. \E p \in {0, 50, 80, 100} : Reached(p)
  <2>1. CASE n * 100 >= DailyLimit * 100 \/ WarnedToday = 100
    <3>1. Reached(100)
      BY <1>1, <2>1
    <3> QED
      BY <3>1
  <2>2. CASE n * 100 < DailyLimit * 100 /\ WarnedToday # 100 /\ (n * 100 >= DailyLimit * 80 \/ WarnedToday = 80)
    <3>1. Reached(80)
      BY <1>1, <2>2
    <3> QED
      BY <3>1
  <2>3. CASE n * 100 < DailyLimit * 80 /\ WarnedToday \in {0, 50} /\ (n * 100 >= DailyLimit * 50 \/ WarnedToday = 50)
    <3>1. Reached(50)
      BY <1>1, <2>3
    <3> QED
      BY <3>1
  <2>4. CASE n * 100 < DailyLimit * 50 /\ WarnedToday = 0
    <3>1. Reached(0)
      BY <1>1, <2>4
    <3> QED
      BY <3>1
  <2> QED
    BY <1>1, <2>1, <2>2, <2>3, <2>4
<1>3. Warned(n) = CHOOSE p \in {0, 50, 80, 100} : Reached(p)
  BY DEF Warned
<1> HIDE DEF Reached
<1> QED
  BY <1>2, <1>3

\* What was sent today is what the counter says once the day is looked at.
LEMMA UsedIsSent ==
  ASSUME OtherTypes, Counted
  PROVE  /\ UsedToday \in Nat /\ sent[Today] = UsedToday
         /\ \A d \in Days : d > Today => sent[d] = 0
         /\ WarnedToday \in {0, 50, 80, 100}
<1>1. Today \in Days /\ Days \subseteq Nat /\ Nothing \notin Nat
  BY TodayIsDay, EvaluationAssumption DEF OtherTypes
<1> QED
  BY <1>1 DEF UsedToday, WarnedToday, OtherTypes, Counted

LEMMA SendCounts ==
  ASSUME OtherTypes, Counted, NEW c \in Call, Send(c)
  PROVE  OtherTypes' /\ Counted'
<1>1. Today \in Days /\ Days \subseteq Nat /\ Nothing \notin Nat /\ DailyLimit \in Nat /\ MaxRequests \in Nat
  BY TodayIsDay, EvaluationAssumption DEF OtherTypes
<1>2. /\ UsedToday \in Nat /\ sent[Today] = UsedToday
      /\ \A d \in Days : d > Today => sent[d] = 0
  BY UsedIsSent
<1>3. /\ now' = now /\ failures' = failures /\ openedAt' = openedAt /\ aborted' = aborted
      /\ day' = Today /\ used' = UsedToday + 1 /\ warned' = Warned(UsedToday + 1)
      /\ total' = total + 1 /\ sent' = [sent EXCEPT ![Today] = sent[Today] + 1]
      /\ ~(UsedToday >= DailyLimit) /\ ~(total >= MaxRequests)
  BY DEF Send, NewDay, Spent
<1>4. Today' = Today
  BY <1>3 DEF Today
<1>5. Warned(UsedToday + 1) \in {0, 50, 80, 100}
  BY <1>2, WarnedLevel
<1>6. OtherTypes'
  BY <1>1, <1>2, <1>3, <1>5 DEF OtherTypes
<1>7. sent'[Today] = UsedToday + 1 /\ \A d \in Days : d # Today => sent'[d] = sent[d]
  BY <1>1, <1>2, <1>3 DEF OtherTypes
<1>8. Counted'
  BY <1>1, <1>2, <1>3, <1>4, <1>7 DEF Counted, OtherTypes
<1> QED
  BY <1>6, <1>8

LEMMA RefuseCounts ==
  ASSUME OtherTypes, Counted, NEW c \in Call, Refuse(c)
  PROVE  OtherTypes' /\ Counted'
<1>1. Today \in Days /\ Days \subseteq Nat /\ Nothing \notin Nat
  BY TodayIsDay, EvaluationAssumption DEF OtherTypes
<1>2. /\ UsedToday \in Nat /\ sent[Today] = UsedToday
      /\ \A d \in Days : d > Today => sent[d] = 0
      /\ WarnedToday \in {0, 50, 80, 100}
  BY UsedIsSent
<1>3. /\ now' = now /\ failures' = failures /\ openedAt' = openedAt /\ aborted' = aborted
      /\ day' = Today /\ used' = UsedToday /\ warned' = WarnedToday
      /\ total' = total /\ sent' = sent
  BY DEF Refuse, NewDay, breaker
<1>4. Today' = Today
  BY <1>3 DEF Today
<1> QED
  BY <1>1, <1>2, <1>3, <1>4 DEF OtherTypes, Counted

\* No other step counts a request; the clock may move to a later day.
LEMMA OthersCount ==
  ASSUME OtherTypes, Counted, UNCHANGED <<day, used, warned, total, sent>>,
         now' \in 0..MaxTime, now <= now',
         failures' \in Nat, openedAt' \in Nat \cup {Nothing}, aborted' \subseteq Call
  PROVE  OtherTypes' /\ Counted'
<1>1. now \in Nat /\ now' \in Nat /\ DayLength \in Nat \ {0} /\ Nothing \notin Nat
  BY EvaluationAssumption DEF OtherTypes
<1>2. now \div DayLength \in Nat /\ now' \div DayLength \in Nat /\ now \div DayLength <= now' \div DayLength
  BY <1>1, DaysGrow
<1>3. Today \in Nat /\ Today' \in Nat /\ Today <= Today' /\ Days \subseteq Nat
  BY <1>2, TodayIsDay DEF Today, OtherTypes
<1>4. OtherTypes'
  BY DEF OtherTypes
<1>5. day # Nothing => day \in Nat
  BY <1>3 DEF OtherTypes
<1>6. Counted'
  BY <1>3, <1>5 DEF Counted
<1> QED
  BY <1>4, <1>6

LEMMA BreakerTypes ==
  ASSUME OtherTypes, NEW c, NEW failed \in BOOLEAN, ExitBreaker(c, failed)
  PROVE  failures' \in Nat /\ openedAt' \in Nat \cup {Nothing} /\ probing' = (probing /\ ~call[c].probe)
<1>1. now \in Nat
  BY DEF OtherTypes
<1> QED
  BY <1>1 DEF OtherTypes, ExitBreaker

-----------------------------------------------------------------------------
(* Theorems *)

LEMMA InvariantAtStart == Init => EvaluationInv
<1> SUFFICES ASSUME Init PROVE EvaluationInv
  OBVIOUS
<1>1. /\ 0 \in 0..MaxTime /\ {DailyLimit, MaxRequests, MaxRetries, MaxTime, Concurrency} \subseteq Nat
      /\ DayLength \in Nat \ {0} /\ IsFiniteSet(Call)
  BY EvaluationAssumption
<1>2. Over \in Evaluation /\ Over.pc = "idle" /\ Over.attempt = 0 /\ ~Over.probe
  BY <1>1 DEF Over, Evaluation
<1>3. OtherTypes /\ Counted
  BY <1>1 DEF OtherTypes, Counted, Init
<1>4. \A c \in Call : call[c] = Over
  BY DEF Init
<1>5. call \in [Call -> Evaluation]
  BY <1>2 DEF Init
<1>6. waiting = <<>> /\ Len(waiting) = 0 /\ probing = FALSE /\ active = 0
  BY DEF Init
<1>10. waiting \in Seq(Call) /\ probing \in BOOLEAN /\ active \in 0..Concurrency
  <2>1. waiting \in Seq(Call)
    BY <1>6
  <2>2. active \in 0..Concurrency
    BY <1>1, <1>6
  <2>3. probing \in BOOLEAN
    BY <1>6
  <2> QED
    BY <2>1, <2>2, <2>3
<1>11. CallTypes
  BY <1>5, <1>10 DEF CallTypes
<1>7. Orderly /\ OneProbe
  BY <1>2, <1>4, <1>6 DEF Orderly, OneProbe
<1>8. Holding = {}
  BY <1>2, <1>4 DEF Holding
<1>9. SlotsKept
  BY <1>6, <1>8, FS_EmptySet DEF SlotsKept
<1> QED
  BY <1>3, <1>11, <1>7, <1>9 DEF EvaluationInv, Calls

\* A flight that ends: in an answer, or in an error, retried or not.
LEMMA FlightEnds ==
  ASSUME EvaluationInv, NEW c \in Call, Answer(c) \/ Unauthorised(c) \/ Transient(c)
  PROVE  EvaluationInv'
<1>1. call[c] \in Evaluation /\ call[c].pc = "flight"
  BY DEF EvaluationInv, Calls, CallTypes, Answer, Unauthorised, Transient
<1>2. Over \in Evaluation /\ Over.pc = "idle" /\ Over.attempt = 0 /\ ~Over.probe
  BY EvaluationAssumption DEF Over, Evaluation
<1> DEFINE later == [call[c] EXCEPT !.pc = "sleep", !.probe = FALSE]
<1>3. later \in Evaluation /\ later.pc = "sleep" /\ ~later.probe /\ later.attempt = call[c].attempt
  BY <1>1 DEF Evaluation
<1> HIDE DEF later
<1>4. PICK failed \in BOOLEAN : ExitBreaker(c, failed)
  BY DEF Answer, Unauthorised, Transient
<1>5. \/ Leave(c, Over)
      \/ call[c].attempt <= MaxRetries /\ Leave(c, later)
  BY DEF Answer, Unauthorised, Transient, later
<1>6. UNCHANGED <<now, day, used, warned, total, sent, aborted>>
  BY DEF Answer, Unauthorised, Transient, budget
<1>7. failures' \in Nat /\ openedAt' \in Nat \cup {Nothing} /\ probing' = (probing /\ ~call[c].probe)
  BY <1>4, BreakerTypes DEF EvaluationInv
<1>8. OtherTypes' /\ Counted'
  BY <1>6, <1>7, OthersCount DEF EvaluationInv, OtherTypes
<1>9. Calls'
  <2>1. CASE Leave(c, Over)
    BY <1>1, <1>2, <1>7, <2>1, LeaveKeeps DEF EvaluationInv
  <2>2. CASE call[c].attempt <= MaxRetries /\ Leave(c, later)
    BY <1>1, <1>3, <1>7, <2>2, LeaveKeeps DEF EvaluationInv
  <2> QED
    BY <1>5, <2>1, <2>2
<1> QED
  BY <1>8, <1>9 DEF EvaluationInv

LEMMA InvariantKept == EvaluationInv /\ [Next]_vars => EvaluationInv'
<1> SUFFICES ASSUME EvaluationInv, [Next]_vars PROVE EvaluationInv'
  OBVIOUS
<1> USE DEF EvaluationInv
<1>1. ASSUME NEW c \in Call, Begin(c) PROVE EvaluationInv'
  <2>1. Acquire(c) /\ call[c].pc = "idle" /\ aborted' \subseteq Call
        /\ UNCHANGED <<now, day, used, warned, total, sent, failures, openedAt, probing>>
    BY <1>1 DEF Begin, budget, breaker, OtherTypes
  <2>2. Calls'
    BY <2>1, AcquireKeeps
  <2> QED
    BY <2>1, <2>2, OthersCount DEF OtherTypes
<1>2. ASSUME NEW c \in Call, Abort(c) PROVE EvaluationInv'
  <2>1. aborted' \subseteq Call
        /\ UNCHANGED <<now, day, used, warned, total, sent, failures, openedAt, probing, active, waiting, call>>
    BY <1>2 DEF Abort, budget, breaker, slots, OtherTypes
  <2>2. Calls'
    BY <2>1, CallsStay
  <2> QED
    BY <2>1, <2>2, OthersCount DEF OtherTypes
<1>3. ASSUME NEW c \in Call, Refuse(c) PROVE EvaluationInv'
  <2>1. Leave(c, Over) /\ call[c].pc = "slot" /\ probing' = probing
    BY <1>3 DEF Refuse, breaker
  <2>2. Over \in Evaluation /\ Over.pc = "idle" /\ Over.attempt = 0 /\ ~Over.probe
    BY EvaluationAssumption DEF Over, Evaluation
  <2>3. ~call[c].probe /\ probing \in BOOLEAN
    BY <2>1 DEF Calls, CallTypes, Orderly
  <2>4. Calls'
    BY <2>1, <2>2, <2>3, LeaveKeeps
  <2> QED
    BY <1>3, <2>4, RefuseCounts
<1>4. ASSUME NEW c \in Call, Send(c) PROVE EvaluationInv'
  BY <1>4, SendKeeps, SendCounts
<1>5. ASSUME NEW c \in Call, Answer(c) \/ Unauthorised(c) \/ Transient(c) PROVE EvaluationInv'
  BY <1>5, FlightEnds
<1>6. ASSUME NEW c \in Call, Wake(c) PROVE EvaluationInv'
  <2>1. call[c].pc = "sleep"
        /\ UNCHANGED <<now, day, used, warned, total, sent, failures, openedAt, probing, aborted>>
    BY <1>6 DEF Wake, budget, breaker
  <2>2. CASE c \notin aborted
    <3>1. Calls'
      BY <1>6, <2>1, <2>2, AcquireKeeps DEF Wake
    <3> QED
      BY <2>1, <3>1, OthersCount DEF OtherTypes
  <2>3. CASE c \in aborted
    <3>1. call' = [call EXCEPT ![c] = Over] /\ active' = active /\ waiting' = waiting
      BY <1>6, <2>3 DEF Wake
    <3>2. Over \in Evaluation /\ Over.pc = "idle" /\ Over.attempt = 0 /\ ~Over.probe
      BY EvaluationAssumption DEF Over, Evaluation
    <3>3. call \in [Call -> Evaluation] /\ waiting \in Seq(Call) /\ ~call[c].probe
      BY <2>1 DEF Calls, CallTypes, Orderly
    <3>4. call'[c] = Over /\ \A d \in Call : d # c => call'[d] = call[d]
      BY <3>1, <3>3
    <3>5. CallTypes'
      BY <2>1, <3>1, <3>2, <3>3 DEF Calls, CallTypes
    <3>6. \A i \in 1..Len(waiting) : waiting[i] \in Call /\ waiting[i] # c
      BY <2>1, <3>3 DEF Calls, Orderly
    <3>7. Orderly'
      BY <3>1, <3>2, <3>4, <3>6 DEF Calls, Orderly
    <3>8. OneProbe'
      BY <2>1, <3>2, <3>3, <3>4 DEF Calls, OneProbe
    <3>9. Holding' = Holding
      BY <2>1, <3>2, <3>4 DEF Holding
    <3>10. SlotsKept'
      BY <3>1, <3>9 DEF Calls, SlotsKept
    <3>11. Calls'
      BY <3>5, <3>7, <3>8, <3>10 DEF Calls
    <3> QED
      BY <2>1, <3>11, OthersCount DEF OtherTypes
  <2> QED
    BY <2>2, <2>3
<1>7. CASE Tick
  <2>1. now' = now + 1 /\ now < MaxTime
        /\ UNCHANGED <<day, used, warned, total, sent, failures, openedAt, probing, active, waiting, call, aborted>>
    BY <1>7 DEF Tick, budget, breaker, slots
  <2>2. now' \in 0..MaxTime /\ now <= now'
    BY <2>1, EvaluationAssumption DEF OtherTypes
  <2>3. Calls'
    BY <2>1, CallsStay
  <2> QED
    BY <2>1, <2>2, <2>3, OthersCount DEF OtherTypes
<1>8. CASE UNCHANGED vars
  <2>1. UNCHANGED <<now, day, used, warned, total, sent, failures, openedAt, probing, active, waiting, call, aborted>>
    BY <1>8 DEF vars
  <2>2. Calls'
    BY <2>1, CallsStay
  <2> QED
    BY <2>1, <2>2, OthersCount DEF OtherTypes
<1> QED
  BY <1>1, <1>2, <1>3, <1>4, <1>5, <1>6, <1>7, <1>8 DEF Next, Step

\* The inductive invariant of the evaluation call.
THEOREM EvaluationInvariant == Spec => []EvaluationInv
  BY InvariantAtStart, InvariantKept, PTL DEF Spec

\* Types of the state: an evaluation makes at most MaxRetries + 1 attempts, and no more
\* slots are taken than there are.
THEOREM EvaluationTypes == Spec => []TypeOK
<1>1. EvaluationInv => TypeOK
  BY DEF EvaluationInv, OtherTypes, Calls, CallTypes, TypeOK
<1> QED
  BY <1>1, EvaluationInvariant, PTL

\* No day sends more than the daily limit, the process no more than its cap, and no more
\* requests run at once than there are slots.
THEOREM LimitsKept == Spec => []WithinLimits
<1>1. EvaluationInv => WithinLimits
  <2> SUFFICES ASSUME EvaluationInv PROVE WithinLimits
    OBVIOUS
  <2>1. IsFiniteSet(Holding) /\ Cardinality(Holding) \in Nat
    BY HoldingFinite DEF EvaluationInv, Calls
  <2>2. InFlight \in SUBSET Holding
    BY DEF InFlight, Holding
  <2>3. Cardinality(InFlight) <= Cardinality(Holding) /\ Cardinality(InFlight) \in Nat
    BY <2>1, <2>2, FS_Subset, FS_CardinalityType
  <2>4. Cardinality(Holding) <= Concurrency /\ Concurrency \in Nat
    BY EvaluationAssumption DEF EvaluationInv, Calls, CallTypes, SlotsKept
  <2>5. Cardinality(InFlight) <= Concurrency
    BY <2>1, <2>3, <2>4
  <2> QED
    BY <2>5 DEF WithinLimits, EvaluationInv, Counted
<1> QED
  BY <1>1, EvaluationInvariant, PTL

\* However requests overlap, at most one is the trial of the half-open circuit, and the
\* circuit knows whether there is one.
THEOREM OneTrialAtATime == Spec => []OneTrial
<1>1. EvaluationInv => OneTrial
  BY DEF EvaluationInv, Calls, Orderly, OneProbe, OneTrial, InFlight
<1> QED
  BY <1>1, EvaluationInvariant, PTL

\* A slot is never lost, shared or left idle while a call waits for one.
THEOREM SlotsAccounted == Spec => []SlotsKept
<1>1. EvaluationInv => SlotsKept
  BY DEF EvaluationInv, Calls
<1> QED
  BY <1>1, EvaluationInvariant, PTL
=============================================================================
