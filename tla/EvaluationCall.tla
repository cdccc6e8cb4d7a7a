--------------------------- MODULE EvaluationCall ---------------------------
(***************************************************************************)
(* createEvaluationCall (packages/ai/src/evaluator.ts): the slots, the     *)
(* daily and lifetime budgets, the circuit breaker, the timeout and the    *)
(* retries around one transport.  Calls run concurrently on one event      *)
(* loop: a step is what runs between two awaits.                           *)
(***************************************************************************)
EXTENDS Integers, Sequences, FiniteSets

CONSTANTS
  Call,          \* the callers; each makes one evaluation after another
  Concurrency,   \* slots
  DailyLimit, MaxRequests,        \* requests per UTC day, and in all
  Threshold, Cooldown,            \* breakerThreshold, breakerCooldownMs
  MaxRetries,
  DayLength, MaxTime,             \* clock ticks per UTC day; bound on the clock
  Nothing

ASSUME EvaluationAssumption ==
  /\ IsFiniteSet(Call)
  /\ {Concurrency, Threshold, DayLength} \subseteq Nat \ {0}
  /\ {DailyLimit, MaxRequests, Cooldown, MaxRetries, MaxTime} \subseteq Nat
  /\ Nothing \notin Nat

VARIABLES
  now,
  day, used, warned, total,       \* the budget's counters
  failures, openedAt, probing,    \* the breaker's
  active, waiting,                \* the slots taken, and the calls queued for one
  call,                           \* the evaluation each caller is in
  aborted,                        \* the callers whose signal is aborted
  sent                            \* requests sent on each day (history)

budget == <<day, used, warned, total, sent>>
breaker == <<failures, openedAt, probing>>
slots == <<active, waiting, call>>
vars == <<now, day, used, warned, total, failures, openedAt, probing,
          active, waiting, call, aborted, sent>>

Days == 0..(MaxTime \div DayLength)
Today == now \div DayLength

\* waiting - for a slot; slot - acquire has resolved; flight - the transport runs;
\* sleep - the delay before the next attempt.
Evaluation == [pc: {"idle", "waiting", "slot", "flight", "sleep"},
               attempt: 0..(MaxRetries + 1), probe: BOOLEAN]

Over == [pc |-> "idle", attempt |-> 0, probe |-> FALSE]

InFlight == {c \in Call : call[c].pc = "flight"}
Holding == {c \in Call : call[c].pc \in {"slot", "flight"}}

TypeOK ==
  /\ now \in 0..MaxTime
  /\ day \in Days \cup {Nothing}
  /\ used \in Nat /\ total \in Nat /\ failures \in Nat
  /\ warned \in {0, 50, 80, 100}
  /\ openedAt \in Nat \cup {Nothing}
  /\ probing \in BOOLEAN
  /\ active \in 0..Concurrency
  /\ waiting \in Seq(Call)
  /\ call \in [Call -> Evaluation]
  /\ aborted \subseteq Call
  /\ sent \in [Days -> Nat]

Init ==
  /\ now = 0
  /\ day = Nothing /\ used = 0 /\ warned = 0 /\ total = 0
  /\ failures = 0 /\ openedAt = Nothing /\ probing = FALSE
  /\ active = 0 /\ waiting = <<>>
  /\ call = [c \in Call |-> Over] /\ aborted = {}
  /\ sent = [d \in Days |-> 0]

-----------------------------------------------------------------------------
(* Slots: acquire and release *)

\* The next attempt takes a free slot or queues for one; it does not watch the signal.
Acquire(c) ==
  LET next == [call[c] EXCEPT !.attempt = @ + 1]
  IN  IF active < Concurrency
      THEN /\ active' = active + 1
           /\ call' = [call EXCEPT ![c] = [next EXCEPT !.pc = "slot"]]
           /\ UNCHANGED waiting
      ELSE /\ waiting' = Append(waiting, c)
           /\ call' = [call EXCEPT ![c] = [next EXCEPT !.pc = "waiting"]]
           /\ UNCHANGED active

\* Fault: the slot is freed, and nobody is woken.
LeaveQuietly(c, e) ==
  /\ call' = [call EXCEPT ![c] = e]
  /\ active' = active - 1
  /\ UNCHANGED waiting

\* c ends its attempt in state e: the first in the queue gets its slot.
Leave(c, e) ==
  IF waiting # <<>>
  THEN /\ call' = [call EXCEPT ![c] = e, ![Head(waiting)].pc = "slot"]
       /\ waiting' = Tail(waiting)
       /\ UNCHANGED active
  ELSE /\ call' = [call EXCEPT ![c] = e]
       /\ active' = active - 1
       /\ UNCHANGED waiting

-----------------------------------------------------------------------------
(* Budget and breaker *)

\* Fault: the request that reaches the limit is compared before it is counted.
SpentLate(n) == n > DailyLimit \/ total >= MaxRequests

Spent(n) == n >= DailyLimit \/ total >= MaxRequests

UsedToday == IF day = Today THEN used ELSE 0
WarnedToday == IF day = Today THEN warned ELSE 0

\* checkBudget: the counters start anew with the first attempt of a UTC day.
NewDay == day' = Today

\* Open, and its cooldown not over, or a trial under way.
Shut == openedAt # Nothing /\ (probing \/ now < openedAt + Cooldown)

\* countRequest: the highest level that `used` has reached.
Warned(n) ==
  CHOOSE p \in {0, 50, 80, 100} :
    /\ p >= WarnedToday /\ (p = WarnedToday \/ n * 100 >= DailyLimit * p)
    /\ \A q \in {50, 80, 100} : q > p => n * 100 < DailyLimit * q

\* Fault: a trial that its caller aborted stays the trial.
ExitUnlessAborted(c, failed) ==
  /\ probing' = (probing /\ (~call[c].probe \/ c \in aborted))
  /\ IF ~failed
     THEN failures' = 0 /\ openedAt' = Nothing
     ELSE /\ failures' = failures + 1
          /\ openedAt' = IF call[c].probe \/ (openedAt = Nothing /\ failures + 1 >= Threshold)
                         THEN now ELSE openedAt

\* exitBreaker: any request that did not fail closes the circuit, the trial or not.
ExitBreaker(c, failed) ==
  /\ probing' = (probing /\ ~call[c].probe)
  /\ IF ~failed
     THEN failures' = 0 /\ openedAt' = Nothing
     ELSE /\ failures' = failures + 1
          /\ openedAt' = IF call[c].probe \/ (openedAt = Nothing /\ failures + 1 >= Threshold)
                         THEN now ELSE openedAt

-----------------------------------------------------------------------------
(* One call *)

Begin(c) ==
  /\ call[c].pc = "idle"
  /\ aborted' = aborted \ {c}
  /\ Acquire(c)
  /\ UNCHANGED <<now, budget, breaker>>

\* The budget or the breaker refuses the attempt: neither error is TRANSIENT.
Refuse(c) ==
  /\ call[c].pc = "slot"
  /\ Spent(UsedToday) \/ Shut
  /\ NewDay /\ used' = UsedToday /\ warned' = WarnedToday
  /\ Leave(c, Over)
  /\ UNCHANGED <<now, total, sent, breaker, aborted>>

\* The request is counted and sent; in an open circuit it is the trial.
Send(c) ==
  /\ call[c].pc = "slot"
  /\ ~Spent(UsedToday) /\ ~Shut
  /\ NewDay /\ used' = UsedToday + 1 /\ warned' = Warned(UsedToday + 1)
  /\ total' = total + 1
  /\ sent' = [sent EXCEPT ![Today] = @ + 1]
  /\ probing' = (probing \/ openedAt # Nothing)
  /\ call' = [call EXCEPT ![c] = [call[c] EXCEPT !.pc = "flight", !.probe = (openedAt # Nothing)]]
  /\ UNCHANGED <<now, failures, openedAt, active, waiting, aborted>>

\* An answer, valid or not; a 4xx; or the rejection after the caller's abort: none of
\* them says that the gateway is ill.
Answer(c) ==
  /\ call[c].pc = "flight"
  /\ ExitBreaker(c, FALSE)
  /\ Leave(c, Over)
  /\ UNCHANGED <<now, budget, aborted>>

\* 401 and 403: the circuit counts them, a retry would not help.
Unauthorised(c) ==
  /\ call[c].pc = "flight" /\ c \notin aborted
  /\ ExitBreaker(c, TRUE)
  /\ Leave(c, Over)
  /\ UNCHANGED <<now, budget, aborted>>

\* A timeout, 429, 5xx or no connection: again after a delay, unless it is the
\* last attempt or the delay is too long.
Transient(c) ==
  /\ call[c].pc = "flight" /\ c \notin aborted
  /\ ExitBreaker(c, TRUE)
  /\ \/ Leave(c, Over)
     \/ /\ call[c].attempt <= MaxRetries
        /\ Leave(c, [call[c] EXCEPT !.pc = "sleep", !.probe = FALSE])
  /\ UNCHANGED <<now, budget, aborted>>

\* The delay ends, or the caller's abort ends it and the call.
Wake(c) ==
  /\ call[c].pc = "sleep"
  /\ IF c \in aborted
     THEN call' = [call EXCEPT ![c] = Over] /\ UNCHANGED <<active, waiting>>
     ELSE Acquire(c)
  /\ UNCHANGED <<now, budget, breaker, aborted>>

-----------------------------------------------------------------------------
(* Environment *)

\* The caller aborts its signal: at any time, as at shutdown.
Abort(c) ==
  /\ call[c].pc # "idle" /\ c \notin aborted
  /\ aborted' = aborted \cup {c}
  /\ UNCHANGED <<now, budget, breaker, slots>>

Tick ==
  /\ now < MaxTime
  /\ now' = now + 1
  /\ UNCHANGED <<budget, breaker, slots, aborted>>

Step(c) == Refuse(c) \/ Send(c) \/ Answer(c) \/ Unauthorised(c) \/ Transient(c) \/ Wake(c)

Next ==
  \/ \E c \in Call : Begin(c) \/ Abort(c) \/ Step(c)
  \/ Tick

Spec == Init /\ [][Next]_vars

\* The event loop runs what is ready; the timeout ends every request, a timer every delay.
FairSpec == Spec /\ \A c \in Call : WF_vars(Step(c))

-----------------------------------------------------------------------------
(* Properties *)

\* However calls overlap, wait, retry and span midnight: no day sends more requests
\* than the daily limit, the process none beyond its cap, and the gateway never has
\* more than `concurrency` of them at once.
WithinLimits ==
  /\ \A d \in Days : sent[d] <= DailyLimit
  /\ total <= MaxRequests
  /\ Cardinality(InFlight) <= Concurrency

\* At most one trial is in flight, and `probing` says whether it is: a flag that
\* outlived its trial would keep the circuit open for good, one reset by the answer
\* of another request would let a second trial out.
OneTrial ==
  /\ \A c, d \in InFlight : call[c].probe /\ call[d].probe => c = d
  /\ probing <=> \E c \in InFlight : call[c].probe

\* A slot is never idle while a call waits for it, never lost and never shared.
SlotsKept ==
  /\ active = Cardinality(Holding)
  /\ waiting # <<>> => active = Concurrency

\* Every call ends, with an answer or an error: no slot is lost, nobody waits forever.
CallsEnd == \A c \in Call : call[c].pc # "idle" ~> call[c].pc = "idle"
=============================================================================
