------------------------------ MODULE JobQueue ------------------------------
(***************************************************************************)
(* The job queue kept in the `jobs` table (packages/db/src/queue.ts) and   *)
(* the worker processes that use it (apps/worker/src/main.ts).             *)
(*                                                                         *)
(* A statement of the code is one action; the two statements of `claim`    *)
(* are two actions (Bury, then Lease), because they are not in one         *)
(* transaction.  Timestamps are kept relative to now(): `wait` is          *)
(* next_attempt_at - now() and `lease` is lease_until - now(), in ticks,   *)
(* so that time may pass for ever in a finite model.                       *)
(***************************************************************************)
EXTENDS Integers, FiniteSets

CONSTANTS
  Job,          \* ids of rows that may ever be inserted (a bound)
  Key,          \* dedupe keys
  Consumed,     \* the keys of the kinds that some loop claims
  Worker,       \* worker processes, each with its own lease_owner string
  Enqueuer,     \* transactions that call enqueue
  Priority,     \* JOB_PRIORITY values
  MaxAttempts,  \* max_attempts of every job
  BatchLimit,   \* opts.limit of claim
  LeaseTicks,   \* opts.leaseMs
  BackoffCap,   \* the cap of backoffMs
  MaxAge,       \* how far in the past next_attempt_at is told apart (a bound)
  MaxStops,     \* how many crashes and shutdowns a behaviour has (a bound)
  Nothing       \* null

ASSUME QueueAssumption ==
  /\ Consumed \subseteq Key
  /\ Priority \subseteq Nat
  /\ MaxAttempts \in Nat \ {0}
  /\ BatchLimit \in Nat \ {0}
  /\ LeaseTicks \in Nat
  /\ BackoffCap \in Nat \ {0}
  /\ MaxAge \in Nat
  /\ MaxStops \in Nat
  /\ Nothing \notin Worker \cup Key

VARIABLES
  job,      \* the rows of the table
  results,  \* results[j]: how often a result of j was committed
  proc,     \* where each worker process is
  held,     \* held[w][j]: the `attempts` of the handle w holds on j, 0: none
  enq,      \* where each call of enqueue is
  stops     \* crashes and shutdowns so far

vars == <<job, results, proc, held, enq, stops>>

Active == {"queued", "running", "failed"}
Status == Active \cup {"none", "done", "dead", "deleted"}

Row == [status: Status, key: Key \cup {Nothing}, prio: Nat, attempts: Nat,
        wait: Int, lease: -1..LeaseTicks, owner: Worker \cup {Nothing}]

\* A row that is not in the table yet.
Unused == [status |-> "none", key |-> Nothing, prio |-> 0, attempts |-> 0,
           wait |-> 0, lease |-> 0, owner |-> Nothing]

Process == [phase: {"up", "stopping", "released"},
            pc: {"idle", "leasing", "working"}]

NoHandle == [j \in Job |-> 0]

IdleCall == [pc |-> "idle"]
Call == {IdleCall}
          \cup [pc: {"insert", "select"}, key: Key, prio: Priority, try: {1, 2}]

TypeOK ==
  /\ job \in [Job -> Row]
  /\ results \in [Job -> Nat]
  /\ proc \in [Worker -> Process]
  /\ held \in [Worker -> [Job -> Nat]]
  /\ enq \in [Enqueuer -> Call]
  /\ stops \in Nat

Init ==
  /\ job = [j \in Job |-> Unused]
  /\ results = [j \in Job |-> 0]
  /\ proc = [w \in Worker |-> [phase |-> "up", pc |-> "idle"]]
  /\ held = [w \in Worker |-> NoHandle]
  /\ enq = [e \in Enqueuer |-> IdleCall]
  /\ stops = 0

-----------------------------------------------------------------------------
(* Conditions on rows *)

IsActive(j) == job[j].status \in Active
Expired(j) == job[j].status = "running" /\ job[j].lease < 0
Claimable(j) == IsActive(j) /\ job[j].key \in Consumed

\* Fault: a lease that ran out is not taken over.
ReadyWithoutExpired ==
  {j \in Job : /\ Claimable(j)
               /\ job[j].status \in {"queued", "failed"} /\ job[j].wait <= 0}

\* queue.ts `ready`: due jobs, and running ones whose worker let the lease go.
Ready ==
  {j \in Job :
     /\ Claimable(j)
     /\ \/ job[j].status \in {"queued", "failed"} /\ job[j].wait <= 0
        \/ Expired(j) /\ job[j].attempts < MaxAttempts}

\* queue.ts `owned`: the fence of every later statement of a lease holder.
Owned(w, j) == job[j].status = "running" /\ job[j].owner = w

\* Highest priority first, then the oldest next_attempt_at.
Before(i, j) ==
  \/ job[i].prio > job[j].prio
  \/ job[i].prio = job[j].prio /\ job[i].wait < job[j].wait

Least(a, b) == IF a <= b THEN a ELSE b

\* Exponential backoff with equal jitter: anything from half the base to it.
Backoff(n) ==
  {d \in 0..BackoffCap :
     LET base == Least(2 ^ (n - 1), BackoffCap)
     IN  base \div 2 <= d /\ d <= base}

Held(w) == {j \in Job : held[w][j] > 0}

\* An update statement: the rows it matches get new values.
Put(rows) == job' = [j \in Job |-> IF j \in DOMAIN rows THEN rows[j] ELSE job[j]]

\* Row j without its lease, with a new one, and over; next_attempt_at is not read again then.
Unleased(j, s) == [job[j] EXCEPT !.status = s, !.owner = Nothing, !.lease = 0]
Leased(j, w) == [job[j] EXCEPT !.status = "running", !.owner = w,
                               !.lease = LeaseTicks, !.attempts = @ + 1]
Over(j, s) == [job[j] EXCEPT !.status = s, !.owner = Nothing, !.lease = 0, !.wait = 0]

-----------------------------------------------------------------------------
(* enqueue: two tries of "insert on conflict do nothing, else find it" *)

EnqueueStart(e, k, p) ==
  /\ enq[e].pc = "idle"
  /\ enq' = [enq EXCEPT ![e] = [pc |-> "insert", key |-> k, prio |-> p, try |-> 1]]
  /\ UNCHANGED <<job, results, proc, held, stops>>

\* Fault: the index forgets that a failed job will run again.
ConflictUnlessFailed(k) ==
  \E j \in Job : job[j].status \in {"queued", "running"} /\ job[j].key = k

Conflict(k) == \E j \in Job : IsActive(j) /\ job[j].key = k

\* The row of an enqueue call: defaults for everything it does not say.
Inserted(call) ==
  [status |-> "queued", key |-> call.key, prio |-> call.prio, attempts |-> 0,
   wait |-> 0, lease |-> 0, owner |-> Nothing]

EnqueueInsert(e, j) ==
  /\ enq[e].pc = "insert"
  /\ job[j].status = "none"
  /\ ~Conflict(enq[e].key)
  /\ job' = [job EXCEPT ![j] = Inserted(enq[e])]
  /\ enq' = [enq EXCEPT ![e] = IdleCall]
  /\ UNCHANGED <<results, proc, held, stops>>

EnqueueConflict(e) ==
  /\ enq[e].pc = "insert"
  /\ Conflict(enq[e].key)
  /\ enq' = [enq EXCEPT ![e].pc = "select"]
  /\ UNCHANGED <<job, results, proc, held, stops>>

\* Found: return its id.  Not found: try once more, then throw.
EnqueueSelect(e) ==
  /\ enq[e].pc = "select"
  /\ enq' = [enq EXCEPT ![e] =
               IF Conflict(@.key) \/ @.try = 2 THEN IdleCall
               ELSE [@ EXCEPT !.pc = "insert", !.try = 2]]
  /\ UNCHANGED <<job, results, proc, held, stops>>

-----------------------------------------------------------------------------
(* claim *)

\* First statement: a job whose lease ran out on its last attempt is poison.
Poison == {j \in Job : Claimable(j) /\ Expired(j) /\ job[j].attempts >= MaxAttempts}

Bury(w) ==
  /\ proc[w] = [phase |-> "up", pc |-> "idle"]
  /\ Put([j \in Poison |-> Over(j, "dead")])
  /\ proc' = [proc EXCEPT ![w].pc = "leasing"]
  /\ UNCHANGED <<results, held, enq, stops>>

\* S is what "order by ... limit n for update skip locked" may select.
Chosen(S) ==
  /\ S \subseteq Ready
  /\ Cardinality(S) = Least(BatchLimit, Cardinality(Ready))
  /\ \A i \in Ready \ S, j \in S : ~Before(i, j)

\* Second statement: lease the jobs, one attempt more for each.
Lease(w, S) ==
  /\ proc[w].pc = "leasing"
  /\ Chosen(S)
  /\ Put([j \in S |-> Leased(j, w)])
  /\ held' = [held EXCEPT ![w] = [j \in Job |-> IF j \in S THEN job[j].attempts + 1 ELSE 0]]
  /\ proc' = [proc EXCEPT ![w].pc = IF S = {} THEN "idle" ELSE "working"]
  /\ UNCHANGED <<results, enq, stops>>

-----------------------------------------------------------------------------
(* What a worker does with the handles it holds *)

\* The handles of S are used up; without any left the worker's turn is over.
Drop(w, S) ==
  /\ held' = [held EXCEPT ![w] = [j \in Job |-> IF j \in S THEN 0 ELSE @[j]]]
  /\ proc' = [proc EXCEPT ![w].pc = IF Held(w) \subseteq S THEN "idle" ELSE @]

Working(w, S) == proc[w].pc = "working" /\ S # {} /\ S \subseteq Held(w)

Heartbeat(w, j) ==
  /\ Working(w, {j})
  /\ Owned(w, j)
  /\ job' = [job EXCEPT ![j].lease = LeaseTicks]
  /\ UNCHANGED <<results, proc, held, enq, stops>>

\* One transaction: complete each job of S and apply the results.
Complete(w, S) ==
  /\ Working(w, S)
  /\ \A j \in S : Owned(w, j)
  /\ Put([j \in S |-> Over(j, "done")])
  /\ results' = [j \in Job |-> IF j \in S THEN results[j] + 1 ELSE results[j]]
  /\ Drop(w, S)
  /\ UNCHANGED <<enq, stops>>

\* Schedules a retry, or dead-letters: decided on the handle, not on the row.
Fail(w, j, d) ==
  /\ Working(w, {j})
  /\ Owned(w, j)
  /\ d \in Backoff(held[w][j])
  /\ job' = [job EXCEPT ![j] =
               IF held[w][j] >= MaxAttempts THEN Over(j, "dead")
               ELSE [Unleased(j, "failed") EXCEPT !.wait = d]]
  /\ Drop(w, {j})
  /\ UNCHANGED <<results, enq, stops>>

\* The transaction rolled back (LeaseLostError, a database error), heartbeat
\* returned false or fail returned null: the worker stops work on its batch.
GiveUp(w) ==
  /\ proc[w].pc = "working"
  /\ Drop(w, Job)
  /\ UNCHANGED <<job, results, enq, stops>>

-----------------------------------------------------------------------------
(* The process: SIGTERM, releaseLeases after the drain, exit; a crash *)

Shutdown(w) ==
  /\ proc[w].phase = "up" /\ stops < MaxStops
  /\ proc' = [proc EXCEPT ![w].phase = "stopping"]
  /\ stops' = stops + 1
  /\ UNCHANGED <<job, results, held, enq>>

\* Not guarded by pc: after DRAIN_TIMEOUT_MS the leases go whatever still runs.
ReleaseLeases(w) ==
  /\ proc[w].phase = "stopping"
  /\ Put([j \in {i \in Job : Owned(w, i)} |->
            [Unleased(j, "queued") EXCEPT !.attempts = IF @ > 0 THEN @ - 1 ELSE 0]])
  /\ proc' = [proc EXCEPT ![w].phase = "released"]
  /\ UNCHANGED <<results, held, enq, stops>>

\* The next process takes the place of this one, under the same owner name.
Restart(w) ==
  /\ proc' = [proc EXCEPT ![w] = [phase |-> "up", pc |-> "idle"]]
  /\ held' = [held EXCEPT ![w] = NoHandle]
  /\ UNCHANGED <<job, results, enq>>

Exit(w) == proc[w].phase = "released" /\ Restart(w) /\ UNCHANGED stops

Crash(w) == stops < MaxStops /\ stops' = stops + 1 /\ Restart(w)

-----------------------------------------------------------------------------
(* Time, and the retention loop's deletion of finished jobs *)

Down(n, floor) == IF n > floor THEN n - 1 ELSE n

Tick ==
  /\ job' = [j \in Job |->
               [job[j] EXCEPT
                  !.wait = IF IsActive(j) THEN Down(@, -MaxAge) ELSE @,
                  !.lease = IF job[j].status = "running" THEN Down(@, -1) ELSE @]]
  /\ UNCHANGED <<results, proc, held, enq, stops>>

\* `done` only; 14 days later no process still holds a handle.
DeleteDone(S) ==
  /\ S # {}
  /\ \A j \in S : job[j].status = "done" /\ \A w \in Worker : held[w][j] = 0
  /\ Put([j \in S |-> Over(j, "deleted")])
  /\ UNCHANGED <<results, proc, held, enq, stops>>

Next ==
  \/ \E e \in Enqueuer, k \in Key, p \in Priority : EnqueueStart(e, k, p)
  \/ \E e \in Enqueuer, j \in Job : EnqueueInsert(e, j)
  \/ \E e \in Enqueuer : EnqueueConflict(e) \/ EnqueueSelect(e)
  \/ \E w \in Worker : Bury(w)
  \/ \E w \in Worker, S \in SUBSET Job : Lease(w, S)
  \/ \E w \in Worker, S \in SUBSET Job : Complete(w, S)
  \/ \E w \in Worker, j \in Job : Heartbeat(w, j)
  \/ \E w \in Worker, j \in Job, d \in 0..BackoffCap : Fail(w, j, d)
  \/ \E w \in Worker : GiveUp(w)
  \/ \E w \in Worker : Shutdown(w) \/ ReleaseLeases(w) \/ Exit(w) \/ Crash(w)
  \/ Tick
  \/ \E S \in SUBSET Job : DeleteDone(S)

Spec == Init /\ [][Next]_vars

\* A live process takes its next step, what it started ends one way or the
\* other, and a stopped one is replaced; nothing obliges anybody to enqueue,
\* to stop or to crash.
Fairness ==
  /\ WF_vars(Tick)
  /\ \A w \in Worker :
       /\ WF_vars(Bury(w))
       /\ WF_vars(\E S \in SUBSET Job : Lease(w, S))
       /\ WF_vars(GiveUp(w) \/ \E S \in SUBSET Job : Complete(w, S))
       /\ WF_vars(ReleaseLeases(w))
       /\ WF_vars(Exit(w))

FairSpec == Spec /\ Fairness

-----------------------------------------------------------------------------
(* Properties *)

\* "One live job per logical unit of work" (0001_init.sql:191): the partial
\* unique index, kept by every later change of a status as well.
UniqueActive ==
  \A i, j \in Job :
    IsActive(i) /\ IsActive(j) /\ job[i].key = job[j].key => i = j

\* A job is leased exactly while it runs, so that what `owned` compares is
\* never left over from an earlier lease.
LeaseShape == \A j \in Job : job[j].owner # Nothing <=> job[j].status = "running"

\* A handle that `owned` lets through is the one of the latest claim, so fail()
\* may decide on the handle's attempts although the row may have moved on.
HandleFresh ==
  \A w \in Worker, j \in Job :
    Owned(w, j) /\ held[w][j] > 0 => held[w][j] = job[j].attempts

\* No job is tried more than max_attempts times, whatever the interleaving of
\* expiry, release, retry and the two statements of claim.
AttemptsBounded ==
  \A j \in Job :
    /\ job[j].attempts <= MaxAttempts
    /\ job[j].status \in {"queued", "failed"} => job[j].attempts < MaxAttempts

\* "Completing a job and applying its result happen in one transaction" (ADR
\* 0002): a result is committed once, and exactly for the jobs that are done.
ResultOnce ==
  \A j \in Job : results[j] = (IF job[j].status \in {"done", "deleted"} THEN 1 ELSE 0)

\* Only the worker of the latest lease settles a run: a worker whose lease was
\* taken over can neither complete nor fail the job of its successor.
OutcomeByHolder ==
  [][\A j \in Job :
       job[j].status = "running" /\ job'[j].status \in {"done", "failed"}
         => \E w \in Worker : /\ job[j].owner = w
                             /\ held[w][j] = job[j].attempts
                             /\ held'[w][j] = 0]_vars

\* The queue implements the lifecycle it promises.
lifeOf ==
  [j \in Job |-> IF job[j].status \in Active THEN "pending" ELSE job[j].status]
keyOf == [j \in Job |-> job[j].key]
Promise == INSTANCE JobLifecycle WITH life <- lifeOf
ImplementsLifecycle == Promise!Lifecycle

\* Every job of a kind that some loop claims is settled in the end: a crash, a
\* lost lease or a failure delays it and never strands it.
JobsSettle ==
  \A j \in Job : Claimable(j) ~> ~IsActive(j)
=============================================================================
