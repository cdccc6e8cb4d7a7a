--------------------------- MODULE JobQueueProofs ---------------------------
(***************************************************************************)
(* The invariants of the job queue for any number of jobs, keys, workers   *)
(* and attempts, and the refinement of JobLifecycle.                       *)
(***************************************************************************)
EXTENDS JobQueue, TLAPS

\* Between two claims a worker holds no handle.
IdleHoldsNone ==
  \A w \in Worker : proc[w].pc \in {"idle", "leasing"} => held[w] = NoHandle

\* A leased job has started at least one attempt.
RunningHasAttempt ==
  \A j \in Job : job[j].status = "running" => job[j].attempts > 0

\* Rows that were never inserted are untouched.
UnusedRows == \A j \in Job : job[j].status = "none" => job[j] = Unused

QueueInv ==
  /\ TypeOK
  /\ UniqueActive
  /\ LeaseShape
  /\ HandleFresh
  /\ AttemptsBounded
  /\ ResultOnce
  /\ IdleHoldsNone
  /\ RunningHasAttempt
  /\ UnusedRows

-----------------------------------------------------------------------------
(* What the row updates yield *)

LEMMA OverFields ==
  ASSUME NEW j \in Job, job[j] \in Row, NEW s \in Status, NEW q, q = Over(j, s)
  PROVE  /\ q \in Row
         /\ q.status = s /\ q.owner = Nothing
         /\ q.key = job[j].key /\ q.attempts = job[j].attempts
<1>1. q = [status |-> s, key |-> job[j].key, prio |-> job[j].prio,
           attempts |-> job[j].attempts, wait |-> 0, lease |-> 0, owner |-> Nothing]
  BY DEF Row, Over
<1>2. 0 \in -1..LeaseTicks
  BY QueueAssumption DEF QueueAssumption
<1> QED BY <1>1, <1>2 DEF Row

LEMMA UnleasedFields ==
  ASSUME NEW j \in Job, job[j] \in Row, NEW s \in Status, NEW q, q = Unleased(j, s)
  PROVE  /\ q \in Row
         /\ q.status = s /\ q.owner = Nothing
         /\ q.key = job[j].key /\ q.attempts = job[j].attempts
<1>1. q = [status |-> s, key |-> job[j].key, prio |-> job[j].prio,
           attempts |-> job[j].attempts, wait |-> job[j].wait, lease |-> 0,
           owner |-> Nothing]
  BY DEF Row, Unleased
<1>2. 0 \in -1..LeaseTicks
  BY QueueAssumption DEF QueueAssumption
<1> QED BY <1>1, <1>2 DEF Row

LEMMA LeasedFields ==
  ASSUME NEW j \in Job, job[j] \in Row, NEW w \in Worker, NEW q, q = Leased(j, w)
  PROVE  /\ q \in Row
         /\ q.status = "running" /\ q.owner = w
         /\ q.key = job[j].key /\ q.attempts = job[j].attempts + 1
<1>1. q = [status |-> "running", key |-> job[j].key, prio |-> job[j].prio,
           attempts |-> job[j].attempts + 1, wait |-> job[j].wait,
           lease |-> LeaseTicks, owner |-> w]
  BY DEF Row, Leased
<1>2. LeaseTicks \in -1..LeaseTicks
  BY QueueAssumption DEF QueueAssumption
<1>3. "running" \in Status
  BY DEF Status, Active
<1>4. job[j].attempts + 1 \in Nat
  BY DEF Row
<1>5. q \in Row
  BY <1>1, <1>2, <1>3, <1>4 DEF Row
<1> QED BY <1>1, <1>5

LEMMA InsertedIsRow ==
  ASSUME NEW c, c.key \in Key, c.prio \in Nat
  PROVE  Inserted(c) \in Row
<1>1. 0 \in -1..LeaseTicks
  BY QueueAssumption DEF QueueAssumption
<1>2. "queued" \in Status
  BY DEF Status, Active
<1> QED BY <1>1, <1>2 DEF Row, Inserted

\* Where a call of enqueue goes after a conflict, and for its second try.
LEMMA CallFields ==
  ASSUME NEW c \in Call, c.pc # "idle"
  PROVE  /\ c.key \in Key /\ c.prio \in Priority
         /\ [c EXCEPT !.pc = "select"] \in Call
         /\ [c EXCEPT !.pc = "insert", !.try = 2] \in Call
<1>1. c \in [pc: {"insert", "select"}, key: Key, prio: Priority, try: {1, 2}]
  BY DEF Call, IdleCall
<1>2. ASSUME NEW q, q = [c EXCEPT !.pc = "select"]
      PROVE  q \in Call
  <2>1. q = [pc |-> "select", key |-> c.key, prio |-> c.prio, try |-> c.try]
    BY <1>1, <1>2
  <2> QED BY <1>1, <2>1 DEF Call
<1>3. ASSUME NEW q, q = [c EXCEPT !.pc = "insert", !.try = 2]
      PROVE  q \in Call
  <2>1. q = [pc |-> "insert", key |-> c.key, prio |-> c.prio, try |-> 2]
    BY <1>1, <1>3
  <2> QED BY <1>1, <2>1 DEF Call
<1>4. [c EXCEPT !.pc = "select"] \in Call
  BY <1>2, Zenon
<1>5. [c EXCEPT !.pc = "insert", !.try = 2] \in Call
  BY <1>3, Zenon
<1> QED BY <1>1, <1>4, <1>5

\* Put changes the rows it is given and no other.
LEMMA PutRows ==
  ASSUME NEW S \in SUBSET Job, NEW f, DOMAIN f = S, Put(f)
  PROVE  /\ \A j \in S : job'[j] = f[j]
         /\ \A j \in Job \ S : job'[j] = job[j]
         /\ job' = [j \in Job |-> job'[j]]
BY DEF Put

LEMMA PutOver ==
  ASSUME TypeOK, NEW S \in SUBSET Job, NEW s \in Status,
         Put([j \in S |-> Over(j, s)])
  PROVE  /\ \A j \in S : /\ job'[j] = Over(j, s)
                         /\ job'[j] \in Row
                         /\ job'[j].status = s /\ job'[j].owner = Nothing
                         /\ job'[j].key = job[j].key
                         /\ job'[j].attempts = job[j].attempts
         /\ \A j \in Job \ S : job'[j] = job[j]
         /\ job' \in [Job -> Row]
<1> DEFINE f == [j \in S |-> Over(j, s)]
<1>1. DOMAIN f = S /\ Put(f)
  OBVIOUS
<1>2. \A j \in S : f[j] = Over(j, s)
  OBVIOUS
<1> HIDE DEF f
<1>3. /\ \A j \in S : job'[j] = f[j]
      /\ \A j \in Job \ S : job'[j] = job[j]
      /\ job' = [j \in Job |-> job'[j]]
  BY <1>1, PutRows
<1>4. \A j \in S : /\ job'[j] = Over(j, s)
                   /\ job'[j] \in Row
                   /\ job'[j].status = s /\ job'[j].owner = Nothing
                   /\ job'[j].key = job[j].key
                   /\ job'[j].attempts = job[j].attempts
  BY <1>2, <1>3, OverFields DEF TypeOK
<1> QED BY <1>3, <1>4 DEF TypeOK

-----------------------------------------------------------------------------
LEMMA InitInv == Init => QueueInv
<1> SUFFICES ASSUME Init PROVE QueueInv
  OBVIOUS
<1> USE DEF Init
<1>1. Unused \in Row
  BY QueueAssumption DEF Unused, Row, Status, QueueAssumption
<1>2. TypeOK
  BY <1>1 DEF TypeOK, Process, NoHandle, Call
<1>3. UniqueActive /\ LeaseShape /\ HandleFresh
  BY DEF UniqueActive, LeaseShape, HandleFresh, IsActive, Active, Unused, Owned
<1>4. AttemptsBounded /\ ResultOnce
  BY QueueAssumption DEF AttemptsBounded, ResultOnce, Unused, QueueAssumption
<1>5. IdleHoldsNone /\ RunningHasAttempt /\ UnusedRows
  BY DEF IdleHoldsNone, RunningHasAttempt, UnusedRows, Unused
<1> QED BY <1>2, <1>3, <1>4, <1>5 DEF QueueInv

\* Steps that leave the table and the results alone and hand out no handle.
LEMMA TableUnchanged ==
  ASSUME QueueInv, TypeOK', UNCHANGED <<job, results>>,
         \A w \in Worker, j \in Job : held'[w][j] \in {0, held[w][j]},
         IdleHoldsNone'
  PROVE  QueueInv'
<1> USE DEF QueueInv
<1>1. UniqueActive' /\ LeaseShape'
  BY DEF UniqueActive, LeaseShape, IsActive
<1>2. HandleFresh'
  BY DEF HandleFresh, Owned
<1>3. AttemptsBounded' /\ ResultOnce' /\ RunningHasAttempt' /\ UnusedRows'
  BY DEF AttemptsBounded, ResultOnce, RunningHasAttempt, UnusedRows
<1> QED BY <1>1, <1>2, <1>3

-----------------------------------------------------------------------------
(* Each action preserves the invariant *)

LEMMA EnqueueStartInv ==
  ASSUME QueueInv, NEW e \in Enqueuer, NEW k \in Key, NEW p \in Priority,
         EnqueueStart(e, k, p)
  PROVE  QueueInv'
<1> USE DEF EnqueueStart, QueueInv
<1>1. TypeOK'
  BY DEF TypeOK, Call
<1>2. IdleHoldsNone'
  BY DEF IdleHoldsNone
<1> QED BY <1>1, <1>2, TableUnchanged DEF TypeOK

LEMMA EnqueueConflictInv ==
  ASSUME QueueInv, NEW e \in Enqueuer, EnqueueConflict(e)
  PROVE  QueueInv'
<1> USE DEF EnqueueConflict, QueueInv
<1>1. TypeOK'
  <2>1. [enq[e] EXCEPT !.pc = "select"] \in Call
    BY CallFields DEF TypeOK
  <2> QED BY <2>1 DEF TypeOK
<1>2. IdleHoldsNone'
  BY DEF IdleHoldsNone
<1> QED BY <1>1, <1>2, TableUnchanged DEF TypeOK

LEMMA EnqueueSelectInv ==
  ASSUME QueueInv, NEW e \in Enqueuer, EnqueueSelect(e)
  PROVE  QueueInv'
<1> USE DEF EnqueueSelect, QueueInv
<1>1. TypeOK'
  <2>1. [enq[e] EXCEPT !.pc = "insert", !.try = 2] \in Call
    BY CallFields DEF TypeOK
  <2> QED BY <2>1 DEF TypeOK, Call
<1>2. IdleHoldsNone'
  BY DEF IdleHoldsNone
<1> QED BY <1>1, <1>2, TableUnchanged DEF TypeOK

LEMMA EnqueueInsertInv ==
  ASSUME QueueInv, NEW e \in Enqueuer, NEW j \in Job, EnqueueInsert(e, j)
  PROVE  QueueInv'
<1>1. enq[e].key \in Key /\ enq[e].prio \in Nat
  BY CallFields, QueueAssumption DEF QueueInv, TypeOK, EnqueueInsert, QueueAssumption
<1>2. job[j] = Unused
  BY DEF EnqueueInsert, QueueInv, UnusedRows
<1> DEFINE q == Inserted(enq[e])
<1>3. q \in Row
  BY <1>1, InsertedIsRow
<1>4. /\ q.status = "queued" /\ q.owner = Nothing
      /\ q.key = enq[e].key /\ q.attempts = 0
  BY DEF Inserted
<1>5. job' = [job EXCEPT ![j] = q]
  BY DEF EnqueueInsert
<1> HIDE DEF q
<1>6. /\ job'[j] = q
      /\ \A i \in Job \ {j} : job'[i] = job[i]
  BY <1>5 DEF QueueInv, TypeOK
<1>7. TypeOK'
  BY <1>3, <1>5 DEF QueueInv, TypeOK, Call, EnqueueInsert
<1>8. UniqueActive'
  BY <1>4, <1>6 DEF QueueInv, UniqueActive, IsActive, Conflict, EnqueueInsert
<1>9. LeaseShape' /\ RunningHasAttempt' /\ UnusedRows'
  BY <1>4, <1>6 DEF QueueInv, LeaseShape, RunningHasAttempt, UnusedRows
<1>10. HandleFresh'
  BY <1>4, <1>6 DEF QueueInv, HandleFresh, Owned, EnqueueInsert
<1>11. AttemptsBounded'
  BY <1>4, <1>6, QueueAssumption DEF QueueInv, AttemptsBounded, QueueAssumption
<1>12. ResultOnce'
  <2>1. results[j] = 0 /\ results' = results
    BY DEF QueueInv, ResultOnce, EnqueueInsert
  <2> QED BY <1>4, <1>6, <2>1 DEF QueueInv, ResultOnce
<1>13. IdleHoldsNone'
  BY DEF QueueInv, IdleHoldsNone, EnqueueInsert
<1> QED BY <1>7, <1>8, <1>9, <1>10, <1>11, <1>12, <1>13 DEF QueueInv

\* A claim's first statement, and other statements that end jobs without a result.
LEMMA BuryInv ==
  ASSUME QueueInv, NEW w \in Worker, Bury(w)
  PROVE  QueueInv'
<1>1. /\ \A j \in Poison : /\ job'[j].status = "dead" /\ job'[j].owner = Nothing
                           /\ job'[j].key = job[j].key
                           /\ job'[j].attempts = job[j].attempts
      /\ \A j \in Job \ Poison : job'[j] = job[j]
      /\ job' \in [Job -> Row]
  <2>1. Poison \in SUBSET Job /\ "dead" \in Status
    BY DEF Poison, Status
  <2> QED BY <2>1, PutOver DEF QueueInv, Bury
<1>2. \A j \in Poison : j \in Job /\ IsActive(j)
  BY DEF Poison, Claimable
<1>3. TypeOK'
  <2>1. proc' \in [Worker -> Process]
    BY DEF QueueInv, TypeOK, Bury, Process
  <2> QED BY <1>1, <2>1 DEF QueueInv, TypeOK, Bury
<1>4. UniqueActive'
  BY <1>1 DEF QueueInv, UniqueActive, IsActive, Active
<1>5. LeaseShape' /\ RunningHasAttempt' /\ UnusedRows'
  BY <1>1 DEF QueueInv, LeaseShape, RunningHasAttempt, UnusedRows
<1>6. HandleFresh'
  BY <1>1 DEF QueueInv, HandleFresh, Owned, Bury
<1>7. AttemptsBounded'
  BY <1>1 DEF QueueInv, AttemptsBounded
<1>8. ResultOnce'
  <2>1. results' = results /\ \A j \in Poison : results[j] = 0
    BY <1>2 DEF QueueInv, ResultOnce, Bury, IsActive, Active
  <2> QED BY <1>1, <1>2, <2>1 DEF QueueInv, ResultOnce
<1>9. IdleHoldsNone'
  BY DEF QueueInv, TypeOK, IdleHoldsNone, Bury, Process
<1> QED BY <1>3, <1>4, <1>5, <1>6, <1>7, <1>8, <1>9 DEF QueueInv

\* Handles that are used up: no other handle changes, and none is left to an idle worker.
LEMMA DropHandles ==
  ASSUME TypeOK, IdleHoldsNone, NEW w \in Worker, NEW S \in SUBSET Job, Drop(w, S)
  PROVE  /\ held' \in [Worker -> [Job -> Nat]]
         /\ proc' \in [Worker -> Process]
         /\ \A u \in Worker, j \in Job : held'[u][j] \in {0, held[u][j]}
         /\ \A j \in S : held'[w][j] = 0
         /\ IdleHoldsNone'
<1>1. held'[w] = [j \in Job |-> IF j \in S THEN 0 ELSE held[w][j]]
  BY DEF Drop, TypeOK
<1>2. held' \in [Worker -> [Job -> Nat]] /\ \A u \in Worker \ {w} : held'[u] = held[u]
  BY DEF Drop, TypeOK
<1>3. /\ proc' \in [Worker -> Process]
      /\ \A u \in Worker \ {w} : proc'[u] = proc[u]
      /\ proc'[w].pc = IF Held(w) \subseteq S THEN "idle" ELSE proc[w].pc
  BY DEF Drop, TypeOK, Process
<1>4. IdleHoldsNone'
  <2> SUFFICES ASSUME NEW u \in Worker, proc'[u].pc \in {"idle", "leasing"}
               PROVE  held'[u] = NoHandle
    BY DEF IdleHoldsNone, NoHandle
  <2>1. CASE u # w
    BY <1>2, <1>3, <2>1 DEF IdleHoldsNone
  <2>2. CASE u = w /\ Held(w) \subseteq S
    <3>1. \A j \in Job : j \notin S => held[w][j] = 0
      BY <2>2 DEF Held, TypeOK
    <3> QED BY <1>1, <2>2, <3>1 DEF NoHandle
  <2>3. CASE u = w /\ ~(Held(w) \subseteq S)
    <3>1. held[w] = NoHandle
      BY <1>3, <2>3 DEF IdleHoldsNone
    <3> QED BY <2>3, <3>1 DEF Held, NoHandle
  <2> QED BY <2>1, <2>2, <2>3
<1> QED BY <1>1, <1>2, <1>3, <1>4

\* S is leased to w: the rows run, with one attempt more, and w knows which.
LEMMA LeaseInv ==
  ASSUME QueueInv, NEW w \in Worker, NEW S \in SUBSET Job, Lease(w, S)
  PROVE  QueueInv'
<1> DEFINE f == [j \in S |-> Leased(j, w)]
<1>1. /\ \A j \in S : job'[j] = f[j]
      /\ \A j \in Job \ S : job'[j] = job[j]
      /\ job' = [j \in Job |-> job'[j]]
  <2>1. DOMAIN f = S /\ Put(f)
    BY DEF Lease
  <2> HIDE DEF f
  <2> QED BY <2>1, PutRows
<1>2. \A j \in S : /\ j \in Job /\ job'[j] \in Row
                   /\ job'[j].status = "running" /\ job'[j].owner = w
                   /\ job'[j].key = job[j].key
                   /\ job'[j].attempts = job[j].attempts + 1
  BY <1>1, LeasedFields DEF QueueInv, TypeOK
<1> HIDE DEF f
<1>3. \A j \in S : /\ IsActive(j) /\ job[j].status # "none"
                   /\ job[j].attempts \in Nat /\ job[j].attempts < MaxAttempts
  BY DEF QueueInv, TypeOK, Row, AttemptsBounded, Lease, Chosen, Ready, Claimable, IsActive, Active
<1>4. /\ held'[w] = [j \in Job |-> IF j \in S THEN job[j].attempts + 1 ELSE 0]
      /\ \A u \in Worker \ {w} : held'[u] = held[u]
      /\ held' \in [Worker -> [Job -> Nat]]
  <2>1. [j \in Job |-> IF j \in S THEN job[j].attempts + 1 ELSE 0] \in [Job -> Nat]
    BY <1>3
  <2> QED BY <2>1 DEF QueueInv, TypeOK, Lease
<1>5. TypeOK'
  <2>1. job' \in [Job -> Row]
    BY <1>1, <1>2 DEF QueueInv, TypeOK
  <2>2. proc' \in [Worker -> Process]
    BY DEF QueueInv, TypeOK, Lease, Process
  <2> QED BY <1>4, <2>1, <2>2 DEF QueueInv, TypeOK, Lease
<1>6. UniqueActive'
  BY <1>1, <1>2, <1>3 DEF QueueInv, UniqueActive, IsActive, Active
<1>7. LeaseShape' /\ RunningHasAttempt' /\ UnusedRows'
  <2>1. w # Nothing
    BY QueueAssumption DEF QueueAssumption
  <2> QED BY <1>1, <1>2, <1>3, <2>1
             DEF QueueInv, LeaseShape, RunningHasAttempt, UnusedRows
<1>8. HandleFresh'
  <2> SUFFICES ASSUME NEW u \in Worker, NEW j \in Job, Owned(u, j)', held'[u][j] > 0
               PROVE  held'[u][j] = job'[j].attempts
    BY DEF HandleFresh
  <2>1. CASE j \in S
    BY <1>2, <1>4, <2>1 DEF Owned
  <2>2. CASE j \notin S /\ u = w
    BY <1>4, <2>2
  <2>3. CASE j \notin S /\ u # w
    BY <1>1, <1>4, <2>3 DEF QueueInv, HandleFresh, Owned
  <2> QED BY <2>1, <2>2, <2>3
<1>9. AttemptsBounded'
  BY <1>1, <1>2, <1>3, QueueAssumption DEF QueueInv, AttemptsBounded, QueueAssumption
<1>10. ResultOnce'
  <2>1. results' = results /\ \A j \in S : results[j] = 0
    BY <1>3 DEF QueueInv, ResultOnce, Lease, IsActive, Active
  <2> QED BY <1>1, <1>2, <2>1 DEF QueueInv, ResultOnce
<1>11. IdleHoldsNone'
  <2> SUFFICES ASSUME NEW u \in Worker, proc'[u].pc \in {"idle", "leasing"}
               PROVE  held'[u] = NoHandle
    BY DEF IdleHoldsNone, NoHandle
  <2>1. CASE u # w
    BY <1>4, <2>1 DEF QueueInv, TypeOK, IdleHoldsNone, Lease
  <2>2. CASE u = w
    <3>1. S = {}
      BY <2>2 DEF QueueInv, TypeOK, Lease, Process
    <3> QED BY <1>4, <2>2, <3>1 DEF NoHandle
  <2> QED BY <2>1, <2>2
<1> QED BY <1>5, <1>6, <1>7, <1>8, <1>9, <1>10, <1>11 DEF QueueInv

LEMMA CompleteInv ==
  ASSUME QueueInv, NEW w \in Worker, NEW S \in SUBSET Job, Complete(w, S)
  PROVE  QueueInv'
<1>1. /\ \A j \in S : /\ job'[j].status = "done" /\ job'[j].owner = Nothing
                      /\ job'[j].key = job[j].key
                      /\ job'[j].attempts = job[j].attempts
      /\ \A j \in Job \ S : job'[j] = job[j]
      /\ job' \in [Job -> Row]
  BY PutOver DEF QueueInv, Complete, Status
<1>2. \A j \in S : job[j].status = "running"
  BY DEF Complete, Owned
<1>3. /\ held' \in [Worker -> [Job -> Nat]]
      /\ proc' \in [Worker -> Process]
      /\ \A u \in Worker, j \in Job : held'[u][j] \in {0, held[u][j]}
      /\ IdleHoldsNone'
  BY DropHandles DEF QueueInv, Complete
<1>4. TypeOK'
  <2>1. results' \in [Job -> Nat]
    BY DEF QueueInv, TypeOK, Complete
  <2> QED BY <1>1, <1>3, <2>1 DEF QueueInv, TypeOK, Complete
<1>5. UniqueActive'
  BY <1>1 DEF QueueInv, UniqueActive, IsActive, Active
<1>6. LeaseShape' /\ RunningHasAttempt' /\ UnusedRows'
  BY <1>1 DEF QueueInv, LeaseShape, RunningHasAttempt, UnusedRows
<1>7. HandleFresh'
  BY <1>1, <1>3 DEF QueueInv, HandleFresh, Owned
<1>8. AttemptsBounded'
  BY <1>1 DEF QueueInv, AttemptsBounded
<1>9. ResultOnce'
  <2> SUFFICES ASSUME NEW j \in Job
               PROVE  results'[j] = IF job'[j].status \in {"done", "deleted"} THEN 1 ELSE 0
    BY DEF ResultOnce
  <2>1. CASE j \in S
    <3>1. results[j] = 0
      BY <1>2, <2>1 DEF QueueInv, ResultOnce
    <3> QED BY <1>1, <2>1, <3>1 DEF Complete
  <2>2. CASE j \notin S
    BY <1>1, <2>2 DEF QueueInv, ResultOnce, Complete
  <2> QED BY <2>1, <2>2
<1> QED BY <1>3, <1>4, <1>5, <1>6, <1>7, <1>8, <1>9 DEF QueueInv

LEMMA DeleteDoneInv ==
  ASSUME QueueInv, NEW S \in SUBSET Job, DeleteDone(S)
  PROVE  QueueInv'
<1>1. /\ \A j \in S : /\ job'[j].status = "deleted" /\ job'[j].owner = Nothing
                      /\ job'[j].key = job[j].key
                      /\ job'[j].attempts = job[j].attempts
      /\ \A j \in Job \ S : job'[j] = job[j]
      /\ job' \in [Job -> Row]
  BY PutOver DEF QueueInv, DeleteDone, Status
<1>2. TypeOK'
  BY <1>1 DEF QueueInv, TypeOK, DeleteDone
<1>3. UniqueActive'
  BY <1>1 DEF QueueInv, UniqueActive, IsActive, Active
<1>4. LeaseShape' /\ RunningHasAttempt' /\ UnusedRows'
  BY <1>1 DEF QueueInv, LeaseShape, RunningHasAttempt, UnusedRows
<1>5. HandleFresh'
  BY <1>1 DEF QueueInv, HandleFresh, Owned, DeleteDone
<1>6. AttemptsBounded'
  BY <1>1 DEF QueueInv, AttemptsBounded
<1>7. ResultOnce'
  BY <1>1 DEF QueueInv, ResultOnce, DeleteDone
<1>8. IdleHoldsNone'
  BY DEF QueueInv, IdleHoldsNone, DeleteDone
<1> QED BY <1>2, <1>3, <1>4, <1>5, <1>6, <1>7, <1>8 DEF QueueInv

LEMMA HeartbeatInv ==
  ASSUME QueueInv, NEW w \in Worker, NEW j \in Job, Heartbeat(w, j)
  PROVE  QueueInv'
<1> DEFINE q == [job[j] EXCEPT !.lease = LeaseTicks]
<1>1. /\ q.status = job[j].status /\ q.owner = job[j].owner
      /\ q.key = job[j].key /\ q.attempts = job[j].attempts
      /\ q \in Row
  <2>1. LeaseTicks \in -1..LeaseTicks
    BY QueueAssumption DEF QueueAssumption
  <2> QED BY <2>1 DEF QueueInv, TypeOK, Row
<1>2. job' = [job EXCEPT ![j] = q] /\ job[j].status = "running"
  BY DEF Heartbeat, Owned
<1> HIDE DEF q
<1>3. job'[j] = q /\ \A i \in Job \ {j} : job'[i] = job[i]
  BY <1>2 DEF QueueInv, TypeOK
<1>4. TypeOK'
  BY <1>1, <1>2 DEF QueueInv, TypeOK, Heartbeat
<1>5. UniqueActive' /\ LeaseShape' /\ RunningHasAttempt' /\ UnusedRows'
  BY <1>1, <1>2, <1>3
     DEF QueueInv, UniqueActive, IsActive, LeaseShape, RunningHasAttempt, UnusedRows
<1>6. HandleFresh'
  BY <1>1, <1>3 DEF QueueInv, HandleFresh, Owned, Heartbeat
<1>7. AttemptsBounded' /\ ResultOnce'
  BY <1>1, <1>3 DEF QueueInv, AttemptsBounded, ResultOnce, Heartbeat
<1>8. IdleHoldsNone'
  BY DEF QueueInv, IdleHoldsNone, Heartbeat
<1> QED BY <1>4, <1>5, <1>6, <1>7, <1>8 DEF QueueInv

LEMMA FailInv ==
  ASSUME QueueInv, NEW w \in Worker, NEW j \in Job, NEW d \in 0..BackoffCap, Fail(w, j, d)
  PROVE  QueueInv'
<1>1. PICK q : q = IF held[w][j] >= MaxAttempts THEN Over(j, "dead")
                   ELSE [Unleased(j, "failed") EXCEPT !.wait = d]
  OBVIOUS
<1>2. /\ job' = [job EXCEPT ![j] = q]
      /\ job[j].status = "running" /\ held[w][j] = job[j].attempts
  BY <1>1 DEF QueueInv, HandleFresh, Fail, Working, Held, Owned
<1>3. /\ q \in Row
      /\ q.status \in {"dead", "failed"} /\ q.owner = Nothing
      /\ q.key = job[j].key /\ q.attempts = job[j].attempts
      /\ q.status = "failed" => job[j].attempts < MaxAttempts
  <2>1. CASE held[w][j] >= MaxAttempts
    <3>1. q = Over(j, "dead") /\ "dead" \in Status
      BY <1>1, <2>1 DEF Status
    <3> QED BY <3>1, OverFields DEF QueueInv, TypeOK
  <2>2. CASE ~(held[w][j] >= MaxAttempts)
    <3>1. PICK r : r = Unleased(j, "failed")
      OBVIOUS
    <3>2. /\ r \in Row
          /\ r.status = "failed" /\ r.owner = Nothing
          /\ r.key = job[j].key /\ r.attempts = job[j].attempts
      <4>1. "failed" \in Status
        BY DEF Status, Active
      <4> QED BY <3>1, <4>1, UnleasedFields DEF QueueInv, TypeOK
    <3>3. q = [r EXCEPT !.wait = d]
      BY <1>1, <2>2, <3>1
    <3>4. q \in Row
      BY <3>2, <3>3 DEF Row
    <3>5. /\ q.status = r.status /\ q.owner = r.owner
          /\ q.key = r.key /\ q.attempts = r.attempts
      BY <3>2, <3>3 DEF Row
    <3>6. job[j].attempts < MaxAttempts
      BY <1>2, <2>2, QueueAssumption DEF QueueInv, TypeOK, Row, QueueAssumption
    <3> QED BY <3>2, <3>4, <3>5, <3>6
  <2> QED BY <2>1, <2>2
<1>4. job'[j] = q /\ \A i \in Job \ {j} : job'[i] = job[i]
  BY <1>2 DEF QueueInv, TypeOK
<1>5. /\ held' \in [Worker -> [Job -> Nat]]
      /\ proc' \in [Worker -> Process]
      /\ \A u \in Worker, i \in Job : held'[u][i] \in {0, held[u][i]}
      /\ IdleHoldsNone'
  BY DropHandles DEF QueueInv, Fail
<1>6. TypeOK'
  BY <1>2, <1>3, <1>5 DEF QueueInv, TypeOK, Fail
<1>7. UniqueActive'
  BY <1>2, <1>3, <1>4 DEF QueueInv, UniqueActive, IsActive, Active
<1>8. LeaseShape' /\ RunningHasAttempt' /\ UnusedRows'
  BY <1>3, <1>4 DEF QueueInv, LeaseShape, RunningHasAttempt, UnusedRows
<1>9. HandleFresh'
  BY <1>3, <1>4, <1>5 DEF QueueInv, HandleFresh, Owned
<1>10. AttemptsBounded'
  BY <1>3, <1>4 DEF QueueInv, AttemptsBounded
<1>11. ResultOnce'
  BY <1>2, <1>3, <1>4 DEF QueueInv, ResultOnce, Fail
<1> QED BY <1>5, <1>6, <1>7, <1>8, <1>9, <1>10, <1>11 DEF QueueInv

LEMMA GiveUpInv ==
  ASSUME QueueInv, NEW w \in Worker, GiveUp(w)
  PROVE  QueueInv'
<1>1. /\ held' \in [Worker -> [Job -> Nat]]
      /\ proc' \in [Worker -> Process]
      /\ \A u \in Worker, i \in Job : held'[u][i] \in {0, held[u][i]}
      /\ IdleHoldsNone'
  BY DropHandles DEF QueueInv, GiveUp
<1>2. TypeOK'
  BY <1>1 DEF QueueInv, TypeOK, GiveUp
<1> QED BY <1>1, <1>2, TableUnchanged DEF GiveUp

LEMMA ShutdownInv ==
  ASSUME QueueInv, NEW w \in Worker, Shutdown(w)
  PROVE  QueueInv'
<1>1. TypeOK'
  BY QueueAssumption DEF QueueInv, TypeOK, Shutdown, Process, QueueAssumption
<1>2. IdleHoldsNone'
  BY DEF QueueInv, TypeOK, Process, IdleHoldsNone, Shutdown
<1> QED BY <1>1, <1>2, TableUnchanged DEF Shutdown, QueueInv, TypeOK

\* A new process in the place of w: Exit and Crash.
LEMMA RestartInv ==
  ASSUME QueueInv, NEW w \in Worker, Restart(w), stops' \in Nat
  PROVE  QueueInv'
<1>1. TypeOK'
  BY DEF QueueInv, TypeOK, Restart, Process, NoHandle
<1>2. \A u \in Worker, j \in Job : held'[u][j] \in {0, held[u][j]}
  BY DEF QueueInv, TypeOK, Restart, NoHandle
<1>3. IdleHoldsNone'
  BY DEF QueueInv, TypeOK, IdleHoldsNone, Restart, NoHandle
<1> QED BY <1>1, <1>2, <1>3, TableUnchanged DEF Restart

LEMMA ReleaseLeasesInv ==
  ASSUME QueueInv, NEW w \in Worker, ReleaseLeases(w)
  PROVE  QueueInv'
<1> DEFINE S == {i \in Job : Owned(w, i)}
           Back(j) == [Unleased(j, "queued") EXCEPT !.attempts = IF @ > 0 THEN @ - 1 ELSE 0]
           f == [j \in S |-> Back(j)]
<1>1. /\ \A j \in S : job'[j] = f[j]
      /\ \A j \in Job \ S : job'[j] = job[j]
      /\ job' = [j \in Job |-> job'[j]]
  <2>1. S \in SUBSET Job /\ DOMAIN f = S /\ Put(f)
    BY DEF ReleaseLeases
  <2> HIDE DEF f, S
  <2> QED BY <2>1, PutRows
<1>2. ASSUME NEW j \in S
      PROVE  /\ job'[j] \in Row
             /\ job'[j].status = "queued" /\ job'[j].owner = Nothing
             /\ job'[j].key = job[j].key
             /\ job'[j].attempts < MaxAttempts
  <2>1. PICK r : r = Unleased(j, "queued")
    OBVIOUS
  <2>2. /\ r \in Row
        /\ r.status = "queued" /\ r.owner = Nothing
        /\ r.key = job[j].key /\ r.attempts = job[j].attempts
    <3>1. "queued" \in Status /\ j \in Job
      BY DEF Status, Active
    <3> QED BY <2>1, <3>1, UnleasedFields DEF QueueInv, TypeOK
  <2>3. job'[j] = [r EXCEPT !.attempts = IF r.attempts > 0 THEN r.attempts - 1 ELSE 0]
    BY <1>1, <2>1
  <2>4. PICK a : a = IF r.attempts > 0 THEN r.attempts - 1 ELSE 0
    OBVIOUS
  <2>5. a \in Nat /\ a < MaxAttempts
    <3>1. r.attempts \in Nat /\ MaxAttempts \in Nat /\ r.attempts <= MaxAttempts /\ r.attempts > 0
      BY <2>2, QueueAssumption
         DEF QueueInv, AttemptsBounded, RunningHasAttempt, QueueAssumption, Row, Owned
    <3> QED BY <2>4, <3>1
  <2>6. job'[j] = [r EXCEPT !.attempts = a]
    BY <2>3, <2>4
  <2>7. job'[j] \in Row
    BY <2>2, <2>5, <2>6 DEF Row
  <2>8. /\ job'[j].status = r.status /\ job'[j].owner = r.owner
        /\ job'[j].key = r.key /\ job'[j].attempts = a
    BY <2>2, <2>6 DEF Row
  <2> QED BY <2>2, <2>5, <2>7, <2>8
<1>3. \A j \in S : j \in Job /\ job[j].status = "running"
  BY DEF Owned
<1> HIDE DEF S, f, Back
<1>4. TypeOK'
  <2>1. job' \in [Job -> Row]
    BY <1>1, <1>2 DEF QueueInv, TypeOK
  <2>2. proc' \in [Worker -> Process]
    BY DEF QueueInv, TypeOK, ReleaseLeases, Process
  <2> QED BY <2>1, <2>2 DEF QueueInv, TypeOK, ReleaseLeases
<1>5. UniqueActive'
  BY <1>1, <1>2, <1>3 DEF QueueInv, UniqueActive, IsActive, Active
<1>6. LeaseShape' /\ RunningHasAttempt' /\ UnusedRows'
  BY <1>1, <1>2, <1>3 DEF QueueInv, LeaseShape, RunningHasAttempt, UnusedRows
<1>7. HandleFresh'
  BY <1>1, <1>2 DEF QueueInv, HandleFresh, Owned, ReleaseLeases
<1>8. AttemptsBounded'
  <2>1. \A j \in S : job'[j].attempts \in Nat
    BY <1>2 DEF Row
  <2> QED BY <1>1, <1>2, <2>1, QueueAssumption DEF QueueInv, AttemptsBounded, QueueAssumption
<1>9. ResultOnce'
  BY <1>1, <1>2, <1>3 DEF QueueInv, ResultOnce, ReleaseLeases
<1>10. IdleHoldsNone'
  BY DEF QueueInv, TypeOK, Process, IdleHoldsNone, ReleaseLeases
<1> QED BY <1>4, <1>5, <1>6, <1>7, <1>8, <1>9, <1>10 DEF QueueInv

LEMMA TickInv ==
  ASSUME QueueInv, Tick
  PROVE  QueueInv'
<1>1. ASSUME NEW j \in Job
      PROVE  /\ job'[j] \in Row
             /\ job'[j].status = job[j].status /\ job'[j].owner = job[j].owner
             /\ job'[j].key = job[j].key /\ job'[j].attempts = job[j].attempts
             /\ job[j] = Unused => job'[j] = Unused
  <2>1. PICK wt, ls : /\ wt = IF IsActive(j) THEN Down(job[j].wait, -MaxAge) ELSE job[j].wait
                      /\ ls = IF job[j].status = "running" THEN Down(job[j].lease, -1)
                              ELSE job[j].lease
    OBVIOUS
  <2>2. job[j].wait \in Int /\ job[j].lease \in -1..LeaseTicks /\ MaxAge \in Nat /\ LeaseTicks \in Nat
    BY QueueAssumption DEF QueueInv, TypeOK, Row, QueueAssumption
  <2>3. wt \in Int /\ ls \in -1..LeaseTicks
    BY <2>1, <2>2 DEF Down
  <2>4. job'[j] = [job[j] EXCEPT !.wait = wt, !.lease = ls]
    BY <2>1 DEF Tick
  <2>5. job'[j] = [status |-> job[j].status, key |-> job[j].key, prio |-> job[j].prio,
                   attempts |-> job[j].attempts, wait |-> wt, lease |-> ls,
                   owner |-> job[j].owner]
    <3> DEFINE row == job[j]
    <3>1. row \in Row
      BY DEF QueueInv, TypeOK
    <3>2. job'[j] = [row EXCEPT !.wait = wt, !.lease = ls]
      BY <2>4
    <3> HIDE DEF row
    <3>3. job'[j] = [status |-> row.status, key |-> row.key, prio |-> row.prio,
                     attempts |-> row.attempts, wait |-> wt, lease |-> ls, owner |-> row.owner]
      BY ONLY <3>1, <3>2 DEF Row
    <3> QED BY <3>3 DEF row
  <2>6. job'[j] \in Row
    <3>1. job[j] \in Row
      BY DEF QueueInv, TypeOK
    <3> QED BY ONLY <2>3, <2>5, <3>1 DEF Row
  <2>7. ASSUME job[j] = Unused PROVE job'[j] = Unused
    BY <2>1, <2>5, <2>7 DEF Unused, IsActive, Active
  <2> QED BY <2>5, <2>6, <2>7
<1>2. TypeOK'
  <2>1. job' = [j \in Job |-> job'[j]]
    BY DEF Tick
  <2> QED BY <1>1, <2>1 DEF QueueInv, TypeOK, Tick
<1>3. UniqueActive' /\ LeaseShape' /\ RunningHasAttempt' /\ UnusedRows'
  BY <1>1 DEF QueueInv, UniqueActive, IsActive, LeaseShape, RunningHasAttempt, UnusedRows
<1>4. HandleFresh'
  <2> SUFFICES ASSUME NEW w \in Worker, NEW j \in Job, Owned(w, j)', held'[w][j] > 0
               PROVE  held'[w][j] = job'[j].attempts
    BY DEF HandleFresh
  <2>1. Owned(w, j) /\ held' = held
    BY <1>1 DEF Owned, Tick
  <2> QED BY <1>1, <2>1 DEF QueueInv, HandleFresh
<1>5. AttemptsBounded' /\ ResultOnce'
  BY <1>1 DEF QueueInv, AttemptsBounded, ResultOnce, Tick
<1>6. IdleHoldsNone'
  BY DEF QueueInv, IdleHoldsNone, Tick
<1> QED BY <1>2, <1>3, <1>4, <1>5, <1>6 DEF QueueInv

LEMMA NextInv == QueueInv /\ [Next]_vars => QueueInv'
<1> SUFFICES ASSUME QueueInv, [Next]_vars PROVE QueueInv'
  OBVIOUS
<1>1. ASSUME NEW w \in Worker, Exit(w) \/ Crash(w) PROVE QueueInv'
  <2>1. stops' \in Nat /\ Restart(w)
    BY <1>1 DEF Exit, Crash, QueueInv, TypeOK
  <2> QED BY <2>1, RestartInv
<1>2. CASE \E e \in Enqueuer, k \in Key, p \in Priority : EnqueueStart(e, k, p)
  BY <1>2, EnqueueStartInv
<1>3. CASE \E e \in Enqueuer, j \in Job : EnqueueInsert(e, j)
  BY <1>3, EnqueueInsertInv
<1>4. CASE \E e \in Enqueuer : EnqueueConflict(e) \/ EnqueueSelect(e)
  BY <1>4, EnqueueConflictInv, EnqueueSelectInv
<1>5. CASE \E w \in Worker : Bury(w)
  BY <1>5, BuryInv
<1>6. CASE \E w \in Worker, S \in SUBSET Job : Lease(w, S)
  BY <1>6, LeaseInv
<1>7. CASE \E w \in Worker, S \in SUBSET Job : Complete(w, S)
  BY <1>7, CompleteInv
<1>8. CASE \E w \in Worker, j \in Job : Heartbeat(w, j)
  BY <1>8, HeartbeatInv
<1>9. CASE \E w \in Worker, j \in Job, d \in 0..BackoffCap : Fail(w, j, d)
  BY <1>9, FailInv
<1>10. CASE \E w \in Worker : GiveUp(w)
  BY <1>10, GiveUpInv
<1>11. CASE \E w \in Worker : Shutdown(w) \/ ReleaseLeases(w) \/ Exit(w) \/ Crash(w)
  BY <1>1, <1>11, ShutdownInv, ReleaseLeasesInv
<1>12. CASE Tick
  BY <1>12, TickInv
<1>13. CASE \E S \in SUBSET Job : DeleteDone(S)
  BY <1>13, DeleteDoneInv
<1>14. CASE UNCHANGED vars
  <2>1. TypeOK' /\ IdleHoldsNone'
    BY <1>14 DEF vars, QueueInv, TypeOK, IdleHoldsNone
  <2>2. \A w \in Worker, j \in Job : held'[w][j] \in {0, held[w][j]}
    BY <1>14 DEF vars
  <2> QED BY <1>14, <2>1, <2>2, TableUnchanged DEF vars
<1> QED BY <1>2, <1>3, <1>4, <1>5, <1>6, <1>7, <1>8, <1>9, <1>10, <1>11, <1>12,
           <1>13, <1>14 DEF Next

\* The strengthened invariant of the queue (packages/db/src/queue.ts).
THEOREM QueueInvariant == Spec => []QueueInv
BY InitInv, NextInv, PTL DEF Spec

\* Rows, handles, processes and calls keep their types.
THEOREM QueueTypes == Spec => []TypeOK
<1>1. QueueInv => TypeOK
  BY DEF QueueInv
<1> QED BY <1>1, QueueInvariant, PTL

\* At most one live job per dedupe key, whatever the workers do.
THEOREM OneJobPerKey == Spec => []UniqueActive
<1>1. QueueInv => UniqueActive
  BY DEF QueueInv
<1> QED BY <1>1, QueueInvariant, PTL

\* A handle the fence lets through carries the attempts of the current lease.
THEOREM FencedHandles == Spec => []HandleFresh
<1>1. QueueInv => HandleFresh
  BY DEF QueueInv
<1> QED BY <1>1, QueueInvariant, PTL

\* max_attempts bounds the attempts of every job.
THEOREM BoundedAttempts == Spec => []AttemptsBounded
<1>1. QueueInv => AttemptsBounded
  BY DEF QueueInv
<1> QED BY <1>1, QueueInvariant, PTL

\* One committed result for a finished job, none for any other.
THEOREM ResultsOnce == Spec => []ResultOnce
<1>1. QueueInv => ResultOnce
  BY DEF QueueInv
<1> QED BY <1>1, QueueInvariant, PTL

-----------------------------------------------------------------------------
(* Outcomes: only the holder of the latest lease settles a run *)

Settled(j) == job[j].status = "running" /\ job'[j].status \in {"done", "failed"}
ByHolder(j) ==
  \E w \in Worker : /\ job[j].owner = w
                    /\ held[w][j] = job[j].attempts
                    /\ held'[w][j] = 0
Outcome == \A j \in Job : Settled(j) => ByHolder(j)

LEMMA CompleteOutcome ==
  ASSUME QueueInv, NEW w \in Worker, NEW S \in SUBSET Job, Complete(w, S)
  PROVE  Outcome
<1>1. \A j \in Job \ S : job'[j] = job[j]
  BY PutOver DEF QueueInv, Complete, Status
<1>2. \A j \in S : job[j].owner = w /\ held[w][j] = job[j].attempts
  BY DEF QueueInv, HandleFresh, Owned, Complete, Working, Held
<1>3. \A j \in S : held'[w][j] = 0
  BY DropHandles DEF QueueInv, Complete
<1> QED BY <1>1, <1>2, <1>3 DEF Outcome, Settled, ByHolder

LEMMA FailOutcome ==
  ASSUME QueueInv, NEW w \in Worker, NEW j \in Job, NEW d \in 0..BackoffCap, Fail(w, j, d)
  PROVE  Outcome
<1>1. \A i \in Job \ {j} : job'[i] = job[i]
  BY DEF QueueInv, TypeOK, Fail
<1>2. job[j].owner = w /\ held[w][j] = job[j].attempts
  BY DEF QueueInv, HandleFresh, Owned, Fail, Working, Held
<1>3. held'[w][j] = 0
  BY DropHandles DEF QueueInv, Fail
<1> QED BY <1>1, <1>2, <1>3 DEF Outcome, Settled, ByHolder

\* No other step makes a running job done or failed.
LEMMA OtherOutcome ==
  ASSUME QueueInv, Next,
         ~ \E w \in Worker, S \in SUBSET Job : Complete(w, S),
         ~ \E w \in Worker, j \in Job, d \in 0..BackoffCap : Fail(w, j, d)
  PROVE  \A j \in Job : ~Settled(j)
<1> SUFFICES ASSUME NEW j \in Job, job[j].status = "running"
             PROVE  job'[j].status \notin {"done", "failed"}
  BY DEF Settled
<1>1. CASE UNCHANGED job
  BY <1>1
<1>2. CASE \E e \in Enqueuer, i \in Job : EnqueueInsert(e, i)
  BY <1>2 DEF EnqueueInsert, QueueInv, TypeOK
<1>3. CASE \E w \in Worker : Bury(w)
  <2>1. Poison \in SUBSET Job /\ "dead" \in Status
    BY DEF Poison, Status
  <2>2. Put([i \in Poison |-> Over(i, "dead")])
    BY <1>3 DEF Bury
  <2>3. /\ \A i \in Poison : job'[i].status = "dead"
        /\ \A i \in Job \ Poison : job'[i] = job[i]
    BY <2>1, <2>2, PutOver DEF QueueInv
  <2> QED BY <2>3
<1>4. ASSUME NEW w \in Worker, NEW S \in SUBSET Job, Lease(w, S)
      PROVE  job'[j].status \notin {"done", "failed"}
  <2>1. CASE j \in S
    <3>1. job'[j] = Leased(j, w)
      BY <1>4, <2>1 DEF Lease, Put
    <3> QED BY <3>1, LeasedFields DEF QueueInv, TypeOK
  <2>2. CASE j \notin S
    BY <1>4, <2>2 DEF Lease, Put
  <2> QED BY <2>1, <2>2
<1>5. CASE \E w \in Worker, i \in Job : Heartbeat(w, i)
  BY <1>5 DEF Heartbeat, QueueInv, TypeOK, Row
<1>6. ASSUME NEW w \in Worker, ReleaseLeases(w)
      PROVE  job'[j].status \notin {"done", "failed"}
  <2>1. CASE Owned(w, j)
    <3>1. PICK r : r = Unleased(j, "queued")
      OBVIOUS
    <3>2. job'[j] = [r EXCEPT !.attempts = IF r.attempts > 0 THEN r.attempts - 1 ELSE 0]
      BY <1>6, <2>1, <3>1 DEF ReleaseLeases, Put
    <3>3. r \in Row /\ r.status = "queued"
      BY <3>1, UnleasedFields DEF QueueInv, TypeOK, Status, Active
    <3> QED BY <3>2, <3>3 DEF Row
  <2>2. CASE ~Owned(w, j)
    BY <1>6, <2>2 DEF ReleaseLeases, Put
  <2> QED BY <2>1, <2>2
<1>7. CASE Tick
  BY <1>7 DEF Tick, QueueInv, TypeOK, Row
<1>8. CASE \E S \in SUBSET Job : DeleteDone(S)
  <2>1. PICK S \in SUBSET Job : DeleteDone(S)
    BY <1>8
  <2>2. j \notin S
    BY <2>1 DEF DeleteDone
  <2> QED BY <2>1, <2>2 DEF DeleteDone, Put
<1>9. \/ \E e \in Enqueuer, k \in Key, p \in Priority : EnqueueStart(e, k, p)
      \/ \E e \in Enqueuer : EnqueueConflict(e) \/ EnqueueSelect(e)
      \/ \E w \in Worker : GiveUp(w) \/ Shutdown(w) \/ Exit(w) \/ Crash(w)
      => UNCHANGED job
  BY DEF EnqueueStart, EnqueueConflict, EnqueueSelect, GiveUp, Shutdown, Exit, Crash, Restart
<1> QED BY <1>1, <1>2, <1>3, <1>4, <1>5, <1>6, <1>7, <1>8, <1>9 DEF Next

\* The fence of queue.ts `owned`, as a property of every step of the system.
THEOREM OutcomesByHolders == Spec => OutcomeByHolder
<1>1. QueueInv /\ [Next]_vars => [Outcome]_vars
  BY CompleteOutcome, FailOutcome, OtherOutcome DEF Outcome
<1>2. [Outcome]_vars <=> [\A j \in Job :
       job[j].status = "running" /\ job'[j].status \in {"done", "failed"}
         => \E w \in Worker : /\ job[j].owner = w
                             /\ held[w][j] = job[j].attempts
                             /\ held'[w][j] = 0]_vars
  BY DEF Outcome, Settled, ByHolder
<1> QED BY <1>1, <1>2, QueueInvariant, PTL DEF Spec, OutcomeByHolder

-----------------------------------------------------------------------------
(* The queue implements JobLifecycle *)

LEMMA InitRefines == Init => Promise!Begin
BY DEF Init, Promise!Begin, lifeOf, keyOf, Unused, Active

\* A step that keeps status and key of every row, and the results, is a stutter.
LEMMA Stutter ==
  ASSUME TypeOK, TypeOK', results' = results,
         \A j \in Job : lifeOf'[j] = lifeOf[j] /\ job'[j].key = job[j].key
  PROVE  UNCHANGED Promise!lifeVars
<1>1. lifeOf' = lifeOf
  BY DEF lifeOf
<1>2. keyOf' = keyOf
  BY DEF keyOf
<1> QED BY <1>1, <1>2 DEF Promise!lifeVars

LEMMA InsertRefines ==
  ASSUME QueueInv, NEW e \in Enqueuer, NEW j \in Job, EnqueueInsert(e, j)
  PROVE  Promise!Step
<1>1. enq[e].key \in Key
  BY CallFields DEF QueueInv, TypeOK, EnqueueInsert
<1>2. /\ job'[j] = Inserted(enq[e])
      /\ \A i \in Job \ {j} : job'[i] = job[i]
  BY DEF EnqueueInsert, QueueInv, TypeOK
<1>3. job'[j].status = "queued" /\ job'[j].key = enq[e].key
  BY <1>2 DEF Inserted
<1>4. lifeOf' = [i \in Job |-> IF i \in {j} THEN "pending" ELSE lifeOf[i]]
  BY <1>2, <1>3 DEF lifeOf, Active
<1>5. keyOf' = [keyOf EXCEPT ![j] = enq[e].key]
  BY <1>2, <1>3 DEF keyOf
<1>6. lifeOf[j] = "none" /\ \A i \in Job : lifeOf[i] = "pending" => keyOf[i] # enq[e].key
  <2>1. lifeOf[j] = "none"
    BY DEF EnqueueInsert, lifeOf, Active
  <2>2. ASSUME NEW i \in Job, lifeOf[i] = "pending" PROVE keyOf[i] # enq[e].key
    <3>1. IsActive(i)
      BY <2>2 DEF QueueInv, TypeOK, Row, Status, lifeOf, IsActive
    <3> QED BY <3>1 DEF EnqueueInsert, Conflict, keyOf
  <2> QED BY <2>1, <2>2
<1>7. Promise!Submit(j, enq[e].key)
  BY <1>4, <1>5, <1>6 DEF Promise!Submit, Promise!Become, EnqueueInsert
<1> QED BY <1>1, <1>7 DEF Promise!Step

LEMMA BuryRefines ==
  ASSUME QueueInv, NEW w \in Worker, Bury(w)
  PROVE  Promise!Step
<1>1. Poison \in SUBSET Job /\ "dead" \in Status
  BY DEF Poison, Status
<1>2. /\ \A j \in Poison : job'[j].status = "dead" /\ job'[j].key = job[j].key
      /\ \A j \in Job \ Poison : job'[j] = job[j]
  BY <1>1, PutOver DEF QueueInv, Bury
<1>3. \A j \in Poison : lifeOf[j] = "pending"
  BY <1>1 DEF Poison, Claimable, IsActive, lifeOf
<1>4. lifeOf' = [j \in Job |-> IF j \in Poison THEN "dead" ELSE lifeOf[j]] /\ keyOf' = keyOf
  BY <1>2 DEF lifeOf, keyOf, Active
<1>5. Promise!Abandon(Poison)
  BY <1>3, <1>4 DEF Promise!Abandon, Promise!Become, Bury
<1> QED BY <1>1, <1>5 DEF Promise!Step

LEMMA CompleteRefines ==
  ASSUME QueueInv, NEW w \in Worker, NEW S \in SUBSET Job, Complete(w, S)
  PROVE  Promise!Step
<1>1. /\ \A j \in S : job'[j].status = "done" /\ job'[j].key = job[j].key
      /\ \A j \in Job \ S : job'[j] = job[j]
  BY PutOver DEF QueueInv, Complete, Status
<1>2. \A j \in S : lifeOf[j] = "pending"
  BY DEF Complete, Owned, lifeOf, Active
<1>3. lifeOf' = [j \in Job |-> IF j \in S THEN "done" ELSE lifeOf[j]] /\ keyOf' = keyOf
  BY <1>1 DEF lifeOf, keyOf, Active
<1>4. Promise!Commit(S)
  BY <1>2, <1>3 DEF Promise!Commit, Promise!Become, Complete
<1> QED BY <1>4 DEF Promise!Step

LEMMA DeleteDoneRefines ==
  ASSUME QueueInv, NEW S \in SUBSET Job, DeleteDone(S)
  PROVE  Promise!Step
<1>1. /\ \A j \in S : job'[j].status = "deleted" /\ job'[j].key = job[j].key
      /\ \A j \in Job \ S : job'[j] = job[j]
  BY PutOver DEF QueueInv, DeleteDone, Status
<1>2. \A j \in S : lifeOf[j] = "done"
  BY DEF DeleteDone, lifeOf, Active
<1>3. lifeOf' = [j \in Job |-> IF j \in S THEN "deleted" ELSE lifeOf[j]] /\ keyOf' = keyOf
  BY <1>1 DEF lifeOf, keyOf, Active
<1>4. Promise!Forget(S)
  BY <1>2, <1>3 DEF Promise!Forget, Promise!Become, DeleteDone
<1> QED BY <1>4 DEF Promise!Step

\* fail() either retries, which is not visible, or abandons the one job.
LEMMA FailRefines ==
  ASSUME QueueInv, NEW w \in Worker, NEW j \in Job, NEW d \in 0..BackoffCap, Fail(w, j, d)
  PROVE  Promise!Step \/ UNCHANGED Promise!lifeVars
<1>1. /\ job[j].status = "running" /\ results' = results
      /\ \A i \in Job \ {j} : job'[i] = job[i]
  BY DEF Fail, Owned, QueueInv, TypeOK
<1>2. CASE held[w][j] >= MaxAttempts
  <2>1. job'[j] = Over(j, "dead")
    BY <1>2 DEF Fail, QueueInv, TypeOK
  <2>2. job'[j].status = "dead" /\ job'[j].key = job[j].key
    BY <2>1, OverFields DEF QueueInv, TypeOK, Status
  <2>3. lifeOf' = [i \in Job |-> IF i \in {j} THEN "dead" ELSE lifeOf[i]] /\ keyOf' = keyOf
    BY <1>1, <2>2 DEF lifeOf, keyOf, Active
  <2>4. Promise!Abandon({j})
    BY <1>1, <2>3 DEF Promise!Abandon, Promise!Become, lifeOf, Active
  <2> QED BY <2>4 DEF Promise!Step
<1>3. CASE ~(held[w][j] >= MaxAttempts)
  <2>1. PICK r : r = Unleased(j, "failed")
    OBVIOUS
  <2>2. job'[j] = [r EXCEPT !.wait = d]
    BY <1>3, <2>1 DEF Fail, QueueInv, TypeOK
  <2>3. r \in Row /\ r.status = "failed" /\ r.key = job[j].key
    BY <2>1, UnleasedFields DEF QueueInv, TypeOK, Status, Active
  <2>4. job'[j].status = "failed" /\ job'[j].key = job[j].key
    BY <2>2, <2>3 DEF Row
  <2>5. lifeOf' = lifeOf /\ keyOf' = keyOf
    BY <1>1, <2>4 DEF lifeOf, keyOf, Active
  <2> QED BY <1>1, <2>5 DEF Promise!lifeVars
<1> QED BY <1>2, <1>3

LEMMA LeaseRefines ==
  ASSUME QueueInv, QueueInv', NEW w \in Worker, NEW S \in SUBSET Job, Lease(w, S)
  PROVE  UNCHANGED Promise!lifeVars
<1> SUFFICES ASSUME NEW j \in Job
             PROVE  lifeOf'[j] = lifeOf[j] /\ job'[j].key = job[j].key
  BY Stutter DEF QueueInv, Lease
<1>1. CASE j \in S
  <2>1. job'[j] = Leased(j, w)
    BY <1>1 DEF Lease, Put
  <2>2. job'[j].status = "running" /\ job'[j].key = job[j].key
    BY <2>1, LeasedFields DEF QueueInv, TypeOK
  <2>3. IsActive(j)
    BY <1>1 DEF Lease, Chosen, Ready, Claimable
  <2> QED BY <2>2, <2>3 DEF lifeOf, IsActive, Active
<1>2. CASE j \notin S
  BY <1>2 DEF Lease, Put, lifeOf
<1> QED BY <1>1, <1>2

LEMMA ReleaseRefines ==
  ASSUME QueueInv, QueueInv', NEW w \in Worker, ReleaseLeases(w)
  PROVE  UNCHANGED Promise!lifeVars
<1> SUFFICES ASSUME NEW j \in Job
             PROVE  lifeOf'[j] = lifeOf[j] /\ job'[j].key = job[j].key
  BY Stutter DEF QueueInv, ReleaseLeases
<1>1. CASE Owned(w, j)
  <2>1. PICK r : r = Unleased(j, "queued")
    OBVIOUS
  <2>2. job'[j] = [r EXCEPT !.attempts = IF r.attempts > 0 THEN r.attempts - 1 ELSE 0]
    BY <1>1, <2>1 DEF ReleaseLeases, Put
  <2>3. r \in Row /\ r.status = "queued" /\ r.key = job[j].key
    BY <2>1, UnleasedFields DEF QueueInv, TypeOK, Status, Active
  <2>4. job'[j].status = "queued" /\ job'[j].key = job[j].key
    BY <2>2, <2>3 DEF Row
  <2> QED BY <1>1, <2>4 DEF lifeOf, Owned, Active
<1>2. CASE ~Owned(w, j)
  BY <1>2 DEF ReleaseLeases, Put, lifeOf
<1> QED BY <1>1, <1>2

LEMMA TickRefines ==
  ASSUME QueueInv, QueueInv', Tick \/ \E w \in Worker, j \in Job : Heartbeat(w, j)
  PROVE  UNCHANGED Promise!lifeVars
<1>1. results' = results
  BY DEF Tick, Heartbeat
<1>2. ASSUME NEW j \in Job
      PROVE  job'[j].status = job[j].status /\ job'[j].key = job[j].key
  <2>1. CASE Tick
    BY <2>1 DEF Tick, QueueInv, TypeOK, Row
  <2>2. CASE \E w \in Worker, i \in Job : Heartbeat(w, i)
    BY <2>2 DEF Heartbeat, QueueInv, TypeOK, Row
  <2> QED BY <2>1, <2>2
<1> QED BY <1>1, <1>2, Stutter DEF QueueInv, lifeOf

\* Steps that do not touch the table.
LEMMA OthersRefine ==
  ASSUME UNCHANGED <<job, results>>
  PROVE  UNCHANGED Promise!lifeVars
BY DEF Promise!lifeVars, lifeOf, keyOf

LEMMA StepRefines ==
  QueueInv /\ QueueInv' /\ [Next]_vars => [Promise!Step]_(Promise!lifeVars)
<1> SUFFICES ASSUME QueueInv, QueueInv', [Next]_vars
             PROVE  Promise!Step \/ UNCHANGED Promise!lifeVars
  OBVIOUS
<1>1. CASE UNCHANGED <<job, results>>
  BY <1>1, OthersRefine
<1>2. CASE \E e \in Enqueuer, j \in Job : EnqueueInsert(e, j)
  BY <1>2, InsertRefines
<1>3. CASE \E w \in Worker : Bury(w)
  BY <1>3, BuryRefines
<1>4. CASE \E w \in Worker, S \in SUBSET Job : Lease(w, S)
  BY <1>4, LeaseRefines
<1>5. CASE \E w \in Worker, S \in SUBSET Job : Complete(w, S)
  BY <1>5, CompleteRefines
<1>6. CASE \E w \in Worker, j \in Job, d \in 0..BackoffCap : Fail(w, j, d)
  BY <1>6, FailRefines
<1>7. CASE \E w \in Worker : ReleaseLeases(w)
  BY <1>7, ReleaseRefines
<1>8. CASE Tick \/ \E w \in Worker, j \in Job : Heartbeat(w, j)
  BY <1>8, TickRefines
<1>9. CASE \E S \in SUBSET Job : DeleteDone(S)
  BY <1>9, DeleteDoneRefines
<1>10. \/ \E e \in Enqueuer, k \in Key, p \in Priority : EnqueueStart(e, k, p)
       \/ \E e \in Enqueuer : EnqueueConflict(e) \/ EnqueueSelect(e)
       \/ \E w \in Worker : GiveUp(w) \/ Shutdown(w) \/ Exit(w) \/ Crash(w)
       \/ UNCHANGED vars
       => UNCHANGED <<job, results>>
  BY DEF EnqueueStart, EnqueueConflict, EnqueueSelect, GiveUp, Shutdown, Exit, Crash,
         Restart, vars
<1> QED BY <1>1, <1>2, <1>3, <1>4, <1>5, <1>6, <1>7, <1>8, <1>9, <1>10 DEF Next

\* queue.ts with its workers implements the life of a job as its callers see it.
THEOREM QueueRefinesLifecycle == Spec => ImplementsLifecycle
BY InitRefines, StepRefines, QueueInvariant, PTL
   DEF Spec, ImplementsLifecycle, Promise!Lifecycle
=============================================================================
