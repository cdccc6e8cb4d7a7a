---------------------------- MODULE JobLifecycle ----------------------------
(***************************************************************************)
(* What the queue promises to the code that uses it: a job is pending from *)
(* its enqueue until its one result is committed or it is given up, there  *)
(* is one pending job per key, and what is settled stays settled.  Leases, *)
(* attempts, workers and time are not visible here.                        *)
(***************************************************************************)
EXTENDS Naturals

CONSTANTS Job, Key, Nothing

VARIABLES
  life,    \* life[j]: "none", "pending", "done", "dead" or "deleted"
  keyOf,   \* keyOf[j]: the unit of work job j stands for
  results  \* results[j]: how many results of job j were committed

lifeVars == <<life, keyOf, results>>

Begin ==
  /\ life = [j \in Job |-> "none"]
  /\ keyOf = [j \in Job |-> Nothing]
  /\ results = [j \in Job |-> 0]

Become(S, s) == life' = [j \in Job |-> IF j \in S THEN s ELSE life[j]]

Submit(j, k) ==
  /\ life[j] = "none"
  /\ \A i \in Job : life[i] = "pending" => keyOf[i] # k
  /\ Become({j}, "pending")
  /\ keyOf' = [keyOf EXCEPT ![j] = k]
  /\ UNCHANGED results

\* The results of the jobs of S are committed together, once each.
Commit(S) ==
  /\ \A j \in S : life[j] = "pending"
  /\ Become(S, "done")
  /\ results' = [j \in Job |-> IF j \in S THEN results[j] + 1 ELSE results[j]]
  /\ UNCHANGED keyOf

Abandon(S) ==
  /\ \A j \in S : life[j] = "pending"
  /\ Become(S, "dead")
  /\ UNCHANGED <<keyOf, results>>

Forget(S) ==
  /\ \A j \in S : life[j] = "done"
  /\ Become(S, "deleted")
  /\ UNCHANGED <<keyOf, results>>

Step ==
  \/ \E j \in Job, k \in Key : Submit(j, k)
  \/ \E S \in SUBSET Job : Commit(S) \/ Abandon(S) \/ Forget(S)

Lifecycle == Begin /\ [][Step]_lifeVars
=============================================================================
