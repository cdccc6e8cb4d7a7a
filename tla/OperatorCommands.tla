-------------------------- MODULE OperatorCommands --------------------------
(***************************************************************************)
(* The operator commands (packages/db/src/repos/admin/index.ts, mounted by *)
(* apps/api/src/routes/admin): review, merge, split, reprocess and pause.  *)
(* Each request is one READ COMMITTED transaction: the lock of its         *)
(* idempotency key, the lock of its rows, its checks, its changes with the *)
(* audit row, and the answer, which may be lost and the request repeated.  *)
(* Beside them the collectors and imports store edits and deletions of     *)
(* posts, which take a version of the message too, and retention           *)
(* (apps/worker/src/loops/retention.ts) deletes old incidents and audit    *)
(* rows.                                                                   *)
(*                                                                         *)
(* The jobs a command enqueues carry the id of its audit row, so they are  *)
(* as many as the audit rows: they are left out, and what a correction     *)
(* changes in a claim as well.                                             *)
(***************************************************************************)
EXTENDS Integers, FiniteSetsExt

CONSTANTS
  Session,       \* requests under way at a time
  Key,           \* idempotency keys
  Claim, Source, Message,
  Incident,      \* ids, numbered: merge locks two incidents in their order
  Actor, RankOf, \* operators, and the index of the highest role in each token
  Template,      \* the commands the operators give: action, actor, entity, target, claims
  FirstEvidence, \* the claims of each incident at first; {} for ids not yet in use
  FirstDecision, \* the decision the publication policy has made about each claim
  PublishedAt,   \* when the claim's post was published
  MaxSent,               \* bound: different requests
  MaxBeside,             \* bound: edits and deletions of posts, and what retention deletes
  Nothing

Row == Claim \cup Source \cup Message \cup Incident

Command == [action: {"confirm", "exclude", "merge", "split", "reprocess", "pause", "resume"},
            actor: Actor, entity: Row, target: Incident \cup {Nothing}, claims: SUBSET Claim]

\* What a route takes the id of.
Entities(action) ==
  CASE action \in {"confirm", "exclude"} -> Claim
    [] action \in {"merge", "split"} -> Incident
    [] action = "reprocess" -> Message
    [] OTHER -> Source

\* A command, with the version of its entity that the operator saw.
Request == [cmd: Template, expected: Nat]
Answer == [req: Request, response: Nat]

ASSUME OperatorAssumption ==
  /\ IsFiniteSet(Row) /\ Incident \subseteq Nat
  /\ {Claim, Source, Message} \subseteq SUBSET (Row \ Incident)
  /\ Nothing \notin Row \cup Session \cup Key
  /\ Nothing \notin Answer
  /\ RankOf \in [Actor -> -1..2] /\ Template \subseteq Command
  /\ \A t \in Template : t.entity \in Entities(t.action)
  /\ FirstEvidence \in [Incident -> SUBSET Claim]
  /\ \A i, j \in Incident : i # j => FirstEvidence[i] \cap FirstEvidence[j] = {}
  /\ FirstDecision \in [Claim -> {"publish", "review", "exclude"}]
  /\ PublishedAt \in [Claim -> Nat]
  /\ {MaxSent, MaxBeside} \subseteq Nat

VARIABLES
  version,   \* the version or revision of each row
  decision,  \* the publication decision of each claim
  enabled,   \* the sources that are not paused
  deleted,   \* the messages their channel has deleted
  evidence,  \* evidence[i][c]: the claim's row in the incident
  alive,     \* the incidents that exist
  span,      \* first_seen_at and last_evidence_at of each incident
  audit,     \* audit[k]: the request whose audit row holds key k, and its response
  holder,    \* who holds the lock of each row
  ses,       \* the requests under way
  sent,      \* the requests the operators have sent (history, bounded)
  applied,   \* the requests applied, with the rows each changed (history)
  expired,   \* the incidents and keys that retention deleted (history, bounded)
  ingested   \* the edits and deletions stored of each message (history, bounded)

tables == <<version, decision, enabled, deleted, evidence, alive, span, audit>>
vars == <<version, decision, enabled, deleted, evidence, alive, span, audit, holder, ses, sent, applied, expired, ingested>>

\* key - waits for its key's lock; rows - for its rows; body - holds them all.  Its last
\* outcome is ok, key_reused, not_found, version_conflict, invalid, failed, or none yet.
Idle(out) == [pc |-> "idle", key |-> Nothing, req |-> Nothing, out |-> out]

\* first_seen_at and last_evidence_at of an incident of these claims.
SpanOf(cs) ==
  IF cs = {} THEN [first |-> 0, last |-> 0]
  ELSE [first |-> Min({PublishedAt[c] : c \in cs}), last |-> Max({PublishedAt[c] : c \in cs})]

Init ==
  /\ version = [r \in Row |-> 1]
  /\ decision = FirstDecision
  /\ enabled = Source /\ deleted = {}
  /\ evidence = [i \in Incident |-> [c \in Claim |-> IF c \in FirstEvidence[i] THEN "active" ELSE "none"]]
  /\ alive = {i \in Incident : FirstEvidence[i] # {}}
  /\ span = [i \in Incident |-> SpanOf(FirstEvidence[i])]
  /\ audit = [k \in Key |-> Nothing]
  /\ holder = [r \in Row |-> Nothing] /\ ses = [s \in Session |-> Idle("none")]
  /\ sent = {} /\ applied = {} /\ expired = {} /\ ingested = [m \in Message |-> 0]

-----------------------------------------------------------------------------
(* The route: who may give which command *)

\* reviewer is 1, admin 2.
MinRank(action) == IF action \in {"pause", "resume"} THEN 2 ELSE 1

\* authenticate and requireRole; the others are answered 401 or 403 there.
Authorised(cmd) == RankOf[cmd.actor] >= MinRank(cmd.action)

\* A new request carries the version its operator sees, a repeated one is the same
\* as before, under its key or by mistake under another's.
Send(s, k) ==
  /\ ses[s].pc = "idle"
  /\ \E req \in {x[2] : x \in sent} \cup
               {[cmd |-> t, expected |-> version[t.entity]] : t \in {u \in Template : Authorised(u)}} :
       /\ <<k, req>> \in sent \/ Cardinality(sent) < MaxSent
       /\ sent' = sent \cup {<<k, req>>}
       /\ ses' = [ses EXCEPT ![s] = [pc |-> "key", key |-> k, req |-> req, out |-> "none"]]
  /\ UNCHANGED <<tables, holder, applied, expired, ingested>>

-----------------------------------------------------------------------------
(* command: one transaction *)

\* The transaction ends, and its locks with it.
End(s, out) ==
  /\ ses' = [ses EXCEPT ![s] = Idle(out)]
  /\ holder' = [r \in Row |-> IF holder[r] = s THEN Nothing ELSE holder[r]]

\* Fault: the requests of one key do not wait for each other.
KeyFreeAlways(s) == TRUE

KeyFree(s) == \A t \in Session \ {s} : ses[t].key = ses[s].key => ses[t].pc \in {"idle", "key"}

\* The key's advisory lock, and then its audit row: the first response again, or a
\* refusal when the key was used for another request.
TakeKey(s) ==
  /\ ses[s].pc = "key" /\ KeyFree(s)
  /\ LET prior == audit[ses[s].key]
     IN  IF prior = Nothing THEN ses' = [ses EXCEPT ![s].pc = "rows"] /\ UNCHANGED holder
         ELSE End(s, IF prior.req = ses[s].req THEN "ok" ELSE "key_reused")
  /\ UNCHANGED <<tables, sent, applied, expired, ingested>>

Needed(s) == {ses[s].req.cmd.entity, ses[s].req.cmd.target} \ {Nothing}
Missing(s) == {r \in Needed(s) : holder[r] # s /\ (r \in Incident => r \in alive)}

\* Fault: the two incidents are locked as they are named, the source first.
NextRowAsNamed(s, r) == ses[s].req.cmd.entity \in Missing(s) => r = ses[s].req.cmd.entity

\* Two incidents are locked in the order of their ids.
NextRow(s, r) == {r} \cup Missing(s) \subseteq Incident => \A q \in Missing(s) : r <= q

LockRow(s) ==
  /\ ses[s].pc = "rows"
  /\ IF Missing(s) = {} THEN ses' = [ses EXCEPT ![s].pc = "body"] /\ UNCHANGED holder
     ELSE /\ \E r \in Missing(s) :
               NextRow(s, r) /\ holder[r] = Nothing /\ holder' = [holder EXCEPT ![r] = s]
          /\ UNCHANGED ses
  /\ UNCHANGED <<tables, sent, applied, expired, ingested>>

\* Commit: the changed rows take a new version, the audit row holds key and response.
Commit(s, rows) ==
  LET req == ses[s].req
  IN  /\ version' = [r \in Row |-> IF r \in rows THEN version[r] + 1 ELSE version[r]]
      /\ audit' = [audit EXCEPT ![ses[s].key] = [req |-> req, response |-> version[req.cmd.entity] + 1]]
      /\ applied' = applied \cup {[key |-> ses[s].key, req |-> req, rows |-> rows]}
      /\ End(s, "ok")
      /\ UNCHANGED <<sent, expired, ingested>>

Refuse(s, out) == End(s, out) /\ UNCHANGED <<tables, sent, applied, expired, ingested>>

Body(s, actions) == ses[s].pc = "body" /\ ses[s].req.cmd.action \in actions

Found(s) == LET e == ses[s].req.cmd.entity IN e \in Incident => e \in alive

\* Fault: the version of a request is not compared.
CurrentAlways(s) == TRUE

\* checkVersion
Current(s) == version[ses[s].req.cmd.entity] = ses[s].req.expected

\* found and checkVersion, which come first in every command.
Checked(s, actions) == Body(s, actions) /\ Found(s) /\ Current(s)

RefuseFirst(s) ==
  /\ ses[s].pc = "body"
  /\ \/ ~Found(s) /\ Refuse(s, "not_found")
     \/ Found(s) /\ ~Current(s) /\ Refuse(s, "version_conflict")

-----------------------------------------------------------------------------
(* The commands *)

Review(s) ==
  LET cmd == ses[s].req.cmd
  IN  /\ Checked(s, {"confirm", "exclude"})
      /\ decision' = [decision EXCEPT ![cmd.entity] = IF cmd.action = "exclude" THEN "exclude" ELSE "publish"]
      /\ Commit(s, {cmd.entity})
      /\ UNCHANGED <<enabled, deleted, evidence, alive, span>>

Active(i) == {c \in Claim : evidence[i][c] = "active"}

\* Fault: the rows that move stay active in the incident they leave.
MovedCopied(from, to, cs) ==
  [evidence EXCEPT ![to] = [c \in Claim |-> IF c \in cs THEN "active" ELSE @[c]]]

\* Rows become inactive where they were and active where they go.
Moved(from, to, cs) ==
  [evidence EXCEPT ![from] = [c \in Claim |-> IF c \in cs THEN "inactive" ELSE @[c]],
                   ![to] = [c \in Claim |-> IF c \in cs THEN "active" ELSE @[c]]]

\* Fault: the target takes the times of the incident merged into it.
JoinedSource(a, b) == a

Joined(a, b) == [first |-> Min({a.first, b.first}), last |-> Max({a.last, b.last})]

Merge(s) ==
  LET i == ses[s].req.cmd.entity  t == ses[s].req.cmd.target
  IN  /\ Checked(s, {"merge"})
      /\ IF t # i /\ t \in alive /\ Active(i) # {} /\ Active(t) # {}
         THEN /\ evidence' = Moved(i, t, Active(i))
              /\ span' = [span EXCEPT ![t] = Joined(span[i], span[t])]
              /\ Commit(s, {i, t})
              /\ UNCHANGED <<decision, enabled, deleted, alive>>
         ELSE Refuse(s, "invalid")

FreeId == {i \in Incident : i \notin alive \cup expired /\ \A c \in Claim : evidence[i][c] = "none"}

\* Fault: every claim that is split off is published.
ReviewedAll(cs) == cs

\* The claims that still wait for a verdict; excluded ones stay excluded.
Reviewed(cs) == {c \in cs : decision[c] = "review"}

\* Split claims leave the review queue: the update waits for their rows.
Split(s) ==
  LET i == ses[s].req.cmd.entity
      cs == ses[s].req.cmd.claims
      reviewed == Reviewed(cs)
  IN  /\ Checked(s, {"split"})
      /\ IF cs \subseteq Active(i) /\ cs # Active(i) /\ cs # {}
         THEN \E new \in FreeId :
                /\ \A c \in reviewed : holder[c] = Nothing
                /\ evidence' = Moved(i, new, cs) /\ alive' = alive \cup {new}
                /\ span' = [span EXCEPT ![new] = SpanOf(cs)]
                /\ decision' = [c \in Claim |-> IF c \in reviewed THEN "publish" ELSE decision[c]]
                /\ Commit(s, {i} \cup reviewed)
                /\ UNCHANGED <<enabled, deleted>>
         ELSE Refuse(s, "invalid")

Reprocess(s) ==
  LET m == ses[s].req.cmd.entity
  IN  /\ Checked(s, {"reprocess"})
      /\ IF m \in deleted THEN Refuse(s, "invalid")
         ELSE Commit(s, {m}) /\ UNCHANGED <<decision, enabled, deleted, evidence, alive, span>>

Pause(s) ==
  LET x == ses[s].req.cmd.entity
  IN  /\ Checked(s, {"pause", "resume"})
      /\ enabled' = IF ses[s].req.cmd.action = "pause" THEN enabled \ {x} ELSE enabled \cup {x}
      /\ Commit(s, {x})
      /\ UNCHANGED <<decision, deleted, evidence, alive, span>>

-----------------------------------------------------------------------------
(* Failures, ingestion and retention *)

\* The connection or the process fails: rolled back, and no answer.
Fail(s) ==
  /\ ses[s].pc # "idle"
  /\ End(s, "failed")
  /\ UNCHANGED <<tables, sent, applied, expired, ingested>>

More == Cardinality(expired) + MapThenSumSet(LAMBDA m : ingested[m], Message) < MaxBeside

\* A collector or an import changes a message, once its row is free.
Ingest(m) ==
  /\ holder[m] = Nothing /\ More
  /\ version' = [version EXCEPT ![m] = @ + 1]
  /\ ingested' = [ingested EXCEPT ![m] = @ + 1]
  /\ UNCHANGED <<decision, enabled, evidence, alive, span, audit, holder, ses, sent, applied, expired>>

\* An edit becomes the message's text, of a deleted post too.
Revise(m) == Ingest(m) /\ UNCHANGED deleted

\* The collector finds the message deleted.
Delete(m) == m \notin deleted /\ deleted' = deleted \cup {m} /\ Ingest(m)

\* incidentsDeleted, with their evidence; locked ones are skipped.
ExpireIncident(i) ==
  /\ i \in alive /\ holder[i] = Nothing /\ More
  /\ alive' = alive \ {i}
  /\ evidence' = [evidence EXCEPT ![i] = [c \in Claim |-> "none"]]
  /\ expired' = expired \cup {i}
  /\ UNCHANGED <<version, decision, enabled, deleted, span, audit, holder, ses, sent, applied, ingested>>

\* auditDeleted: the key may be used again.
ExpireAudit(k) ==
  /\ audit[k] # Nothing /\ More
  /\ audit' = [audit EXCEPT ![k] = Nothing]
  /\ expired' = expired \cup {k}
  /\ UNCHANGED <<version, decision, enabled, deleted, evidence, alive, span, holder, ses, sent, applied, ingested>>

Work(s) ==
  \/ TakeKey(s) \/ LockRow(s) \/ RefuseFirst(s)
  \/ Review(s) \/ Merge(s) \/ Split(s) \/ Reprocess(s) \/ Pause(s)

Next ==
  \/ \E s \in Session : Work(s) \/ Fail(s) \/ \E k \in Key : Send(s, k)
  \/ \E m \in Message : Revise(m) \/ Delete(m)
  \/ \E i \in Incident : ExpireIncident(i)
  \/ \E k \in Key : ExpireAudit(k)

Spec == Init /\ [][Next]_vars

\* PostgreSQL runs what is not blocked, and grants a lock to those who wait in turn.
FairSpec == Spec /\ \A s \in Session : SF_vars(Work(s))

-----------------------------------------------------------------------------
(* Properties *)

\* Every version is accounted for by the requests that were applied and, for a message,
\* by the edits and deletions that were stored between them: no update is lost to another,
\* and no request is applied twice - not under its key, not under another one, and not
\* when its audit row has expired.
VersionsAudited ==
  \A r \in Row :
    version[r] = 1 + Cardinality({a \in applied : r \in a.rows}) + (IF r \in Message THEN ingested[r] ELSE 0)

\* Merges and splits of the same incidents, in any order and with any of them failing,
\* move evidence and never copy or lose it: a claim is active in one incident, until
\* retention deletes that.
OneHome ==
  \A c \in Claim :
    LET homes == {i \in Incident : evidence[i][c] = "active"}
    IN  /\ homes \subseteq alive
        /\ Cardinality(homes) <= 1
        /\ homes = {} => expired \cap Incident # {} \/ \A i \in Incident : c \notin FirstEvidence[i]

\* "A replay never races its original": a request that was applied is never refused
\* when it is sent again with its key, as long as its audit row is kept.
RetryAnswered ==
  [][\A s \in Session :
       ses[s].pc # "idle" /\ ses'[s].pc = "idle"
       /\ (\E a \in applied : a.key = ses[s].key /\ a.req = ses[s].req)
       /\ ses[s].key \notin expired
       => ses'[s].out \in {"ok", "failed"}]_vars

\* No two requests wait for each other: every one is answered.
CommandsEnd == \A s \in Session : ses[s].pc # "idle" ~> ses[s].pc = "idle"
=============================================================================
