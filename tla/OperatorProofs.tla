--------------------------- MODULE OperatorProofs ---------------------------
(***************************************************************************)
(* Proofs about the operator commands and the feed behind them: nothing is *)
(* applied twice or lost, evidence moves and is never copied, a repeated   *)
(* request gets its answer, and what is public was vouched for - for any   *)
(* number of requests at a time, keys, claims and incidents, and with      *)
(* failures and retention between any two steps.                           *)
(***************************************************************************)
EXTENDS IncidentFeed, FiniteSetTheorems, TLAPS

Decision == {"publish", "review", "exclude"}
Outcome == {"none", "ok", "key_reused", "not_found", "version_conflict", "invalid", "failed"}
SessionState == [pc: {"idle", "key", "rows", "body"}, key: Key \cup {Nothing},
                 req: Request \cup {Nothing}, out: Outcome]
Span == [first: Nat, last: Nat]
Applied == [key: Key, req: Request, rows: SUBSET Row]

TableTypes ==
  /\ version \in [Row -> Nat] /\ decision \in [Claim -> Decision]
  /\ evidence \in [Incident -> [Claim -> {"none", "active", "inactive"}]]
  /\ alive \subseteq Incident /\ span \in [Incident -> Span]
  /\ audit \in [Key -> Answer \cup {Nothing}]
  /\ sent \subseteq Key \X Request
  /\ applied \subseteq Applied /\ IsFiniteSet(applied)
  /\ ingested \in [Message -> Nat]

\* A request that is under way has its key.
SessionTypes ==
  /\ ses \in [Session -> SessionState]
  /\ \A s \in Session : ses[s].pc # "idle" => ses[s].key \in Key /\ ses[s].req \in Request

Holds(s) == ses[s].pc \in {"rows", "body"}

\* Who is past its key's lock is alone there, and the key has no answer yet.
KeysApart ==
  \A s \in Session : Holds(s) =>
    /\ audit[ses[s].key] = Nothing
    /\ \A t \in Session : Holds(t) /\ ses[t].key = ses[s].key => t = s

\* A key answers for the request that was applied under it, until it expires.
KeysAnswer ==
  \A a \in applied : a.key \notin expired => audit[a.key] # Nothing /\ audit[a.key].req = a.req

\* The edits and deletions of a row that is a message.
Ingested(r) == IF r \in Message THEN ingested[r] ELSE 0

\* What was applied has moved the version it expected, and nothing but that and the
\* edits and deletions of a message has moved a version.
Counted ==
  /\ \A r \in Row : version[r] = 1 + Cardinality({a \in applied : r \in a.rows}) + Ingested(r)
  /\ \A a \in applied : a.req.expected < version[a.req.cmd.entity]

\* Where the evidence is.
Homes ==
  /\ \A i \in Incident, c \in Claim : evidence[i][c] = "active" => i \in alive
  /\ \A i, j \in Incident, c \in Claim : evidence[i][c] = "active" /\ evidence[j][c] = "active" => i = j
  /\ \A c \in Claim : (\A i \in Incident : evidence[i][c] # "active") =>
       expired \cap Incident # {} \/ \A i \in Incident : evidence[i][c] = "none" /\ c \notin FirstEvidence[i]

\* What was decided about a claim since the policy decided.
Judged ==
  \A c \in Claim :
    /\ decision[c] = "publish" => FirstDecision[c] = "publish" \/ Confirmed(c)
    /\ decision[c] = "review" => FirstDecision[c] = "review"
    /\ decision[c] = FirstDecision[c] \/ \E a \in applied : c \in a.rows

OperatorInv == TableTypes /\ SessionTypes /\ KeysApart /\ KeysAnswer /\ Counted /\ Homes /\ Judged

-----------------------------------------------------------------------------
(* Numbers *)

\* A finite set of numbers that is not empty has a least and a largest one.
LEMMA FiniteEnds ==
  ASSUME NEW T \in SUBSET Nat, IsFiniteSet(T), T # {}
  PROVE  \E lo, hi \in T : \A x \in T : lo <= x /\ x <= hi
<1> DEFINE ends(U) == \E lo, hi \in U : \A x \in U : lo <= x /\ x <= hi
           bad == {U \in FiniteSubsetsOf(Nat) : U # {} /\ ~ends(U)}
<1>1. SUFFICES ASSUME bad # {} PROVE FALSE
  BY DEF FiniteSubsetsOf
<1>2. PICK U \in bad : \A V \in bad : <<V, U>> \notin StrictSubsetOrdering(Nat)
  <2>1. IsWellFoundedOn(StrictSubsetOrdering(Nat), FiniteSubsetsOf(Nat)) /\ bad \subseteq FiniteSubsetsOf(Nat)
    BY FS_StrictSubsetOrderingWellFounded
  <2> HIDE DEF bad
  <2> QED
    BY <1>1, <2>1, WFMin
<1>3. PICK u \in U : TRUE
  BY <1>2
<1> DEFINE V == U \ {u}
<1>4. U \in SUBSET Nat /\ IsFiniteSet(U) /\ ~ends(U) /\ u \in Nat
  BY <1>2, <1>3 DEF FiniteSubsetsOf
<1>5. V \in FiniteSubsetsOf(Nat) /\ <<V, U>> \in StrictSubsetOrdering(Nat)
  BY <1>3, <1>4, FS_RemoveElement DEF FiniteSubsetsOf, StrictSubsetOrdering
<1>6. V # {}
  BY <1>3, <1>4
<1>7. ends(V)
  BY <1>2, <1>5, <1>6
<1>8. PICK lo, hi \in V : \A x \in V : lo <= x /\ x <= hi
  BY <1>7
<1>9. lo \in Nat /\ hi \in Nat /\ lo \in U /\ hi \in U
  BY <1>4, <1>8
<1>10. PICK low \in U : low <= lo /\ low <= u
  BY <1>3, <1>4, <1>9
<1>11. PICK high \in U : hi <= high /\ u <= high
  BY <1>3, <1>4, <1>9
<1>12. ASSUME NEW x \in U PROVE low <= x /\ x <= high
  <2>1. x \in Nat /\ low \in Nat /\ high \in Nat
    BY <1>4
  <2>2. x = u \/ (lo <= x /\ x <= hi)
    BY <1>8
  <2>3. low <= lo /\ low <= u /\ hi <= high /\ u <= high /\ u \in Nat /\ lo \in Nat /\ hi \in Nat
    BY <1>4, <1>9, <1>10, <1>11
  <2> HIDE DEF bad
  <2> QED
    BY <2>1, <2>2, <2>3
<1> QED
  BY <1>4, <1>12

LEMMA MinMax ==
  ASSUME NEW T \in SUBSET Nat, IsFiniteSet(T), T # {}
  PROVE  Min(T) \in T /\ Max(T) \in T /\ \A x \in T : Min(T) <= x /\ x <= Max(T)
<1>1. PICK lo, hi \in T : \A x \in T : lo <= x /\ x <= hi
  BY FiniteEnds
<1> QED
  BY <1>1 DEF Min, Max

\* The times of an incident are numbers, and a merge never takes the last one back.
LEMMA Spans ==
  /\ \A cs \in SUBSET Claim : SpanOf(cs) \in Span
  /\ \A a, b \in Span : Joined(a, b) \in Span /\ b.last <= Joined(a, b).last
<1>1. ASSUME NEW cs \in SUBSET Claim, cs # {}
      PROVE  SpanOf(cs) \in Span
  <2> DEFINE T == {PublishedAt[c] : c \in cs}
             f == [c \in cs |-> PublishedAt[c]]
  <2>1. T \in SUBSET Nat /\ T # {}
    BY <1>1, OperatorAssumption
  <2>2. IsFiniteSet(cs)
    BY OperatorAssumption, FS_Subset DEF Row
  <2>3. f \in Surjection(cs, T)
    BY DEF Surjection
  <2>4. IsFiniteSet(T)
    BY <2>2, <2>3, FS_Surjection
  <2>5. Min(T) \in Nat /\ Max(T) \in Nat
    <3> HIDE DEF T
    <3> QED
      BY <2>1, <2>4, MinMax
  <2> QED
    BY <1>1, <2>5 DEF SpanOf, Span
<1>2. SpanOf({}) \in Span
  BY DEF SpanOf, Span
<1>3. ASSUME NEW a \in Span, NEW b \in Span
      PROVE  Joined(a, b) \in Span /\ b.last <= Joined(a, b).last
  <2>1. {a.first, b.first, a.last, b.last} \subseteq Nat
    BY DEF Span
  <2>2. \A x, y : IsFiniteSet({x, y})
    <3> TAKE x, y
    <3>1. IsFiniteSet({x} \cup {y})
      BY FS_Singleton, FS_AddElement
    <3>2. {x} \cup {y} = {x, y}
      OBVIOUS
    <3> QED
      BY <3>1, <3>2
  <2>3. Min({a.first, b.first}) \in Nat
    BY <2>1, <2>2, MinMax
  <2>4. Max({a.last, b.last}) \in Nat /\ b.last <= Max({a.last, b.last})
    BY <2>1, <2>2, MinMax
  <2> QED
    BY <2>3, <2>4 DEF Joined, Span
<1> QED
  BY <1>1, <1>2, <1>3

-----------------------------------------------------------------------------
(* Commands and locks *)

LEMMA Disjoint ==
  /\ \A i \in Incident : i \in Row /\ i \notin Claim /\ i \notin Source /\ i \notin Message
  /\ Claim \subseteq Row /\ Source \subseteq Row /\ Message \subseteq Row /\ Nothing \notin Row
BY OperatorAssumption DEF Row

LEMMA Requests ==
  ASSUME NEW r \in Request
  PROVE  /\ r.cmd \in Template /\ r.expected \in Nat /\ r.cmd.entity \in Row
         /\ r.cmd.action \in {"confirm", "exclude"} => r.cmd.entity \in Claim
         /\ r.cmd.action \in {"merge", "split"} => r.cmd.entity \in Incident
         /\ r.cmd.claims \subseteq Claim /\ r.cmd.target \in Incident \cup {Nothing}
<1>1. r.cmd \in Template /\ r.expected \in Nat
  BY DEF Request
<1>2. r.cmd \in Command /\ r.cmd.entity \in Entities(r.cmd.action)
  BY <1>1, OperatorAssumption
<1> QED
  BY <1>1, <1>2 DEF Command, Entities

\* A step of one session leaves the others where they were.
LEMMA OneSession ==
  ASSUME SessionTypes, NEW s \in Session, NEW x \in SessionState, ses' = [ses EXCEPT ![s] = x],
         x.pc # "idle" => x.key \in Key /\ x.req \in Request
  PROVE  /\ SessionTypes' /\ ses'[s] = x
         /\ \A t \in Session \ {s} : ses'[t] = ses[t]
BY DEF SessionTypes

\* Leaving the lock of a key, or waiting for it, disturbs nobody.
LEMMA LeaveKeeps ==
  ASSUME OperatorInv, NEW s \in Session, NEW x \in SessionState, ses' = [ses EXCEPT ![s] = x],
         x.pc \in {"idle", "key"}, x.pc = "key" => x.key \in Key /\ x.req \in Request,
         UNCHANGED audit
  PROVE  SessionTypes' /\ KeysApart'
<1>1. SessionTypes' /\ ses'[s] = x /\ \A t \in Session \ {s} : ses'[t] = ses[t]
  BY OneSession DEF OperatorInv
<1>2. \A t \in Session : Holds(t)' => Holds(t) /\ ses'[t] = ses[t] /\ t # s
  BY <1>1 DEF Holds
<1> QED
  BY <1>1, <1>2 DEF OperatorInv, KeysApart

LEMMA IdleState ==
  ASSUME NEW out \in Outcome
  PROVE  Idle(out) \in SessionState /\ Idle(out).pc = "idle" /\ Idle(out).out = out
BY DEF Idle, SessionState

\* What the tables say stays true while they stay.
LEMMA TablesStay ==
  ASSUME OperatorInv, UNCHANGED <<version, decision, evidence, alive, span, audit, applied, expired, ingested>>,
         sent' \subseteq Key \X Request
  PROVE  TableTypes' /\ KeysAnswer' /\ Counted' /\ Homes' /\ Judged'
BY DEF OperatorInv, TableTypes, KeysAnswer, Counted, Ingested, Homes, Judged, Confirmed

\* A request that ends without a change.
LEMMA EndKeeps ==
  ASSUME OperatorInv, NEW s \in Session, NEW out \in Outcome, End(s, out),
         UNCHANGED <<tables, sent, applied, expired, ingested>>
  PROVE  OperatorInv'
<1>1. ses' = [ses EXCEPT ![s] = Idle(out)]
  BY DEF End
<1>2. SessionTypes' /\ KeysApart'
  BY <1>1, IdleState, LeaveKeeps DEF tables
<1>3. TableTypes' /\ KeysAnswer' /\ Counted' /\ Homes' /\ Judged'
  BY TablesStay DEF tables, OperatorInv, TableTypes
<1> QED
  BY <1>2, <1>3 DEF OperatorInv

-----------------------------------------------------------------------------
(* Every action keeps the invariant *)

\* A new request has the version that its operator sees, a repeated one has not changed.
LEMMA SendKeeps ==
  ASSUME OperatorInv, NEW s \in Session, NEW k \in Key, Send(s, k)
  PROVE  OperatorInv'
<1>1. PICK req \in {x[2] : x \in sent} \cup
             {[cmd |-> t, expected |-> version[t.entity]] : t \in {u \in Template : Authorised(u)}} :
        /\ sent' = sent \cup {<<k, req>>}
        /\ ses' = [ses EXCEPT ![s] = [pc |-> "key", key |-> k, req |-> req, out |-> "none"]]
  BY DEF Send
<1>2. UNCHANGED <<tables, holder, applied, expired, ingested>>
  BY DEF Send
<1>3. req \in Request
  <2>1. CASE req \in {x[2] : x \in sent}
    BY <2>1 DEF OperatorInv, TableTypes
  <2>2. ASSUME NEW t \in Template, req = [cmd |-> t, expected |-> version[t.entity]]
        PROVE  req \in Request
    <3>1. t.entity \in Row
      BY OperatorAssumption DEF Command
    <3>2. version[t.entity] \in Nat
      BY <3>1 DEF OperatorInv, TableTypes
    <3> QED
      BY <2>2, <3>2 DEF Request
  <2> QED
    BY <1>1, <2>1, <2>2
<1>4. [pc |-> "key", key |-> k, req |-> req, out |-> "none"] \in SessionState
  BY <1>3 DEF SessionState, Outcome
<1>5. SessionTypes' /\ KeysApart'
  BY <1>1, <1>2, <1>3, <1>4, LeaveKeeps DEF tables
<1>6. sent' \subseteq Key \X Request
  BY <1>1, <1>3 DEF OperatorInv, TableTypes
<1>7. TableTypes' /\ KeysAnswer' /\ Counted' /\ Homes' /\ Judged'
  BY <1>2, <1>6, TablesStay DEF tables
<1> QED
  BY <1>5, <1>7 DEF OperatorInv

\* A request gets past the lock of its key only when nobody else is, and only when the
\* key has no answer yet.
LEMMA TakeKeyKeeps ==
  ASSUME OperatorInv, NEW s \in Session, TakeKey(s)
  PROVE  OperatorInv'
<1>1. UNCHANGED <<tables, sent, applied, expired, ingested>> /\ ses[s].pc = "key" /\ KeyFree(s)
  BY DEF TakeKey
<1>2. CASE audit[ses[s].key] # Nothing
  <2>1. PICK out \in Outcome : End(s, out)
    BY <1>2 DEF TakeKey, Outcome
  <2> QED
    BY <1>1, <2>1, EndKeeps
<1>3. CASE audit[ses[s].key] = Nothing
  <2> DEFINE x == [ses[s] EXCEPT !.pc = "rows"]
  <2>1. ses' = [ses EXCEPT ![s] = x]
    BY <1>3 DEF TakeKey
  <2>2. ses[s] \in SessionState /\ ses[s].key \in Key /\ ses[s].req \in Request
    BY <1>1 DEF OperatorInv, SessionTypes
  <2>3. x \in SessionState /\ x.pc = "rows" /\ x.key = ses[s].key /\ x.req = ses[s].req
    BY <2>2 DEF SessionState
  <2> HIDE DEF x
  <2>4. SessionTypes' /\ ses'[s] = x /\ \A t \in Session \ {s} : ses'[t] = ses[t]
    BY <2>1, <2>2, <2>3, OneSession DEF OperatorInv
  <2>5. \A t \in Session \ {s} : Holds(t) => ses[t].key # ses[s].key
    BY <1>1 DEF KeyFree, Holds
  <2>6. ASSUME NEW r \in Session, Holds(r)'
        PROVE  /\ audit[ses'[r].key] = Nothing
               /\ \A t \in Session : Holds(t)' /\ ses'[t].key = ses'[r].key => t = r
    <3>1. \A t \in Session \ {s} : Holds(t)' => Holds(t)
      BY <2>4 DEF Holds
    <3>2. CASE r = s
      BY <1>3, <2>3, <2>4, <2>5, <3>1, <3>2
    <3>3. CASE r # s
      <4>1. Holds(r) /\ ses'[r] = ses[r]
        BY <2>4, <2>6, <3>1, <3>3
      <4>2. \A t \in Session \ {s} : Holds(t)' /\ ses'[t].key = ses'[r].key => t = r
        BY <2>4, <3>1, <4>1 DEF OperatorInv, KeysApart
      <4> QED
        BY <2>3, <2>4, <2>5, <3>3, <4>1, <4>2 DEF OperatorInv, KeysApart
    <3> QED
      BY <3>2, <3>3
  <2>7. KeysApart'
    BY <1>1, <2>6 DEF KeysApart, tables
  <2>8. TableTypes' /\ KeysAnswer' /\ Counted' /\ Homes' /\ Judged'
    BY <1>1, TablesStay DEF tables, OperatorInv, TableTypes
  <2> QED
    BY <2>4, <2>7, <2>8 DEF OperatorInv
<1> QED
  BY <1>2, <1>3

LEMMA LockRowKeeps ==
  ASSUME OperatorInv, NEW s \in Session, LockRow(s)
  PROVE  OperatorInv'
<1>1. UNCHANGED <<tables, sent, applied, expired, ingested>> /\ ses[s].pc = "rows"
  BY DEF LockRow
<1>2. TableTypes' /\ KeysAnswer' /\ Counted' /\ Homes' /\ Judged'
  BY <1>1, TablesStay DEF tables, OperatorInv, TableTypes
<1>3. CASE UNCHANGED ses
  BY <1>1, <1>2, <1>3 DEF OperatorInv, SessionTypes, KeysApart, Holds, tables
<1>4. CASE ses' = [ses EXCEPT ![s].pc = "body"]
  <2> DEFINE x == [ses[s] EXCEPT !.pc = "body"]
  <2>1. ses[s] \in SessionState /\ ses[s].key \in Key /\ ses[s].req \in Request
    BY <1>1 DEF OperatorInv, SessionTypes
  <2>2. x \in SessionState /\ x.pc = "body" /\ x.key = ses[s].key /\ x.req = ses[s].req
    BY <2>1 DEF SessionState
  <2>3. ses' = [ses EXCEPT ![s] = x]
    BY <1>4
  <2> HIDE DEF x
  <2>4. SessionTypes' /\ ses'[s] = x /\ \A t \in Session \ {s} : ses'[t] = ses[t]
    BY <2>1, <2>2, <2>3, OneSession DEF OperatorInv
  <2>5. \A t \in Session : (Holds(t)' <=> Holds(t)) /\ ses'[t].key = ses[t].key
    BY <1>1, <2>2, <2>4 DEF Holds
  <2>6. KeysApart'
    BY <1>1, <2>5 DEF OperatorInv, KeysApart, tables
  <2> QED
    BY <1>2, <2>4, <2>6 DEF OperatorInv
<1> QED
  BY <1>3, <1>4 DEF LockRow

\* What every commit does: it counts once for each row it changes, and is the only one
\* ever applied that expected this version; its key had no answer, now it has this one.
LEMMA CommitKeeps ==
  ASSUME OperatorInv, NEW s \in Session, NEW rows \in SUBSET Row, Commit(s, rows),
         ses[s].pc = "body", Current(s), ses[s].req.cmd.entity \in rows
  PROVE  /\ SessionTypes' /\ KeysApart' /\ KeysAnswer' /\ Counted'
         /\ version' \in [Row -> Nat] /\ audit' \in [Key -> Answer \cup {Nothing}]
         /\ sent' \subseteq Key \X Request
         /\ applied' \subseteq Applied /\ IsFiniteSet(applied')
         /\ \E a \in applied' : a.req = ses[s].req /\ a.rows = rows
         /\ applied \subseteq applied' /\ expired' = expired /\ ingested' = ingested
<1> DEFINE req == ses[s].req
           key == ses[s].key
           new == [key |-> key, req |-> req, rows |-> rows]
           ans == [req |-> req, response |-> version[req.cmd.entity] + 1]
<1>1. key \in Key /\ req \in Request /\ Holds(s) /\ audit[key] = Nothing
  BY DEF OperatorInv, SessionTypes, KeysApart, Holds
<1>2. /\ version \in [Row -> Nat] /\ audit \in [Key -> Answer \cup {Nothing}]
      /\ applied \subseteq Applied /\ IsFiniteSet(applied) /\ sent \subseteq Key \X Request
  BY DEF OperatorInv, TableTypes
<1>3. /\ req.cmd.entity \in Row /\ req.cmd.entity \in rows
      /\ version[req.cmd.entity] \in Nat /\ req.expected = version[req.cmd.entity]
  BY <1>1, <1>2, Requests DEF Current
<1>4. /\ version' = [r \in Row |-> IF r \in rows THEN version[r] + 1 ELSE version[r]]
      /\ audit' = [audit EXCEPT ![key] = ans] /\ applied' = applied \cup {new}
      /\ ses' = [ses EXCEPT ![s] = Idle("ok")] /\ UNCHANGED <<sent, expired, ingested>>
  BY DEF Commit, End
<1>5. ans \in Answer /\ ans.req = req /\ ans # Nothing
  BY <1>1, <1>3, OperatorAssumption DEF Answer
<1>6. new \in Applied /\ new.key = key /\ new.req = req /\ new.rows = rows
  BY <1>1 DEF Applied
<1> HIDE DEF new, ans, req, key
<1>7. version' \in [Row -> Nat] /\ audit' \in [Key -> Answer \cup {Nothing}]
  <2>1. \A r \in Row : (IF r \in rows THEN version[r] + 1 ELSE version[r]) \in Nat
    BY <1>2
  <2> QED
    BY <1>2, <1>4, <1>5, <2>1
<1>8. new \notin applied
  BY <1>3, <1>6 DEF OperatorInv, Counted
<1>9. applied' \subseteq Applied /\ IsFiniteSet(applied')
  BY <1>2, <1>4, <1>6, FS_AddElement
<1>10. Counted'
  <2>1. ASSUME NEW r \in Row
        PROVE  version'[r] = 1 + Cardinality({a \in applied' : r \in a.rows}) + Ingested(r)'
    <3> DEFINE old == {a \in applied : r \in a.rows}
    <3>1. IsFiniteSet(old) /\ version[r] = 1 + Cardinality(old) + Ingested(r) /\ Cardinality(old) \in Nat
      BY <1>2, FS_Subset, FS_CardinalityType DEF OperatorInv, Counted
    <3>8. Ingested(r) \in Nat /\ Ingested(r)' = Ingested(r)
      BY <1>4 DEF OperatorInv, TableTypes, Ingested
    <3>2. new \notin old
      BY <1>8
    <3>3. {a \in applied' : r \in a.rows} = IF r \in rows THEN old \cup {new} ELSE old
      BY <1>4, <1>6
    <3> HIDE DEF old
    <3>4. Cardinality(old \cup {new}) = Cardinality(old) + 1
      BY <3>1, <3>2, FS_AddElement
    <3>5. version'[r] = IF r \in rows THEN version[r] + 1 ELSE version[r]
      BY <1>4
    <3>6. CASE r \in rows
      <4>1. Cardinality({a \in applied' : r \in a.rows}) = Cardinality(old) + 1
        BY <3>3, <3>4, <3>6
      <4>2. version'[r] = version[r] + 1
        BY <3>5, <3>6
      <4> QED
        BY <3>1, <3>8, <4>1, <4>2
    <3>7. CASE r \notin rows
      BY <3>1, <3>3, <3>5, <3>7, <3>8
    <3> QED
      BY <3>6, <3>7
  <2>2. ASSUME NEW a \in applied'
        PROVE  a.req.expected < version'[a.req.cmd.entity]
    <3>1. CASE a = new
      BY <1>3, <1>4, <1>6, <3>1
    <3>2. CASE a \in applied
      <4>1. a.req \in Request /\ a.req.expected < version[a.req.cmd.entity]
        BY <1>2, <3>2 DEF Applied, OperatorInv, Counted
      <4>2. a.req.cmd.entity \in Row /\ a.req.expected \in Nat
        BY <4>1, Requests
      <4>3. /\ version[a.req.cmd.entity] \in Nat
            /\ version'[a.req.cmd.entity] \in {version[a.req.cmd.entity], version[a.req.cmd.entity] + 1}
        BY <1>2, <1>4, <4>2
      <4> QED
        BY <4>1, <4>2, <4>3
    <3> QED
      BY <1>4, <3>1, <3>2
  <2> QED
    BY <2>1, <2>2 DEF Counted
<1>11. KeysAnswer'
  <2> SUFFICES ASSUME NEW a \in applied', a.key \notin expired'
               PROVE  audit'[a.key] # Nothing /\ audit'[a.key].req = a.req
    BY DEF KeysAnswer
  <2>1. CASE a = new
    BY <1>1, <1>2, <1>4, <1>5, <1>6, <2>1
  <2>2. CASE a \in applied
    <3>1. audit[a.key] # Nothing /\ audit[a.key].req = a.req
      BY <1>4, <2>2 DEF OperatorInv, KeysAnswer
    <3> QED
      BY <1>1, <1>2, <1>4, <3>1
  <2> QED
    BY <1>4, <2>1, <2>2
<1>12. SessionTypes' /\ ses'[s] = Idle("ok") /\ \A t \in Session \ {s} : ses'[t] = ses[t]
  <2>1. Idle("ok") \in SessionState /\ Idle("ok").pc = "idle"
    BY IdleState DEF Outcome
  <2> QED
    BY <1>4, <2>1, OneSession DEF OperatorInv
<1>13. KeysApart'
  <2>1. \A t \in Session : Holds(t)' => Holds(t) /\ ses'[t] = ses[t] /\ t # s
    BY <1>12 DEF Holds, Idle
  <2>2. \A t \in Session \ {s} : Holds(t) => ses[t].key # key
    BY <1>1 DEF OperatorInv, KeysApart, key
  <2>3. \A t \in Session : Holds(t) => ses[t].key \in Key
    BY DEF OperatorInv, SessionTypes, Holds
  <2>4. \A t \in Session : Holds(t)' => audit'[ses[t].key] = audit[ses[t].key]
    BY <1>1, <1>2, <1>4, <2>1, <2>2, <2>3
  <2> QED
    BY <2>1, <2>4 DEF OperatorInv, KeysApart
<1> QED
  BY <1>2, <1>4, <1>6, <1>7, <1>9, <1>10, <1>11, <1>12, <1>13 DEF req

\* A command that has passed its checks.
LEMMA InBody ==
  ASSUME OperatorInv, NEW s \in Session, NEW actions, Checked(s, actions)
  PROVE  /\ ses[s].req \in Request /\ ses[s].req.cmd.action \in actions
         /\ ses[s].pc = "body" /\ Current(s) /\ ses[s].req.cmd.entity \in Row
<1>1. ses[s].req \in Request
  BY DEF OperatorInv, SessionTypes, Checked, Body
<1> QED
  BY <1>1, Requests DEF Checked, Body

\* What was judged stays judged when nothing new is decided.
LEMMA JudgedStays ==
  ASSUME Judged, applied \subseteq applied', NEW c \in Claim, decision'[c] = decision[c]
  PROVE  /\ decision'[c] = "publish" => FirstDecision[c] = "publish" \/ Confirmed(c)'
         /\ decision'[c] = "review" => FirstDecision[c] = "review"
         /\ decision'[c] = FirstDecision[c] \/ \E a \in applied' : c \in a.rows
<1>1. Confirmed(c) => Confirmed(c)'
  BY DEF Confirmed
<1> QED
  BY <1>1 DEF Judged

LEMMA ReviewKeeps ==
  ASSUME OperatorInv, NEW s \in Session, Review(s)
  PROVE  OperatorInv'
<1> DEFINE cmd == ses[s].req.cmd
<1>1. /\ Checked(s, {"confirm", "exclude"})
      /\ decision' = [decision EXCEPT ![cmd.entity] = IF cmd.action = "exclude" THEN "exclude" ELSE "publish"]
      /\ Commit(s, {cmd.entity}) /\ UNCHANGED <<enabled, deleted, evidence, alive, span>>
  BY DEF Review
<1>2. /\ cmd.action \in {"confirm", "exclude"} /\ cmd.entity \in Claim /\ cmd.entity \in Row
      /\ ses[s].pc = "body" /\ Current(s)
  BY <1>1, InBody, Requests
<1>3. /\ SessionTypes' /\ KeysApart' /\ KeysAnswer' /\ Counted'
      /\ version' \in [Row -> Nat] /\ audit' \in [Key -> Answer \cup {Nothing}]
      /\ sent' \subseteq Key \X Request
      /\ applied' \subseteq Applied /\ IsFiniteSet(applied')
      /\ \E a \in applied' : a.req = ses[s].req /\ a.rows = {cmd.entity}
      /\ applied \subseteq applied' /\ expired' = expired /\ ingested' = ingested
  BY <1>1, <1>2, CommitKeeps
<1>4. PICK a \in applied' : a.req.cmd = cmd /\ a.rows = {cmd.entity}
  BY <1>3
<1> HIDE DEF cmd
<1>5. decision \in [Claim -> Decision] /\ decision' \in [Claim -> Decision]
  BY <1>1, <1>2 DEF OperatorInv, TableTypes, Decision
<1>6. Judged'
  <2> SUFFICES ASSUME NEW c \in Claim
               PROVE  /\ decision'[c] = "publish" => FirstDecision[c] = "publish" \/ Confirmed(c)'
                      /\ decision'[c] = "review" => FirstDecision[c] = "review"
                      /\ decision'[c] = FirstDecision[c] \/ \E b \in applied' : c \in b.rows
    BY DEF Judged
  <2>1. CASE c = cmd.entity
    <3>1. decision'[c] = IF cmd.action = "exclude" THEN "exclude" ELSE "publish"
      BY <1>1, <1>2, <1>5, <2>1
    <3>2. cmd.action # "exclude" => Confirmed(c)'
      BY <1>2, <1>4, <2>1 DEF Confirmed
    <3> QED
      BY <1>4, <2>1, <3>1, <3>2
  <2>2. CASE c # cmd.entity
    <3>1. decision'[c] = decision[c]
      BY <1>1, <1>5, <2>2
    <3> QED
      BY <1>3, <3>1, JudgedStays DEF OperatorInv
  <2> QED
    BY <2>1, <2>2
<1>7. TableTypes'
  BY <1>1, <1>3, <1>5 DEF OperatorInv, TableTypes
<1>8. Homes'
  BY <1>1, <1>3 DEF OperatorInv, Homes
<1> QED
  BY <1>3, <1>6, <1>7, <1>8 DEF OperatorInv

\* Evidence that moves has left where it was.
LEMMA MovedKeeps ==
  ASSUME OperatorInv, NEW i \in Incident, NEW to \in Incident, i # to,
         NEW cs \in SUBSET Active(i), evidence' = Moved(i, to, cs),
         alive \cup {to} \subseteq alive', alive' \subseteq Incident, expired' = expired
  PROVE  Homes' /\ evidence' \in [Incident -> [Claim -> {"none", "active", "inactive"}]]
<1>1. evidence \in [Incident -> [Claim -> {"none", "active", "inactive"}]]
  BY DEF OperatorInv, TableTypes
<1>2. \A c \in cs : c \in Claim /\ evidence[i][c] = "active"
  BY DEF Active
<1>3. evidence' \in [Incident -> [Claim -> {"none", "active", "inactive"}]]
  BY <1>1 DEF Moved
<1>4. \A n \in Incident, c \in Claim :
        evidence'[n][c] = IF c \in cs /\ n = i THEN "inactive"
                          ELSE IF c \in cs /\ n = to THEN "active" ELSE evidence[n][c]
  BY <1>1 DEF Moved
<1>5. ASSUME NEW n \in Incident, NEW c \in Claim, evidence'[n][c] = "active"
      PROVE  n \in alive' /\ (IF c \in cs THEN n = to ELSE evidence[n][c] = "active")
  <2>1. CASE c \in cs
    <3>1. n # i => evidence[n][c] # "active"
      BY <1>2, <2>1 DEF OperatorInv, Homes
    <3> QED
      BY <1>4, <1>5, <2>1, <3>1
  <2>2. CASE c \notin cs
    BY <1>4, <1>5, <2>2 DEF OperatorInv, Homes
  <2> QED
    BY <2>1, <2>2
<1>6. ASSUME NEW c \in Claim, \A n \in Incident : evidence'[n][c] # "active"
      PROVE  expired' \cap Incident # {} \/ \A n \in Incident : evidence'[n][c] = "none" /\ c \notin FirstEvidence[n]
  <2>1. c \notin cs
    BY <1>4, <1>6
  <2>2. \A n \in Incident : evidence'[n][c] = evidence[n][c]
    BY <1>4, <2>1
  <2> QED
    BY <1>6, <2>2 DEF OperatorInv, Homes
<1>7. ASSUME NEW n \in Incident, NEW m \in Incident, NEW c \in Claim,
             evidence'[n][c] = "active", evidence'[m][c] = "active"
      PROVE  n = m
  <2>1. CASE c \in cs
    BY <1>5, <1>7, <2>1
  <2>2. CASE c \notin cs
    <3>1. evidence[n][c] = "active" /\ evidence[m][c] = "active"
      BY <1>5, <1>7, <2>2
    <3> QED
      BY <3>1 DEF OperatorInv, Homes
  <2> QED
    BY <2>1, <2>2
<1> QED
  BY <1>3, <1>5, <1>6, <1>7 DEF Homes

LEMMA MergeKeeps ==
  ASSUME OperatorInv, NEW s \in Session, Merge(s)
  PROVE  OperatorInv'
<1> DEFINE i == ses[s].req.cmd.entity
           t == ses[s].req.cmd.target
<1>1. Checked(s, {"merge"})
  BY DEF Merge
<1>2. i \in Incident /\ i \in Row /\ ses[s].pc = "body" /\ Current(s)
  BY <1>1, InBody, Requests
<1>3. CASE Refuse(s, "invalid")
  BY <1>3, EndKeeps DEF Refuse, Outcome
<1>4. CASE /\ t # i /\ t \in alive /\ Commit(s, {i, t}) /\ evidence' = Moved(i, t, Active(i))
           /\ span' = [span EXCEPT ![t] = Joined(span[i], span[t])]
           /\ UNCHANGED <<decision, enabled, deleted, alive>>
  <2>1. t \in Incident /\ {i, t} \subseteq Row
    BY <1>2, <1>4, Disjoint DEF OperatorInv, TableTypes
  <2>2. /\ SessionTypes' /\ KeysApart' /\ KeysAnswer' /\ Counted'
        /\ version' \in [Row -> Nat] /\ audit' \in [Key -> Answer \cup {Nothing}]
        /\ sent' \subseteq Key \X Request
        /\ applied' \subseteq Applied /\ IsFiniteSet(applied')
        /\ applied \subseteq applied' /\ expired' = expired /\ ingested' = ingested
    BY <1>2, <1>4, <2>1, CommitKeeps
  <2>3. alive \subseteq Incident /\ alive' = alive /\ decision' = decision
    BY <1>4 DEF OperatorInv, TableTypes
  <2> HIDE DEF i, t
  <2>4. Homes' /\ evidence' \in [Incident -> [Claim -> {"none", "active", "inactive"}]]
    BY <1>2, <1>4, <2>1, <2>2, <2>3, MovedKeeps
  <2>5. TableTypes'
    <3>1. span \in [Incident -> Span]
      BY DEF OperatorInv, TableTypes
    <3>2. Joined(span[i], span[t]) \in Span
      BY <1>2, <2>1, <3>1, Spans
    <3>3. span' \in [Incident -> Span]
      BY <1>4, <3>1, <3>2
    <3> QED
      BY <2>2, <2>3, <2>4, <3>3 DEF OperatorInv, TableTypes
  <2>6. Judged'
    BY <2>2, <2>3, JudgedStays DEF OperatorInv, Judged
  <2> QED
    BY <2>2, <2>4, <2>5, <2>6 DEF OperatorInv
<1> QED
  BY <1>3, <1>4 DEF Merge

\* The claims that wait for a verdict get one from the split; no other decision changes.
LEMMA SplitKeeps ==
  ASSUME OperatorInv, NEW s \in Session, Split(s)
  PROVE  OperatorInv'
<1> DEFINE i == ses[s].req.cmd.entity
           cs == ses[s].req.cmd.claims
           reviewed == Reviewed(cs)
<1>1. Checked(s, {"split"})
  BY DEF Split
<1>2. /\ i \in Incident /\ i \in Row /\ ses[s].pc = "body" /\ Current(s) /\ cs \subseteq Claim
      /\ ses[s].req.cmd.action = "split"
  BY <1>1, InBody, Requests
<1>3. CASE Refuse(s, "invalid")
  BY <1>3, EndKeeps DEF Refuse, Outcome
<1>4. ASSUME cs \subseteq Active(i), cs # {}, NEW new \in FreeId, evidence' = Moved(i, new, cs),
             alive' = alive \cup {new}, span' = [span EXCEPT ![new] = SpanOf(cs)],
             Commit(s, {i} \cup reviewed),
             decision' = [c \in Claim |-> IF c \in reviewed THEN "publish" ELSE decision[c]]
      PROVE  OperatorInv'
  <2>1. /\ new \in Incident /\ i # new /\ reviewed \subseteq cs /\ {i} \cup reviewed \subseteq Row
        /\ \A c \in reviewed : decision[c] = "review"
    BY <1>2, <1>4, Disjoint DEF FreeId, Active, Reviewed
  <2>2. /\ SessionTypes' /\ KeysApart' /\ KeysAnswer' /\ Counted'
        /\ version' \in [Row -> Nat] /\ audit' \in [Key -> Answer \cup {Nothing}]
        /\ sent' \subseteq Key \X Request
        /\ applied' \subseteq Applied /\ IsFiniteSet(applied')
        /\ \E a \in applied' : a.req = ses[s].req /\ a.rows = {i} \cup reviewed
        /\ applied \subseteq applied' /\ expired' = expired /\ ingested' = ingested
    BY <1>2, <1>4, <2>1, CommitKeeps
  <2>3. PICK a \in applied' : a.req.cmd.action = "split" /\ a.rows = {i} \cup reviewed
    BY <1>2, <2>2
  <2>4. alive \subseteq Incident /\ decision \in [Claim -> Decision]
    BY DEF OperatorInv, TableTypes
  <2> HIDE DEF i, cs, reviewed
  <2>5. Homes' /\ evidence' \in [Incident -> [Claim -> {"none", "active", "inactive"}]]
    BY <1>2, <1>4, <2>1, <2>2, <2>4, MovedKeeps
  <2>6. TableTypes'
    <3>1. decision' \in [Claim -> Decision]
      BY <1>4, <2>4 DEF Decision
    <3>2. span \in [Incident -> Span] /\ SpanOf(cs) \in Span
      BY <1>2, Spans DEF OperatorInv, TableTypes
    <3>3. span' \in [Incident -> Span]
      BY <1>4, <3>2
    <3> QED
      BY <1>4, <2>1, <2>2, <2>4, <2>5, <3>1, <3>3 DEF OperatorInv, TableTypes
  <2>7. Judged'
    <3> SUFFICES ASSUME NEW c \in Claim
                 PROVE  /\ decision'[c] = "publish" => FirstDecision[c] = "publish" \/ Confirmed(c)'
                        /\ decision'[c] = "review" => FirstDecision[c] = "review"
                        /\ decision'[c] = FirstDecision[c] \/ \E b \in applied' : c \in b.rows
      BY DEF Judged
    <3>1. CASE c \in reviewed
      <4>1. FirstDecision[c] = "review" /\ decision'[c] = "publish"
        BY <1>4, <2>1, <3>1 DEF OperatorInv, Judged
      <4>2. Confirmed(c)'
        BY <2>3, <3>1, <4>1 DEF Confirmed
      <4> QED
        BY <2>3, <3>1, <4>1, <4>2
    <3>2. CASE c \notin reviewed
      <4>1. decision'[c] = decision[c]
        BY <1>4, <3>2
      <4> QED
        BY <2>2, <4>1, JudgedStays DEF OperatorInv
    <3> QED
      BY <3>1, <3>2
  <2> QED
    BY <2>2, <2>5, <2>6, <2>7 DEF OperatorInv
<1> QED
  BY <1>3, <1>4 DEF Split

LEMMA RestKeeps ==
  ASSUME OperatorInv, NEW s \in Session, Reprocess(s) \/ Pause(s)
  PROVE  OperatorInv'
<1> DEFINE m == ses[s].req.cmd.entity
<1>1. Checked(s, {"reprocess"}) \/ Checked(s, {"pause", "resume"})
  BY DEF Reprocess, Pause
<1>2. m \in Row /\ ses[s].pc = "body" /\ Current(s)
  BY <1>1, InBody
<1>3. CASE Refuse(s, "invalid")
  BY <1>3, EndKeeps DEF Refuse, Outcome
<1>4. CASE Commit(s, {m}) /\ UNCHANGED <<decision, deleted, evidence, alive, span>>
  <2>1. /\ SessionTypes' /\ KeysApart' /\ KeysAnswer' /\ Counted'
        /\ version' \in [Row -> Nat] /\ audit' \in [Key -> Answer \cup {Nothing}]
        /\ sent' \subseteq Key \X Request
        /\ applied' \subseteq Applied /\ IsFiniteSet(applied')
        /\ applied \subseteq applied' /\ expired' = expired /\ ingested' = ingested
    BY <1>2, <1>4, CommitKeeps
  <2>2. TableTypes' /\ Homes'
    BY <1>4, <2>1 DEF OperatorInv, TableTypes, Homes
  <2>3. Judged'
    BY <1>4, <2>1, JudgedStays DEF OperatorInv, Judged
  <2> QED
    BY <2>1, <2>2, <2>3 DEF OperatorInv
<1> QED
  BY <1>3, <1>4 DEF Reprocess, Pause

LEMMA FailKeeps ==
  ASSUME OperatorInv, NEW s \in Session, Fail(s) \/ RefuseFirst(s)
  PROVE  OperatorInv'
<1>1. PICK out \in Outcome : End(s, out) /\ UNCHANGED <<tables, sent, applied, expired, ingested>>
  BY DEF Fail, RefuseFirst, Refuse, Outcome
<1> QED
  BY <1>1, EndKeeps

\* An edit or a deletion takes one version of its message, and counts for it.
LEMMA IngestCounted ==
  ASSUME OperatorInv, NEW m \in Message, Ingest(m)
  PROVE  version' \in [Row -> Nat] /\ ingested' \in [Message -> Nat] /\ Counted'
<1>1. /\ version' = [version EXCEPT ![m] = @ + 1] /\ ingested' = [ingested EXCEPT ![m] = @ + 1]
      /\ UNCHANGED applied
  BY DEF Ingest
<1>2. /\ version \in [Row -> Nat] /\ ingested \in [Message -> Nat] /\ m \in Row
      /\ applied \subseteq Applied /\ IsFiniteSet(applied)
  BY Disjoint DEF OperatorInv, TableTypes
<1>3. version' \in [Row -> Nat] /\ ingested' \in [Message -> Nat]
  BY <1>1, <1>2
<1>4. ASSUME NEW r \in Row
      PROVE  version'[r] = 1 + Cardinality({a \in applied' : r \in a.rows}) + Ingested(r)'
  <2> DEFINE old == {a \in applied : r \in a.rows}
  <2>1. Cardinality(old) \in Nat
    BY <1>2, FS_Subset, FS_CardinalityType
  <2>2. version[r] = 1 + Cardinality(old) + Ingested(r)
    BY DEF OperatorInv, Counted
  <2>3. Ingested(r) \in Nat /\ Ingested(r)' = IF r = m THEN Ingested(r) + 1 ELSE Ingested(r)
    BY <1>1, <1>2 DEF Ingested
  <2>4. version'[r] = IF r = m THEN version[r] + 1 ELSE version[r]
    BY <1>1, <1>2
  <2>5. {a \in applied' : r \in a.rows} = old
    BY <1>1
  <2>6. version'[r] = 1 + Cardinality(old) + Ingested(r)'
    <3> HIDE DEF old
    <3>1. CASE r = m
      BY <2>1, <2>2, <2>3, <2>4, <3>1
    <3>2. CASE r # m
      BY <2>1, <2>2, <2>3, <2>4, <3>2
    <3> QED
      BY <3>1, <3>2
  <2> QED
    BY <2>5, <2>6
<1>5. ASSUME NEW a \in applied'
      PROVE  a.req.expected < version'[a.req.cmd.entity]
  <2>1. a.req \in Request /\ a.req.expected < version[a.req.cmd.entity]
    BY <1>1, <1>2 DEF Applied, OperatorInv, Counted
  <2>2. a.req.cmd.entity \in Row /\ a.req.expected \in Nat
    BY <2>1, Requests
  <2>3. /\ version[a.req.cmd.entity] \in Nat
        /\ version'[a.req.cmd.entity] \in {version[a.req.cmd.entity], version[a.req.cmd.entity] + 1}
    BY <1>1, <1>2, <2>2
  <2> QED
    BY <2>1, <2>2, <2>3
<1> QED
  BY <1>3, <1>4, <1>5 DEF Counted

\* Beside the version it changes, a collector touches nothing of the operators'.
LEMMA IngestKeeps ==
  ASSUME OperatorInv, NEW m \in Message, Revise(m) \/ Delete(m)
  PROVE  OperatorInv'
<1>1. Ingest(m)
  BY DEF Revise, Delete
<1>2. UNCHANGED <<decision, enabled, evidence, alive, span, audit, holder, ses, sent, applied, expired>>
  BY <1>1 DEF Ingest
<1>3. version' \in [Row -> Nat] /\ ingested' \in [Message -> Nat] /\ Counted'
  BY <1>1, IngestCounted
<1>4. TableTypes'
  BY <1>2, <1>3 DEF OperatorInv, TableTypes
<1>5. KeysAnswer' /\ Homes' /\ Judged'
  BY <1>2 DEF OperatorInv, KeysAnswer, Homes, Judged, Confirmed
<1>6. SessionTypes' /\ KeysApart'
  BY <1>2 DEF OperatorInv, SessionTypes, KeysApart, Holds
<1> QED
  BY <1>3, <1>4, <1>5, <1>6 DEF OperatorInv

\* An incident goes with its evidence.
LEMMA ExpireIncidentKeeps ==
  ASSUME OperatorInv, NEW i \in Incident, ExpireIncident(i)
  PROVE  OperatorInv'
<1>1. /\ alive' = alive \ {i} /\ expired' = expired \cup {i}
      /\ evidence' = [evidence EXCEPT ![i] = [c \in Claim |-> "none"]]
      /\ UNCHANGED <<version, decision, enabled, deleted, span, audit, holder, ses, sent, applied, ingested>>
  BY DEF ExpireIncident
<1>2. evidence \in [Incident -> [Claim -> {"none", "active", "inactive"}]]
  BY DEF OperatorInv, TableTypes
<1>3. \A n \in Incident, c \in Claim : evidence'[n][c] = IF n = i THEN "none" ELSE evidence[n][c]
  BY <1>1, <1>2
<1>4. TableTypes'
  BY <1>1, <1>2 DEF OperatorInv, TableTypes
<1>5. Homes'
  BY <1>1, <1>3 DEF OperatorInv, Homes
<1>6. SessionTypes' /\ KeysApart' /\ KeysAnswer' /\ Counted' /\ Judged'
  BY <1>1 DEF OperatorInv, SessionTypes, KeysApart, Holds, KeysAnswer, Counted, Ingested, Judged, Confirmed
<1> QED
  BY <1>4, <1>5, <1>6 DEF OperatorInv

\* A key that expires answers for nothing any more, and may be used again.
LEMMA ExpireAuditKeeps ==
  ASSUME OperatorInv, NEW k \in Key, ExpireAudit(k)
  PROVE  OperatorInv'
<1>1. /\ audit' = [audit EXCEPT ![k] = Nothing] /\ expired' = expired \cup {k}
      /\ UNCHANGED <<version, decision, enabled, deleted, evidence, alive, span, holder, ses, sent, applied, ingested>>
  BY DEF ExpireAudit
<1>2. /\ audit \in [Key -> Answer \cup {Nothing}]
      /\ \A q \in Key : audit'[q] = IF q = k THEN Nothing ELSE audit[q]
  BY <1>1 DEF OperatorInv, TableTypes
<1>3. TableTypes'
  BY <1>1, <1>2 DEF OperatorInv, TableTypes
<1>4. Homes' /\ SessionTypes' /\ Counted' /\ Judged'
  BY <1>1 DEF OperatorInv, Homes, SessionTypes, Counted, Ingested, Judged, Confirmed
<1>5. KeysAnswer'
  <2>1. \A a \in applied : a.key \in Key
    BY DEF OperatorInv, TableTypes, Applied
  <2> QED
    BY <1>1, <1>2, <2>1 DEF OperatorInv, KeysAnswer
<1>6. KeysApart'
  <2>1. \A s \in Session : Holds(s) => ses[s].key \in Key
    BY DEF OperatorInv, SessionTypes, Holds
  <2> QED
    BY <1>1, <1>2, <2>1 DEF OperatorInv, KeysApart, Holds
<1> QED
  BY <1>3, <1>4, <1>5, <1>6 DEF OperatorInv

LEMMA OperatorInit == Init => OperatorInv
<1> SUFFICES ASSUME Init PROVE OperatorInv
  OBVIOUS
<1>1. applied = {} /\ sent = {} /\ \A r : {a \in {} : r \in a.rows} = {}
  BY DEF Init
<1>2. IsFiniteSet({}) /\ Cardinality({}) = 0
  BY FS_EmptySet
<1>3. \A i \in Incident, c \in Claim : evidence[i][c] = IF c \in FirstEvidence[i] THEN "active" ELSE "none"
  BY DEF Init
<1>4. TableTypes
  <2>1. span \in [Incident -> Span]
    BY Spans, OperatorAssumption DEF Init
  <2> QED
    BY <1>1, <1>2, <2>1, OperatorAssumption DEF Init, TableTypes, Decision
<1>5. SessionTypes /\ KeysApart
  <2>1. Idle("none") \in SessionState /\ Idle("none").pc = "idle"
    BY IdleState DEF Outcome
  <2> QED
    BY <2>1 DEF Init, SessionTypes, KeysApart, Holds
<1>6. KeysAnswer
  BY <1>1 DEF KeysAnswer
<1>7. Counted
  BY <1>1, <1>2 DEF Init, Counted, Ingested
<1>8. Homes
  BY <1>3, OperatorAssumption DEF Init, Homes
<1>9. Judged
  BY DEF Init, Judged
<1> QED
  BY <1>4, <1>5, <1>6, <1>7, <1>8, <1>9 DEF OperatorInv

LEMMA OperatorStep == OperatorInv /\ [Next]_vars => OperatorInv'
<1> SUFFICES ASSUME OperatorInv, [Next]_vars PROVE OperatorInv'
  OBVIOUS
<1>1. ASSUME NEW s \in Session, NEW k \in Key, Send(s, k) PROVE OperatorInv'
  BY <1>1, SendKeeps
<1>2. ASSUME NEW s \in Session, Work(s) \/ Fail(s) PROVE OperatorInv'
  BY <1>2, TakeKeyKeeps, LockRowKeeps, FailKeeps, ReviewKeeps, MergeKeeps, SplitKeeps, RestKeeps DEF Work
<1>3. ASSUME NEW m \in Message, Revise(m) \/ Delete(m) PROVE OperatorInv'
  BY <1>3, IngestKeeps
<1>4. ASSUME NEW i \in Incident, ExpireIncident(i) PROVE OperatorInv'
  BY <1>4, ExpireIncidentKeeps
<1>5. ASSUME NEW k \in Key, ExpireAudit(k) PROVE OperatorInv'
  BY <1>5, ExpireAuditKeeps
<1>6. CASE UNCHANGED vars
  <2>1. TableTypes' /\ KeysAnswer' /\ Counted' /\ Homes' /\ Judged'
    BY <1>6, TablesStay DEF vars, OperatorInv, TableTypes
  <2> QED
    BY <1>6, <2>1 DEF vars, OperatorInv, SessionTypes, KeysApart, Holds
<1> QED
  BY <1>1, <1>2, <1>3, <1>4, <1>5, <1>6 DEF Next

-----------------------------------------------------------------------------
(* What holds of the commands *)

\* The tables, the locks and the history of the requests agree.
THEOREM OperatorInvariant == Spec => []OperatorInv
<1> QED
  BY OperatorInit, OperatorStep, PTL DEF Spec

\* No update is lost and none is applied twice, whatever fails, is repeated or expires.
THEOREM VersionsTheorem == Spec => []VersionsAudited
<1>1. OperatorInv => VersionsAudited
  BY DEF OperatorInv, Counted, Ingested, VersionsAudited
<1> QED
  BY <1>1, OperatorInvariant, PTL

\* Merges and splits move evidence and never copy or lose it.
THEOREM OneHomeTheorem == Spec => []OneHome
<1>1. ASSUME OperatorInv, NEW c \in Claim
      PROVE  LET homes == {i \in Incident : evidence[i][c] = "active"}
             IN  /\ homes \subseteq alive
                 /\ Cardinality(homes) <= 1
                 /\ homes = {} => expired \cap Incident # {} \/ \A i \in Incident : c \notin FirstEvidence[i]
  <2> DEFINE homes == {i \in Incident : evidence[i][c] = "active"}
  <2>1. homes \subseteq alive
    BY <1>1 DEF OperatorInv, Homes
  <2>2. homes = {} \/ \E i : homes = {i}
    BY <1>1 DEF OperatorInv, Homes
  <2>3. Cardinality(homes) <= 1
    <3>1. CASE homes = {}
      BY <3>1, FS_EmptySet
    <3>2. ASSUME NEW i, homes = {i} PROVE Cardinality(homes) <= 1
      <4> HIDE DEF homes
      <4> QED
        BY <3>2, FS_Singleton
    <3> QED
      BY <2>2, <3>1, <3>2
  <2>4. homes = {} => expired \cap Incident # {} \/ \A i \in Incident : c \notin FirstEvidence[i]
    BY <1>1 DEF OperatorInv, Homes
  <2> QED
    BY <2>1, <2>3, <2>4
<1>2. OperatorInv => OneHome
  BY <1>1 DEF OneHome
<1> QED
  BY <1>2, OperatorInvariant, PTL

\* A request that was applied and is sent again under its key gets its answer, or fails on
\* the way: it is never refused, and never applied once more.
THEOREM RetryTheorem == Spec => RetryAnswered
<1> DEFINE answered ==
      \A s \in Session :
        ses[s].pc # "idle" /\ ses'[s].pc = "idle"
        /\ (\E a \in applied : a.key = ses[s].key /\ a.req = ses[s].req)
        /\ ses[s].key \notin expired
        => ses'[s].out \in {"ok", "failed"}
<1>1. ASSUME OperatorInv, [Next]_vars, NEW s \in Session,
             ses[s].pc # "idle", ses'[s].pc = "idle",
             NEW a \in applied, a.key = ses[s].key, a.req = ses[s].req, ses[s].key \notin expired
      PROVE  ses'[s].out \in {"ok", "failed"}
  <2>1. audit[ses[s].key] # Nothing /\ audit[ses[s].key].req = ses[s].req
    BY <1>1 DEF OperatorInv, KeysAnswer
  <2>2. ses[s].pc = "key" /\ ses \in [Session -> SessionState]
    <3>1. ~Holds(s) /\ ses \in [Session -> SessionState]
      BY <1>1, <2>1 DEF OperatorInv, KeysApart, SessionTypes
    <3> QED
      BY <1>1, <3>1 DEF SessionState, Holds
  <2>3. CASE TakeKey(s)
    <3>1. ses' = [ses EXCEPT ![s] = Idle("ok")]
      BY <2>1, <2>3 DEF TakeKey, End
    <3> QED
      BY <2>2, <3>1 DEF Idle
  <2>4. CASE Fail(s)
    <3>1. ses' = [ses EXCEPT ![s] = Idle("failed")]
      BY <2>4 DEF Fail, End
    <3> QED
      BY <2>2, <3>1 DEF Idle
  <2>5. CASE \E k \in Key : Send(s, k)
    BY <2>2, <2>5 DEF Send
  <2>6. ASSUME NEW t \in Session, t # s, Work(t) \/ Fail(t) \/ \E k \in Key : Send(t, k)
        PROVE  ses'[s] = ses[s]
    BY <2>2, <2>6 DEF Work, Fail, Send, TakeKey, LockRow, RefuseFirst, Refuse, Review, Merge, Split,
                      Reprocess, Pause, Commit, End
  <2>7. CASE UNCHANGED ses
    BY <1>1, <2>7
  <2>8. ~(LockRow(s) \/ RefuseFirst(s) \/ Review(s) \/ Merge(s) \/ Split(s) \/ Reprocess(s) \/ Pause(s))
    BY <2>2 DEF LockRow, RefuseFirst, Review, Merge, Split, Reprocess, Pause, Checked, Body
  <2>9. \/ \E t \in Session : Work(t) \/ Fail(t) \/ \E k \in Key : Send(t, k)
        \/ UNCHANGED ses
    BY <1>1 DEF Next, vars, Revise, Delete, Ingest, ExpireIncident, ExpireAudit
  <2> QED
    BY <1>1, <2>2, <2>3, <2>4, <2>5, <2>6, <2>7, <2>8, <2>9 DEF Work
<1>2. OperatorInv /\ [Next]_vars => [answered]_vars
  BY <1>1
<1> QED
  BY <1>2, OperatorInvariant, PTL DEF Spec, RetryAnswered

-----------------------------------------------------------------------------
(* What is public *)

\* What the policy publishes by itself, it vouches for.
LEMMA PublishedIsVouched ==
  ASSUME NEW c \in Claim, FirstDecision[c] = "publish"
  PROVE  Vouched(Input[c])
<1> DEFINE x == Input[c]
<1>1. DecidePublication(x) = "publish"
  BY FeedAssumption
<1>2. x.kind # None => x.score \in Nat /\ x.margin \in Nat
  BY FeedAssumption
<1> HIDE DEF x
<1>3. Answered(x) /\ x.kind \in RELEVANT /\ AnswerDoubts(x) = {} /\ EvidenceDoubts(x) = {}
  BY <1>1 DEF DecidePublication
<1>4. /\ ~(x.score < Threshold) /\ ~(x.margin < MinMargin) /\ ~(x.needsReview \/ x.several) /\ ~x.conflict
      /\ ~(x.kind \in RELEVANT /\ (x.scope = "future" \/ "future" \in x.times))
  <2>1. /\ "below_threshold" \notin AnswerDoubts(x) /\ "small_margin" \notin AnswerDoubts(x)
        /\ "multi_claim_unsplit" \notin AnswerDoubts(x) /\ "conflict" \notin AnswerDoubts(x)
        /\ "future_time" \notin AnswerDoubts(x)
    BY <1>3
  <2> QED
    BY <2>1, Zenon DEF AnswerDoubts
<1>5. x.spans # {} /\ x.basis # "unresolved"
  <2>1. "missing_evidence" \notin EvidenceDoubts(x) /\ "unresolved_geo" \notin EvidenceDoubts(x)
    BY <1>3
  <2> QED
    BY <2>1, Zenon DEF EvidenceDoubts
<1> QED
  BY <1>2, <1>3, <1>4, <1>5, PolicyAssumption DEF Vouched, Confident, Answered, x

\* Nothing is public but what the policy vouches for or an operator has confirmed, and what
\* the policy left for review waits in the queue beside its incident.
THEOREM PublicTheorem == Spec => []PublicIsVouched
<1> DEFINE queue == ReviewQueue(Cardinality(Claim))
           shown == UNION {PublicEvidence(i) \cup Detail(i) : i \in Incident}
<1>1. ASSUME OperatorInv, NEW c \in shown
      PROVE  Vouched(Input[c]) \/ Confirmed(c)
  <2>1. c \in Claim /\ decision[c] = "publish"
    BY <1>1 DEF PublicEvidence, Detail, Active, PublicClaim
  <2>2. FirstDecision[c] = "publish" \/ Confirmed(c)
    BY <1>1, <2>1 DEF OperatorInv, Judged
  <2> QED
    BY <2>1, <2>2, PublishedIsVouched
<1>2. ASSUME OperatorInv, NEW c \in Claim, FirstDecision[c] = "review", MessageOf[c] \notin deleted,
             ~(\E a \in applied : c \in a.rows)
      PROVE  \E x \in queue :
               /\ x.claim = c
               /\ x.incident = Nothing => expired # {} \/ \A i \in alive : evidence[i][c] = "none"
  <2> DEFINE newer == {d \in Waiting : PublishedAt[d] > PublishedAt[c]}
             item == [claim |-> c, incident |-> Linked(c)]
             homes == {i \in alive : c \in Active(i)}
  <2>1. c \in Waiting
    BY <1>2 DEF OperatorInv, Judged, Waiting
  <2>2. Cardinality(newer) < Cardinality(Claim)
    <3>1. IsFiniteSet(Claim)
      BY OperatorAssumption, FS_Subset DEF Row
    <3>2. newer \subseteq Claim \ {c} /\ c \in Claim
      BY OperatorAssumption DEF Waiting
    <3>3. /\ IsFiniteSet(Claim \ {c}) /\ Cardinality(Claim) \in Nat
          /\ Cardinality(Claim \ {c}) = Cardinality(Claim) - 1
      BY <3>1, <3>2, FS_RemoveElement, FS_CardinalityType
    <3>4. IsFiniteSet(newer) /\ Cardinality(newer) <= Cardinality(Claim \ {c})
      BY <3>2, <3>3, FS_Subset
    <3>5. Cardinality(newer) \in Nat
      BY <3>4, FS_CardinalityType
    <3> QED
      BY <3>3, <3>4, <3>5
  <2>3. item \in queue
    BY <2>1, <2>2 DEF ReviewQueue
  <2>4. CASE homes = {}
    <3>1. \A i \in Incident : evidence[i][c] # "active"
      BY <1>2, <2>4 DEF OperatorInv, Homes, Active
    <3>2. expired # {} \/ \A i \in Incident : evidence[i][c] = "none"
      BY <1>2, <3>1 DEF OperatorInv, Homes
    <3>3. alive \subseteq Incident
      BY <1>2 DEF OperatorInv, TableTypes
    <3> QED
      BY <2>3, <3>2, <3>3
  <2>5. CASE homes # {}
    <3>1. PICK h \in Incident : homes = {h}
      BY <1>2, <2>5 DEF OperatorInv, Homes, TableTypes, Active
    <3>2. Linked(c) = CHOOSE i \in homes : \A j \in homes : span[j].last <= span[i].last
      BY <2>5 DEF Linked
    <3>3. span[h].last <= span[h].last
      <4>1. span[h] \in Span
        BY <1>2 DEF OperatorInv, TableTypes
      <4> QED
        BY <4>1 DEF Span
    <3> HIDE DEF homes
    <3>4. Linked(c) = h
      BY <3>1, <3>2, <3>3
    <3> QED
      BY <2>3, <3>4, Disjoint
  <2> QED
    BY <2>4, <2>5
<1>3. OperatorInv => PublicIsVouched
  BY <1>1, <1>2 DEF PublicIsVouched
<1> QED
  BY <1>3, OperatorInvariant, PTL

-----------------------------------------------------------------------------
(* Pages *)

RankIn(S, i) == Cardinality({j \in S : Precedes(j, i)})

\* The order of a list is total, and a row has a higher rank than those it follows.
LEMMA Ranks ==
  ASSUME OperatorInv, NEW S \in SUBSET Incident
  PROVE  /\ IsFiniteSet(S)
         /\ \A i \in S : RankIn(S, i) \in Nat
         /\ \A i, j \in S : Precedes(i, j) => RankIn(S, i) < RankIn(S, j)
         /\ \A i, j \in S : i = j \/ Precedes(i, j) \/ Precedes(j, i)
<1> DEFINE before(i) == {j \in S : Precedes(j, i)}
<1>1. IsFiniteSet(S)
  BY OperatorAssumption, FS_Subset DEF Row
<1>2. \A i \in S : i \in Nat /\ span[i].last \in Nat
  BY OperatorAssumption DEF OperatorInv, TableTypes, Span
<1>3. \A i \in S : IsFiniteSet(before(i)) /\ Cardinality(before(i)) \in Nat
  BY <1>1, FS_Subset, FS_CardinalityType
<1>4. ASSUME NEW i \in S, NEW j \in S, Precedes(i, j)
      PROVE  Cardinality(before(i)) < Cardinality(before(j))
  <2>1. before(i) \subseteq before(j)
    BY <1>2, <1>4 DEF Precedes, After, KeyOf
  <2>2. i \in before(j) /\ i \notin before(i)
    BY <1>2, <1>4 DEF Precedes, After, KeyOf
  <2>3. Cardinality(before(i)) <= Cardinality(before(j)) /\ Cardinality(before(i)) # Cardinality(before(j))
    BY <1>3, <2>1, <2>2, FS_Subset
  <2> QED
    BY <1>3, <2>3
<1>5. \A i, j \in S : i = j \/ Precedes(i, j) \/ Precedes(j, i)
  BY <1>2 DEF Precedes, After, KeyOf
<1> QED
  BY <1>1, <1>3, <1>4, <1>5 DEF RankIn

\* Of rows that are not none, one comes first and one comes last.
LEMMA Extremes ==
  ASSUME OperatorInv, NEW S \in SUBSET Incident, NEW T \in SUBSET S, T # {}
  PROVE  \E lo, hi \in T : \A j \in T : /\ RankIn(S, lo) <= RankIn(S, j)
                                        /\ j # hi => Precedes(j, hi)
<1> DEFINE R == {RankIn(S, i) : i \in T}
           f == [i \in T |-> RankIn(S, i)]
<1>1. R \in SUBSET Nat /\ R # {}
  BY Ranks
<1>2. f \in Surjection(T, R) /\ IsFiniteSet(T)
  BY Ranks, FS_Subset DEF Surjection
<1>3. IsFiniteSet(R)
  BY <1>2, FS_Surjection
<1>4. PICK low, high \in R : \A x \in R : low <= x /\ x <= high
  <2> HIDE DEF R
  <2> QED
    BY <1>1, <1>3, FiniteEnds
<1>5. PICK lo, hi \in T : low = RankIn(S, lo) /\ high = RankIn(S, hi)
  BY <1>4
<1>6. ASSUME NEW j \in T
      PROVE  RankIn(S, lo) <= RankIn(S, j) /\ (j # hi => Precedes(j, hi))
  <2>1. RankIn(S, lo) <= RankIn(S, j) /\ RankIn(S, j) <= RankIn(S, hi)
    BY <1>4, <1>5
  <2>2. RankIn(S, j) \in Nat /\ RankIn(S, hi) \in Nat /\ j \in S /\ hi \in S
    BY Ranks
  <2> HIDE DEF R, f
  <2>3. /\ Precedes(hi, j) => RankIn(S, hi) < RankIn(S, j)
        /\ j = hi \/ Precedes(j, hi) \/ Precedes(hi, j)
    BY <2>2, Ranks
  <2>4. ~(RankIn(S, hi) < RankIn(S, j))
    BY <2>1, <2>2
  <2> QED
    BY <2>1, <2>3, <2>4
<1> QED
  BY <1>6

\* What the cursor of a page says: no row of the page follows it, and every other does.
LEMMA PageCursor ==
  ASSUME OperatorInv, NEW range, Page(range, Nothing).next # Nothing
  PROVE  LET page == Page(range, Nothing)
             shown == {x.incident : x \in page.items}
         IN  /\ shown \subseteq Rows(range)
             /\ \E last \in shown :
                  /\ page.next = KeyOf(last)
                  /\ \A i \in shown : i = last \/ Precedes(i, last)
                  /\ \A i \in Rows(range) \ shown : Precedes(last, i)
<1> DEFINE rows == Rest(range, Nothing)
           page == {i \in rows : RankIn(rows, i) < Limit}
           last == CHOOSE i \in page : \A j \in page \ {i} : Precedes(j, i)
           shown == {x.incident : x \in Page(range, Nothing).items}
<1>1. /\ Page(range, Nothing).items = {Item(i) : i \in page}
      /\ Page(range, Nothing).next = IF page # rows THEN KeyOf(last) ELSE Nothing
  BY DEF Page, RankIn
<1>2. rows = Rows(range) /\ rows \in SUBSET Incident
  BY DEF Rest, Rows, OperatorInv, TableTypes
<1>3. shown = page
  <2>1. \A i : Item(i).incident = i
    BY DEF Item
  <2> HIDE DEF page
  <2>2. shown = {x.incident : x \in {Item(i) : i \in page}}
    BY <1>1
  <2> HIDE DEF shown
  <2> QED
    BY <2>1, <2>2
<1>4. page # rows /\ Page(range, Nothing).next = KeyOf(last)
  BY <1>1
<1> HIDE DEF rows
<1>5. page # {}
  <2>1. rows # {}
    BY <1>4
  <2>2. PICK lo \in rows : \A j \in rows : RankIn(rows, lo) <= RankIn(rows, j)
    BY <1>2, <2>1, Extremes
  <2>3. {j \in rows : Precedes(j, lo)} = {}
    <3>1. \A j \in rows : RankIn(rows, j) \in Nat /\ (Precedes(j, lo) => RankIn(rows, j) < RankIn(rows, lo))
      BY <1>2, Ranks
    <3> QED
      BY <2>2, <3>1
  <2>4. RankIn(rows, lo) = 0
    BY <2>3, FS_EmptySet DEF RankIn
  <2> QED
    BY <2>2, <2>4, FeedAssumption
<1>6. \E i \in page : \A j \in page \ {i} : Precedes(j, i)
  BY <1>2, <1>5, Extremes
<1> HIDE DEF page, last, shown
<1>7. last \in page /\ \A j \in page \ {last} : Precedes(j, last)
  BY <1>6 DEF last
<1>8. ASSUME NEW i \in rows \ page PROVE Precedes(last, i)
  <2>1. last \in rows /\ RankIn(rows, last) < Limit /\ ~(RankIn(rows, i) < Limit)
    BY <1>7 DEF page
  <2>2. RankIn(rows, last) \in Nat /\ RankIn(rows, i) \in Nat /\ Limit \in Nat
    BY <1>2, <2>1, Ranks, FeedAssumption
  <2>3. ~Precedes(i, last)
    BY <1>2, <2>1, <2>2, Ranks
  <2> QED
    BY <1>2, <1>7, <2>1, <2>3, Ranks
<1>9. page \subseteq rows
  BY DEF page
<1> QED
  BY <1>2, <1>3, <1>4, <1>7, <1>8, <1>9 DEF shown

\* No step takes the last evidence of an incident that exists back in time.
LEMMA SpanForward ==
  ASSUME OperatorInv, [Next]_vars, NEW i \in alive
  PROVE  span[i].last \in Nat /\ span'[i].last \in Nat /\ span[i].last <= span'[i].last
<1>1. span \in [Incident -> Span] /\ i \in Incident /\ span[i] \in Span
  BY DEF OperatorInv, TableTypes
<1>2. span'[i] = span[i] \/ \E a \in Span : span'[i] = Joined(a, span[i])
  <2>1. ASSUME NEW s \in Session, Merge(s)
        PROVE  span'[i] = span[i] \/ \E a \in Span : span'[i] = Joined(a, span[i])
    <3>1. ses[s].req.cmd.entity \in Incident \/ UNCHANGED span
      BY <2>1, InBody, Requests DEF Merge
    <3> QED
      BY <1>1, <2>1, <3>1 DEF Merge, Refuse, tables
  <2>2. ASSUME NEW s \in Session, Split(s) PROVE span'[i] = span[i]
    BY <1>1, <2>2 DEF Split, Refuse, tables, FreeId
  <2>3. \/ \E s \in Session : Merge(s) \/ Split(s)
        \/ UNCHANGED span
    BY DEF Next, Work, vars, tables, Send, TakeKey, LockRow, RefuseFirst, Refuse, Review, Reprocess, Pause, Fail,
           Revise, Delete, Ingest, ExpireIncident, ExpireAudit
  <2> QED
    BY <2>1, <2>2, <2>3
<1>3. \A a \in Span : Joined(a, span[i]) \in Span /\ span[i].last <= Joined(a, span[i]).last
  BY <1>1, Spans
<1>4. span'[i] \in Span /\ (span'[i] = span[i] \/ span[i].last <= span'[i].last)
  BY <1>1, <1>2, <1>3
<1> QED
  BY <1>1, <1>4 DEF Span

\* A reader who follows the cursor is shown nothing twice and misses nothing that stays
\* public, whatever operators and retention do between the pages.
THEOREM PagesTheorem == Spec => PagesAcrossWrites
<1> DEFINE pages ==
      tables' # tables => \A range \in Ranges :
       LET page == Page(range, Nothing)
           shown == {x.incident : x \in page.items}
           before == Rows(range)
       IN  page.next # Nothing =>
             \A cursor \in {page.next} :
               /\ shown \cap Rest(range, cursor)' = {}
               /\ \A i \in before \ shown :
                    i \in Rows(range)' /\ span[i] = span'[i] => i \in Rest(range, cursor)'
<1>1. ASSUME OperatorInv, [Next]_vars, NEW range \in Ranges, Page(range, Nothing).next # Nothing,
             NEW cursor, cursor = Page(range, Nothing).next,
             NEW shown, shown = {x.incident : x \in Page(range, Nothing).items}
      PROVE  /\ shown \cap Rest(range, cursor)' = {}
             /\ \A i \in Rows(range) \ shown :
                  i \in Rows(range)' /\ span[i] = span'[i] => i \in Rest(range, cursor)'
  <2>1. PICK last \in shown :
          /\ shown \subseteq Rows(range) /\ cursor = KeyOf(last)
          /\ \A i \in shown : i = last \/ Precedes(i, last)
          /\ \A i \in Rows(range) \ shown : Precedes(last, i)
    BY <1>1, PageCursor
  <2>2. cursor # Nothing /\ cursor.t = span[last].last /\ cursor.id = last
    BY <1>1, <2>1 DEF KeyOf
  <2>3. \A i \in Rows(range) : i \in alive /\ i \in Nat /\ i \in Incident
    BY <1>1, OperatorAssumption DEF Rows, OperatorInv, TableTypes
  <2>4. last \in Nat /\ span[last].last \in Nat
    BY <1>1, <2>1, <2>3, SpanForward
  <2>5. ASSUME NEW i \in shown, i \in Rest(range, cursor)' PROVE FALSE
    <3>1. After(i, cursor)'
      BY <2>2, <2>5 DEF Rest
    <3>2. span'[i].last < cursor.t \/ (span'[i].last = cursor.t /\ i < cursor.id)
      BY <3>1 DEF After
    <3>3. i = last \/ span[last].last < span[i].last \/ (span[last].last = span[i].last /\ last < i)
      BY <2>1 DEF Precedes, After, KeyOf
    <3>4. i \in Nat /\ span[i].last \in Nat /\ span'[i].last \in Nat /\ span[i].last <= span'[i].last
      BY <1>1, <2>1, <2>3, SpanForward
    <3> QED
      BY <2>2, <2>4, <3>2, <3>3, <3>4
  <2>6. ASSUME NEW i \in Rows(range) \ shown, i \in Rows(range)', span[i] = span'[i]
        PROVE  i \in Rest(range, cursor)'
    <3>1. After(i, cursor)
      BY <2>1 DEF Precedes
    <3>2. After(i, cursor)'
      BY <2>6, <3>1 DEF After
    <3> QED
      BY <2>6, <3>2 DEF Rest
  <2> QED
    BY <2>5, <2>6
<1>2. OperatorInv /\ [Next]_vars => [pages]_vars
  BY <1>1
<1> QED
  BY <1>2, OperatorInvariant, PTL DEF Spec, PagesAcrossWrites
====
