---------------------------- MODULE Aggregation ----------------------------
(***************************************************************************)
(* How claims are grouped into incidents: packages/domain/src/aggregation  *)
(* (incident.ts, candidates.ts, origin.ts), driven the way its comments    *)
(* tell its callers to: a claim is searched for, linked or given a new     *)
(* incident, delivered again after a retry, changed by a review, withdrawn *)
(* by an edit or a deletion; an operator merges and splits; the sweep      *)
(* applies the TTL.                                                        *)
(*                                                                         *)
(* Scores only order the candidates of a question, and revision numbers    *)
(* only count: both are left out.                                          *)
(***************************************************************************)
EXTENDS Integers, FiniteSets

CONSTANTS
  Claim,
  Scenarios,     \* what the texts of the claims may say
  Ancestors,     \* Ancestors[p]: the places that contain place p
  OblastLevel,   \* the places too broad for a strong link
  CurrentWindow, HistoricalWindow, StaleAfter, ArchiveAfter, CopyWindow,
  MaxIncidents, MaxTime, MaxChanges,  \* bounds: incidents, clock, changes after linking
  None

Kind == {"threat_report", "alert_claim", "clear_claim", "aftermath", "unknown"}
Incident == 1..MaxIncidents

\* assumed - the place is the default of the channel; text - the comparison form or
\* original link that copies share; date - the day of the event the text names.
Fact == [kind: Kind, mode: {"live", "archive"}, source: STRING, message: Nat,
         place: DOMAIN Ancestors \cup {None}, assumed: BOOLEAN, type: STRING,
         scope: {"current", "past", "unknown"}, quantity: Nat \cup {None}, at: Nat,
         date: Nat \cup {None}, text: Nat \cup {None}]

\* What an incident keeps of a claim, where `by` says who decided: new, auto - the rules
\* alone, asked - Jev, or an operator.
Decision == {"publish", "review"}
Evidence == [claim: Claim, version: Nat, decision: Decision, origin: STRING \X Nat,
             by: {"new", "auto", "asked", "operator"}, active: BOOLEAN]

Incidents == [kind: Kind, mode: {"live", "archive"}, evidence: SUBSET Evidence,
              lifecycle: {"candidate", "reported", "stale", "archived", "retracted"},
              first: Nat, last: Nat, area: DOMAIN Ancestors \cup {None}, conflict: BOOLEAN,
              closure: Claim \cup {None}]

ASSUME NoneAssumption == None \notin Incidents

\* A place's ancestors are its parent, that one's parent, and so on.
ASSUME AggregationAssumption ==
  /\ IsFiniteSet(Claim) /\ Scenarios \subseteq [Claim -> Fact]
  /\ IsFiniteSet(DOMAIN Ancestors)
  /\ \A p \in DOMAIN Ancestors :
       /\ Ancestors[p] \subseteq DOMAIN Ancestors \ {p}
       /\ \A q \in Ancestors[p] : Ancestors[q] \subseteq Ancestors[p]
  /\ OblastLevel \subseteq DOMAIN Ancestors
  /\ {CurrentWindow, HistoricalWindow, StaleAfter, ArchiveAfter, CopyWindow,
      MaxIncidents, MaxTime, MaxChanges} \subseteq Nat

VARIABLES
  facts,      \* facts[c]: what the text of claim c says
  now,
  stage,      \* of each claim: none, pending - stored and not linked yet, linked, withdrawn
  version,    \* version and decision of each claim, changed by a review
  decision,
  incident,   \* the incidents; None for an id not in use yet
  changes     \* reviews, withdrawals, merges and splits so far (bounded)

aggregation == <<facts, now, stage, version, decision, incident, changes>>

Used == {i \in Incident : incident[i] # None}

AggregationInit ==
  /\ facts \in Scenarios
  /\ now = 0 /\ changes = 0
  /\ stage = [c \in Claim |-> "none"]
  /\ version = [c \in Claim |-> 1] /\ decision = [c \in Claim |-> "publish"]
  /\ incident = [i \in Incident |-> None]

-----------------------------------------------------------------------------
(* Evidence *)

F(e) == facts[e.claim]

Broader(a, b) == a \in Ancestors[b]   \* place a contains place b
Disjoint(a, b) ==
  None \notin {a, b} /\ a # b /\ ~Broader(a, b) /\ ~Broader(b, a)

\* Fault: a clear claim is a report of its incident like any other.
IsClosureNever(kind, e) == FALSE

\* A clear claim linked to an incident of another kind ends it; it is not a report.
IsClosure(kind, e) == F(e).kind = "clear_claim" /\ kind # "clear_claim"

ActiveReports(x) == {e \in x.evidence : e.active /\ ~IsClosure(x.kind, e)}

\* byTime: publication time, then the id; ids have no order here, so ties are free.
Latest(es) == CHOOSE e \in es : \A f \in es : F(f).at <= F(e).at
First(es) == CHOOSE e \in es : \A f \in es : F(e).at <= F(f).at

\* Closures that the same channel has not reopened with a newer report.
ActiveClosures(x) ==
  {c \in x.evidence :
     /\ c.active /\ IsClosure(x.kind, c)
     /\ \A r \in ActiveReports(x) : F(r).source = F(c).source => F(r).at <= F(c).at}

\* The latest count of each channel.
Counts(rs) ==
  LET told == {e \in rs : F(e).quantity # None}
  IN  {Latest({e \in told : F(e).source = s}) : s \in {F(e).source : e \in told}}

Conflict(rs) ==
  \/ Cardinality({F(e).quantity : e \in Counts(rs)}) > 1
  \/ \E a, b \in rs : F(a).source # F(b).source /\ Disjoint(F(a).place, F(b).place)

\* The most specific of nested places; of disjoint ones, the first named.
AreaOf(rs) ==
  LET placed == {e \in rs : F(e).place # None}
      places == {F(e).place : e \in placed}
  IN  IF placed = {} THEN None
      ELSE IF \E a, b \in places : Disjoint(a, b) THEN F(First(placed)).place
      ELSE CHOOSE p \in places : \A q \in places \ {p} : Broader(q, p)

\* What became of the incident by now.  A closure or silence never says more than
\* that: there is no state for "no threat".
LifecycleAt(x) ==
  LET rs == ActiveReports(x)
      age == now - x.last
  IN  CASE rs = {} -> "retracted"
        [] rs # {} /\ age >= ArchiveAfter -> "archived"
        [] OTHER -> IF \A e \in rs : e.decision # "publish" THEN "candidate"
                    ELSE IF x.kind = "aftermath" \/ \A e \in rs : F(e).scope = "past" THEN "archived"
                    ELSE IF age >= StaleAfter THEN "stale" ELSE "reported"

\* derive: everything an incident shows follows from its active reports.
Derive(x) ==
  LET rs == ActiveReports(x)
      closing == IF x.kind = "clear_claim" THEN rs ELSE ActiveClosures(x)
      y == [x EXCEPT !.first = IF rs = {} THEN @ ELSE F(First(rs)).at,
                     !.last = IF rs = {} THEN @ ELSE F(Latest(rs)).at,
                     !.area = AreaOf(rs), !.conflict = Conflict(rs),
                     !.closure = IF closing = {} THEN None ELSE Latest(closing).claim]
  IN  [y EXCEPT !.lifecycle = LifecycleAt(y)]

\* create: an incident from its first evidence.
Create(kind, mode, es) ==
  Derive([kind |-> kind, mode |-> mode, evidence |-> es, lifecycle |-> "candidate",
          first |-> now, last |-> now, area |-> None, conflict |-> FALSE, closure |-> None])

-----------------------------------------------------------------------------
(* The search: matchOrigin and findIncidentCandidates *)

\* Incidents that a caller passes: not retracted, of the mode, near in time.
Open(f) ==
  {i \in Used : /\ incident[i].lifecycle # "retracted" /\ incident[i].mode = f.mode
                /\ \E e \in incident[i].evidence : F(e).at - f.at \in -HistoricalWindow..HistoricalWindow}

SameOrigin(f, g) ==
  \/ f.source = g.source /\ f.message = g.message
  \/ f.text # None /\ f.text = g.text /\ f.at - g.at \in -CopyWindow..CopyWindow

\* The group of the earliest report of the same message or text, or one of its own.
Origins(f) ==
  LET found == {e \in UNION {incident[i].evidence : i \in Open(f)} : e.active /\ SameOrigin(f, F(e))}
  IN  IF found = {} THEN {<<f.source, f.message>>}
      ELSE {e.origin : e \in {x \in found : \A y \in found : F(x).at <= F(y).at}}

\* A report on the same specific place, and neither place assumed.
SamePlace(f, g) ==
  f.place = g.place /\ f.place # None /\ f.place \notin OblastLevel /\ ~f.assumed /\ ~g.assumed

\* territory: a place is required, and nested or the same.
Compatible(f, g) == None \notin {f.place, g.place} /\ ~Disjoint(f.place, g.place)

\* rate, for a clear claim: it ends an open episode of its own channel, in its own
\* place or a narrower one.
Ends(f, x) ==
  /\ x.kind \in {"threat_report", "alert_claim"}
  /\ f.at \in x.first..(x.last + ArchiveAfter)
  /\ \E e \in ActiveReports(x) :
       /\ F(e).source = f.source /\ F(e).at <= f.at
       /\ Compatible(f, F(e)) /\ ~Broader(F(e).place, f.place)

\* The channel's own clear claim, not followed by a report of its, ended its episode.
OwnEnded(f, x) ==
  LET own == {e \in x.evidence : e.active /\ F(e).source = f.source /\ F(e).at <= f.at}
  IN  own # {} /\ IsClosure(x.kind, Latest(own))

\* rate, for the others.
Fits(f, x) ==
  LET rs == ActiveReports(x)
      past == f.kind = "aftermath" \/ f.scope = "past"
      window == IF past THEN HistoricalWindow ELSE CurrentWindow
      types == {F(e).type : e \in rs}
  IN  /\ f.kind = x.kind /\ f.kind # "unknown" /\ f.scope # "unknown"
      /\ \E e \in rs : F(e).scope = f.scope
      /\ ~OwnEnded(f, x)
      /\ f.at \in (x.first - window)..(x.last + window)
      /\ past /\ f.date # None => \A e \in rs : F(e).date \in {f.date, None}
      /\ f.type = "unknown" \/ types \cap {f.type, "unknown"} # {}
      /\ \E e \in rs : Compatible(f, F(e))

Candidates(f) ==
  {i \in Open(f) : IF f.kind = "clear_claim" THEN Ends(f, incident[i]) ELSE Fits(f, incident[i])}

\* Safe to link without asking: the same specific place, or a copy of a report in it.
Strong(f, g, x) ==
  \E e \in ActiveReports(x) : SamePlace(f, F(e)) \/ e.origin = g

\* The incidents the claim is linked to without asking; g is its origin group.
Links(f, g) ==
  LET found == Candidates(f)
  IN  IF f.kind = "clear_claim" THEN found
      ELSE {i \in found : found = {i} /\ Strong(f, g, incident[i])}

-----------------------------------------------------------------------------
(* applyClaim, withdrawClaims, mergeIncidents, splitIncident *)

Row(c, g, by) ==
  [claim |-> c, version |-> version[c], decision |-> decision[c], origin |-> g, by |-> by, active |-> TRUE]

\* The same version again is a no-op, a newer one replaces it.
Apply(x, c, g, by) ==
  LET old == {e \in x.evidence : e.claim = c}
  IN  IF \E e \in old : e.version >= version[c] THEN x
      ELSE Derive([x EXCEPT !.evidence = (@ \ old) \cup {Row(c, g, by)}])

\* Fault: withdrawn evidence is deleted.
WithdrawForgets(x, cs) ==
  Derive([x EXCEPT !.evidence = {e \in @ : ~(e.active /\ e.claim \in cs)}])

\* The evidence stays, for audit; its contribution goes.
WithdrawFrom(x, cs) ==
  LET hit == {e \in x.evidence : e.active /\ e.claim \in cs}
  IN  IF hit = {} THEN x
      ELSE Derive([x EXCEPT !.evidence = (@ \ hit) \cup {[e EXCEPT !.active = FALSE] : e \in hit}])

NewId == CHOOSE i \in Incident \ Used : \A j \in Incident \ Used : i <= j

ActiveClaims(x) == {e.claim : e \in {f \in x.evidence : f.active}}

-----------------------------------------------------------------------------
(* groupingErrors *)

\* The pairs of claims that the incidents hold together and the labels do not, of those
\* held together; and the other way round.  What was dropped is a group of its own.
GroupingErrors(predicted, expected) ==
  LET pairs == {p \in SUBSET DOMAIN expected : Cardinality(p) = 2}
      Held(c) == IF c \in DOMAIN predicted THEN <<predicted[c]>> ELSE <<"dropped", c>>
      together == {p \in pairs : \A c, d \in p : Held(c) = Held(d)}
      labelled == {p \in pairs : \A c, d \in p : expected[c] = expected[d]}
      Rate(part, whole) == [numerator |-> Cardinality(part), denominator |-> Cardinality(whole)]
  IN  [falseMerge |-> Rate(together \ labelled, together), falseSplit |-> Rate(labelled \ together, labelled)]

-----------------------------------------------------------------------------
(* The callers *)

Change == changes < MaxChanges /\ changes' = changes + 1

\* A claim is stored; channels may deliver it long after its publication.
Receive(c) ==
  /\ stage[c] = "none" /\ facts[c].at <= now
  /\ stage' = [stage EXCEPT ![c] = "pending"]
  /\ UNCHANGED <<facts, now, version, decision, incident, changes>>

\* Fault: a claim that is delivered again is searched for again.
HoldingNever(c) == {}

\* The open incidents in which the claim is active: a redelivery goes back to them.
Holding(c) == {i \in Open(facts[c]) : c \in ActiveClaims(incident[i])}

Deliver(c) ==
  LET f == facts[c]
  IN  /\ stage[c] \in {"pending", "linked"}
      /\ \E g \in Origins(f) :
           LET link == IF Holding(c) # {} THEN Holding(c) ELSE Links(f, g)
           IN  \/ /\ link # {}
                  /\ incident' = [i \in Incident |-> IF i \in link THEN Apply(incident[i], c, g, "auto")
                                                     ELSE incident[i]]
               \* Jev is asked, and chooses one of the candidates or none.
               \/ /\ link = {}
                  /\ \E i \in Candidates(f) : incident' = [incident EXCEPT ![i] = Apply(@, c, g, "asked")]
               \/ /\ link = {} /\ Used # Incident
                  /\ incident' = [incident EXCEPT ![NewId] = Create(f.kind, f.mode, {Row(c, g, "new")})]
      /\ stage' = [stage EXCEPT ![c] = "linked"]
      /\ UNCHANGED <<facts, now, version, decision, changes>>

\* A review changes the decision: a new version of the claim, delivered again.
Review(c) ==
  /\ Change
  /\ stage[c] \in {"pending", "linked"} /\ version[c] = 1
  /\ version' = [version EXCEPT ![c] = 2]
  /\ decision' = [decision EXCEPT ![c] = IF @ = "publish" THEN "review" ELSE "publish"]
  /\ stage' = [stage EXCEPT ![c] = "pending"]
  /\ UNCHANGED <<facts, now, incident>>

\* An edit, a deletion or an exclusion.
Withdraw(c) ==
  /\ Change
  /\ stage[c] \in {"pending", "linked"}
  /\ stage' = [stage EXCEPT ![c] = "withdrawn"]
  /\ incident' = [i \in Incident |-> IF i \in Used THEN WithdrawFrom(incident[i], {c}) ELSE None]
  /\ UNCHANGED <<facts, now, version, decision>>

\* Kinds match, but a clear claim's incident may join as a closure.  An earlier row
\* of the claim in the target gives way.
Merge(t, s) ==
  LET x == incident[t]  y == incident[s]
      moved == {[e EXCEPT !.by = "operator"] : e \in {f \in y.evidence : f.active}}
  IN  /\ {s, t} \subseteq Used /\ s # t
      /\ x.mode = y.mode /\ (x.kind = y.kind \/ y.kind = "clear_claim")
      /\ incident' = [incident EXCEPT
           ![t] = Derive([x EXCEPT !.evidence = {e \in @ : e.claim \notin ActiveClaims(y)} \cup moved]),
           ![s] = WithdrawFrom(y, ActiveClaims(y))]
      /\ Change
      /\ UNCHANGED <<facts, now, stage, version, decision>>

\* The new incident has the kind of its first report that is not a clear claim.
Split(i, cs) ==
  LET x == incident[i]
      moved == {e \in x.evidence : e.active /\ e.claim \in cs}
      told == {e \in moved : F(e).kind # "clear_claim"}
      kind == IF told = {} THEN "clear_claim" ELSE F(First(told)).kind
  IN  /\ moved # {} /\ Used # Incident
      /\ incident' = [incident EXCEPT
           ![i] = WithdrawFrom(x, cs),
           ![NewId] = Create(kind, x.mode, {[e EXCEPT !.by = "operator"] : e \in moved})]
      /\ Change
      /\ UNCHANGED <<facts, now, stage, version, decision>>

\* The TTL sweep.
Refresh(i) ==
  /\ incident' = [incident EXCEPT ![i].lifecycle = LifecycleAt(incident[i])]
  /\ UNCHANGED <<facts, now, stage, version, decision, changes>>

Tick ==
  /\ now < MaxTime /\ now' = now + 1
  /\ UNCHANGED <<facts, stage, version, decision, incident, changes>>

AggregationNext ==
  \/ \E c \in Claim : Receive(c) \/ Deliver(c) \/ Review(c) \/ Withdraw(c)
  \/ \E i \in Used : Refresh(i) \/ \E j \in Used : Merge(i, j)
  \/ \E i \in Used : \E cs \in SUBSET ActiveClaims(incident[i]) : Split(i, cs)
  \/ Tick

AggregationSpec == AggregationInit /\ [][AggregationNext]_aggregation

-----------------------------------------------------------------------------
(* Properties *)

Homes(c) == {i \in Used : c \in ActiveClaims(incident[i])}

\* Through redeliveries, reviews, merges and splits a report is counted once: it is
\* active in exactly one incident once it is linked ("never dropped"), a clear claim
\* in at least one, with one row in each, and nothing is left of a claim that was
\* withdrawn.
OneHome ==
  \A c \in Claim :
    /\ \A i \in Used : \A e, f \in incident[i].evidence : e.claim = c /\ f.claim = c => e = f
    /\ facts[c].kind # "clear_claim" => Cardinality(Homes(c)) <= 1
    /\ stage[c] = "linked" => Homes(c) # {}
    /\ stage[c] \in {"none", "withdrawn"} => Homes(c) = {}

\* "Withdrawn, merged or split: the evidence stays for audit": no incident ever loses
\* the row of a claim.
KeptForAudit ==
  [][\A i \in Used : {e.claim : e \in incident[i].evidence} \subseteq
                     {e.claim : e \in incident'[i].evidence}]_aggregation

\* Only reports bring an incident to life: while its active reports stay the same, a
\* closure, silence, a merge or the sweep can only age it, and never dates it anew.
OnlyReportsRevive ==
  [][\A i \in Used :
       {[e EXCEPT !.by = "auto"] : e \in {r \in incident[i].evidence :
           r.active /\ F(r).kind # "clear_claim"}} =
       {[e EXCEPT !.by = "auto"] : e \in {r \in incident'[i].evidence :
           r.active /\ F(r).kind # "clear_claim"}}
       /\ incident[i].kind # "clear_claim"
       => /\ incident'[i].last = incident[i].last
          /\ \/ incident'[i].lifecycle = incident[i].lifecycle
             \/ incident'[i].lifecycle \in {"stale", "archived"}]_aggregation
=============================================================================
