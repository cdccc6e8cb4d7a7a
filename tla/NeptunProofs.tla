---------------------------- MODULE NeptunProofs ----------------------------
(***************************************************************************)
(* Proofs about NeptunAlerts: what is kept and published of the alerts is  *)
(* what the provider said, and is as old as it says, for any areas, alert  *)
(* sets and thresholds, any number of crashes, lost frames and failures.   *)
(***************************************************************************)
EXTENDS NeptunAlerts, FiniteSetTheorems, SequenceTheorems, WellFoundedInduction, TLAPS

Alerts == [set: AlertSets, until: Nat]

\* What may be said of an area: an alert that is not has no start.
Said == {x \in [level: Nat, since: Nat] : x.level = 0 => x.since = 0}
FrameSet == [ver: Nat, updatedAt: Nat, sent: Nat]
RestState == [pc: {"idle", "waiting", "asked", "answered", "queued"}, at: Nat \cup {Never},
              ver: Nat, updatedAt: Nat]
Health == [success: Nat \cup {Never}, error: Nat \cup {Never}]

\* Version v was the provider's set at time t, give or take the delay of the stream.
Observed(v, t) == v \in Version /\ (v = Current \/ hist[v].until >= t - StreamDelay)

\* A set that is under way: what it carries, and when it was the provider's.
Carries(x, t) == Observed(x.ver, t) /\ x.updatedAt \in Stamps(x.ver)

HistOK == now \in Nat /\ hist \in Seq(Alerts) /\ Len(hist) \in Nat \ {0}

\* A frame carries the set of the moment it was sent, at most StreamDelay ago.
WireOK ==
  /\ wire \in Seq(FrameSet)
  /\ \A k \in 1..Len(wire) :
       /\ wire[k].sent <= now /\ now <= wire[k].sent + StreamDelay
       /\ Carries(wire[k], wire[k].sent + StreamDelay)

RestOK ==
  /\ rest \in RestState /\ rest.at <= now
  /\ rest.pc \in {"asked", "answered"} => rest.at # Never
  /\ rest.pc = "answered" => Carries(rest, rest.at)

ChainOK ==
  /\ chain \in Seq(Event)
  /\ \A k \in 1..Len(chain) :
       chain[k].obs <= now /\ (chain[k].type = "snapshot" => Carries(chain[k], chain[k].obs))

\* A row says of its area what the set in force says, and since when.
RowsOK ==
  /\ shown \in Nat /\ (shown = NoVersion \/ shown \in Version) /\ rows \in [Area -> AlertRow]
  /\ ProjectionFaithful
  /\ \A a \in Area :
       /\ rows[a].success <= now
       /\ rows[a].state = "absent" => rows[a] = NoRow
       /\ rows[a].state # "absent" =>
            rows[a].success # Never /\ Observed(shown, rows[a].success)

\* The health and the ordering guard speak of the set in force.
GuardOK ==
  /\ health \in Health /\ health.success <= now
  /\ health.success # Never => Observed(shown, health.success)
  /\ last # Nothing => last \in Ordered /\ last.updatedAt \in Stamps(shown)
  /\ health.error # Never /\ last # Nothing => health.error >= last.obs
  /\ aging \in Nat \cup {Never}

NeptunInv == HistOK /\ WireOK /\ RestOK /\ ChainOK /\ RowsOK /\ GuardOK

-----------------------------------------------------------------------------
(* Numbers *)

Below == {p \in Nat \X Nat : p[1] < p[2]}

LEMMA BelowWellFounded == IsWellFoundedOn(Below, Nat)
<1>1. OpToRel(<, Nat) = Below
  BY Zenon DEF OpToRel, Below
<1> QED
  BY <1>1, NatLessThanWellFounded, Zenon

\* A set of numbers that is not empty has a least one.
LEMMA LeastNatural ==
  ASSUME NEW T \in SUBSET Nat, T # {}
  PROVE  \E m \in T : \A k \in T : m <= k
<1>1. PICK x \in T : \A y \in T : <<y, x>> \notin Below
  BY BelowWellFounded, WFMin
<1>2. \A y \in T : <<y, x>> \in Below <=> y < x
  BY DEF Below
<1>3. \A y \in T : y \in Nat
  OBVIOUS
<1>4. \A y \in T : ~(y < x)
  BY <1>1, <1>2, Zenon
<1> QED
  BY <1>3, <1>4

\* A function to the naturals over a finite set is bounded.
LEMMA FiniteBound ==
  ASSUME NEW S, IsFiniteSet(S), NEW g \in [S -> Nat]
  PROVE  \E b \in Nat : \A x \in S : g[x] <= b
<1>1. PICK n \in Nat : ExistsSurjection(1..n, S)
  BY FS_NatSurjection
<1>2. PICK f \in [1..n -> S] : \A x \in S : \E i \in 1..n : f[i] = x
  BY <1>1 DEF ExistsSurjection, Surjection
<1> DEFINE bounded(k) == \E b \in Nat : \A i \in 1..k : g[f[i]] <= b
           bad == {k \in 0..n : ~bounded(k)}
<1>3. bad = {}
  <2> SUFFICES ASSUME bad # {} PROVE FALSE
    OBVIOUS
  <2>1. PICK k \in bad : \A j \in bad : k <= j
    <3>1. bad \in SUBSET Nat
      OBVIOUS
    <3> HIDE DEF bad
    <3> QED
      BY <3>1, LeastNatural
  <2>2. k # 0
    <3>1. bounded(0)
      <4>1. \A i \in 1..0 : g[f[i]] <= 0
        OBVIOUS
      <4> QED
        BY <4>1
    <3> QED
      BY <3>1
  <2>3. k \in 1..n /\ bounded(k - 1)
    <3>1. k \in 1..n /\ k - 1 \in 0..n
      BY <2>2
    <3>2. k - 1 \notin bad
      <4> SUFFICES ASSUME k - 1 \in bad PROVE FALSE
        OBVIOUS
      <4>1. k <= k - 1
        BY <2>1
      <4> HIDE DEF bad
      <4> QED
        BY <3>1, <4>1
    <3> QED
      BY <3>1, <3>2
  <2>4. PICK b \in Nat : \A i \in 1..(k - 1) : g[f[i]] <= b
    BY <2>3
  <2>5. g[f[k]] \in Nat /\ \A i \in 1..k : g[f[i]] \in Nat
    <3>1. 1..k \subseteq 1..n
      BY <2>3
    <3>2. \A i \in 1..n : f[i] \in S /\ g[f[i]] \in Nat
      OBVIOUS
    <3> HIDE DEF bad
    <3> QED
      BY <3>1, <3>2, <2>3
  <2>6. \A i \in 1..k : g[f[i]] <= b + g[f[k]]
    <3> HIDE DEF bad, bounded
    <3> TAKE i \in 1..k
    <3>1. CASE i = k
      BY <2>5, <3>1
    <3>2. CASE i # k
      <4>1. i \in 1..(k - 1)
        BY <2>3, <3>2
      <4> QED
        BY <4>1, <2>4, <2>5, <2>3
    <3> QED
      BY <3>1, <3>2
  <2>7. b + g[f[k]] \in Nat
    <3> HIDE DEF bad, bounded
    <3> QED
      BY <2>5
  <2>8. bounded(k)
    BY <2>6, <2>7
  <2> QED
    BY <2>8
<1>4. PICK b \in Nat : \A i \in 1..n : g[f[i]] <= b
  <2>1. n \in 0..n
    OBVIOUS
  <2>2. bounded(n)
    BY <1>3, <2>1
  <2> QED
    BY <2>2
<1> QED
  BY <1>2, <1>4

\* The largest of numbers up to b.
LEMMA MaxOfBounded ==
  ASSUME NEW T \in SUBSET Nat, T # {}, NEW b \in Nat, \A x \in T : x <= b
  PROVE  Max(T) \in T /\ \A x \in T : x <= Max(T)
<1> DEFINE U == {b - x : x \in T}
<1>1. U \in SUBSET Nat /\ U # {}
  <2>1. \A x \in T : x \in Nat /\ b - x \in Nat
    OBVIOUS
  <2> QED
    BY <2>1
<1> HIDE DEF U
<1>2. PICK m \in U : \A k \in U : m <= k
  BY <1>1, LeastNatural
<1>3. PICK x \in T : m = b - x
  BY DEF U
<1>4. \A y \in T : b - x <= b - y
  BY <1>2, <1>3 DEF U
<1>5. \A y \in T : x >= y
  BY <1>4
<1> QED
  BY <1>5 DEF Max

-----------------------------------------------------------------------------
(* The operators *)

\* What the territory adds to a set is again something that may be said of an area:
\* there are finitely many areas to take it from.
LEMMA TerritorySays ==
  ASSUME NEW s \in AlertSets, NEW a \in Area
  PROVE  Territory[s][a] \in Said
<1> DEFINE Near == IF a \in Tracked
                   THEN {s[b] : b \in Children(a) \cup ({ParentOf[a]} \ {Nothing})}
                   ELSE {}
           T == {s[a]} \cup Near
           levels == {x.level : x \in T}
           starts == {x.since : x \in T} \ {0}
           level == Max(levels)
           since == IF starts = {} THEN 0 ELSE Min(starts)
<1>1. Territory[s][a] = Merged(T)
  BY DEF Territory
<1>2. s \in [Area -> [level: Nat, since: Nat]] /\ IsFiniteSet(Area) /\ \A c \in Area : s[c] \in Said
  BY NeptunAssumption DEF Said
<1>3. PICK b \in Nat : \A x \in Area : [c \in Area |-> s[c].level][x] <= b
  <2>1. [c \in Area |-> s[c].level] \in [Area -> Nat]
    BY <1>2
  <2> QED
    BY <1>2, <2>1, FiniteBound
<1>4. \A x \in T : \E c \in Area : x = s[c]
  BY NeptunAssumption DEF Children
<1>5. \A x \in T : x \in Said /\ x.level \in Nat /\ x.since \in Nat /\ x.level <= b
  BY <1>2, <1>3, <1>4
<1> HIDE DEF T
<1>6. T # {}
  BY DEF T
<1>7. level \in levels /\ level \in Nat /\ \A l \in levels : l <= level
  <2>1. levels \in SUBSET Nat /\ levels # {} /\ \A l \in levels : l <= b
    BY <1>5, <1>6
  <2> HIDE DEF levels
  <2> QED
    BY <2>1, MaxOfBounded
<1>8. since \in Nat /\ (since # 0 => since \in starts)
  <2>1. starts \in SUBSET Nat
    BY <1>5
  <2> HIDE DEF starts
  <2>2. CASE starts # {}
    <3>1. PICK m \in starts : \A k \in starts : m <= k
      BY <2>1, <2>2, LeastNatural
    <3>2. Min(starts) \in starts
      BY <3>1 DEF Min
    <3> QED
      BY <2>1, <2>2, <3>2
  <2> QED
    BY <2>2
<1>9. level = 0 => since = 0
  <2> SUFFICES ASSUME level = 0, since # 0 PROVE FALSE
    OBVIOUS
  <2>1. PICK x \in T : since = x.since
    BY <1>8
  <2>2. x.level = 0
    <3>1. x.level \in levels
      OBVIOUS
    <3>2. x.level <= 0
      BY <1>7, <3>1
    <3> QED
      BY <1>5, <3>2
  <2> QED
    BY <1>5, <2>1, <2>2 DEF Said
<1>10. Merged(T) = [level |-> level, since |-> since]
  BY DEF Merged
<1> HIDE DEF level, since
<1> QED
  BY <1>1, <1>7, <1>8, <1>9, <1>10 DEF Said

\* What a history says of its versions.
LEMMA Versions ==
  ASSUME HistOK
  PROVE  /\ Current \in Nat \ {0} /\ Current = Len(hist) /\ Version = 1..Len(hist)
         /\ \A v \in Version : v \in Nat /\ hist[v] \in Alerts /\ hist[v].set \in AlertSets /\ hist[v].until \in Nat
<1>1. Current \in Nat \ {0} /\ Current = Len(hist) /\ Version = 1..Len(hist)
  BY DEF HistOK, Current, Version
<1>2. \A v \in Version : hist[v] \in Alerts
  BY <1>1, ElementOfSeq DEF HistOK
<1> QED
  BY <1>1, <1>2 DEF Alerts

\* What the provider says of an area, in any version and before the first.
LEMMA SaysAlert ==
  ASSUME HistOK, NEW v, v = NoVersion \/ v \in Version, NEW a \in Area
  PROVE  Says(v, a) \in Said
<1>1. Quiet \in Said
  BY DEF Quiet, Said
<1> QED
  BY <1>1, Versions, TerritorySays DEF Says

\* A step that leaves the provider alone changes nothing about the past.
LEMMA SamePast ==
  ASSUME UNCHANGED hist
  PROVE  /\ \A v, t : Observed(v, t)' = Observed(v, t)
         /\ \A x, t : Carries(x, t)' = Carries(x, t)
BY DEF Observed, Carries, Version, Current

\* A new version ends the one before it now: what was true then stays true.
LEMMA Changed ==
  ASSUME HistOK, NEW s \in AlertSets, NEW u, ProviderChange(s, u)
  PROVE  /\ HistOK' /\ Current' = Current + 1
         /\ \A v \in Version : v \in Version' /\ hist'[v].set = hist[v].set
         /\ \A v, t : t \in Int /\ t - StreamDelay <= now /\ Observed(v, t) => Observed(v, t)'
         /\ \A x, t : t \in Int /\ t - StreamDelay <= now /\ Carries(x, t) => Carries(x, t)'
<1> DEFINE old == [hist EXCEPT ![Current].until = now]
           new == [set |-> s, until |-> 0]
<1>1. hist' = Append(old, new) /\ now' = now /\ now \in Nat
  BY DEF ProviderChange, HistOK
<1>2. Current \in Nat \ {0} /\ Current = Len(hist) /\ hist \in Seq(Alerts)
  BY Versions DEF HistOK
<1>3. old \in Seq(Alerts) /\ Len(old) = Len(hist) /\ new \in Alerts
  <2>1. hist[Current] \in Alerts
    BY <1>2, Versions
  <2>2. [hist[Current] EXCEPT !.until = now] \in Alerts /\ new \in Alerts
    BY <1>1, <2>1 DEF Alerts
  <2> QED
    BY <1>2, <2>2, ExceptSeq
<1>4. /\ \A v \in 1..Len(hist) : v # Current => old[v] = hist[v]
      /\ old[Current].set = hist[Current].set /\ old[Current].until = now
  BY <1>2 DEF Alerts
<1> HIDE DEF old, new
<1>5. /\ hist' \in Seq(Alerts) /\ Len(hist') = Len(hist) + 1
      /\ \A v \in 1..Len(hist) : hist'[v] = old[v]
  BY <1>1, <1>2, <1>3
<1>6. HistOK' /\ Current' = Current + 1
  BY <1>1, <1>2, <1>5 DEF HistOK, Current
<1>7. \A v \in Version : v \in Version' /\ hist'[v].set = hist[v].set
  BY <1>2, <1>4, <1>5 DEF Version
<1>8. ASSUME NEW v, NEW t \in Int, t - StreamDelay <= now, Observed(v, t)
      PROVE  Observed(v, t)'
  <2>1. v \in Version /\ v \in Version' /\ v \in 1..Len(hist)
    BY <1>7, <1>8 DEF Observed, Version
  <2>2. CASE v = Current
    BY <2>1, <2>2, <1>4, <1>5, <1>8, <1>2 DEF Observed
  <2>3. CASE v # Current
    BY <2>1, <2>3, <1>4, <1>5, <1>8 DEF Observed
  <2> QED
    BY <2>2, <2>3
<1>9. ASSUME NEW x, NEW t \in Int, t - StreamDelay <= now, Carries(x, t)
      PROVE  Carries(x, t)'
  BY <1>8, <1>9 DEF Carries
<1> QED
  BY <1>6, <1>7, <1>8, <1>9

-----------------------------------------------------------------------------
(* What a step leaves alone, it keeps *)

LEMMA Stays ==
  ASSUME NeptunInv, UNCHANGED <<now, hist>>
  PROVE  /\ HistOK'
         /\ wire' = wire => WireOK'
         /\ rest' = rest => RestOK'
         /\ chain' = chain => ChainOK'
         /\ UNCHANGED <<rows, shown>> => RowsOK'
         /\ UNCHANGED <<shown, health, last, aging>> => GuardOK'
<1>1. /\ \A v, t : Observed(v, t)' = Observed(v, t)
      /\ \A x, t : Carries(x, t)' = Carries(x, t)
  BY SamePast
<1>2. HistOK'
  BY DEF NeptunInv, HistOK
<1>3. wire' = wire => WireOK'
  BY <1>1 DEF NeptunInv, WireOK
<1>4. rest' = rest => RestOK'
  BY <1>1 DEF NeptunInv, RestOK
<1>5. chain' = chain => ChainOK'
  BY <1>1 DEF NeptunInv, ChainOK
<1>6. UNCHANGED <<rows, shown>> => RowsOK'
  <2> SUFFICES ASSUME UNCHANGED <<rows, shown>> PROVE RowsOK'
    OBVIOUS
  <2>1. \A a \in Area : Says(shown, a)' = Says(shown, a)
    BY DEF Says
  <2>2. ProjectionFaithful'
    BY <2>1 DEF NeptunInv, RowsOK, ProjectionFaithful
  <2> QED
    BY <1>1, <2>2 DEF NeptunInv, RowsOK, Version
<1>7. UNCHANGED <<shown, health, last, aging>> => GuardOK'
  BY <1>1 DEF NeptunInv, GuardOK
<1> QED
  BY <1>2, <1>3, <1>4, <1>5, <1>6, <1>7

\* An event that is honest about what it carries may join the chain.
LEMMA EmitKeeps ==
  ASSUME NeptunInv, UNCHANGED <<now, hist>>, NEW e \in Event, Emit(e),
         e.obs <= now, e.type = "snapshot" => Carries(e, e.obs)
  PROVE  ChainOK'
<1>1. \A x, t : Carries(x, t)' = Carries(x, t)
  BY SamePast
<1>2. chain \in Seq(Event) /\ chain' = Append(chain, e)
  BY DEF NeptunInv, ChainOK, Emit
<1>3. /\ chain' \in Seq(Event) /\ Len(chain') = Len(chain) + 1 /\ Len(chain) \in Nat
      /\ chain'[Len(chain) + 1] = e /\ \A k \in 1..Len(chain) : chain'[k] = chain[k]
  BY <1>2, AppendProperties, LenProperties
<1>4. ASSUME NEW k \in 1..Len(chain')
      PROVE  /\ chain'[k].obs <= now
             /\ chain'[k].type = "snapshot" => Carries(chain'[k], chain'[k].obs)
  <2>1. CASE k \in 1..Len(chain)
    BY <1>3, <2>1 DEF NeptunInv, ChainOK
  <2>2. CASE k = Len(chain) + 1
    BY <1>3, <2>2
  <2> QED
    BY <1>3, <2>1, <2>2
<1> QED
  BY <1>1, <1>3, <1>4 DEF ChainOK

\* The event at the head of the chain.
LEMMA HeadHonest ==
  ASSUME NeptunInv, chain # <<>>
  PROVE  /\ Head(chain) \in Event /\ Head(chain).obs <= now
         /\ Head(chain).type = "snapshot" => Carries(Head(chain), Head(chain).obs)
<1>1. chain \in Seq(Event) /\ Len(chain) \in Nat \ {0} /\ Head(chain) = chain[1]
  BY EmptySeq DEF NeptunInv, ChainOK
<1>2. Head(chain) \in Event /\ 1 \in 1..Len(chain)
  BY <1>1, ElementOfSeq
<1> QED
  BY <1>1, <1>2 DEF NeptunInv, ChainOK

\* Dealing with an event takes it off the chain and frees its request.
LEMMA HandledKeeps ==
  ASSUME NeptunInv, UNCHANGED <<now, hist>>, chain # <<>>, Handled
  PROVE  ChainOK' /\ RestOK'
<1>1. \A x, t : Carries(x, t)' = Carries(x, t)
  BY SamePast
<1>2. /\ chain \in Seq(Event) /\ chain' = Tail(chain)
      /\ Tail(chain) \in Seq(Event) /\ Len(Tail(chain)) = Len(chain) - 1 /\ Len(chain) \in Nat
      /\ \A k \in 1..Len(Tail(chain)) : Tail(chain)[k] = chain[k + 1]
  BY HeadTailProperties, LenProperties DEF NeptunInv, ChainOK, Handled
<1>3. ChainOK'
  <2>1. ASSUME NEW k \in 1..Len(chain')
        PROVE  /\ chain'[k].obs <= now
               /\ chain'[k].type = "snapshot" => Carries(chain'[k], chain'[k].obs)
    <3>1. chain'[k] = chain[k + 1] /\ k + 1 \in 1..Len(chain)
      BY <1>2
    <3> QED
      BY <3>1 DEF NeptunInv, ChainOK
  <2> QED
    BY <1>1, <1>2, <2>1 DEF ChainOK
<1>4. RestOK'
  <2>1. CASE Head(chain).channel = "rest"
    <3>1. rest' = [rest EXCEPT !.pc = "idle"] /\ rest \in RestState
      BY <2>1 DEF Handled, NeptunInv, RestOK
    <3>2. rest' \in RestState /\ rest'.pc = "idle" /\ rest'.at = rest.at
      BY <3>1 DEF RestState
    <3> QED
      BY <3>2 DEF NeptunInv, RestOK
  <2>2. CASE Head(chain).channel # "rest"
    BY <2>2, Stays DEF Handled
  <2> QED
    BY <2>1, <2>2
<1> QED
  BY <1>3, <1>4

-----------------------------------------------------------------------------
(* Every action keeps the invariant *)

LEMMA ProviderKeeps ==
  ASSUME NeptunInv, NEW s \in AlertSets, NEW u \in Stamps(Current + 1), ProviderChange(s, u)
  PROVE  NeptunInv'
<1>1. /\ HistOK' /\ Current' = Current + 1
      /\ \A v \in Version : v \in Version' /\ hist'[v].set = hist[v].set
      /\ \A v, t : t \in Int /\ t - StreamDelay <= now /\ Observed(v, t) => Observed(v, t)'
      /\ \A x, t : t \in Int /\ t - StreamDelay <= now /\ Carries(x, t) => Carries(x, t)'
  BY Changed DEF NeptunInv
<1>2. now \in Nat /\ StreamDelay \in Nat /\ now' = now /\ Current \in Nat
  BY NeptunAssumption, Versions DEF NeptunInv, HistOK, ProviderChange
<1>3. RestOK'
  <2>1. rest' = rest /\ rest \in RestState
    BY DEF ProviderChange, NeptunInv, RestOK
  <2>2. rest.pc = "answered" => rest.at \in Nat /\ rest.at - StreamDelay <= now
    BY <1>2, <2>1 DEF NeptunInv, RestOK, RestState
  <2> QED
    BY <1>1, <1>2, <2>1, <2>2 DEF NeptunInv, RestOK
<1>4. ChainOK'
  <2>1. chain' = chain /\ chain \in Seq(Event)
    BY DEF ProviderChange, NeptunInv, ChainOK
  <2>2. \A k \in 1..Len(chain) : chain[k].obs \in Nat
    <3>1. \A k \in 1..Len(chain) : chain[k] \in Event
      BY <2>1, ElementOfSeq
    <3> QED
      BY <3>1 DEF Event
  <2>3. \A k \in 1..Len(chain) : chain[k].obs - StreamDelay <= now
    BY <1>2, <2>2 DEF NeptunInv, ChainOK
  <2> QED
    BY <1>1, <1>2, <2>1, <2>2, <2>3 DEF NeptunInv, ChainOK
<1>5. RowsOK'
  <2>1. rows' = rows /\ shown' = shown /\ rows \in [Area -> AlertRow]
    BY DEF ProviderChange, NeptunInv, RowsOK
  <2>2. \A a \in Area : rows[a].success \in Int /\ rows[a].success - StreamDelay <= now
    <3>1. \A a \in Area : rows[a].success \in Nat \cup {Never} /\ rows[a].success <= now
      BY <2>1 DEF NeptunInv, RowsOK, AlertRow
    <3> QED
      BY <1>2, <3>1 DEF Never
  <2>3. \A a \in Area : rows[a].state # "absent" => Observed(shown, rows[a].success)'
    BY <1>1, <2>1, <2>2 DEF NeptunInv, RowsOK
  <2>4. \A a \in Area : Says(shown, a)' = Says(shown, a)
    BY <1>1, <2>1 DEF NeptunInv, RowsOK, Says
  <2>5. ProjectionFaithful'
    BY <2>1, <2>4 DEF NeptunInv, RowsOK, ProjectionFaithful
  <2>6. (shown = NoVersion \/ shown \in Version)'
    BY <1>1, <2>1 DEF NeptunInv, RowsOK
  <2> QED
    BY <1>2, <2>1, <2>3, <2>5, <2>6 DEF NeptunInv, RowsOK
<1>6. GuardOK'
  <2>1. UNCHANGED <<shown, health, last, aging>> /\ health \in Health
    BY DEF ProviderChange, NeptunInv, GuardOK
  <2>2. health.success \in Int /\ health.success - StreamDelay <= now
    BY <1>2 DEF NeptunInv, GuardOK, Health, Never
  <2> QED
    BY <1>1, <1>2, <2>1, <2>2 DEF NeptunInv, GuardOK
<1>7. WireOK'
  <2> DEFINE f == [ver |-> Current + 1, updatedAt |-> u, sent |-> now]
  <2>1. wire \in Seq(FrameSet) /\ f \in FrameSet /\ f.sent = now /\ f.ver = Current + 1 /\ f.updatedAt = u
    BY <1>2 DEF NeptunInv, WireOK, FrameSet, Stamps
  <2>2. /\ Append(wire, f) \in Seq(FrameSet) /\ Len(Append(wire, f)) = Len(wire) + 1 /\ Len(wire) \in Nat
        /\ Append(wire, f)[Len(wire) + 1] = f /\ \A k \in 1..Len(wire) : Append(wire, f)[k] = wire[k]
    BY <2>1, AppendProperties, LenProperties
  <2>3. \A k \in 1..Len(wire) : wire[k].sent \in Nat
    <3>1. \A k \in 1..Len(wire) : wire[k] \in FrameSet
      BY <2>1, ElementOfSeq
    <3> QED
      BY <3>1 DEF FrameSet
  <2>4. ASSUME NEW x, NEW k \in 1..Len(wire), x = wire[k]
        PROVE  x.sent <= now /\ now <= x.sent + StreamDelay /\ Carries(x, x.sent + StreamDelay)'
    <3>1. x.sent <= now /\ now <= x.sent + StreamDelay /\ Carries(x, x.sent + StreamDelay)
      BY <2>4 DEF NeptunInv, WireOK
    <3>2. x.sent + StreamDelay \in Int /\ (x.sent + StreamDelay) - StreamDelay <= now
      BY <1>2, <2>3, <2>4, <3>1
    <3> QED
      BY <1>1, <3>1, <3>2
  <2>5. /\ f.sent <= now /\ now <= f.sent + StreamDelay
        /\ \A x : x = f => Carries(x, x.sent + StreamDelay)'
    <3>1. Current + 1 \in Version'
      BY <1>1, Versions DEF Version, Current, HistOK
    <3> QED
      BY <1>1, <1>2, <2>1, <3>1 DEF Carries, Observed, Stamps
  <2>6. CASE wire' = wire
    BY <1>2, <2>1, <2>4, <2>6 DEF WireOK
  <2>7. CASE wire' = Append(wire, f)
    <3>1. ASSUME NEW k \in 1..Len(wire')
          PROVE  /\ wire'[k].sent <= now /\ now <= wire'[k].sent + StreamDelay
                 /\ Carries(wire[k], wire[k].sent + StreamDelay)'
      <4>1. CASE k \in 1..Len(wire)
        BY <2>2, <2>4, <2>7, <4>1
      <4>2. CASE k = Len(wire) + 1
        BY <2>2, <2>5, <2>7, <4>2
      <4> QED
        BY <2>2, <2>7, <4>1, <4>2
    <3> QED
      BY <1>2, <2>2, <2>7, <3>1 DEF WireOK
  <2> QED
    BY <2>6, <2>7 DEF ProviderChange
<1> QED
  BY <1>1, <1>3, <1>4, <1>5, <1>6, <1>7 DEF NeptunInv

\* Nothing that was sent stays under way for longer than the delay.
LEMMA TickKeeps ==
  ASSUME NeptunInv, Tick
  PROVE  NeptunInv'
<1>1. /\ \A v, t : Observed(v, t)' = Observed(v, t)
      /\ \A x, t : Carries(x, t)' = Carries(x, t)
  BY SamePast DEF Tick
<1>2. now' = now + 1 /\ now \in Nat /\ UNCHANGED <<hist, sock, wire, rest, chain, last, rows, shown, health, aging, crashes>>
  BY DEF Tick, NeptunInv, HistOK
<1>3. HistOK'
  BY <1>2 DEF NeptunInv, HistOK
<1>4. WireOK'
  <2>1. wire \in Seq(FrameSet) /\ DOMAIN wire = 1..Len(wire)
    BY LenProperties DEF NeptunInv, WireOK
  <2>2. ASSUME NEW k \in 1..Len(wire)
        PROVE  wire[k].sent <= now + 1 /\ now + 1 <= wire[k].sent + StreamDelay
    <3>1. wire[k].sent \in Nat
      <4>1. wire[k] \in FrameSet
        BY <2>1, ElementOfSeq
      <4> QED
        BY <4>1 DEF FrameSet
    <3>2. wire[k].sent <= now /\ now < wire[k].sent + StreamDelay
      BY <2>1 DEF NeptunInv, WireOK, Tick
    <3> QED
      BY <1>2, <3>1, <3>2, NeptunAssumption
  <2> QED
    BY <1>1, <1>2, <2>2 DEF NeptunInv, WireOK
<1>5. RestOK'
  BY <1>1, <1>2 DEF NeptunInv, RestOK, RestState, Never
<1>6. ChainOK'
  <2>1. ASSUME NEW k \in 1..Len(chain)
        PROVE  chain[k].obs <= now + 1
    <3>1. chain[k] \in Event /\ chain[k].obs <= now
      BY ElementOfSeq DEF NeptunInv, ChainOK
    <3> QED
      BY <1>2, <3>1 DEF Event
  <2> QED
    BY <1>1, <1>2, <2>1 DEF NeptunInv, ChainOK
<1>7. RowsOK'
  <2>1. ASSUME NEW a \in Area
        PROVE  rows[a].success <= now + 1
    <3>1. rows[a] \in AlertRow /\ rows[a].success <= now
      BY DEF NeptunInv, RowsOK
    <3> QED
      BY <1>2, <3>1 DEF AlertRow, Never
  <2>2. UNCHANGED <<hist, shown, rows>> /\ \A a \in Area : Says(shown, a)' = Says(shown, a)
    BY DEF Tick, Says
  <2>3. ProjectionFaithful' /\ (shown = NoVersion \/ shown \in Version)'
    BY <2>2 DEF NeptunInv, RowsOK, ProjectionFaithful, Version
  <2> QED
    BY <1>1, <1>2, <2>1, <2>2, <2>3 DEF NeptunInv, RowsOK
<1>8. GuardOK'
  BY <1>1, <1>2 DEF NeptunInv, GuardOK, Health, Never
<1> QED
  BY <1>3, <1>4, <1>5, <1>6, <1>7, <1>8 DEF NeptunInv

LEMMA RefreshedKeeps ==
  ASSUME NeptunInv, UNCHANGED <<now, hist>>, rest' = Refreshed
  PROVE  RestOK'
<1>1. rest \in RestState
  BY DEF NeptunInv, RestOK
<1>2. CASE rest.pc = "idle"
  <2>1. rest' \in RestState /\ rest'.pc = "waiting" /\ rest'.at = rest.at
    BY <1>1, <1>2 DEF Refreshed, RestState
  <2> QED
    BY <2>1 DEF NeptunInv, RestOK
<1>3. CASE rest.pc # "idle"
  BY <1>3, Stays DEF Refreshed
<1> QED
  BY <1>2, <1>3

\* A request that is answered is answered with the set of that moment, which is no
\* older than the moment it started.
LEMMA RestKeeps ==
  ASSUME NeptunInv, Poll \/ RestStart \/ (\E u \in Stamps(Current) : RestAnswer(u)) \/ RestArrive \/ RestFail
  PROVE  NeptunInv'
<1>1. UNCHANGED <<now, hist, sock, wire, last, rows, shown, health, aging, crashes>>
  BY DEF Poll, RestStart, RestAnswer, RestArrive, RestFail
<1>2. HistOK' /\ WireOK' /\ RowsOK' /\ GuardOK'
  BY <1>1, Stays
<1>3. /\ now \in Nat /\ rest \in RestState /\ rest.at <= now
      /\ rest.pc \in {"asked", "answered"} => rest.at \in Nat
  BY DEF NeptunInv, HistOK, RestOK, RestState
<1>4. CASE Poll
  BY <1>1, <1>2, <1>4, RefreshedKeeps, Stays DEF Poll, NeptunInv
<1>5. CASE RestStart
  <2>1. rest' \in RestState /\ rest'.pc = "asked" /\ rest'.at = now
    BY <1>3, <1>5 DEF RestStart, RestState
  <2>2. RestOK'
    BY <1>1, <1>3, <2>1 DEF RestOK, Never
  <2> QED
    BY <1>1, <1>2, <1>5, <2>2, Stays DEF RestStart, NeptunInv
<1>6. ASSUME NEW u \in Stamps(Current), RestAnswer(u)
      PROVE  NeptunInv'
  <2>1. Current \in Nat /\ Current \in Version
    BY Versions DEF NeptunInv
  <2>2. u \in Nat
    BY <2>1 DEF Stamps
  <2>3. /\ rest' \in RestState /\ rest'.pc = "answered" /\ rest'.at = rest.at
        /\ rest'.ver = Current /\ rest'.updatedAt = u
    BY <1>3, <1>6, <2>1, <2>2 DEF RestAnswer, RestState
  <2>4. Carries(rest, rest.at)'
    BY <1>1, <2>1, <2>3 DEF Carries, Observed, Version, Current
  <2>5. RestOK'
    <3>1. rest.at \in Nat /\ rest.at <= now /\ now' = now
      BY <1>1, <1>3, <1>6 DEF RestAnswer
    <3> QED
      BY <2>3, <2>4, <3>1 DEF RestOK, Never
  <2> QED
    BY <1>1, <1>2, <1>6, <2>5, Stays DEF RestAnswer, NeptunInv
<1>7. CASE RestArrive \/ RestFail
  <2> DEFINE e == IF RestArrive
                  THEN [type |-> "snapshot", channel |-> "rest", obs |-> rest.at,
                        ver |-> rest.ver, updatedAt |-> rest.updatedAt]
                  ELSE [type |-> "failure", channel |-> "rest", obs |-> rest.at,
                        ver |-> NoVersion, updatedAt |-> 0]
  <2>1. Emit(e)
    BY <1>7 DEF RestArrive, RestFail
  <2>2. e \in Event /\ e.obs = rest.at
    BY <1>3, <1>7 DEF Event, RestState, RestArrive, RestFail, NoVersion
  <2>3. e.type = "snapshot" => Carries(e, e.obs)
    BY <1>7, <2>2 DEF NeptunInv, RestOK, Carries, RestArrive
  <2> HIDE DEF e
  <2>4. ChainOK'
    BY <1>1, <1>3, <2>1, <2>2, <2>3, EmitKeeps
  <2>5. rest' \in RestState /\ rest'.pc = "queued" /\ rest'.at = rest.at
    <3>1. rest' = [rest EXCEPT !.pc = "queued", !.ver = NoVersion, !.updatedAt = 0]
      BY <1>7 DEF RestArrive, RestFail
    <3> QED
      BY <1>3, <3>1 DEF RestState, NoVersion
  <2>6. RestOK'
    BY <1>1, <1>3, <2>5 DEF RestOK
  <2> QED
    BY <1>2, <2>4, <2>6 DEF NeptunInv
<1> QED
  BY <1>4, <1>5, <1>6, <1>7

\* A stream that opens starts with the current set, and a frame is observed while it is
\* at most StreamDelay old.
LEMMA StreamKeeps ==
  ASSUME NeptunInv,
         (\E u \in Stamps(Current) : SocketOpen(u)) \/ SocketClose \/ (\E valid \in BOOLEAN : Frame(valid))
  PROVE  NeptunInv'
<1>1. UNCHANGED <<now, hist, last, rows, shown, health, aging, crashes>>
  BY DEF SocketOpen, SocketClose, Frame
<1>2. HistOK' /\ RowsOK' /\ GuardOK'
  BY <1>1, Stays
<1>3. now \in Nat /\ StreamDelay \in Nat
  BY NeptunAssumption DEF NeptunInv, HistOK
<1>4. \A x, t : Carries(x, t)' = Carries(x, t)
  BY <1>1, SamePast
<1>5. ASSUME NEW u \in Stamps(Current), SocketOpen(u)
      PROVE  NeptunInv'
  <2> DEFINE f == [ver |-> Current, updatedAt |-> u, sent |-> now]
  <2>1. Current \in Nat /\ Current \in Version /\ u \in Nat
    <3>1. Current \in Nat /\ Current \in Version
      BY Versions DEF NeptunInv
    <3> QED
      BY <3>1 DEF Stamps
  <2>2. f \in FrameSet /\ f.sent = now /\ Carries(f, f.sent + StreamDelay)
    BY <1>3, <2>1 DEF FrameSet, Carries, Observed
  <2>3. wire' = <<f>>
    BY <1>5 DEF SocketOpen
  <2> HIDE DEF f
  <2>4. wire' \in Seq(FrameSet) /\ Len(wire') = 1 /\ wire'[1] = f
    BY <2>2, <2>3
  <2>5. ASSUME NEW k \in 1..Len(wire')
        PROVE  /\ wire'[k].sent <= now /\ now <= wire'[k].sent + StreamDelay
               /\ Carries(wire[k], wire[k].sent + StreamDelay)'
    BY <1>3, <1>4, <2>2, <2>4
  <2>6. WireOK'
    BY <1>1, <2>4, <2>5 DEF WireOK
  <2>7. RestOK' /\ ChainOK'
    BY <1>1, <1>5, RefreshedKeeps, Stays DEF SocketOpen
  <2> QED
    BY <1>2, <2>6, <2>7 DEF NeptunInv
<1>6. CASE SocketClose
  <2>1. WireOK'
    <3>1. wire' = <<>> /\ <<>> \in Seq(FrameSet) /\ Len(<<>>) = 0
      BY <1>6 DEF SocketClose
    <3> QED
      BY <3>1 DEF WireOK
  <2> QED
    BY <1>1, <1>2, <1>6, <2>1, Stays DEF SocketClose, NeptunInv
<1>7. ASSUME NEW valid \in BOOLEAN, Frame(valid)
      PROVE  NeptunInv'
  <2> DEFINE f == Head(wire)
             e == [type |-> IF valid THEN "snapshot" ELSE "failure", channel |-> "ws",
                   obs |-> now, ver |-> IF valid THEN f.ver ELSE NoVersion,
                   updatedAt |-> IF valid THEN f.updatedAt ELSE 0]
  <2>1. wire # <<>> /\ wire' = Tail(wire) /\ Emit(e) /\ UNCHANGED <<sock, rest>>
    BY <1>7 DEF Frame
  <2>2. /\ wire \in Seq(FrameSet) /\ Len(wire) \in Nat \ {0}
        /\ Tail(wire) \in Seq(FrameSet) /\ Len(Tail(wire)) = Len(wire) - 1
        /\ \A k \in 1..Len(Tail(wire)) : Tail(wire)[k] = wire[k + 1]
    BY <2>1, HeadTailProperties, EmptySeq DEF NeptunInv, WireOK
  <2>3. f \in FrameSet /\ f.sent <= now /\ now <= f.sent + StreamDelay /\ Carries(f, f.sent + StreamDelay)
    <3>1. f = wire[1] /\ 1 \in 1..Len(wire)
      BY <2>2
    <3>2. f \in FrameSet
      BY <2>2, <3>1, ElementOfSeq
    <3> QED
      BY <3>1, <3>2 DEF NeptunInv, WireOK
  <2>4. Carries(f, now)
    <3>1. f.ver \in Version => hist[f.ver].until \in Nat
      BY Versions DEF NeptunInv
    <3>2. f.sent \in Nat
      BY <2>3 DEF FrameSet
    <3> QED
      BY <1>3, <2>3, <3>1, <3>2 DEF Carries, Observed
  <2>5. e \in Event /\ e.obs = now /\ (e.type = "snapshot" => e.ver = f.ver /\ e.updatedAt = f.updatedAt)
    BY <1>3, <2>3 DEF Event, FrameSet, NoVersion
  <2> HIDE DEF f, e
  <2>6. e.type = "snapshot" => Carries(e, e.obs)
    BY <2>4, <2>5 DEF Carries
  <2>7. ChainOK'
    BY <1>1, <1>3, <2>1, <2>5, <2>6, EmitKeeps
  <2>8. ASSUME NEW k \in 1..Len(wire')
        PROVE  /\ wire'[k].sent <= now /\ now <= wire'[k].sent + StreamDelay
               /\ Carries(wire[k], wire[k].sent + StreamDelay)'
    <3>1. wire'[k] = wire[k + 1] /\ k + 1 \in 1..Len(wire)
      BY <2>1, <2>2
    <3> QED
      BY <1>4, <3>1 DEF NeptunInv, WireOK
  <2>9. WireOK'
    BY <1>1, <2>1, <2>2, <2>8 DEF WireOK
  <2> QED
    BY <1>1, <1>2, <2>1, <2>7, <2>9, Stays DEF NeptunInv
<1> QED
  BY <1>5, <1>6, <1>7

\* What an accepted set makes of the row of an area: the row says what the set says, and
\* its stamp moves exactly when that is news, also behind our own ageing mark.
LEMMA ProjectedRow ==
  ASSUME NeptunInv, NEW a \in Area, NEW alert \in Said, NEW obs \in Nat, NEW setTime \in ChangeTime,
         NEW r, r = Projected(a, alert, obs, setTime), NEW was, was = Says(shown, a)
  PROVE  /\ r \in AlertRow
         /\ r.state = "absent" => r = NoRow
         /\ r.state # "absent" => r.success = obs
         /\ r.level = alert.level /\ r.since = alert.since
         /\ r.state = "active" => alert.level > 0
         /\ r.state \in {"inactive", "absent"} => alert.level = 0
         /\ r.stamp = IF alert = was THEN rows[a].stamp
                      ELSE IF was.level = 0 THEN StartTime(alert.since, setTime) ELSE setTime
<1> DEFINE state == IF alert.level > 0 THEN "active" ELSE "inactive"
           exists == rows[a].state # "absent"
           changed == /\ exists \/ alert.level > 0
                      /\ \/ Previous(a) # state
                         \/ rows[a].level # alert.level \/ rows[a].since # alert.since
           stamp == IF ~changed THEN rows[a].stamp
                    ELSE IF state = "active" /\ Previous(a) # "active"
                    THEN StartTime(alert.since, setTime)
                    ELSE setTime
           new == [state |-> state, level |-> alert.level, since |-> alert.since,
                   freshness |-> "fresh", success |-> obs, stamp |-> stamp]
<1>1. r = IF a \in Tracked \/ exists \/ alert.level > 0 THEN new ELSE NoRow
  BY DEF Projected
<1>2. /\ rows[a] \in AlertRow /\ rows[a].stamp \in ChangeTime
      /\ rows[a].state \in {"absent", "active", "inactive", "unknown"}
      /\ rows[a].state = "absent" => rows[a] = NoRow
      /\ rows[a].level = was.level /\ rows[a].since = was.since
      /\ rows[a].state = "active" => was.level > 0
      /\ rows[a].state \in {"inactive", "absent"} => was.level = 0
  BY DEF NeptunInv, RowsOK, AlertRow, AreaState, ProjectionFaithful
<1>3. /\ was \in Said /\ was.level \in Nat /\ was.since \in Nat /\ (was.level = 0 => was.since = 0)
      /\ alert.level \in Nat /\ alert.since \in Nat /\ (alert.level = 0 => alert.since = 0)
      /\ alert = was <=> (alert.level = was.level /\ alert.since = was.since)
  <2>1. was \in Said
    BY SaysAlert DEF NeptunInv, RowsOK
  <2> QED
    BY <2>1 DEF Said
<1>4. Previous(a) = "active" <=> was.level > 0
  BY <1>2, <1>3 DEF Previous
<1>5. exists => Previous(a) = IF was.level > 0 THEN "active" ELSE "inactive"
  BY <1>2, <1>3 DEF Previous
<1>6. changed <=> alert # was
  <2>1. CASE alert = was
    <3>1. exists \/ alert.level = 0
      BY <1>2, <1>3, <2>1
    <3>2. exists => Previous(a) = state
      BY <1>5, <2>1
    <3> QED
      BY <1>2, <1>3, <2>1, <3>1, <3>2
  <2>2. CASE alert # was
    <3>1. exists \/ alert.level > 0
      BY <1>2, <1>3, <2>2
    <3> QED
      BY <1>2, <1>3, <2>2, <3>1
  <2> QED
    BY <2>1, <2>2
<1>7. stamp = IF alert = was THEN rows[a].stamp
              ELSE IF was.level = 0 THEN StartTime(alert.since, setTime) ELSE setTime
  <2> HIDE DEF changed
  <2>1. alert # was /\ was.level = 0 => state = "active"
    BY <1>3
  <2> QED
    BY <1>3, <1>4, <1>6, <2>1
<1>8. StartTime(alert.since, setTime) \in ChangeTime
  BY <1>3 DEF StartTime, ChangeTime
<1>9. stamp \in ChangeTime
  BY <1>2, <1>7, <1>8
<1> HIDE DEF stamp
<1>10. /\ NoRow \in AlertRow /\ NoRow.level = 0 /\ NoRow.since = 0 /\ NoRow.state = "absent"
       /\ NoRow.stamp = NoChange
  BY DEF NoRow, AlertRow, AreaState, ChangeTime, NoChange, Never
<1>11. CASE r = NoRow /\ ~(exists \/ alert.level > 0)
  BY <1>2, <1>3, <1>10, <1>11
<1>12. CASE r = new
  <2>1. /\ new.state = state /\ new.level = alert.level /\ new.since = alert.since
        /\ new.success = obs /\ new.stamp = stamp
    OBVIOUS
  <2>2. new \in AlertRow
    BY <1>3, <1>9 DEF AlertRow, AreaState
  <2>3. state # "absent" /\ (state = "active" <=> alert.level > 0) /\ (state = "inactive" => alert.level = 0)
    BY <1>3
  <2> HIDE DEF new, state
  <2> QED
    BY <1>7, <1>12, <2>1, <2>2, <2>3
<1> QED
  BY <1>1, <1>11, <1>12

\* The step that applies a set, in full.
LEMMA ApplySays ==
  ASSUME NeptunInv, Apply
  PROVE  LET e == Head(chain)
         IN  /\ e \in Event /\ e.type = "snapshot" /\ e.obs <= now /\ Carries(e, e.obs)
             /\ UNCHANGED <<now, hist, wire, aging>> /\ chain # <<>> /\ Handled /\ ~OutOfOrder(e)
             /\ e.ver \in Version
             /\ rows' = [a \in Area |-> Projected(a, Says(e.ver, a), e.obs, SetTime(e.obs, e.updatedAt))]
             /\ shown' = e.ver /\ health' = Succeeded(e.obs)
             /\ last' = [obs |-> e.obs, updatedAt |-> e.updatedAt]
<1>1. Head(chain).ver \in Version
  BY HeadHonest DEF Apply, Carries, Observed
<1> QED
  BY <1>1, HeadHonest DEF Apply

LEMMA ApplyRows ==
  ASSUME NeptunInv, Apply, NEW a \in Area
  PROVE  LET e == Head(chain)
         IN  /\ rows'[a] = Projected(a, Says(e.ver, a), e.obs, SetTime(e.obs, e.updatedAt))
             /\ Says(e.ver, a) \in Said /\ Says(e.ver, a) = Says(shown, a)'
             /\ e.obs \in Nat /\ SetTime(e.obs, e.updatedAt) \in ChangeTime
<1> DEFINE e == Head(chain)
<1>1. /\ rows'[a] = Projected(a, Says(e.ver, a), e.obs, SetTime(e.obs, e.updatedAt))
      /\ e.ver \in Version /\ e.obs \in Nat /\ e.updatedAt \in Nat /\ hist' = hist /\ shown' = e.ver
  BY ApplySays DEF Event
<1> HIDE DEF e
<1>2. Says(e.ver, a) \in Said
  BY <1>1, SaysAlert DEF NeptunInv
<1>3. Says(e.ver, a) = Says(shown, a)'
  BY <1>1 DEF Says
<1>4. SetTime(e.obs, e.updatedAt) \in ChangeTime
  BY <1>1 DEF SetTime, ChangeTime
<1> QED
  BY <1>1, <1>2, <1>3, <1>4 DEF e

LEMMA ApplyKeeps ==
  ASSUME NeptunInv, Apply
  PROVE  NeptunInv'
<1> DEFINE e == Head(chain)
<1>1. /\ e \in Event /\ e.type = "snapshot" /\ e.obs <= now /\ Carries(e, e.obs)
      /\ UNCHANGED <<now, hist, wire, aging>> /\ chain # <<>> /\ Handled
      /\ shown' = e.ver /\ health' = Succeeded(e.obs)
      /\ last' = [obs |-> e.obs, updatedAt |-> e.updatedAt]
      /\ DOMAIN rows' = Area /\ rows' = [a \in Area |-> rows'[a]]
  BY ApplySays
<1>2. ASSUME NEW a \in Area
      PROVE  /\ rows'[a] \in AlertRow
             /\ rows'[a].state = "absent" => rows'[a] = NoRow
             /\ rows'[a].state # "absent" => rows'[a].success = e.obs
             /\ LET says == Says(shown, a)'
                IN  /\ rows'[a].level = says.level /\ rows'[a].since = says.since
                    /\ rows'[a].state = "active" => says.level > 0
                    /\ rows'[a].state \in {"inactive", "absent"} => says.level = 0
  <2> HIDE DEF e
  <2>1. PICK r : r = rows'[a]
    OBVIOUS
  <2>2. PICK alert : alert = Says(shown, a)'
    OBVIOUS
  <2>3. PICK setTime : setTime = SetTime(e.obs, e.updatedAt)
    OBVIOUS
  <2>4. r = Projected(a, alert, e.obs, setTime) /\ alert \in Said /\ e.obs \in Nat /\ setTime \in ChangeTime
    BY <2>1, <2>2, <2>3, ApplyRows DEF e
  <2>5. /\ r \in AlertRow /\ (r.state = "absent" => r = NoRow)
        /\ r.state # "absent" => r.success = e.obs
        /\ r.level = alert.level /\ r.since = alert.since
        /\ r.state = "active" => alert.level > 0
        /\ r.state \in {"inactive", "absent"} => alert.level = 0
    BY <2>4, ProjectedRow
  <2> QED
    BY <2>1, <2>2, <2>5
<1>3. e.obs \in Nat /\ e.ver \in Nat /\ e.updatedAt \in Nat /\ now \in Nat
  BY <1>1 DEF Event, NeptunInv, HistOK
<1>4. \A v, t : Observed(v, t)' = Observed(v, t)
  BY <1>1, SamePast
<1> HIDE DEF e
<1>5. Observed(e.ver, e.obs) /\ e.updatedAt \in Stamps(e.ver)
  BY <1>1 DEF Carries
<1>6. RowsOK'
  <2>1. NoRow.success <= now
    BY <1>3 DEF NoRow, Never
  <2>2. \A a \in Area : rows'[a].success <= now /\ (rows'[a].state # "absent" => rows'[a].success # Never /\ Observed(shown, rows[a].success)')
    BY <1>1, <1>2, <1>3, <1>4, <1>5, <2>1 DEF Never
  <2>3. rows' \in [Area -> AlertRow]
    BY <1>1, <1>2
  <2>4. ProjectionFaithful'
    BY <1>2 DEF ProjectionFaithful
  <2>5. (shown = NoVersion \/ shown \in Version)'
    BY <1>1, <1>5 DEF Observed, Version
  <2> QED
    BY <1>1, <1>2, <1>3, <2>2, <2>3, <2>4, <2>5 DEF RowsOK
<1>7. GuardOK'
  <2>1. health' \in Health /\ health'.success = e.obs /\ health'.error = Never
    BY <1>1, <1>3 DEF Succeeded, Health
  <2>2. last' \in Ordered /\ last'.updatedAt = e.updatedAt
    BY <1>1, <1>3 DEF Ordered
  <2> QED
    BY <1>1, <1>3, <1>4, <1>5, <2>1, <2>2 DEF GuardOK, NeptunInv
<1> QED
  BY <1>1, <1>6, <1>7, HandledKeeps, Stays DEF NeptunInv

\* An event that counts for nothing leaves everything else as it was.
LEMMA DropKeeps ==
  ASSUME NeptunInv, Drop \/ HandlerFails
  PROVE  NeptunInv'
<1>1. /\ UNCHANGED <<now, hist, sock, wire, last, rows, shown, health, aging, crashes>>
      /\ chain # <<>> /\ Handled
  BY DEF Drop, HandlerFails
<1>2. ChainOK' /\ RestOK'
  BY <1>1, HandledKeeps
<1>3. HistOK' /\ WireOK' /\ RowsOK' /\ GuardOK'
  BY <1>1, Stays
<1> QED
  BY <1>2, <1>3 DEF NeptunInv

\* A failure is recorded only when it is no older than the set in force.
LEMMA FailureKeeps ==
  ASSUME NeptunInv, RecordFailure
  PROVE  NeptunInv'
<1> DEFINE e == Head(chain)
<1>1. /\ UNCHANGED <<now, hist, sock, wire, last, rows, shown, aging, crashes>>
      /\ chain # <<>> /\ Handled /\ ~LateFailure(e) /\ health' = Failed(e.obs)
  BY DEF RecordFailure
<1>2. e \in Event /\ health \in Health
  BY <1>1, HeadHonest DEF NeptunInv, GuardOK
<1> HIDE DEF e
<1>3. e.obs \in Nat
  BY <1>2 DEF Event
<1>4. health' \in Health /\ health'.success = health.success /\ health'.error = e.obs
  BY <1>1, <1>2, <1>3 DEF Failed, Health
<1>5. \A v, t : Observed(v, t)' = Observed(v, t)
  BY <1>1, SamePast
<1>6. last # Nothing => last.obs \in Nat /\ e.obs >= last.obs
  <2>1. last # Nothing => last.obs \in Nat
    BY DEF NeptunInv, GuardOK, Ordered
  <2> QED
    BY <1>1, <1>3, <2>1 DEF LateFailure
<1>7. GuardOK'
  BY <1>1, <1>4, <1>5, <1>6 DEF NeptunInv, GuardOK
<1>8. ChainOK' /\ RestOK'
  BY <1>1, HandledKeeps
<1>9. HistOK' /\ WireOK' /\ RowsOK'
  BY <1>1, Stays
<1> QED
  BY <1>7, <1>8, <1>9 DEF NeptunInv

\* What ageing does to a row: it marks it, and keeps what the provider said.
LEMMA AgedRow ==
  ASSUME NeptunInv, AgeToUnknown \/ AgeToStale, NEW a \in Area
  PROVE  /\ rows'[a] \in AlertRow
         /\ rows'[a].success = rows[a].success
         /\ rows'[a].level = rows[a].level /\ rows'[a].since = rows[a].since
         /\ rows'[a].stamp = rows[a].stamp
         /\ rows'[a].state = "absent" <=> rows[a].state = "absent"
         /\ rows[a].state = "absent" => rows'[a] = rows[a]
         /\ rows'[a].state \in {rows[a].state, "unknown"}
<1>1. rows[a] \in AlertRow /\ (rows[a].state = "absent" => rows[a].freshness = "unknown")
  BY DEF NeptunInv, RowsOK, NoRow
<1>2. \/ rows'[a] = rows[a]
      \/ /\ rows[a].freshness # "unknown"
         /\ rows'[a] = [rows[a] EXCEPT !.freshness = "unknown", !.state = "unknown"]
      \/ /\ rows[a].freshness # "unknown"
         /\ rows'[a] = [rows[a] EXCEPT !.freshness = "stale"]
  BY DEF AgeToUnknown, AgeToStale
<1>3. CASE rows'[a] = rows[a]
  BY <1>1, <1>3
<1>4. CASE /\ rows[a].freshness # "unknown"
           /\ rows'[a] = [rows[a] EXCEPT !.freshness = "unknown", !.state = "unknown"]
  BY <1>1, <1>4 DEF AlertRow, AreaState
<1>5. CASE /\ rows[a].freshness # "unknown"
           /\ rows'[a] = [rows[a] EXCEPT !.freshness = "stale"]
  BY <1>1, <1>5 DEF AlertRow, AreaState
<1> QED
  BY <1>2, <1>3, <1>4, <1>5

LEMMA AgeKeeps ==
  ASSUME NeptunInv, AgeToUnknown \/ AgeToStale
  PROVE  NeptunInv'
<1>1. /\ UNCHANGED <<now, hist, sock, wire, rest, chain, last, shown, health, crashes>>
      /\ aging' \in {now, Never}
      /\ DOMAIN rows' = Area /\ rows' = [a \in Area |-> rows'[a]]
  BY DEF AgeToUnknown, AgeToStale
<1>2. HistOK' /\ WireOK' /\ RestOK' /\ ChainOK'
  BY <1>1, Stays
<1>3. \A v, t : Observed(v, t)' = Observed(v, t)
  BY <1>1, SamePast
<1>4. RowsOK'
  <2>1. rows' \in [Area -> AlertRow]
    BY <1>1, AgedRow
  <2>2. ASSUME NEW a \in Area
        PROVE  /\ rows'[a].success <= now
               /\ rows'[a].state = "absent" => rows'[a] = NoRow
               /\ rows'[a].state # "absent" =>
                    rows'[a].success # Never /\ Observed(shown, rows'[a].success)
    BY AgedRow DEF NeptunInv, RowsOK
  <2>3. \A a \in Area : Observed(shown, rows[a].success)' = Observed(shown, rows'[a].success)
    BY <1>1 DEF Observed, Version, Current
  <2>4. \A a \in Area : Says(shown, a)' = Says(shown, a)
    BY <1>1 DEF Says
  <2>5. ProjectionFaithful'
    BY <2>4, AgedRow DEF NeptunInv, RowsOK, ProjectionFaithful
  <2> QED
    BY <1>1, <2>1, <2>2, <2>3, <2>5 DEF NeptunInv, RowsOK, Version
<1>5. GuardOK'
  <2>1. aging' \in Nat \cup {Never}
    BY <1>1 DEF NeptunInv, HistOK
  <2> QED
    BY <1>1, <1>3, <2>1 DEF NeptunInv, GuardOK
<1> QED
  BY <1>2, <1>4, <1>5 DEF NeptunInv

\* A new process knows nothing and promises nothing; the tables are as they were.
LEMMA CrashKeeps ==
  ASSUME NeptunInv, Crash
  PROVE  NeptunInv'
<1>1. /\ UNCHANGED <<now, hist, rows, shown, health>>
      /\ wire' = <<>> /\ rest' = FreshRest /\ chain' = <<>> /\ last' = Nothing /\ aging' = Never
  BY DEF Crash
<1>2. HistOK' /\ RowsOK'
  BY <1>1, Stays
<1>3. now \in Nat
  BY DEF NeptunInv, HistOK
<1>4. RestOK'
  BY <1>1, <1>3 DEF RestOK, RestState, FreshRest, Never, NoVersion
<1>5. <<>> \in Seq(FrameSet) /\ <<>> \in Seq(Event) /\ Len(<<>>) = 0
  OBVIOUS
<1>6. WireOK' /\ ChainOK'
  BY <1>1, <1>5 DEF WireOK, ChainOK
<1>7. GuardOK'
  <2>1. \A v, t : Observed(v, t)' = Observed(v, t)
    BY <1>1, SamePast
  <2> QED
    BY <1>1, <2>1 DEF NeptunInv, GuardOK
<1> QED
  BY <1>2, <1>4, <1>6, <1>7 DEF NeptunInv

LEMMA NeptunInit == Init => NeptunInv
<1> SUFFICES ASSUME Init PROVE NeptunInv
  OBVIOUS
<1>1. PICK s \in AlertSets : hist = <<[set |-> s, until |-> 0]>>
  BY NeptunAssumption DEF Init
<1>2. [set |-> s, until |-> 0] \in Alerts
  BY DEF Alerts
<1>3. HistOK
  BY <1>1, <1>2 DEF Init, HistOK
<1>4. <<>> \in Seq(FrameSet) /\ <<>> \in Seq(Event) /\ Len(<<>>) = 0
  OBVIOUS
<1>5. WireOK /\ ChainOK
  BY <1>4 DEF Init, WireOK, ChainOK
<1>6. RestOK
  BY DEF Init, RestOK, RestState, FreshRest, Never, NoVersion
<1>7. RowsOK
  <2>1. NoRow \in AlertRow /\ NoRow.state = "absent" /\ NoRow.success = Never
    BY DEF NoRow, AlertRow, AreaState, ChangeTime, NoChange
  <2>2. \A a \in Area : rows[a] = NoRow
    BY DEF Init
  <2>3. ProjectionFaithful
    BY <2>2 DEF Init, ProjectionFaithful, Says, Quiet, NoRow
  <2> QED
    BY <2>1, <2>2, <2>3 DEF Init, RowsOK, NoVersion, Never
<1>8. GuardOK
  BY DEF Init, GuardOK, Health, Never
<1> QED
  BY <1>3, <1>5, <1>6, <1>7, <1>8 DEF NeptunInv

LEMMA NeptunStep == NeptunInv /\ [Next]_vars => NeptunInv'
<1> SUFFICES ASSUME NeptunInv, [Next]_vars PROVE NeptunInv'
  OBVIOUS
<1>1. ASSUME NEW s \in AlertSets, NEW u \in Stamps(Current + 1), ProviderChange(s, u)
      PROVE  NeptunInv'
  BY <1>1, ProviderKeeps
<1>2. CASE Tick
  BY <1>2, TickKeeps
<1>3. CASE Poll \/ RestStart \/ (\E u \in Stamps(Current) : RestAnswer(u)) \/ RestArrive \/ RestFail
  BY <1>3, RestKeeps
<1>4. CASE (\E u \in Stamps(Current) : SocketOpen(u)) \/ SocketClose \/ (\E valid \in BOOLEAN : Frame(valid))
  BY <1>4, StreamKeeps
<1>5. CASE Drop \/ HandlerFails
  BY <1>5, DropKeeps
<1>6. CASE Apply
  BY <1>6, ApplyKeeps
<1>7. CASE RecordFailure
  BY <1>7, FailureKeeps
<1>8. CASE AgeToUnknown \/ AgeToStale
  BY <1>8, AgeKeeps
<1>9. CASE Crash
  BY <1>9, CrashKeeps
<1>10. CASE UNCHANGED vars
  BY <1>10, Stays DEF vars, NeptunInv
<1> QED
  BY <1>1, <1>2, <1>3, <1>4, <1>5, <1>6, <1>7, <1>8, <1>9, <1>10, Zenon DEF Next

-----------------------------------------------------------------------------
(* What holds of the alerts *)

\* Whatever is on its way or written down is the provider's set of a known moment.
THEOREM NeptunInvariant == Spec => []NeptunInv
<1> QED
  BY NeptunInit, NeptunStep, PTL DEF Spec

\* Only an accepted set writes `inactive`: whatever failures, ageing and restarts do,
\* a row says what the set in force says of its area.
THEOREM FaithfulTheorem == Spec => []ProjectionFaithful
<1>1. NeptunInv => ProjectionFaithful
  BY DEF NeptunInv, RowsOK
<1> QED
  BY <1>1, NeptunInvariant, PTL

\* A recorded error is never older than the applied set.
THEOREM HealthTheorem == Spec => []HealthHonest
<1>1. NeptunInv => HealthHonest
  BY DEF NeptunInv, GuardOK, HealthHonest
<1> QED
  BY <1>1, NeptunInvariant, PTL

\* What was the provider's at a time not older than d ticks is recent.
LEMMA ObservedIsRecent ==
  ASSUME NeptunInv, NEW t \in Nat, NEW d \in Nat, Observed(shown, t), now - t <= d
  PROVE  Recent(shown, d)
<1>1. shown \in Version /\ hist[shown].until \in Nat /\ shown \in Nat \ {0} /\ now \in Nat
  BY Versions DEF NeptunInv, Observed, HistOK
<1> QED
  BY <1>1, NeptunAssumption DEF Observed, Recent, NoVersion

\* An area published as anything but unknown was seen within UnknownAfter, one published
\* as fresh within StaleAfter.
LEMMA PublishedAge ==
  ASSUME NeptunInv, NEW a \in Area, PublishedFreshness(a) # "unknown"
  PROVE  /\ rows[a].success \in Nat /\ Observed(shown, rows[a].success)
         /\ now - rows[a].success <= UnknownAfter
         /\ PublishedFreshness(a) = "fresh" => now - rows[a].success <= StaleAfter
         /\ PublishedFreshness(a) \in {"fresh", "stale"}
<1>1. AgeFreshness(rows[a].success) # "unknown"
  BY DEF PublishedFreshness, Worst
<1>2. PublishedFreshness(a) \in {"fresh", "stale"}
  BY DEF PublishedFreshness, Worst
<1>3. PublishedFreshness(a) = "fresh" => AgeFreshness(rows[a].success) # "stale"
  BY DEF PublishedFreshness, Worst
<1>4. /\ rows[a] \in AlertRow /\ (rows[a].state = "absent" => rows[a] = NoRow)
      /\ rows[a].state # "absent" => Observed(shown, rows[a].success)
      /\ now \in Nat
  BY DEF NeptunInv, HistOK, RowsOK
<1>5. rows[a].success \in Nat \cup {Never} /\ rows[a].success # Never
  BY <1>1, <1>4 DEF AgeFreshness, AlertRow
<1>6. rows[a].state # "absent"
  BY <1>4, <1>5 DEF NoRow
<1>7. /\ now - rows[a].success <= UnknownAfter
      /\ AgeFreshness(rows[a].success) # "stale" => now - rows[a].success <= StaleAfter
  BY <1>1, <1>4, <1>5, NeptunAssumption DEF AgeFreshness
<1> QED
  BY <1>2, <1>3, <1>4, <1>5, <1>6, <1>7

\* An overview is fresh only when a place of it is.
LEMMA OverviewNeedsFresh ==
  ASSUME NEW a \in Tracked \cup {Nothing}, Overview(a, Nothing, {"ok"}).freshness = "fresh"
  PROVE  \E b \in Area : PublishedFreshness(b) = "fresh"
<1> DEFINE extra == IF a = Nothing THEN {b \in Area \ Tracked : rows[b].state # "absent"} ELSE {}
           places == AlertPlaces(a) \cup extra
           alerts == ListAlerts(a)
           fs == {alerts[b].freshness : b \in DOMAIN alerts} \cup {SourcesFreshness({"ok"})}
<1>1. Worst(fs) = "fresh"
  BY DEF Overview
<1>2. DOMAIN alerts = places /\ \A b \in places : alerts[b].freshness = PublishedFreshness(b)
  BY DEF ListAlerts
<1>3. PICK b \in Area : b \in places
  <2>1. CASE a = Nothing
    BY <2>1, NeptunAssumption DEF AlertPlaces
  <2>2. CASE a # Nothing
    <3>1. a \in Tracked /\ a \in Area
      BY <2>2, NeptunAssumption
    <3> QED
      BY <2>2, <3>1 DEF AlertPlaces, Subtree
  <2> QED
    BY <2>1, <2>2
<1> HIDE DEF places, alerts
<1>4. PublishedFreshness(b) \in fs
  BY <1>2, <1>3
<1> HIDE DEF fs
<1>5. PublishedFreshness(b) \notin {"unknown", "stale"}
  BY <1>1, <1>4 DEF Worst
<1> QED
  BY <1>5 DEF PublishedFreshness, Worst

\* What is published as fresh, of an area or an overview, was the provider's set within
\* StaleAfter, what is published at all within UnknownAfter, and what a source said to be
\* well says within DegradedAfter.
THEOREM RecentTheorem == Spec => []PublishedIsRecent
<1>1. ASSUME NeptunInv PROVE PublishedIsRecent
  <2>1. StaleAfter \in Nat /\ UnknownAfter \in Nat /\ DegradedAfter \in Nat
    BY NeptunAssumption
  <2>2. ASSUME NEW a \in Area, PublishedState(a) # "unknown"
        PROVE  Recent(shown, UnknownAfter)
    <3>1. PublishedFreshness(a) # "unknown"
      BY <2>2 DEF PublishedState
    <3> QED
      BY <1>1, <2>1, <3>1, PublishedAge, ObservedIsRecent
  <2>3. ASSUME NEW a \in Area, PublishedFreshness(a) = "fresh"
        PROVE  Recent(shown, StaleAfter)
    BY <1>1, <2>1, <2>3, PublishedAge, ObservedIsRecent
  <2>4. ASSUME Availability = "ok" PROVE Recent(shown, DegradedAfter)
    <3>1. health.success # Never /\ ~(now - health.success > DegradedAfter)
      BY <2>4 DEF Availability
    <3>2. health.success \in Nat /\ Observed(shown, health.success) /\ now \in Nat
      BY <1>1, <3>1 DEF NeptunInv, HistOK, GuardOK, Health
    <3> QED
      BY <1>1, <2>1, <3>1, <3>2, ObservedIsRecent
  <2> QED
    BY <2>2, <2>3, <2>4, OverviewNeedsFresh DEF PublishedIsRecent
<1> QED
  BY <1>1, NeptunInvariant, PTL

\* The provider's change of an area is stamped when what it says of it is news and only
\* then, not by a confirmation nor by the ageing mark and the way back from it: with the
\* start of an alert that begins, otherwise with the time of the set.
THEOREM StampTheorem == Spec => StampOnChange
<1> DEFINE setTime == SetTime(last'.obs, last'.updatedAt)
           is(a) == Says(shown, a)'
           stamped == \A a \in Area :
             rows'[a].stamp = IF is(a) = Says(shown, a) THEN rows[a].stamp
                              ELSE IF Says(shown, a).level = 0 THEN StartTime(is(a).since, setTime)
                              ELSE setTime
<1>1. ASSUME NeptunInv, [Next]_vars PROVE stamped
  <2>1. CASE Apply
    <3> SUFFICES ASSUME NEW a \in Area
                 PROVE  rows'[a].stamp = IF is(a) = Says(shown, a) THEN rows[a].stamp
                              ELSE IF Says(shown, a).level = 0 THEN StartTime(is(a).since, setTime)
                              ELSE setTime
      OBVIOUS
    <3>1. last'.obs = Head(chain).obs /\ last'.updatedAt = Head(chain).updatedAt
      BY <1>1, <2>1, ApplySays
    <3>2. PICK r, alert, was : r = rows'[a] /\ alert = is(a) /\ was = Says(shown, a)
      OBVIOUS
    <3>3. PICK t : t = setTime
      OBVIOUS
    <3>4. /\ r = Projected(a, alert, Head(chain).obs, t)
          /\ alert \in Said /\ Head(chain).obs \in Nat /\ t \in ChangeTime
      BY <1>1, <2>1, <3>1, <3>2, <3>3, ApplyRows
    <3>5. r.stamp = IF alert = was THEN rows[a].stamp
                    ELSE IF was.level = 0 THEN StartTime(alert.since, t) ELSE t
      BY <1>1, <3>2, <3>4, ProjectedRow
    <3> QED
      BY <3>2, <3>3, <3>5
  <2>2. ASSUME UNCHANGED <<hist, shown>>, NEW a \in Area
        PROVE  is(a) = Says(shown, a)
    BY <2>2 DEF Says
  <2>3. CASE AgeToUnknown \/ AgeToStale
    <3>1. UNCHANGED <<hist, shown>>
      BY <2>3 DEF AgeToUnknown, AgeToStale
    <3>2. \A a \in Area : rows'[a].stamp = rows[a].stamp
      BY <1>1, <2>3, AgedRow
    <3> QED
      BY <2>2, <3>1, <3>2
  <2>4. CASE UNCHANGED <<hist, shown, rows>>
    BY <2>2, <2>4
  <2>5. ASSUME NEW s \in AlertSets, NEW u \in Stamps(Current + 1), ProviderChange(s, u)
        PROVE  stamped
    <3>1. UNCHANGED <<shown, rows>> /\ \A v \in Version : hist'[v].set = hist[v].set
      BY <1>1, <2>5, Changed DEF NeptunInv, ProviderChange
    <3>2. \A a \in Area : is(a) = Says(shown, a)
      BY <1>1, <3>1 DEF NeptunInv, RowsOK, Says
    <3> QED
      BY <3>1, <3>2
  <2>6. \/ Apply \/ (AgeToUnknown \/ AgeToStale) \/ UNCHANGED <<hist, shown, rows>>
        \/ \E s \in AlertSets, u \in Stamps(Current + 1) : ProviderChange(s, u)
    BY <1>1 DEF Next, vars, Tick, Poll, RestStart, RestArrive, RestFail,
                RestAnswer, SocketOpen, SocketClose, Frame, Drop, RecordFailure, HandlerFails, Crash
  <2> QED
    BY <2>1, <2>3, <2>4, <2>5, <2>6
<1>2. NeptunInv /\ [Next]_vars => [stamped]_vars
  BY <1>1
<1> QED
  BY <1>2, NeptunInvariant, PTL DEF Spec, StampOnChange

\* While one process runs and every payload carries its updatedAt, an older set never
\* replaces a newer one, in whatever order REST and the stream deliver them.
THEOREM RollbackTheorem ==
  ASSUME NullAllowed = FALSE
  PROVE  Spec => NoRollback
<1>1. ASSUME NeptunInv, [Next]_vars PROVE shown' >= shown \/ last = Nothing
  <2>1. CASE Apply /\ last # Nothing
    <3> DEFINE e == Head(chain)
    <3>1. e \in Event /\ Carries(e, e.obs) /\ shown' = e.ver /\ ~OutOfOrder(e)
      BY <1>1, <2>1, ApplySays
    <3>2. last.updatedAt = shown /\ shown \in Nat
      BY <1>1, <2>1, NullAllowed = FALSE DEF NeptunInv, GuardOK, RowsOK, Stamps
    <3> HIDE DEF e
    <3>3. e.updatedAt = e.ver /\ e.ver \in Nat \ {0}
      <4>1. e.ver \in Version /\ e.updatedAt \in Stamps(e.ver)
        BY <3>1 DEF Carries, Observed
      <4>2. e.ver \in Nat \ {0}
        BY <1>1, <4>1, Versions DEF NeptunInv
      <4> QED
        BY <4>1, <4>2, NullAllowed = FALSE DEF Stamps
    <3> QED
      BY <2>1, <3>1, <3>2, <3>3 DEF OutOfOrder
  <2>2. CASE UNCHANGED shown
    <3>1. shown \in Nat
      BY <1>1 DEF NeptunInv, RowsOK
    <3> QED
      BY <2>2, <3>1
  <2>3. Apply \/ UNCHANGED shown
    BY <1>1 DEF Next, vars, ProviderChange, Tick, Poll, RestStart, RestArrive, RestFail, RestAnswer,
                SocketOpen, SocketClose, Frame, Drop, RecordFailure, HandlerFails, Crash, AgeToUnknown, AgeToStale
  <2> QED
    BY <2>1, <2>2, <2>3
<1>2. NeptunInv /\ [Next]_vars => [shown' >= shown \/ last = Nothing]_vars
  BY <1>1
<1> QED
  BY <1>2, NeptunInvariant, PTL DEF Spec, NoRollback
====
