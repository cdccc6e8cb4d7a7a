---------------------------- MODULE NeptunAlerts ----------------------------
(***************************************************************************)
(* Official air-raid alerts: the NEPTUN provider, the connector            *)
(* (packages/neptun/src/connector.ts) with its REST requests, its stream   *)
(* and its serial chain, the handler that applies events to the database   *)
(* (apps/worker/src/loops/neptun.ts, packages/db/src/repos/alerts.ts), the *)
(* freshness tick beside it, and what the read API publishes               *)
(* (packages/db/src/repos/read/policy.ts).                                 *)
(*                                                                         *)
(* The provider's alert set has versions 1, 2, ...; its `updatedAt` is the *)
(* version number, so that a newer set has a later updatedAt.  An alert    *)
(* set gives each area a level, 0 when the area is not listed, and the     *)
(* moment its alert started, 0 when the entry does not say.                *)
(***************************************************************************)
EXTENDS Integers, Sequences, FiniteSetsExt

CONSTANTS
  Area,          \* alert areas
  Tracked,       \* areas of the geo dictionary: rows even when not alerted
  ParentOf,      \* ParentOf[a]: the oblast of a raion, Nothing for an oblast
  AlertSets,     \* the alert sets the provider may publish
  FirstSets,     \* and those it may start with
  NullAllowed,   \* may a payload come without a valid updatedAt?
  StaleAfter, UnknownAfter,   \* the freshness thresholds, in ticks
  DegradedAfter, UnavailableAfter,   \* those of the connectors
  RestMinInterval, RestTimeout, PollAfter,
  StreamDelay,   \* a frame is in flight at most this long (external)
  MaxTime, MaxVersion, MaxChain, MaxCrashes,   \* bounds
  Nothing

ASSUME NeptunAssumption ==
  /\ IsFiniteSet(Area) /\ Tracked \subseteq Area /\ Tracked # {}
  /\ Nothing \notin Area
  /\ ParentOf \in [Area -> Area \cup {Nothing}]
  /\ AlertSets \subseteq [Area -> [level: Nat, since: Nat]]
  /\ FirstSets \subseteq AlertSets
  /\ \A s \in AlertSets, a \in Area : s[a].level = 0 => s[a].since = 0
  /\ NullAllowed \in BOOLEAN
  /\ StaleAfter \in Nat /\ UnknownAfter \in Nat /\ StaleAfter < UnknownAfter
  /\ DegradedAfter \in Nat /\ UnavailableAfter \in Nat /\ DegradedAfter <= UnavailableAfter
  /\ RestMinInterval \in Nat /\ RestTimeout \in Nat \ {0} /\ PollAfter \in Nat
  /\ StreamDelay \in Nat
  /\ MaxTime \in Nat /\ MaxVersion \in Nat /\ MaxChain \in Nat /\ MaxCrashes \in Nat

VARIABLES
  now,
  hist,     \* the provider's versions: hist[v] = [set, until]
  sock,     \* the stream: "down" or "up"
  wire,     \* frames sent on the stream and not delivered yet
  rest,     \* the one REST request
  chain,    \* events emitted and not handled yet
  last,     \* what the connector's `last` says of the applied set
  rows,     \* alert_states
  shown,    \* the version the last accepted set had (0: none yet)
  health,   \* source_health of the feed
  aging,    \* the freshness tick between its two statements: its `now`
  crashes

vars == <<now, hist, sock, wire, rest, chain, last, rows, shown, health, aging, crashes>>

Never == -1
NoVersion == 0
Version == 1..Len(hist)
Current == Len(hist)

\* A snapshot event carries its version and its updatedAt (0: none); a failure none.
Event == [type: {"snapshot", "failure"}, channel: {"rest", "ws"}, obs: Nat,
          ver: Nat, updatedAt: Nat]

Ordered == [obs: Nat, updatedAt: Nat]

AreaState == {"absent", "active", "inactive", "unknown"}

\* last_provider_change_at, and whose time it is: the start of an alert, the updatedAt
\* of a set, or the moment a set without one was observed.
ChangeTime == [of: {"none", "start", "provider", "observed"}, at: Nat]
NoChange == [of |-> "none", at |-> 0]

AlertRow == [state: AreaState, level: Nat, since: Nat, freshness: {"fresh", "stale", "unknown"},
             success: Nat \cup {Never}, stamp: ChangeTime]

NoRow == [state |-> "absent", level |-> 0, since |-> 0, freshness |-> "unknown",
          success |-> Never, stamp |-> NoChange]

\* A process that starts: refresh('start'), the stream not open yet.
FreshRest == [pc |-> "waiting", at |-> Never, ver |-> NoVersion, updatedAt |-> 0]

Init ==
  /\ now = 0
  /\ hist \in {<<[set |-> s, until |-> 0]>> : s \in FirstSets}
  /\ sock = "down" /\ wire = <<>> /\ rest = FreshRest /\ chain = <<>> /\ last = Nothing
  /\ rows = [a \in Area |-> NoRow]
  /\ shown = NoVersion
  /\ health = [success |-> Never, error |-> Never]
  /\ aging = Never
  /\ crashes = 0

-----------------------------------------------------------------------------
(* The provider and the network *)

\* The updatedAt a payload of version v may carry.
Stamps(v) == IF NullAllowed THEN {0, v} ELSE {v}

\* The set changes; whoever is connected gets the whole new set in a frame.
ProviderChange(s, u) ==
  /\ Current < MaxVersion /\ now < MaxTime - StreamDelay
  /\ s # hist[Current].set
  /\ hist' = Append([hist EXCEPT ![Current].until = now], [set |-> s, until |-> 0])
  /\ wire' = IF sock = "up"
             THEN Append(wire, [ver |-> Current + 1, updatedAt |-> u, sent |-> now])
             ELSE wire
  /\ UNCHANGED <<now, sock, rest, chain, last, rows, shown, health, aging, crashes>>

\* Nothing stays in flight for longer than the timeout or the stream allows.
Tick ==
  /\ now < MaxTime
  /\ \A i \in DOMAIN wire : now < wire[i].sent + StreamDelay
  /\ rest.pc \in {"asked", "answered"} => now < rest.at + RestTimeout
  /\ now' = now + 1
  /\ UNCHANGED <<hist, sock, wire, rest, chain, last, rows, shown, health, aging, crashes>>

-----------------------------------------------------------------------------
(* The connector: every event goes through one chain *)

Emit(e) == Len(chain) < MaxChain /\ chain' = Append(chain, e)

\* refresh: concurrent triggers share the request in flight.
Refreshed == IF rest.pc = "idle" THEN [rest EXCEPT !.pc = "waiting"] ELSE rest

\* Fault: the poll stops once something was confirmed.
PollUntilConfirmed ==
  /\ rest.pc = "idle"
  /\ last = Nothing
  /\ rest' = Refreshed
  /\ UNCHANGED <<now, hist, sock, wire, chain, last, rows, shown, health, aging, crashes>>

Poll ==
  /\ rest.pc = "idle"
  /\ last # Nothing => now - last.obs >= PollAfter
  /\ rest' = Refreshed
  /\ UNCHANGED <<now, hist, sock, wire, chain, last, rows, shown, health, aging, crashes>>

RestStart ==
  /\ rest.pc = "waiting"
  /\ rest.at # Never => now >= rest.at + RestMinInterval
  /\ rest' = [rest EXCEPT !.pc = "asked", !.at = now]
  /\ UNCHANGED <<now, hist, sock, wire, chain, last, rows, shown, health, aging, crashes>>

\* The provider answers with the set of this moment.
RestAnswer(u) ==
  /\ rest.pc = "asked"
  /\ rest' = [rest EXCEPT !.pc = "answered", !.ver = Current, !.updatedAt = u]
  /\ UNCHANGED <<now, hist, sock, wire, chain, last, rows, shown, health, aging, crashes>>

\* Fault: a response counts as observed when it arrives.
RestArriveNow ==
  /\ rest.pc = "answered"
  /\ Emit([type |-> "snapshot", channel |-> "rest", obs |-> now,
           ver |-> rest.ver, updatedAt |-> rest.updatedAt])
  /\ rest' = [rest EXCEPT !.pc = "queued", !.ver = NoVersion, !.updatedAt = 0]
  /\ UNCHANGED <<now, hist, sock, wire, last, rows, shown, health, aging, crashes>>

\* The response counts as observed when its request started.
RestArrive ==
  /\ rest.pc = "answered"
  /\ Emit([type |-> "snapshot", channel |-> "rest", obs |-> rest.at,
           ver |-> rest.ver, updatedAt |-> rest.updatedAt])
  /\ rest' = [rest EXCEPT !.pc = "queued", !.ver = NoVersion, !.updatedAt = 0]
  /\ UNCHANGED <<now, hist, sock, wire, last, rows, shown, health, aging, crashes>>

\* Timeout, network error, HTTP error, invalid JSON, invalid payload.
RestFail ==
  /\ rest.pc \in {"asked", "answered"}
  /\ Emit([type |-> "failure", channel |-> "rest", obs |-> rest.at,
           ver |-> NoVersion, updatedAt |-> 0])
  /\ rest' = [rest EXCEPT !.pc = "queued", !.ver = NoVersion, !.updatedAt = 0]
  /\ UNCHANGED <<now, hist, sock, wire, last, rows, shown, health, aging, crashes>>

\* A new socket starts with a frame of the current set (README of the connector, line 30).
SocketOpen(u) ==
  /\ sock = "down" /\ now <= MaxTime - StreamDelay
  /\ sock' = "up"
  /\ wire' = <<[ver |-> Current, updatedAt |-> u, sent |-> now]>>
  /\ rest' = Refreshed
  /\ UNCHANGED <<now, hist, chain, last, rows, shown, health, aging, crashes>>

\* Closed, failed or silent for WS_IDLE_MS: what was on the wire is lost.
SocketClose ==
  /\ sock = "up"
  /\ sock' = "down" /\ wire' = <<>>
  /\ UNCHANGED <<now, hist, rest, chain, last, rows, shown, health, aging, crashes>>

\* onFrame: an `alerts` frame, whose payload may turn out not to be valid.
Frame(valid) ==
  /\ wire # <<>>
  /\ wire' = Tail(wire)
  /\ LET f == Head(wire)
     IN  Emit([type |-> IF valid THEN "snapshot" ELSE "failure", channel |-> "ws",
               obs |-> now, ver |-> IF valid THEN f.ver ELSE NoVersion,
               updatedAt |-> IF valid THEN f.updatedAt ELSE 0])
  /\ UNCHANGED <<now, hist, sock, rest, last, rows, shown, health, aging, crashes>>

-----------------------------------------------------------------------------
(* Projection of an alert set *)

Children(a) == {b \in Area : ParentOf[b] = a}

\* What a set says of an area it does not list.
Quiet == [level |-> 0, since |-> 0]

\* merge: the higher level wins, and the earliest of the starts that are known.
Merged(alerts) ==
  LET starts == {x.since : x \in alerts} \ {0}
  IN  [level |-> Max({x.level : x \in alerts}), since |-> IF starts = {} THEN 0 ELSE Min(starts)]

\* withTerritory: an oblast-wide alert covers its dictionary raions, a raion
\* alert its dictionary oblast.  Only listed alerts spread: what is derived never
\* propagates further.
Territory ==
  [s \in AlertSets |-> [a \in Area |->
     Merged({s[a]} \cup
            (IF a \in Tracked
             THEN {s[b] : b \in Children(a) \cup ({ParentOf[a]} \ {Nothing})}
             ELSE {}))]]

\* What the provider says of area a in version v; before any set, nothing.
Says(v, a) == IF v = NoVersion THEN Quiet ELSE Territory[hist[v].set][a]

\* Fault: recovery from our own aging mark counts as a change by the provider.
PreviousAsStored(a) == rows[a].state

\* The last provider state, also behind our own aging mark `unknown`.
Previous(a) ==
  IF rows[a].state = "unknown" THEN IF rows[a].level = 0 THEN "inactive" ELSE "active"
  ELSE rows[a].state

\* When the provider changed its mind: as the set says, or when it was observed.
SetTime(obs, updatedAt) ==
  IF updatedAt # 0 THEN [of |-> "provider", at |-> updatedAt] ELSE [of |-> "observed", at |-> obs]

\* An alert that begins has changed when it started, when its start is known.
StartTime(since, setTime) ==
  IF since # 0 THEN [of |-> "start", at |-> since] ELSE setTime

\* The row of area a after a set that says this of it.  A change is one of the state, of
\* the level or of the start.
Projected(a, alert, obs, setTime) ==
  LET state   == IF alert.level > 0 THEN "active" ELSE "inactive"
      exists  == rows[a].state # "absent"
      changed == /\ exists \/ alert.level > 0
                 /\ \/ Previous(a) # state
                    \/ rows[a].level # alert.level \/ rows[a].since # alert.since
  IN  IF a \in Tracked \/ exists \/ alert.level > 0
      THEN [state |-> state, level |-> alert.level, since |-> alert.since,
            freshness |-> "fresh", success |-> obs,
            stamp |-> IF ~changed THEN rows[a].stamp
                      ELSE IF state = "active" /\ Previous(a) # "active"
                      THEN StartTime(alert.since, setTime)
                      ELSE setTime]
      ELSE NoRow

-----------------------------------------------------------------------------
(* The handler: the head of the chain, one event at a time *)

\* Fault: observation order alone decides.
OutOfOrderByClock(e) == last # Nothing /\ e.obs < last.obs

\* isOutOfOrder: provider timestamps when they differ, observation order otherwise.
OutOfOrder(e) ==
  /\ last # Nothing
  /\ IF e.updatedAt # 0 /\ last.updatedAt # 0 /\ e.updatedAt # last.updatedAt
     THEN e.updatedAt < last.updatedAt
     ELSE e.obs < last.obs

\* Fault: every failure marks the health of the source.
LateFailureNever(e) == FALSE

\* A failure of a request that started before the applied set.
LateFailure(e) == last # Nothing /\ e.obs < last.obs

\* The event has been dealt with; a REST refresh ends with its event.
Handled ==
  /\ chain' = Tail(chain)
  /\ rest' = IF Head(chain).channel = "rest" THEN [rest EXCEPT !.pc = "idle"] ELSE rest

Drop ==
  /\ chain # <<>>
  /\ LET e == Head(chain)
     IN  IF e.type = "snapshot" THEN OutOfOrder(e) ELSE LateFailure(e)
  /\ Handled
  /\ UNCHANGED <<now, hist, sock, wire, last, rows, shown, health, aging, crashes>>

\* recordNeptunHealth: a success clears the failures before it, a failure keeps the
\* time of the last success.
Succeeded(at) == [success |-> at, error |-> Never]
Failed(at) == [health EXCEPT !.error = at]

\* One transaction: the payload, the projection and the health of the source.
Apply ==
  /\ chain # <<>>
  /\ Head(chain).type = "snapshot"
  /\ Handled
  /\ UNCHANGED <<now, hist, sock, wire, aging, crashes>>
  /\ LET e == Head(chain)
     IN  /\ ~OutOfOrder(e)
         /\ rows' = [a \in Area |-> Projected(a, Says(e.ver, a), e.obs, SetTime(e.obs, e.updatedAt))]
         /\ shown' = e.ver
         /\ health' = Succeeded(e.obs)
         /\ last' = [obs |-> e.obs, updatedAt |-> e.updatedAt]

\* Never touches the projection.
RecordFailure ==
  /\ chain # <<>>
  /\ LET e == Head(chain)
     IN  /\ e.type = "failure" /\ ~LateFailure(e)
         /\ health' = Failed(e.obs)
  /\ Handled
  /\ UNCHANGED <<now, hist, sock, wire, last, rows, shown, aging, crashes>>

\* The database refuses: logged, the event is gone and counts for nothing.
HandlerFails ==
  /\ chain # <<>>
  /\ LET e == Head(chain)
     IN  IF e.type = "snapshot" THEN ~OutOfOrder(e) ELSE ~LateFailure(e)
  /\ Handled
  /\ UNCHANGED <<now, hist, sock, wire, last, rows, shown, health, aging, crashes>>

-----------------------------------------------------------------------------
(* The freshness tick: two statements beside the chain, one `now` *)

\* Fault: what is unknown forgets what it was.
AgeToUnknownForgets ==
  /\ aging = Never
  /\ rows' = [a \in Area |->
       IF /\ rows[a].freshness # "unknown" /\ rows[a].success <= now - UnknownAfter
       THEN [rows[a] EXCEPT !.freshness = "unknown", !.state = "unknown", !.level = 0]
       ELSE rows[a]]
  /\ aging' = now
  /\ UNCHANGED <<now, hist, sock, wire, rest, chain, last, shown, health, crashes>>

AgeToUnknown ==
  /\ aging = Never
  /\ rows' = [a \in Area |->
       IF /\ rows[a].freshness # "unknown" /\ rows[a].success <= now - UnknownAfter
       THEN [rows[a] EXCEPT !.freshness = "unknown", !.state = "unknown"]
       ELSE rows[a]]
  /\ aging' = now
  /\ UNCHANGED <<now, hist, sock, wire, rest, chain, last, shown, health, crashes>>

AgeToStale ==
  /\ aging # Never
  /\ rows' = [a \in Area |->
       IF rows[a].freshness = "fresh" /\ rows[a].success <= aging - StaleAfter
       THEN [rows[a] EXCEPT !.freshness = "stale"]
       ELSE rows[a]]
  /\ aging' = Never
  /\ UNCHANGED <<now, hist, sock, wire, rest, chain, last, shown, health, crashes>>

\* A new process: everything in memory is gone, the ordering guard with it.
Crash ==
  /\ crashes < MaxCrashes
  /\ crashes' = crashes + 1
  /\ sock' = "down" /\ wire' = <<>> /\ rest' = FreshRest /\ chain' = <<>>
  /\ last' = Nothing /\ aging' = Never
  /\ UNCHANGED <<now, hist, rows, shown, health>>

Next ==
  \/ \E s \in AlertSets, u \in Stamps(Current + 1) : ProviderChange(s, u)
  \/ Tick
  \/ Poll \/ RestStart \/ RestArrive \/ RestFail
  \/ \E u \in Stamps(Current) : RestAnswer(u)
  \/ \E u \in Stamps(Current) : SocketOpen(u)
  \/ SocketClose
  \/ \E valid \in BOOLEAN : Frame(valid)
  \/ Drop \/ Apply \/ RecordFailure \/ HandlerFails
  \/ AgeToUnknown \/ AgeToStale
  \/ Crash

Spec == Init /\ [][Next]_vars

-----------------------------------------------------------------------------
(* What the read API publishes *)

AgeFreshness(success) ==
  IF success = Never \/ now - success > UnknownAfter THEN "unknown"
  ELSE IF now - success > StaleAfter THEN "stale" ELSE "fresh"

\* The least fresh; with nothing to judge by, unknown.
Worst(fs) ==
  IF fs = {} \/ "unknown" \in fs THEN "unknown" ELSE IF "stale" \in fs THEN "stale" ELSE "fresh"

\* alertDto: freshness is recomputed, and what is too old is unknown.
PublishedFreshness(a) == Worst({rows[a].freshness, AgeFreshness(rows[a].success)})
PublishedState(a) ==
  IF PublishedFreshness(a) = "unknown" \/ rows[a].state = "absent" THEN "unknown"
  ELSE rows[a].state

\* Where the alerts that concern an area are: the areas that contain it, itself and the
\* areas inside it; all of the dictionary, without an area.
Subtree(a) == {a} \cup Children(a)
AlertPlaces(a) ==
  IF a = Nothing THEN Tracked ELSE ((({ParentOf[a]} \ {Nothing}) \cup Subtree(a)) \cap Tracked)

\* A place without a row is listed as unknown; unfiltered, the areas the dictionary does
\* not know are added.
ListAlerts(a) ==
  LET extra == IF a = Nothing THEN {b \in Area \ Tracked : rows[b].state # "absent"} ELSE {}
  IN  [b \in AlertPlaces(a) \cup extra |-> [state |-> PublishedState(b), freshness |-> PublishedFreshness(b)]]

\* AVAILABILITY_FRESHNESS
FreshnessOf(s) == CASE s = "ok" -> "fresh" [] s = "degraded" -> "stale" [] OTHER -> "unknown"

\* sourcesFreshness: paused sources do not count, and none at all is unknown.
SourcesFreshness(list) == Worst({FreshnessOf(s) : s \in list \ {"paused"}})

\* readOverview, without the incidents: the alerts, and how the collectors are.  In the
\* past there are no alerts to be known.
Overview(a, asOf, collectors) ==
  LET alerts == IF asOf # Nothing
                THEN [b \in AlertPlaces(a) |-> [state |-> "unknown", freshness |-> "unknown"]]
                ELSE ListAlerts(a)
  IN  [alerts |-> alerts,
       freshness |-> Worst({alerts[b].freshness : b \in DOMAIN alerts} \cup {SourcesFreshness(collectors)})]

\* sourceAvailability, of the enabled feed.
Availability ==
  CASE health.success = Never -> "unknown"
    [] health.success # Never /\ now - health.success > UnavailableAfter -> "unavailable"
    [] OTHER -> IF health.error # Never \/ now - health.success > DegradedAfter THEN "degraded" ELSE "ok"

-----------------------------------------------------------------------------
(* Properties *)

\* Serial apply (connector.ts:94): while one process runs, an older alert set
\* never replaces a newer one, whatever REST and the stream deliver first.
NoRollback == [][shown' >= shown \/ last = Nothing]_vars

\* Only an accepted set writes `inactive`: failures, ageing and restarts never
\* clear an alert, and behind `unknown` the last provider state is kept, its level and
\* its start with it; an area without a row is one the provider says nothing of.
ProjectionFaithful ==
  \A a \in Area :
    LET says == Says(shown, a)
    IN  /\ rows[a].level = says.level /\ rows[a].since = says.since
        /\ rows[a].state = "active" => says.level > 0
        /\ rows[a].state \in {"inactive", "absent"} => says.level = 0

\* The set of version v was the provider's within the last d ticks, give or
\* take the delay of the stream.
Recent(v, d) == v # NoVersion /\ (v = Current \/ hist[v].until >= now - d - StreamDelay)

\* What is published as fresh was true within StaleAfter, and what is published
\* at all within UnknownAfter, however long the chain or a request took; the same for an
\* overview of several areas, with every collector well, and a source said to be well was read within DegradedAfter.
PublishedIsRecent ==
  /\ Recent(shown, UnknownAfter) \/ \A a \in Area : PublishedState(a) = "unknown"
  /\ \/ Recent(shown, StaleAfter)
     \/ /\ \A a \in Area : PublishedState(a) # "unknown" => PublishedFreshness(a) # "fresh"
        /\ \A a \in Tracked \cup {Nothing} : Overview(a, Nothing, {"ok"}).freshness # "fresh"
  /\ Recent(shown, DegradedAfter) \/ Availability # "ok"

\* A recorded error is never older than the set that was applied: a request
\* that failed late does not degrade a source that has answered since.
HealthHonest ==
  health.error # Never /\ last # Nothing => health.error >= last.obs

\* last_provider_change_at moves exactly when what the provider says of the area does, its
\* state, its level or its start: not on a confirmation, and not on the way back from
\* `unknown`.  It is then the time of the set, except for an alert that begins: that is
\* as old as it says it is, also when a set shows it late.
StampOnChange ==
  [][\A a \in Area :
       LET was == Says(shown, a)
           is  == Says(shown, a)'
           setTime == SetTime(last'.obs, last'.updatedAt)
       IN  rows'[a].stamp = IF is = was THEN rows[a].stamp
                            ELSE IF was.level = 0 THEN StartTime(is.since, setTime)
                            ELSE setTime]_vars

\* The process keeps running its loops; the provider and the database answer
\* again and again; nothing is assumed of the stream.
Fairness ==
  /\ WF_vars(Tick)
  /\ WF_vars(Poll \/ RestStart \/ RestArrive \/ RestFail) /\ SF_vars(\E u \in Stamps(Current) : RestAnswer(u))
  /\ SF_vars(RestArrive)
  /\ WF_vars(HandlerFails \/ Drop \/ RecordFailure \/ Apply) /\ SF_vars(Apply)

FairSpec == Spec /\ Fairness

\* Once the provider's set stays as it is, the projection shows it for good: the
\* control poll makes up for every frame the stream loses.
Convergence == <>[](shown = Current)
=============================================================================
