------------------------- MODULE TelegramCollector -------------------------
(***************************************************************************)
(* The live Telegram collector (apps/worker/src/loops/telegram.ts) of one  *)
(* channel: the advisory-lock lease, the update queue, the resync that     *)
(* fetches the difference from the checkpoint and re-reads a window of     *)
(* recent posts, the tick, the transaction that moves the checkpoint with  *)
(* the data, and shutdown.                                                 *)
(*                                                                         *)
(* The server (external) keeps a log of changes of the channel; a change   *)
(* has its index as pts, and the content a `set` change gives a post is    *)
(* named by that pts too.  A deletion may also go untold: the post is      *)
(* gone, and neither the log nor the pts say so.                           *)
(***************************************************************************)
EXTENDS Integers, Sequences, FiniteSetsExt, Functions

CONSTANTS
  Collector,    \* worker processes that may collect
  Post,         \* 1..n, in the order the channel publishes them
  RecentLimit,  \* RECENT_LIMIT: a history read returns at most this many posts
  PageSize,     \* changes in one answer of getChannelDifference
  GapLimit,     \* a longer gap is answered tooLong
  MaxQueue,     \* MAX_QUEUE
  MaxPts,       \* bound on the length of the log
  Weight, MaxWeight,   \* bound on what may happen: the weight of each event, and their sum
  Nothing

Event == {"deliver", "crash", "shutdown", "unknown commit", "lost lock", "unavailable",
          "untold deletion", "time passes"}

ASSUME CollectorAssumption ==
  /\ Nothing \notin Collector
  /\ Post \subseteq Nat \ {0} /\ IsFiniteSet(Post)
  /\ RecentLimit \in Nat \ {0} /\ PageSize \in Nat \ {0} /\ GapLimit \in Nat \ {0}
  /\ MaxQueue \in Nat \ {0}
  /\ MaxPts \in Nat /\ MaxWeight \in Nat
  /\ Weight \in [Event -> Nat \ {0}]
  /\ Nothing \notin Nat

VARIABLES
  log,         \* the server's changes of the channel: [post, kind]
  stored,      \* stored[p]: the pts of the content saved for p, 0 when p is not saved
  gone,        \* posts whose deletedAt is set
  checkpoint,  \* telegram_checkpoints.pts
  lock,        \* who holds the advisory lock
  col,         \* col[c]: the state of a collector
  lost,        \* posts deleted without a word of it (external)
  horizon,     \* the newest post too old for the backfill and for the recheck window
  missed,      \* changes the checkpoint may pass though no window showed them (history)
  used         \* how often each event happened, for the bounds

db == <<stored, gone, checkpoint>>
server == <<log, lost, horizon>>
vars == <<log, stored, gone, checkpoint, lock, col, lost, horizon, missed, used>>

Kind == {"set", "delete"}
Now == Len(log)

\* The pts of the last change of p that sets its content, among changes in S.
LastSet(p, S) == Max({0} \cup {i \in S : log[i].post = p /\ log[i].kind = "set"})
DeletedIn(S) == {log[i].post : i \in {j \in S : log[j].kind = "delete"}}
Deleted == DeletedIn(1..Now) \cup lost
Live == {p \in Post : LastSet(p, 1..Now) > 0} \ Deleted
Covered == IF checkpoint = Nothing THEN {} ELSE 1..checkpoint

(***************************************************************************)
(* The fields of col[c]:                                                   *)
(*   pc       off - not started, stopped, or waiting for the lease;        *)
(*            resync - at the top of the loop with resync set; connect -   *)
(*            connecting and resolving; catchup - asking for the           *)
(*            difference; window - reading recent posts, all of the        *)
(*            backfill window if wide; commit - the transaction; run -     *)
(*            applying the queue or idle                                   *)
(*   after    what follows a finished catch-up: "recheck" or "run"         *)
(*   pending  the channel is not resolved                                  *)
(*   cursor   ch.pts, or Nothing                                           *)
(*   target   the pts the window is committed with                         *)
(*   wide     the window is all of the backfill window                     *)
(*   batch    what a commit writes: set - content by post (0: not          *)
(*            touched), delete - posts, pts - the new cursor, and next -   *)
(*            what the collector does afterwards                           *)
(*   queue    of Update: a change with its pts, tooLong or reconnected     *)
(*   resync   the next pass of the loop catches up                         *)
(*   stop     "no", or the signal is aborted: on the way out of the        *)
(*            "loop", or of the "drain" of the queue                       *)
(***************************************************************************)
Update == [kind: {"change"}, pts: Nat] \cup [kind: {"tooLong", "reconnected"}]

NoBatch == [set |-> [p \in Post |-> 0], delete |-> {}, pts |-> 0, next |-> "run"]

Fresh == [pc |-> "off", after |-> "run", pending |-> TRUE, cursor |-> Nothing, target |-> 0,
          wide |-> FALSE, batch |-> NoBatch, queue |-> <<>>, resync |-> TRUE, stop |-> "no"]

Spent == SumFunction([e \in Event |-> used[e] * Weight[e]])

Init ==
  /\ log = <<>>
  /\ stored = [p \in Post |-> 0] /\ gone = {} /\ checkpoint = Nothing
  /\ lock = Nothing
  /\ col = [c \in Collector |-> Fresh]
  /\ lost = {} /\ horizon = [wide \in BOOLEAN |-> 0]
  /\ missed = {} /\ used = [e \in Event |-> 0]

Happens(e) ==
  /\ Spent + Weight[e] <= MaxWeight
  /\ used' = [used EXCEPT ![e] = @ + 1]

-----------------------------------------------------------------------------
(* The server *)

\* A new post is the next one; an edit or a deletion needs a live one.
Publish ==
  /\ Now < MaxPts
  /\ \E p \in Post, k \in Kind :
       /\ \/ p \in Live
          \/ /\ k = "set" /\ LastSet(p, 1..Now) = 0
             /\ \A q \in Post : q < p => LastSet(q, 1..Now) > 0
       /\ log' = Append(log, [post |-> p, kind |-> k])
  /\ UNCHANGED <<lost, horizon, db, lock, col, missed, used>>

\* A post disappears, and Telegram does not report it.
Forget ==
  /\ Happens("untold deletion")
  /\ \E p \in Live : lost' = lost \cup {p}
  /\ UNCHANGED <<log, horizon, db, lock, col, missed>>

\* Posts grow too old for the recheck window (recheckMs), and then for that of the
\* backfill (backfillMs).
Elapse ==
  /\ Happens("time passes")
  /\ horizon' \in [BOOLEAN -> {0} \cup {p \in Post : LastSet(p, 1..Now) > 0}]
  /\ horizon'[TRUE] <= horizon'[FALSE] /\ horizon' # horizon
  /\ \A wide \in BOOLEAN : horizon[wide] <= horizon'[wide]
  /\ UNCHANGED <<log, lost, db, lock, col, missed>>

\* onUpdate: a push of any change so far - late, twice, out of order or never -
\* or a notice.  An overflow drops the queue in favour of a resync.
Deliver(c, u) ==
  /\ Happens("deliver")
  /\ col[c].pc # "off" /\ col[c].stop # "drain"
  /\ u.kind = "change" => u.pts \in 1..Now
  /\ col' = [col EXCEPT ![c] =
       IF Len(col[c].queue) >= MaxQueue
       THEN [col[c] EXCEPT !.queue = <<u>>, !.resync = TRUE]
       ELSE [col[c] EXCEPT !.queue = Append(col[c].queue, u)]]
  /\ UNCHANGED <<server, missed, db, lock>>

-----------------------------------------------------------------------------
(* The lease *)

\* pg_try_advisory_lock, then a new Collector.
Acquire(c) ==
  /\ col[c].pc = "off" /\ lock = Nothing
  /\ lock' = c
  /\ col' = [col EXCEPT ![c] = [Fresh EXCEPT !.pc = "resync"]]
  /\ UNCHANGED <<server, missed, db, used>>

\* The reserved connection dies: Postgres frees the lock, the process goes on.
LoseLock ==
  /\ Happens("lost lock") /\ lock # Nothing
  /\ lock' = Nothing
  /\ UNCHANGED <<server, missed, db, col>>

\* The collector ends; releasing a lock it no longer holds does nothing.
End(c) ==
  /\ col' = [col EXCEPT ![c] = Fresh]
  /\ lock' = IF lock = c THEN Nothing ELSE lock

-----------------------------------------------------------------------------
(* The loop *)

Set(c, s) == col' = [col EXCEPT ![c] = s]

\* The resync refetches from the checkpoint all that is in the queue.
Resync(c) ==
  /\ col[c].pc = "resync" /\ col[c].stop = "no"
  /\ Set(c, [col[c] EXCEPT !.pc = "connect", !.queue = <<>>])
  /\ UNCHANGED <<server, missed, db, lock, used>>

\* Connected; an unresolved channel is resolved and its checkpoint read.  Then
\* syncChannel: backfill on a first start, catch-up and recheck otherwise.
Connected(c) ==
  /\ col[c].pc = "connect"
  /\ LET s   == col[c]
         cur == IF s.pending THEN checkpoint ELSE s.cursor
     IN  Set(c, IF cur = Nothing
                THEN [s EXCEPT !.pc = "window", !.wide = TRUE, !.after = "run", !.resync = FALSE,
                               !.pending = FALSE, !.cursor = cur,
                               !.target = IF s.pending THEN Now ELSE s.target]
                ELSE [s EXCEPT !.pc = "catchup", !.after = "recheck", !.resync = FALSE,
                               !.pending = FALSE, !.cursor = cur])
  /\ UNCHANGED <<server, missed, db, lock, used>>

\* getChannelDifference: one page of the changes after pts, final if it is the last,
\* or the pts to read the history for when the gap is too long to be served.
ChannelDifference(pts) ==
  LET upto == Min({Now, pts + PageSize})
      page == (pts + 1)..upto
  IN  IF Now - pts > GapLimit
      THEN [set |-> NoBatch.set, delete |-> {}, pts |-> Now, final |-> TRUE, tooLong |-> TRUE]
      ELSE [set |-> [p \in Post |-> LastSet(p, page)], delete |-> DeletedIn(page), pts |-> upto,
            final |-> upto = Now, tooLong |-> FALSE]

\* catchUp: each page is committed on its own; after too long a gap the backfill window.
Difference(c) ==
  /\ col[c].pc = "catchup"
  /\ LET s    == col[c]
         diff == ChannelDifference(s.cursor)
     IN  Set(c, IF diff.tooLong
                THEN [s EXCEPT !.pc = "window", !.wide = TRUE, !.target = diff.pts]
                ELSE [s EXCEPT !.pc = "commit",
                               !.batch = [set |-> diff.set, delete |-> diff.delete, pts |-> diff.pts,
                                          next |-> IF diff.final THEN s.after ELSE "catchup"]])
  /\ UNCHANGED <<server, missed, db, lock, used>>

\* Fault: the backfill reads no further back than the recheck.
InWindowOfRecheck(wide) ==
  {p \in Live : p > horizon[FALSE] /\ Cardinality({q \in Live : q > p}) < RecentLimit}

\* recentMessages: newest first, up to the first post that is too old, and no more than
\* the limit.
InWindow(wide) ==
  {p \in Live : p > horizon[wide] /\ Cardinality({q \in Live : q > p}) < RecentLimit}

\* Out of the backfill's reach: too old, or with too many newer posts.
Beyond(p) == p <= horizon[TRUE] \/ Cardinality({q \in Live : q > p}) >= RecentLimit

\* Fault: every stored post the window does not show counts as deleted.
MissingAnywhere(W) == {p \in Post : p \notin W /\ W # {}}

\* The history is complete between the oldest and the newest post it returned.
Missing(W) == {p \in Post \ W : \E lo, hi \in W : lo < p /\ p < hi}

\* syncWindow: current content of the window's posts.  After the window of a
\* catch-up that was too long, the recheck follows if this is a sync.  What the window is
\* to cover and cannot: content beyond the backfill, deletions outside what it spans.
History(c) ==
  /\ col[c].pc = "window"
  /\ LET s == col[c]
         W == InWindow(s.wide)
     IN  /\ Set(c, [s EXCEPT !.pc = "commit",
                             !.batch = [set |-> [p \in Post |-> IF p \in W THEN LastSet(p, 1..Now) ELSE 0],
                                        delete |-> Missing(W), pts |-> s.target,
                                        next |-> IF s.wide THEN s.after ELSE "run"]])
         /\ missed' = missed \cup {i \in (1..s.target) \ Covered :
                                    IF log[i].kind = "set" THEN Beyond(log[i].post)
                                    ELSE log[i].post \notin Missing(W)}
  /\ UNCHANGED <<server, db, lock, used>>

-----------------------------------------------------------------------------
(* The transaction *)

\* Fault: the checkpoint is set to whatever the batch ends with.
LastWritten(old, new) == new

\* greatest(old, new)
Later(old, new) == IF old = Nothing THEN new ELSE Max({old, new})

\* markDeleted: of the stored posts; their jobs are left out.
MarkDeleted(ids, st) == gone' = gone \cup {p \in ids : st[p] > 0}

\* Messages first, then deletions, then the checkpoint.
Save(b) ==
  LET st == [p \in Post |-> IF b.set[p] = 0 THEN stored[p] ELSE b.set[p]]
  IN  /\ stored' = st
      /\ MarkDeleted(b.delete, st)
      /\ checkpoint' = Later(checkpoint, b.pts)

\* What follows the transaction; the recheck's window is committed at the cursor.
Continue(s, next) ==
  CASE next = "recheck" -> [s EXCEPT !.pc = "window", !.wide = FALSE, !.target = s.cursor,
                                     !.after = "run", !.batch = NoBatch]
    [] next = "catchup" -> [s EXCEPT !.pc = "catchup", !.batch = NoBatch]
    [] next = "run"     -> [s EXCEPT !.pc = "run", !.after = "run", !.batch = NoBatch]

\* The in-memory cursor moves after the commit.
Commit(c) ==
  /\ col[c].pc = "commit"
  /\ Save(col[c].batch)
  /\ LET s == [col[c] EXCEPT !.cursor = col[c].batch.pts]
     IN  Set(c, Continue(s, s.batch.next))
  /\ UNCHANGED <<server, missed, lock, used>>

\* Fault: the cursor has moved when the transaction fails.
FailedAhead(c) ==
  /\ Set(c, [col[c] EXCEPT !.pc = "resync", !.resync = TRUE, !.after = "run", !.wide = FALSE,
               !.cursor = IF col[c].pc = "commit" THEN col[c].batch.pts ELSE @, !.batch = NoBatch])
  /\ UNCHANGED lock

\* An await fails.  The loop backs off and resyncs; once the signal is aborted it
\* drains what it has, unless a resync was wanted; a failure ends the drain.
Failed(c) ==
  LET s == [col[c] EXCEPT !.after = "run", !.wide = FALSE, !.batch = NoBatch]
  IN  CASE s.stop = "no" -> Set(c, [s EXCEPT !.pc = "resync", !.resync = TRUE]) /\ UNCHANGED lock
        [] s.stop = "loop" /\ ~s.resync -> Set(c, [s EXCEPT !.pc = "run", !.stop = "drain"]) /\ UNCHANGED lock
        [] OTHER -> End(c)

\* Committed, but the collector sees an error.
CommitUnknown(c) ==
  /\ col[c].pc = "commit"
  /\ Happens("unknown commit")
  /\ Save(col[c].batch)
  /\ Failed(c)
  /\ UNCHANGED <<server, missed>>

\* The network or the database fails an await.
Fail(c) ==
  /\ col[c].pc \in {"connect", "catchup", "window", "commit"}
  /\ Failed(c)
  /\ UNCHANGED <<server, missed, db, used>>

\* TelegramChannelUnavailable: dropped until the next resync.
Unavailable(c) ==
  /\ Happens("unavailable")
  /\ \/ col[c].pc \in {"catchup", "window"}
     \/ col[c].pc = "connect" /\ col[c].pending
  /\ Set(c, [col[c] EXCEPT !.pc = "run", !.resync = @ /\ col[c].pc # "connect", !.pending = TRUE, !.cursor = Nothing, !.after = "run"])
  /\ UNCHANGED <<server, missed, db, lock>>

-----------------------------------------------------------------------------
(* Applying updates, the tick, and the end *)

\* Fault: an update that does not follow the cursor is stored without its gap.
ApplyOverGap(c) ==
  LET s == col[c]
      u == Head(s.queue)
      t == [s EXCEPT !.queue = Tail(s.queue)]
  IN  /\ s.pc = "run" /\ s.queue # <<>> /\ (~s.resync \/ s.stop = "drain")
      /\ Set(c, IF u.kind = "reconnected" THEN [t EXCEPT !.resync = TRUE]
                ELSE IF s.cursor = Nothing \/ u.kind = "tooLong" \/ u.pts <= s.cursor THEN t
                ELSE [t EXCEPT !.pc = "commit",
                         !.batch = [set |-> [p \in Post |-> LastSet(p, {u.pts})],
                                    delete |-> DeletedIn({u.pts}), pts |-> u.pts, next |-> "run"]])
      /\ UNCHANGED <<server, missed, db, lock, used>>

\* apply.  The drain goes on past a notice that asks for a resync.
Apply(c) ==
  LET s == col[c]
      u == Head(s.queue)
      t == [s EXCEPT !.queue = Tail(s.queue)]
  IN  /\ s.pc = "run" /\ s.queue # <<>> /\ (~s.resync \/ s.stop = "drain")
      /\ Set(c, IF u.kind = "reconnected" THEN [t EXCEPT !.resync = TRUE]
                ELSE IF s.cursor = Nothing THEN t
                ELSE IF u.kind = "tooLong" THEN [t EXCEPT !.pc = "catchup", !.after = "run"]
                ELSE IF u.pts <= s.cursor THEN t
                ELSE IF u.pts - 1 # s.cursor THEN [t EXCEPT !.pc = "catchup", !.after = "run"]
                ELSE [t EXCEPT !.pc = "commit",
                         !.batch = [set |-> [p \in Post |-> LastSet(p, {u.pts})],
                                    delete |-> DeletedIn({u.pts}), pts |-> u.pts, next |-> "run"]])
      /\ UNCHANGED <<server, missed, db, lock, used>>

\* The top of the loop after a resync was asked for.
Again(c) ==
  /\ col[c].pc = "run" /\ col[c].resync /\ col[c].stop = "no"
  /\ Set(c, [col[c] EXCEPT !.pc = "resync"])
  /\ UNCHANGED <<server, missed, db, lock, used>>

\* Fault: the tick only checks the lease.
TickChecksOnly(c) ==
  /\ col[c].pc = "run" /\ col[c].queue = <<>> /\ ~col[c].resync /\ col[c].stop = "no"
  /\ IF lock # c THEN End(c) ELSE UNCHANGED <<col, lock>>
  /\ UNCHANGED <<server, missed, db, used>>

\* Every sync interval: the lease is checked, then every channel catches up.
Tick(c) ==
  /\ col[c].pc = "run" /\ col[c].queue = <<>> /\ ~col[c].resync /\ col[c].stop = "no"
  /\ IF lock # c THEN End(c)
     ELSE /\ Set(c, IF col[c].cursor = Nothing THEN col[c]
                    ELSE [col[c] EXCEPT !.pc = "catchup", !.after = "run"])
          /\ UNCHANGED lock
  /\ UNCHANGED <<server, missed, db, used>>

\* SIGTERM.
Shutdown(c) ==
  /\ Happens("shutdown")
  /\ col[c].pc # "off" /\ col[c].stop = "no"
  /\ Set(c, [col[c] EXCEPT !.stop = "loop"])
  /\ UNCHANGED <<server, missed, db, lock>>

\* Nothing accepted is left, or it waits behind the checkpoint for the next start.
Leave(c) ==
  /\ col[c].stop # "no"
  /\ \/ col[c].pc = "resync"
     \/ col[c].pc = "run" /\ (col[c].queue = <<>> \/ (col[c].resync /\ col[c].stop = "loop"))
  /\ End(c)
  /\ UNCHANGED <<server, missed, db, used>>

\* The process dies, or Telegram ends the session (TelegramAuthLost).
Crash(c) ==
  /\ Happens("crash")
  /\ col[c].pc # "off"
  /\ End(c)
  /\ UNCHANGED <<server, missed, db>>

Step(c) ==
  \/ Acquire(c) \/ Resync(c) \/ Connected(c) \/ Difference(c) \/ History(c)
  \/ Commit(c) \/ CommitUnknown(c) \/ Fail(c) \/ Unavailable(c)
  \/ Apply(c) \/ Again(c) \/ Tick(c) \/ Shutdown(c) \/ Leave(c) \/ Crash(c)

\* toLiveUpdate, dispatch: a change, the advice to catch up, or the connection is back.
Notice == [kind: {"change"}, pts: 1..MaxPts] \cup [kind: {"tooLong", "reconnected"}]

Next ==
  \/ Publish \/ Forget \/ Elapse \/ LoseLock
  \/ \E c \in Collector : Step(c) \/ \E u \in Notice : Deliver(c, u)

Spec == Init /\ [][Next]_vars

-----------------------------------------------------------------------------
(* Properties *)

\* Two ways to put older content back behind the checkpoint are known: a
\* collector that goes on after it lost the lock, and a drain from the cursor of
\* a transaction that committed although it failed.
NoOldWriter ==
  used["lost lock"] = 0 /\ (used["unknown commit"] = 0 \/ used["shutdown"] = 0)

\* "The cursor never passes unsaved data" (telegram.ts:5-6): the content of a
\* live post is at least as new as the checkpoint says, so that catching up
\* from it after a crash misses no post and no edit.  The exception is content a first
\* start or too long a gap leaves to the backfill window when it is older than that, or
\* has RECENT_LIMIT newer posts.
CursorCovered ==
  NoOldWriter => \A p \in Post \ Deleted : stored[p] >= LastSet(p, Covered \ missed)

\* The same for the deletions Telegram tells, but for those before a first start and in a
\* gap the server did not fill, which are only found between two posts of the window.
DeletionsCovered ==
  NoOldWriter => \A p \in DeletedIn(Covered \ missed) : stored[p] > 0 => p \in gone

\* A post is marked deleted only if the channel deleted it, told or not: neither a window
\* that shows part of the history nor a late one drops a live post.
NoFalseDeletion == gone \subseteq Deleted

\* What a collector believes is stored is stored: its cursor never runs ahead of
\* the checkpoint another collector would start from.
CursorBehindCheckpoint ==
  \A c \in Collector : col[c].cursor # Nothing =>
    checkpoint # Nothing /\ col[c].cursor <= checkpoint

\* Each await ends; calls and transactions that fail again and again succeed in
\* the end; a worker is started again, and nothing is assumed of pushed updates.
Fairness ==
  \A c \in Collector :
    /\ SF_vars(Acquire(c)) /\ WF_vars(Resync(c)) /\ SF_vars(Connected(c))
    /\ SF_vars(Difference(c)) /\ SF_vars(History(c)) /\ SF_vars(Commit(c))
    /\ WF_vars(Apply(c)) /\ WF_vars(Again(c)) /\ WF_vars(Tick(c)) /\ WF_vars(Leave(c))

FairSpec == Spec /\ Fairness

Dropped == \E c \in Collector : lock = c /\ col[c].pending /\ col[c].pc = "run"

\* Once the channel is quiet, every live post is stored with its last content,
\* whatever updates were lost, unless that content was out of the backfill's reach, the
\* channel was dropped as unavailable, or an old writer was at work.
Converges ==
  <>[](Dropped \/ ~NoOldWriter \/ \A p \in Live : LastSet(p, 1..Now) \in {stored[p]} \cup missed)
=============================================================================
