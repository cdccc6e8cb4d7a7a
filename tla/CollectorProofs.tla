--------------------------- MODULE CollectorProofs ---------------------------
(***************************************************************************)
(* Proofs about TelegramCollector, for any number of collectors - two at   *)
(* work at once after a lost lock included -, any log, page, gap and queue *)
(* and any number of disturbances: no cursor is ahead of the checkpoint,   *)
(* the checkpoint passes no unsaved content and no unmarked deletion, but  *)
(* for those out of reach of the window that stands in for them, and no    *)
(* live post is marked deleted.                                            *)
(***************************************************************************)
EXTENDS TelegramCollector, FiniteSetTheorems, WellFoundedInduction, TLAPS

Fields == {"pc", "after", "pending", "cursor", "target", "wide", "batch", "queue", "resync", "stop"}

\* A record with the fields of a collector, whatever is in those left open here.
IsCollector(s) == DOMAIN s = Fields /\ s = [f \in Fields |-> s[f]]

\* All that is compared with the checkpoint is a pts.
Numbered(s) ==
  /\ IsCollector(s)
  /\ s.cursor \in Nat \cup {Nothing}
  /\ s.wide \in BOOLEAN
  /\ s.target \in Nat
  /\ s.batch.pts \in Nat
  /\ s.batch.next \in {"catchup", "recheck", "run"}
  /\ s.after \in {"recheck", "run"}
  /\ s.pc = "catchup" => s.cursor # Nothing
  /\ s.queue \in Seq(Update)

\* The checkpoint a collector would start from is no older than what this one has.
Behind(s, mark) == s.cursor # Nothing => mark # Nothing /\ s.cursor <= mark

CursorInv ==
  /\ Len(log) \in Nat
  /\ checkpoint \in Nat \cup {Nothing}
  /\ DOMAIN col = Collector
  /\ col = [c \in Collector |-> col[c]]
  /\ \A c \in Collector : Numbered(col[c]) /\ Behind(col[c], checkpoint)

(* What the collectors save *)

Change == [post: Post, kind: Kind]

\* Posts are published in their order, and a deleted one does not come back.
LogOK ==
  /\ log \in Seq(Change)
  /\ \A i \in 1..Now : LastSet(log[i].post, 1..Now) > 0
  /\ \A i, j \in 1..Now : i < j /\ log[i].kind = "delete" => log[j].post # log[i].post
  /\ \A p, q \in Post : q < p /\ LastSet(p, 1..Now) > 0 => LastSet(q, 1..Now) > 0

\* What a collector has been told of the log: no more than has happened.
Told(s) ==
  /\ s.target <= Now /\ s.batch.pts <= Now
  /\ \A p \in Post : s.batch.set[p] \in Nat
  /\ s.batch.delete \subseteq Deleted
  /\ \A k \in 1..Len(s.queue) : s.queue[k].kind = "change" => s.queue[k].pts \in 1..Now

StoreOK ==
  /\ stored \in [Post -> Nat]
  /\ gone \subseteq Deleted
  /\ checkpoint # Nothing => checkpoint <= Now
  /\ checkpoint = Nothing => \A p \in Post : stored[p] = 0

UsedOK ==
  /\ used \in [Event -> Nat]
  /\ \A c \in Collector : col[c].stop # "no" => used["shutdown"] > 0

HorizonOK == horizon \in [BOOLEAN -> Nat]

ToldInv == LogOK /\ HorizonOK /\ StoreOK /\ UsedOK /\ \A c \in Collector : Told(col[c])

\* The next page after a cursor takes it to this pts, or past a gap.
Reaches(from, to) == to - from <= PageSize \/ Now - from > GapLimit

\* What a post's row holds once the batch is saved.
Saved(b, p) == IF b.set[p] = 0 THEN stored[p] ELSE b.set[p]

\* A batch that may be committed: it leaves out nothing up to its pts.
Complete(b) ==
  /\ checkpoint # Nothing => checkpoint <= b.pts
  /\ \A p \in Post \ Deleted : Saved(b, p) >= LastSet(p, (1..b.pts) \ missed)
  /\ \A p \in DeletedIn((1..b.pts) \ missed) : Saved(b, p) > 0 => p \in gone \cup b.delete

\* A collector at work is at the checkpoint, or, after a commit that seemed to fail,
\* so little behind it that the next page takes it there.
InStep(s) ==
  /\ s.cursor = Nothing /\ ~s.pending => checkpoint \in {Nothing, s.target}
  /\ s.cursor # Nothing => Reaches(s.cursor, checkpoint)
  /\ (used["unknown commit"] = 0 \/ s.pc = "run") /\ s.cursor # Nothing => s.cursor = checkpoint
  /\ s.pc \in {"window", "commit"} /\ s.cursor = Nothing => ~s.pending
  /\ s.pc = "window" /\ ~s.wide => s.cursor # Nothing /\ s.cursor = checkpoint /\ s.target = checkpoint
  /\ s.pc = "window" /\ s.wide /\ s.cursor # Nothing =>
       Now - s.cursor > GapLimit /\ checkpoint <= s.target
  /\ s.pc = "commit" =>
       /\ Complete(s.batch)
       /\ IF s.cursor = Nothing THEN s.batch.pts = s.target ELSE Reaches(s.cursor, s.batch.pts)

\* While nobody lost the lock, one collector at most is at work, and what it does
\* leaves nothing out.
WriterInv ==
  NoOldWriter =>
    /\ CursorCovered /\ DeletionsCovered
    /\ \A c \in Collector : col[c].pc # "off" => lock = c /\ InStep(col[c])

-----------------------------------------------------------------------------
(* Operators *)

LEMMA MaxOfTwo ==
  ASSUME NEW a \in Nat, NEW b \in Nat
  PROVE  Max({a, b}) \in Nat /\ a <= Max({a, b}) /\ b <= Max({a, b})
<1>1. \E x \in {a, b} : \A y \in {a, b} : x >= y
  OBVIOUS
<1>2. /\ Max({a, b}) \in {a, b}
      /\ \A y \in {a, b} : Max({a, b}) >= y
  BY <1>1 DEF Max
<1> QED
  BY <1>2

LEMMA MinOfTwo ==
  ASSUME NEW a \in Nat, NEW b \in Nat
  PROVE  Min({a, b}) \in {a, b}
<1>1. \E x \in {a, b} : \A y \in {a, b} : x <= y
  OBVIOUS
<1> QED
  BY <1>1 DEF Min

\* greatest() never falls behind either of its arguments.
LEMMA LaterIsLater ==
  ASSUME NEW old \in Nat \cup {Nothing}, NEW new \in Nat
  PROVE  /\ Later(old, new) \in Nat
         /\ new <= Later(old, new)
         /\ old # Nothing => old <= Later(old, new)
BY MaxOfTwo DEF Later

LEMMA FreshNumbered == Numbered(Fresh) /\ Fresh.cursor = Nothing
<1>1. DOMAIN Fresh = Fields
  BY DEF Fields, Fresh
<1>2. Fresh = [f \in Fields |-> Fresh[f]]
  BY <1>1 DEF Fresh
<1>3. /\ Fresh.cursor = Nothing /\ Fresh.target = 0 /\ Fresh.batch.pts = 0
      /\ Fresh.batch.next = "run" /\ Fresh.after = "run" /\ Fresh.pc = "off" /\ Fresh.queue = <<>>
  BY DEF Fresh, NoBatch
<1>4. Fresh.queue \in Seq(Update)
  BY <1>3
<1>5. Fresh.wide \in BOOLEAN
  BY DEF Fresh
<1> QED
  BY <1>1, <1>2, <1>3, <1>4, <1>5 DEF Numbered, IsCollector

-----------------------------------------------------------------------------
(* The step of one collector *)

LEMMA SetKeeps ==
  ASSUME CursorInv, NEW c \in Collector, NEW s, Set(c, s), log' = log,
         Numbered(s), Behind(s, checkpoint'),
         checkpoint' \in Nat \cup {Nothing},
         checkpoint # Nothing => checkpoint' # Nothing /\ checkpoint <= checkpoint'
  PROVE  CursorInv'
<1>1. /\ DOMAIN col' = Collector /\ col' = [d \in Collector |-> col'[d]]
      /\ col'[c] = s /\ \A d \in Collector \ {c} : col'[d] = col[d]
  BY DEF CursorInv, Set
<1>2. \A d \in Collector \ {c} : Numbered(col'[d]) /\ Behind(col'[d], checkpoint')
  <2> TAKE d \in Collector \ {c}
  <2>1. Numbered(col[d]) /\ Behind(col[d], checkpoint) /\ col'[d] = col[d]
    BY <1>1 DEF CursorInv
  <2> QED
    BY <2>1 DEF Behind, CursorInv, Numbered
<1>3. Numbered(col'[c]) /\ Behind(col'[c], checkpoint')
  BY <1>1
<1>4. \A d \in Collector : Numbered(col[d])' /\ Behind(col[d], checkpoint)'
  BY <1>2, <1>3 DEF Numbered, Behind, IsCollector
<1> QED
  BY <1>1, <1>4 DEF CursorInv

LEMMA EndKeeps ==
  ASSUME CursorInv, NEW c \in Collector, End(c), log' = log,
         checkpoint' \in Nat \cup {Nothing},
         checkpoint # Nothing => checkpoint' # Nothing /\ checkpoint <= checkpoint'
  PROVE  CursorInv'
BY FreshNumbered, SetKeeps DEF End, Set, Behind

\* A checkpoint that is not touched is no older.
LEMMA CursorHere ==
  ASSUME CursorInv, NEW c \in Collector
  PROVE  /\ Numbered(col[c]) /\ Behind(col[c], checkpoint)
         /\ checkpoint \in Nat \cup {Nothing} /\ Len(log) \in Nat
         /\ checkpoint # Nothing => checkpoint <= checkpoint
BY DEF CursorInv

\* Save moves the checkpoint forward, up to the batch at least.
LEMMA SaveForward ==
  ASSUME CursorInv, NEW c \in Collector, Save(col[c].batch)
  PROVE  /\ checkpoint' \in Nat /\ col[c].batch.pts <= checkpoint'
         /\ checkpoint # Nothing => checkpoint <= checkpoint'
<1>1. checkpoint' = Later(checkpoint, col[c].batch.pts)
  BY DEF Save
<1>2. checkpoint \in Nat \cup {Nothing} /\ col[c].batch.pts \in Nat
  BY CursorHere DEF Numbered
<1> QED
  BY <1>1, <1>2, LaterIsLater

LEMMA FailedKeeps ==
  ASSUME CursorInv, NEW c \in Collector, Failed(c), log' = log,
         checkpoint' \in Nat \cup {Nothing},
         checkpoint # Nothing => checkpoint' # Nothing /\ checkpoint <= checkpoint'
  PROVE  CursorInv'
<1> DEFINE s == [col[c] EXCEPT !.after = "run", !.wide = FALSE, !.batch = NoBatch]
           t == [s EXCEPT !.pc = "resync", !.resync = TRUE]
           u == [s EXCEPT !.pc = "run", !.stop = "drain"]
<1>1. Numbered(col[c]) /\ Behind(col[c], checkpoint)
  BY CursorHere
<1>2. Numbered(t) /\ t.cursor = col[c].cursor /\ Numbered(u) /\ u.cursor = col[c].cursor
  BY <1>1 DEF Numbered, IsCollector, Fields, NoBatch
<1>3. Behind(t, checkpoint') /\ Behind(u, checkpoint')
  BY <1>1, <1>2, CursorHere DEF Behind, Numbered
<1>4. Set(c, t) \/ Set(c, u) \/ End(c)
  BY DEF Failed
<1> HIDE DEF t, u
<1> QED
  BY <1>2, <1>3, <1>4, SetKeeps, EndKeeps

-----------------------------------------------------------------------------
(* Every action keeps the invariant *)

\* Set to a state with the same cursor, or none, beside an untouched checkpoint.
LEMMA KeepsCursor ==
  ASSUME CursorInv, NEW c \in Collector, NEW s, Set(c, s), UNCHANGED <<log, checkpoint>>,
         Numbered(s), s.cursor = Nothing \/ s.cursor = col[c].cursor \/ s.cursor = checkpoint
  PROVE  CursorInv'
<1>1. Behind(s, checkpoint')
  BY CursorHere DEF Behind, Numbered
<1> QED
  BY <1>1, CursorHere, SetKeeps

LEMMA PublishKeeps ==
  ASSUME CursorInv, Publish
  PROVE  CursorInv'
<1>1. Len(log') \in Nat
  BY DEF Publish, CursorInv
<1> QED
  BY <1>1 DEF Publish, db, server, CursorInv, Numbered, IsCollector, Behind

LEMMA DeliverKeeps ==
  ASSUME CursorInv, NEW c \in Collector, NEW u \in Update, Deliver(c, u)
  PROVE  CursorInv'
<1> DEFINE drop == [col[c] EXCEPT !.queue = <<u>>, !.resync = TRUE]
           add == [col[c] EXCEPT !.queue = Append(col[c].queue, u)]
<1>1. (Set(c, drop) \/ Set(c, add)) /\ UNCHANGED <<log, checkpoint>>
  <2>1. col' = [col EXCEPT ![c] = IF Len(col[c].queue) >= MaxQueue THEN drop ELSE add]
    BY DEF Deliver
  <2> HIDE DEF drop, add
  <2>2. (IF Len(col[c].queue) >= MaxQueue THEN drop ELSE add) \in {drop, add}
    OBVIOUS
  <2> QED
    BY <2>1, <2>2 DEF Deliver, Set, db, server
<1>2. Numbered(col[c])
  BY CursorHere
<1>3. <<u>> \in Seq(Update) /\ Append(col[c].queue, u) \in Seq(Update)
  BY <1>2 DEF Numbered
<1>4. Numbered(drop) /\ drop.cursor = col[c].cursor
  BY <1>2, <1>3 DEF Numbered, IsCollector, Fields
<1>5. Numbered(add) /\ add.cursor = col[c].cursor
  BY <1>2, <1>3 DEF Numbered, IsCollector, Fields
<1> HIDE DEF drop, add
<1> QED
  BY <1>1, <1>4, <1>5, KeepsCursor

LEMMA LeaseKeeps ==
  ASSUME CursorInv, NEW c \in Collector, Acquire(c) \/ LoseLock \/ Leave(c) \/ Crash(c)
  PROVE  CursorInv'
<1>1. CASE Acquire(c)
  <2> DEFINE s == [Fresh EXCEPT !.pc = "resync"]
  <2>1. Numbered(s) /\ s.cursor = Nothing
    BY FreshNumbered DEF Numbered, IsCollector, Fields
  <2>2. Set(c, s) /\ UNCHANGED <<log, checkpoint>>
    BY <1>1 DEF Acquire, Set, db, server
  <2> HIDE DEF s
  <2> QED
    BY <2>1, <2>2, KeepsCursor
<1>2. CASE LoseLock
  BY <1>2 DEF LoseLock, db, server, CursorInv, Numbered, IsCollector, Behind
<1>3. CASE Leave(c) \/ Crash(c)
  BY <1>3, CursorHere, EndKeeps DEF Leave, Crash, db, server
<1> QED
  BY <1>1, <1>2, <1>3

LEMMA LoopKeeps ==
  ASSUME CursorInv, NEW c \in Collector, Resync(c) \/ Again(c) \/ Shutdown(c) \/ Unavailable(c)
  PROVE  CursorInv'
<1> DEFINE r == [col[c] EXCEPT !.pc = "connect", !.queue = <<>>]
           a == [col[c] EXCEPT !.pc = "resync"]
           d == [col[c] EXCEPT !.stop = "loop"]
           u == [col[c] EXCEPT !.pc = "run", !.resync = @ /\ col[c].pc # "connect", !.pending = TRUE,
                               !.cursor = Nothing, !.after = "run"]
<1>1. /\ Set(c, r) \/ Set(c, a) \/ Set(c, d) \/ Set(c, u)
      /\ UNCHANGED <<log, checkpoint>>
  BY DEF Resync, Again, Shutdown, Unavailable, db, server
<1>2. /\ Numbered(r) /\ r.cursor = col[c].cursor
      /\ Numbered(a) /\ a.cursor = col[c].cursor
      /\ Numbered(d) /\ d.cursor = col[c].cursor
  <2>1. Numbered(col[c]) /\ <<>> \in Seq(Update)
    BY CursorHere
  <2>2. Numbered(r) /\ r.cursor = col[c].cursor
    BY <2>1 DEF Numbered, IsCollector, Fields
  <2>3. Numbered(a) /\ a.cursor = col[c].cursor
    BY <2>1 DEF Numbered, IsCollector, Fields
  <2>4. Numbered(d) /\ d.cursor = col[c].cursor
    BY <2>1 DEF Numbered, IsCollector, Fields
  <2> QED
    BY <2>2, <2>3, <2>4
<1>3. Numbered(u) /\ u.cursor = Nothing
  BY CursorHere DEF Numbered, IsCollector, Fields
<1> HIDE DEF r, a, d, u
<1> QED
  BY <1>1, <1>2, <1>3, KeepsCursor

LEMMA ConnectedKeeps ==
  ASSUME CursorInv, NEW c \in Collector, Connected(c)
  PROVE  CursorInv'
<1> DEFINE cur == IF col[c].pending THEN checkpoint ELSE col[c].cursor
           w == [col[c] EXCEPT !.pc = "window", !.wide = TRUE, !.after = "run", !.resync = FALSE,
                               !.pending = FALSE, !.cursor = cur,
                               !.target = IF col[c].pending THEN Now ELSE col[c].target]
           d == [col[c] EXCEPT !.pc = "catchup", !.after = "recheck", !.resync = FALSE,
                               !.pending = FALSE, !.cursor = cur]
<1>1. /\ Set(c, w) \/ (cur # Nothing /\ Set(c, d))
      /\ UNCHANGED <<log, checkpoint>>
  <2>1. col' = [col EXCEPT ![c] = IF cur = Nothing THEN w ELSE d]
    BY DEF Connected, Set
  <2> HIDE DEF w, d, cur
  <2>2. CASE cur = Nothing
    BY <2>1, <2>2 DEF Set, Connected, db, server
  <2>3. CASE cur # Nothing
    <3>1. Set(c, d)
      BY <2>1, <2>3 DEF Set
    <3> QED
      BY <2>3, <3>1 DEF Connected, db, server
  <2> QED
    BY <2>2, <2>3
<1>2. cur \in Nat \cup {Nothing} /\ (cur = checkpoint \/ cur = col[c].cursor)
  BY CursorHere DEF Numbered
<1>3. Numbered(w) /\ w.cursor = cur
  BY <1>2, CursorHere DEF Numbered, IsCollector, Fields, Now
<1>4. cur # Nothing => Numbered(d) /\ d.cursor = cur
  BY <1>2, CursorHere DEF Numbered, IsCollector, Fields
<1> HIDE DEF w, d, cur
<1> QED
  BY <1>1, <1>2, <1>3, <1>4, KeepsCursor

LEMMA DifferencePts ==
  ASSUME NEW pts \in Nat, Now \in Nat
  PROVE  ChannelDifference(pts).pts \in Nat
<1> DEFINE upto == Min({Now, pts + PageSize})
           page == (pts + 1)..upto
<1>1. upto \in Nat
  BY CollectorAssumption, MinOfTwo
<1> HIDE DEF upto
<1>2. ChannelDifference(pts) =
        IF Now - pts > GapLimit
        THEN [set |-> NoBatch.set, delete |-> {}, pts |-> Now, final |-> TRUE, tooLong |-> TRUE]
        ELSE [set |-> [p \in Post |-> LastSet(p, page)], delete |-> DeletedIn(page), pts |-> upto,
              final |-> upto = Now, tooLong |-> FALSE]
  BY DEF ChannelDifference, upto
<1> QED
  BY <1>1, <1>2

LEMMA DifferenceKeeps ==
  ASSUME CursorInv, NEW c \in Collector, Difference(c)
  PROVE  CursorInv'
<1> DEFINE diff == ChannelDifference(col[c].cursor)
           w == [col[c] EXCEPT !.pc = "window", !.wide = TRUE, !.target = diff.pts]
           b == [set |-> diff.set, delete |-> diff.delete, pts |-> diff.pts,
                 next |-> IF diff.final THEN col[c].after ELSE "catchup"]
           m == [col[c] EXCEPT !.pc = "commit", !.batch = b]
<1>1. (Set(c, w) \/ Set(c, m)) /\ UNCHANGED <<log, checkpoint>>
  <2>1. Set(c, IF diff.tooLong THEN w ELSE m)
    BY DEF Difference
  <2> HIDE DEF w, m
  <2>2. Set(c, w) \/ Set(c, m)
    BY <2>1
  <2> QED
    BY <2>2 DEF Difference, db, server
<1>2. Numbered(col[c]) /\ col[c].cursor \in Nat /\ Now \in Nat
  BY CursorHere, CollectorAssumption DEF Numbered, Now, Difference
<1>3. diff.pts \in Nat
  BY <1>2, DifferencePts
<1> HIDE DEF diff
<1>4. Numbered(w) /\ w.cursor = col[c].cursor
  BY <1>2, <1>3 DEF Numbered, IsCollector, Fields
<1>5. Numbered(m) /\ m.cursor = col[c].cursor
  <2>1. b.pts = diff.pts /\ b.next \in {"catchup", "recheck", "run"}
    BY <1>2 DEF Numbered
  <2> HIDE DEF b
  <2> QED
    BY <1>2, <1>3, <2>1 DEF Numbered, IsCollector, Fields
<1> HIDE DEF w, m
<1> QED
  BY <1>1, <1>4, <1>5, KeepsCursor

LEMMA HistoryKeeps ==
  ASSUME CursorInv, NEW c \in Collector, History(c)
  PROVE  CursorInv'
<1> DEFINE W == InWindow(col[c].wide)
           b == [set |-> [p \in Post |-> IF p \in W THEN LastSet(p, 1..Now) ELSE 0],
                 delete |-> Missing(W), pts |-> col[c].target,
                 next |-> IF col[c].wide THEN col[c].after ELSE "run"]
           m == [col[c] EXCEPT !.pc = "commit", !.batch = b]
<1>1. Set(c, m) /\ UNCHANGED <<log, checkpoint>>
  BY DEF History, db, server
<1>2. Numbered(col[c])
  BY CursorHere
<1> HIDE DEF W
<1>3. b.pts \in Nat /\ b.next \in {"catchup", "recheck", "run"}
  BY <1>2 DEF Numbered
<1> HIDE DEF b
<1>4. Numbered(m) /\ m.cursor = col[c].cursor
  BY <1>2, <1>3 DEF Numbered, IsCollector, Fields
<1> HIDE DEF m
<1> QED
  BY <1>1, <1>4, KeepsCursor

LEMMA ContinueNumbered ==
  ASSUME NEW s, Numbered(s), s.cursor \in Nat, NEW next \in {"catchup", "recheck", "run"}
  PROVE  Numbered(Continue(s, next)) /\ Continue(s, next).cursor = s.cursor
<1>1. NoBatch.pts = 0 /\ NoBatch.next = "run"
  BY DEF NoBatch
<1> DEFINE w == [s EXCEPT !.pc = "window", !.wide = FALSE, !.target = s.cursor, !.after = "run",
                          !.batch = NoBatch]
           k == [s EXCEPT !.pc = "catchup", !.batch = NoBatch]
           r == [s EXCEPT !.pc = "run", !.after = "run", !.batch = NoBatch]
<1>2. \/ next = "recheck" /\ Continue(s, next) = w
      \/ next = "catchup" /\ Continue(s, next) = k
      \/ next = "run" /\ Continue(s, next) = r
  <2> HIDE DEF w, k, r
  <2>1. "recheck" # "catchup" /\ "recheck" # "run" /\ "catchup" # "run"
    OBVIOUS
  <2> QED
    BY <2>1 DEF Continue, w, k, r
<1> HIDE DEF NoBatch
<1>3. Numbered(w) /\ w.cursor = s.cursor
  <2>1. w.batch = NoBatch /\ w.pc = "window" /\ w.target = s.cursor /\ w.after = "run"
        /\ w.cursor = s.cursor /\ w.queue = s.queue /\ w.wide \in BOOLEAN /\ IsCollector(w)
    BY DEF Numbered, IsCollector, Fields
  <2> HIDE DEF w
  <2> QED
    BY <1>1, <2>1 DEF Numbered
<1>4. Numbered(k) /\ k.cursor = s.cursor
  <2>1. k.batch = NoBatch /\ k.target = s.target /\ k.after = s.after
        /\ k.cursor = s.cursor /\ k.queue = s.queue /\ k.wide \in BOOLEAN /\ IsCollector(k)
    BY DEF Numbered, IsCollector, Fields
  <2> HIDE DEF k
  <2> QED
    BY <1>1, <2>1, CollectorAssumption DEF Numbered
<1>5. Numbered(r) /\ r.cursor = s.cursor
  <2>1. r.batch = NoBatch /\ r.pc = "run" /\ r.target = s.target /\ r.after = "run"
        /\ r.cursor = s.cursor /\ r.queue = s.queue /\ r.wide \in BOOLEAN /\ IsCollector(r)
    BY DEF Numbered, IsCollector, Fields
  <2> HIDE DEF r
  <2> QED
    BY <1>1, <2>1 DEF Numbered
<1> HIDE DEF w, k, r
<1> QED
  BY <1>2, <1>3, <1>4, <1>5

\* The cursor takes the pts of the batch that Save has just committed.
LEMMA CommitKeeps ==
  ASSUME CursorInv, NEW c \in Collector, Commit(c)
  PROVE  CursorInv'
<1> DEFINE s == [col[c] EXCEPT !.cursor = col[c].batch.pts]
           t == Continue(s, col[c].batch.next)
<1>1. Save(col[c].batch) /\ log' = log
  BY DEF Commit, server
<1>2. Numbered(col[c]) /\ col[c].batch.pts \in Nat
  BY CursorHere DEF Numbered
<1>3. Numbered(s) /\ s.cursor = col[c].batch.pts /\ s.batch = col[c].batch
  BY <1>2, CollectorAssumption DEF Numbered, IsCollector, Fields
<1>4. Set(c, t)
  BY <1>3 DEF Commit
<1> HIDE DEF s
<1>5. Numbered(t) /\ t.cursor = col[c].batch.pts
  <2>1. col[c].batch.next \in {"catchup", "recheck", "run"}
    BY <1>2 DEF Numbered
  <2>2. s.cursor \in Nat
    BY <1>2, <1>3
  <2> QED
    BY <1>3, <2>1, <2>2, ContinueNumbered
<1> HIDE DEF t
<1>6. /\ checkpoint' \in Nat /\ col[c].batch.pts <= checkpoint'
      /\ checkpoint # Nothing => checkpoint <= checkpoint'
  BY <1>1, SaveForward
<1>7. Behind(t, checkpoint') /\ checkpoint' # Nothing
  BY <1>5, <1>6, CollectorAssumption DEF Behind
<1> QED
  BY <1>1, <1>4, <1>5, <1>6, <1>7, SetKeeps

\* Committed or not, a failed transaction leaves the cursor where it was.
LEMMA FailKeeps ==
  ASSUME CursorInv, NEW c \in Collector, CommitUnknown(c) \/ Fail(c)
  PROVE  CursorInv'
<1>1. CASE CommitUnknown(c)
  BY <1>1, SaveForward, FailedKeeps, CollectorAssumption DEF CommitUnknown, server
<1>2. CASE Fail(c)
  BY <1>2, CursorHere, FailedKeeps DEF Fail, db, server
<1> QED
  BY <1>1, <1>2

LEMMA ApplyKeeps ==
  ASSUME CursorInv, NEW c \in Collector, Apply(c)
  PROVE  CursorInv'
<1> DEFINE u == Head(col[c].queue)
           t == [col[c] EXCEPT !.queue = Tail(col[c].queue)]
           r == [t EXCEPT !.resync = TRUE]
           k == [t EXCEPT !.pc = "catchup", !.after = "run"]
           b == [set |-> [p \in Post |-> LastSet(p, {u.pts})],
                 delete |-> DeletedIn({u.pts}), pts |-> u.pts, next |-> "run"]
           m == [t EXCEPT !.pc = "commit", !.batch = b]
<1>1. /\ \/ Set(c, t) \/ Set(c, r)
         \/ col[c].cursor # Nothing /\ Set(c, k)
         \/ u.kind \notin {"reconnected", "tooLong"} /\ Set(c, m)
      /\ UNCHANGED <<log, checkpoint>>
  <2>1. Set(c, IF u.kind = "reconnected" THEN r
               ELSE IF col[c].cursor = Nothing THEN t
               ELSE IF u.kind = "tooLong" THEN k
               ELSE IF u.pts <= col[c].cursor THEN t
               ELSE IF u.pts - 1 # col[c].cursor THEN k
               ELSE m)
    BY DEF Apply
  <2> HIDE DEF u, t, r, k, m
  <2> QED
    BY <2>1 DEF Apply, db, server
<1>2. Numbered(col[c]) /\ u \in Update /\ Tail(col[c].queue) \in Seq(Update)
  BY CursorHere DEF Numbered, Apply
<1>3. u.kind \notin {"reconnected", "tooLong"} => u.pts \in Nat
  BY <1>2 DEF Update
<1>4. Numbered(t) /\ t.cursor = col[c].cursor
  BY <1>2 DEF Numbered, IsCollector, Fields
<1> HIDE DEF t, u
<1>5. Numbered(r) /\ r.cursor = col[c].cursor
  BY <1>4 DEF Numbered, IsCollector, Fields
<1>6. col[c].cursor # Nothing => Numbered(k) /\ k.cursor = col[c].cursor
  BY <1>4 DEF Numbered, IsCollector, Fields
<1>7. u.kind \notin {"reconnected", "tooLong"} => Numbered(m) /\ m.cursor = col[c].cursor
  <2>1. b.pts = u.pts /\ b.next = "run"
    OBVIOUS
  <2> HIDE DEF b
  <2> QED
    BY <1>3, <1>4, <2>1 DEF Numbered, IsCollector, Fields
<1> HIDE DEF r, k, m
<1> QED
  BY <1>1, <1>4, <1>5, <1>6, <1>7, KeepsCursor

LEMMA TickKeeps ==
  ASSUME CursorInv, NEW c \in Collector, Tick(c)
  PROVE  CursorInv'
<1> DEFINE k == [col[c] EXCEPT !.pc = "catchup", !.after = "run"]
<1>1. /\ End(c) \/ Set(c, col[c]) \/ (col[c].cursor # Nothing /\ Set(c, k))
      /\ UNCHANGED <<log, checkpoint>>
  <2>1. End(c) \/ Set(c, IF col[c].cursor = Nothing THEN col[c] ELSE k)
    BY DEF Tick
  <2> HIDE DEF k
  <2>2. CASE col[c].cursor = Nothing
    BY <2>1, <2>2 DEF Tick, db, server
  <2>3. CASE col[c].cursor # Nothing
    <3>1. End(c) \/ Set(c, k)
      BY <2>1, <2>3
    <3> QED
      BY <2>3, <3>1 DEF Tick, db, server
  <2> QED
    BY <2>2, <2>3
<1>2. Numbered(col[c])
  BY CursorHere
<1>3. col[c].cursor # Nothing => Numbered(k) /\ k.cursor = col[c].cursor
  BY <1>2 DEF Numbered, IsCollector, Fields
<1> HIDE DEF k
<1> QED
  BY <1>1, <1>2, <1>3, KeepsCursor, EndKeeps, CursorHere

-----------------------------------------------------------------------------

LEMMA CursorStep == CursorInv /\ [Next]_vars => CursorInv'
<1> SUFFICES ASSUME CursorInv, [Next]_vars PROVE CursorInv'
  OBVIOUS
<1>1. CASE UNCHANGED vars
  BY <1>1 DEF vars, CursorInv, Numbered, IsCollector, Behind
<1>2. CASE Publish \/ Forget \/ Elapse \/ LoseLock
  <2>1. CASE Forget \/ Elapse \/ LoseLock
    BY <2>1 DEF Forget, Elapse, LoseLock, db, server, CursorInv, Numbered, IsCollector, Behind
  <2> QED
    BY <1>2, <2>1, PublishKeeps
<1>3. ASSUME NEW c \in Collector, Step(c) PROVE CursorInv'
  BY <1>3, LeaseKeeps, LoopKeeps, ConnectedKeeps, DifferenceKeeps, HistoryKeeps, CommitKeeps,
     FailKeeps, ApplyKeeps, TickKeeps DEF Step
<1>4. ASSUME NEW c \in Collector, NEW u \in Notice, Deliver(c, u) PROVE CursorInv'
  <2>1. u \in Update
    BY CollectorAssumption DEF Notice, Update
  <2> QED
    BY <1>4, <2>1, DeliverKeeps
<1> QED
  BY <1>1, <1>2, <1>3, <1>4 DEF Next

LEMMA CursorInit == Init => CursorInv
  BY FreshNumbered DEF Init, CursorInv, Behind

\* The invariant of the cursors, for any number of collectors and disturbances.
THEOREM CursorInvariant == Spec => []CursorInv
  BY CursorInit, CursorStep, PTL DEF Spec

\* What a collector believes is stored is stored: its cursor never runs ahead of
\* the checkpoint (telegram.ts:290-300), whoever else writes at the same time.
THEOREM CursorsBehind == Spec => []CursorBehindCheckpoint
<1>1. CursorInv => CursorBehindCheckpoint
  BY DEF CursorInv, Behind, CursorBehindCheckpoint
<1> QED
  BY <1>1, CursorInvariant, PTL
-----------------------------------------------------------------------------
(* The log *)

Below == {p \in Nat \X Nat : p[1] < p[2]}

LEMMA BelowWellFounded == IsWellFoundedOn(Below, Nat)
<1>1. OpToRel(<, Nat) = Below
  BY Zenon DEF OpToRel, Below
<1> QED
  BY <1>1, NatLessThanWellFounded, Zenon

\* A bounded set of numbers that is not empty has a greatest one.
LEMMA Greatest ==
  ASSUME NEW T \in SUBSET Nat, T # {}, NEW n \in Nat, \A x \in T : x <= n
  PROVE  Max(T) \in T /\ \A x \in T : x <= Max(T)
<1> DEFINE U == {k \in Nat : \A x \in T : x <= k}
<1>1. U \in SUBSET Nat /\ U # {}
  OBVIOUS
<1>2. PICK m \in U : \A y \in U : <<y, m>> \notin Below
  BY <1>1, BelowWellFounded, WFMin
<1>3. m \in Nat /\ \A x \in T : x <= m
  OBVIOUS
<1>4. m \in T
  <2>1. SUFFICES ASSUME m \notin T PROVE FALSE
    OBVIOUS
  <2>2. \A x \in T : x \in Nat /\ x < m
    BY <1>3, <2>1
  <2>3. m - 1 \in Nat /\ \A x \in T : x <= m - 1
    <3>1. PICK y \in T : y \in Nat /\ y < m
      BY <2>2
    <3> QED
      BY <1>3, <2>2, <3>1
  <2>4. m - 1 \in U /\ <<m - 1, m>> \in Below
    BY <1>3, <2>3 DEF Below
  <2> QED
    BY <1>2, <2>4
<1>5. \E x \in T : \A y \in T : x >= y
  BY <1>3, <1>4
<1>6. Max(T) \in T /\ \A y \in T : Max(T) >= y
  BY <1>5 DEF Max
<1> QED
  BY <1>6

SetsAt(l, p, i) == l[i].post = p /\ l[i].kind = "set"

\* LastSet of any log.
LastIn(l, p, S) == Max({0} \cup {i \in S : l[i].post = p /\ l[i].kind = "set"})

\* The last change of a post's content among changes that happened.
LEMMA LastIs ==
  ASSUME NEW l \in Seq(Change), NEW p, NEW S \in SUBSET (1..Len(l))
  PROVE  /\ LastIn(l, p, S) \in Nat
         /\ LastIn(l, p, S) > 0 => LastIn(l, p, S) \in S /\ SetsAt(l, p, LastIn(l, p, S))
         /\ \A i \in S : SetsAt(l, p, i) => i <= LastIn(l, p, S)
<1> DEFINE T == {0} \cup {i \in S : l[i].post = p /\ l[i].kind = "set"}
<1>1. Len(l) \in Nat
  OBVIOUS
<1>2. T \in SUBSET Nat /\ T # {} /\ \A x \in T : x <= Len(l)
  <2>1. 0 \in T /\ \A x \in T : x = 0 \/ x \in 1..Len(l)
    OBVIOUS
  <2> HIDE DEF T
  <2> QED
    BY <1>1, <2>1
<1>3. Max(T) \in T /\ \A x \in T : x <= Max(T)
  <2> HIDE DEF T
  <2> QED
    BY <1>1, <1>2, Greatest
<1>4. LastIn(l, p, S) = Max(T)
  BY DEF LastIn
<1>5. \A i \in S : SetsAt(l, p, i) => i \in T
  BY DEF SetsAt
<1>6. \A i \in T : i > 0 => i \in S /\ SetsAt(l, p, i)
  BY DEF SetsAt
<1> HIDE DEF T
<1> QED
  BY <1>2, <1>3, <1>4, <1>5, <1>6

LEMMA LastSetIs ==
  ASSUME log \in Seq(Change), NEW p, NEW S \in SUBSET (1..Now)
  PROVE  /\ LastSet(p, S) \in Nat
         /\ LastSet(p, S) > 0 => LastSet(p, S) \in S /\ SetsAt(log, p, LastSet(p, S))
         /\ \A i \in S : SetsAt(log, p, i) => i <= LastSet(p, S)
<1>1. LastSet(p, S) = LastIn(log, p, S)
  BY DEF LastSet, LastIn
<1> QED
  BY <1>1, LastIs DEF Now

\* More changes, a later last one.
LEMMA LastSetGrows ==
  ASSUME log \in Seq(Change), NEW p, NEW S \in SUBSET (1..Now), NEW R \in SUBSET S
  PROVE  LastSet(p, R) <= LastSet(p, S)
<1>1. R \in SUBSET (1..Now)
  OBVIOUS
<1> QED
  BY <1>1, LastSetIs

LEMMA DeletedWhere ==
  ASSUME NEW S
  PROVE  \A p : p \in DeletedIn(S) <=> \E i \in S : log[i].kind = "delete" /\ log[i].post = p
  BY DEF DeletedIn

\* What happened stays as it was.
LogKept ==
  /\ Now \in Nat /\ Now' \in Nat /\ Now <= Now'
  /\ \A i \in 1..Now : log'[i] = log[i]
  /\ lost \subseteq lost'

LEMMA LogGrows ==
  ASSUME log \in Seq(Change), [Next]_vars
  PROVE  LogKept /\ log' \in Seq(Change)
<1>4. lost \subseteq lost'
  BY DEF Next, Step, vars, server, Publish, Forget, Elapse, LoseLock, Deliver, Acquire, Resync, Connected, Difference,
         History, Commit, CommitUnknown, Fail, Unavailable, Apply, Again, Tick, Shutdown, Leave, Crash
<1>1. CASE log' = log
  BY <1>1, <1>4 DEF LogKept, Now
<1>2. ASSUME NEW p \in Post, NEW k \in Kind, log' = Append(log, [post |-> p, kind |-> k])
      PROVE  LogKept /\ log' \in Seq(Change)
  <2>1. [post |-> p, kind |-> k] \in Change
    BY DEF Change
  <2> QED
    BY <1>2, <1>4, <2>1 DEF LogKept, Now
<1>3. log' = log \/ \E p \in Post, k \in Kind : log' = Append(log, [post |-> p, kind |-> k])
  BY DEF Next, Step, vars, server, Publish, Forget, Elapse, LoseLock, Deliver, Acquire, Resync, Connected, Difference, History, Commit,
         CommitUnknown, Fail, Unavailable, Apply, Again, Tick, Shutdown, Leave, Crash
<1> QED
  BY <1>1, <1>2, <1>3

LEMMA PastKept ==
  ASSUME LogKept, NEW S \in SUBSET (1..Now)
  PROVE  /\ \A p : LastSet(p, S)' = LastSet(p, S)
         /\ DeletedIn(S)' = DeletedIn(S)
         /\ S \in SUBSET (1..Now')
<1>1. \A i \in S : log'[i] = log[i]
  BY DEF LogKept
<1>2. ASSUME NEW p PROVE LastSet(p, S)' = LastSet(p, S)
  <2>1. {i \in S : log'[i].post = p /\ log'[i].kind = "set"} = {i \in S : log[i].post = p /\ log[i].kind = "set"}
    BY <1>1
  <2> QED
    BY <2>1 DEF LastSet
<1>3. {j \in S : log'[j].kind = "delete"} = {j \in S : log[j].kind = "delete"}
  BY <1>1
<1>4. DeletedIn(S)' = DeletedIn(S)
  BY <1>1, <1>3 DEF DeletedIn
<1>5. S \in SUBSET (1..Now')
  BY DEF LogKept
<1> QED
  BY <1>2, <1>4, <1>5

LEMMA DeletedGrows ==
  ASSUME LogKept
  PROVE  Deleted \subseteq Deleted'
<1>1. lost \subseteq lost' /\ \A i \in 1..Now : i \in 1..Now' /\ log'[i] = log[i]
  BY DEF LogKept
<1> QED
  BY <1>1 DEF Deleted, DeletedIn

-----------------------------------------------------------------------------
(* The server *)

\* Only the next post is new, and only a live post changes.
LEMMA PublishLog ==
  ASSUME ToldInv, Publish
  PROVE  LogOK'
<1>1. log \in Seq(Change) /\ LogKept /\ log' \in Seq(Change)
  BY LogGrows DEF ToldInv, LogOK, Next
<1>2. PICK p \in Post, k \in Kind :
        /\ \/ p \in Live
           \/ /\ k = "set" /\ LastSet(p, 1..Now) = 0
              /\ \A q \in Post : q < p => LastSet(q, 1..Now) > 0
        /\ log' = Append(log, [post |-> p, kind |-> k])
  BY DEF Publish
<1>3. /\ Now' = Now + 1 /\ Now \in Nat /\ log'[Now + 1] = [post |-> p, kind |-> k]
      /\ \A i \in 1..Now' : i = Now + 1 \/ (i \in 1..Now /\ log'[i] = log[i])
  BY <1>1, <1>2 DEF Now, LogKept
<1>4. \A i \in 1..Now : LastSet(log[i].post, 1..Now) > 0
  BY DEF ToldInv, LogOK
<1>5. ASSUME NEW i \in 1..Now, log[i].kind = "delete" PROVE log[i].post # p
  <2>1. LastSet(log[i].post, 1..Now) > 0 /\ log[i].post \in DeletedIn(1..Now)
    BY <1>4, <1>5, DeletedWhere
  <2> QED
    BY <1>2, <2>1 DEF Live, Deleted
<1>6. \A q : /\ LastSet(q, 1..Now) \in Nat /\ LastSet(q, 1..Now)' \in Nat
             /\ LastSet(q, 1..Now) <= LastSet(q, 1..Now)'
             /\ LastSet(q, 1..Now)' > 0 => LastSet(q, 1..Now) > 0 \/ (q = p /\ k = "set")
             /\ q = p /\ k = "set" => LastSet(q, 1..Now)' > 0
  <2> TAKE q
  <2>1. 1..Now \in SUBSET (1..Len(log)) /\ 1..Now' \in SUBSET (1..Len(log'))
    BY DEF Now
  <2> DEFINE old == LastIn(log, q, 1..Now)
             new == LastIn(log', q, 1..Now')
  <2>2. LastSet(q, 1..Now) = old /\ LastSet(q, 1..Now)' = new
    BY DEF LastSet, LastIn
  <2>3. /\ old \in Nat /\ (old > 0 => old \in 1..Now /\ SetsAt(log, q, old))
        /\ \A i \in 1..Now : SetsAt(log, q, i) => i <= old
    BY <1>1, <2>1, LastIs
  <2>4. /\ new \in Nat /\ (new > 0 => new \in 1..Now' /\ SetsAt(log', q, new))
        /\ \A i \in 1..Now' : SetsAt(log', q, i) => i <= new
    BY <1>1, <2>1, LastIs
  <2>5. \A i \in 1..Now : i \in 1..Now' /\ (SetsAt(log', q, i) <=> SetsAt(log, q, i))
    BY <1>3 DEF SetsAt
  <2>6. (SetsAt(log', q, Now + 1) <=> q = p /\ k = "set") /\ Now + 1 \in 1..Now'
    BY <1>3 DEF SetsAt
  <2> HIDE DEF old, new
  <2>7. old <= new /\ (q = p /\ k = "set" => new > 0)
    BY <1>3, <2>3, <2>4, <2>5, <2>6
  <2>8. new > 0 => old > 0 \/ (q = p /\ k = "set")
    BY <1>3, <2>3, <2>4, <2>5, <2>6
  <2> QED
    BY <2>2, <2>3, <2>4, <2>7, <2>8
<1>7. LastSet(p, 1..Now)' > 0
  <2>1. CASE p \in Live
    BY <1>6, <2>1 DEF Live
  <2>2. CASE k = "set"
    BY <1>6, <2>2
  <2> QED
    BY <1>2, <2>1, <2>2
<1>8. ASSUME NEW i \in 1..Now' PROVE LastSet(log[i].post, 1..Now)' > 0
  <2> PICK q : q = log'[i].post
    OBVIOUS
  <2>1. LastSet(q, 1..Now)' > 0
    <3>1. CASE i = Now + 1
      BY <1>3, <1>7, <3>1
    <3>2. CASE i \in 1..Now /\ log'[i] = log[i]
      BY <1>4, <1>6, <3>2
    <3> QED
      BY <1>3, <3>1, <3>2
  <2> QED
    BY <2>1
<1>9. ASSUME NEW i \in 1..Now', NEW j \in 1..Now', i < j, log'[i].kind = "delete" PROVE log'[j].post # log'[i].post
  <2>1. i \in 1..Now /\ log'[i] = log[i]
    BY <1>3, <1>9
  <2>2. CASE j = Now + 1
    BY <1>3, <1>5, <1>9, <2>1, <2>2
  <2>3. CASE j \in 1..Now /\ log'[j] = log[j]
    BY <1>9, <2>1, <2>3 DEF ToldInv, LogOK
  <2> QED
    BY <1>3, <2>2, <2>3
<1>10. ASSUME NEW q \in Post, NEW r \in Post, r < q, LastSet(q, 1..Now)' > 0 PROVE LastSet(r, 1..Now)' > 0
  <2>1. LastSet(r, 1..Now) > 0
    <3>1. CASE LastSet(q, 1..Now) > 0
      BY <1>10, <3>1 DEF ToldInv, LogOK
    <3>2. CASE q = p /\ k = "set" /\ ~(LastSet(q, 1..Now) > 0)
      BY <1>2, <1>10, <3>2 DEF Live
    <3> QED
      BY <1>6, <1>10, <3>1, <3>2
  <2> QED
    BY <1>6, <2>1
<1> QED
  BY <1>1, <1>8, <1>9, <1>10 DEF LogOK

LEMMA LogStep ==
  ASSUME ToldInv, [Next]_vars
  PROVE  LogOK'
<1>1. log' = log \/ Publish
  BY DEF Next, Step, vars, server, Forget, Elapse, LoseLock, Deliver, Acquire, Resync, Connected, Difference, History, Commit,
         CommitUnknown, Fail, Unavailable, Apply, Again, Tick, Shutdown, Leave, Crash
<1>2. CASE log' = log
  <2>1. Now' = Now /\ \A p : LastSet(p, 1..Now)' = LastSet(p, 1..Now)
    BY <1>2 DEF Now, LastSet
  <2> QED
    BY <1>2, <2>1 DEF ToldInv, LogOK
<1> QED
  BY <1>1, <1>2, PublishLog

-----------------------------------------------------------------------------
(* What a collector is told *)

LEMMA ToldKept ==
  ASSUME LogKept, NEW s, Told(s), s.target \in Nat, s.batch.pts \in Nat
  PROVE  Told(s)'
<1>1. /\ s.target <= Now' /\ s.batch.pts <= Now'
      /\ \A k \in 1..Len(s.queue) : s.queue[k].kind = "change" => s.queue[k].pts \in 1..Now'
  BY DEF Told, LogKept
<1>2. s.batch.delete \subseteq Deleted'
  BY DeletedGrows DEF Told
<1> QED
  BY <1>1, <1>2 DEF Told

LEMMA NoBatchTold ==
  /\ NoBatch.pts = 0 /\ NoBatch.delete = {} /\ NoBatch.set = [p \in Post |-> 0] /\ NoBatch.next = "run"
  BY DEF NoBatch

LEMMA FreshTold == Now \in Nat => Told(Fresh)
<1>1. /\ Fresh.target = 0 /\ Fresh.batch = NoBatch /\ Fresh.queue = <<>>
  BY DEF Fresh
<1> QED
  BY <1>1, NoBatchTold DEF Told

\* A state with the same target, batch and queue is told the same.
LEMMA SameTold ==
  ASSUME NEW r, NEW s, Told(r), s.target = r.target, s.batch \in {r.batch, NoBatch}, s.queue \in {r.queue, <<>>},
         Now \in Nat
  PROVE  Told(s)
<1>1. \A k \in 1..Len(s.queue) : s.queue[k].kind = "change" => s.queue[k].pts \in 1..Now
  BY DEF Told
<1>2. s.batch.pts <= Now /\ s.batch.delete \subseteq Deleted /\ \A p \in Post : s.batch.set[p] \in Nat
  BY NoBatchTold DEF Told
<1> QED
  BY <1>1, <1>2 DEF Told

\* What the state of a collector is made of.
LEMMA Parts ==
  ASSUME CursorInv, NEW c \in Collector
  PROVE  /\ DOMAIN col[c] = Fields /\ col[c].target \in Nat /\ col[c].batch.pts \in Nat
         /\ col[c].cursor \in Nat \cup {Nothing} /\ col[c].queue \in Seq(Update)
         /\ DOMAIN col = Collector /\ Now \in Nat /\ checkpoint \in Nat \cup {Nothing}
         /\ col[c].cursor # Nothing => checkpoint # Nothing /\ col[c].cursor <= checkpoint
         /\ col[c].pc = "catchup" => col[c].cursor # Nothing
         /\ col[c].batch.next \in {"catchup", "recheck", "run"} /\ col[c].after \in {"recheck", "run"}
         /\ col[c].wide \in BOOLEAN
  BY DEF CursorInv, Numbered, IsCollector, Now, Behind

\* An answer of getChannelDifference: a page that begins after pts and is as long as
\* it may be, or the end of the log after too long a gap.
LEMMA Page ==
  ASSUME log \in Seq(Change), NEW pts \in Nat
  PROVE  LET d == ChannelDifference(pts)
             page == (pts + 1)..d.pts
         IN  /\ d.pts \in Nat /\ d.pts <= Now
             /\ d.tooLong <=> Now - pts > GapLimit
             /\ d.tooLong => d.pts = Now
             /\ ~d.tooLong => /\ d.pts = Now \/ d.pts = pts + PageSize
                              /\ d.pts <= pts + PageSize
                              /\ page \in SUBSET (1..Now)
                              /\ \A p \in Post : d.set[p] = LastSet(p, page)
                              /\ d.delete = DeletedIn(page)
             /\ d.tooLong => d.set = NoBatch.set /\ d.delete = {}
<1> DEFINE upto == Min({Now, pts + PageSize})
           d == ChannelDifference(pts)
<1>1. Now \in Nat /\ PageSize \in Nat \ {0} /\ GapLimit \in Nat
  BY CollectorAssumption DEF Now
<1>2. upto \in {Now, pts + PageSize} /\ upto <= Now /\ upto <= pts + PageSize
  <2>1. \E x \in {Now, pts + PageSize} : \A y \in {Now, pts + PageSize} : x <= y
    BY <1>1
  <2> QED
    BY <2>1 DEF Min
<1>3. d = IF Now - pts > GapLimit
          THEN [set |-> NoBatch.set, delete |-> {}, pts |-> Now, final |-> TRUE, tooLong |-> TRUE]
          ELSE [set |-> [p \in Post |-> LastSet(p, (pts + 1)..upto)], delete |-> DeletedIn((pts + 1)..upto),
                pts |-> upto, final |-> upto = Now, tooLong |-> FALSE]
  BY DEF ChannelDifference
<1> HIDE DEF upto, d
<1>4. CASE Now - pts > GapLimit
  BY <1>1, <1>3, <1>4 DEF d
<1>5. CASE ~(Now - pts > GapLimit)
  <2>1. /\ d.pts = upto /\ d.tooLong = FALSE /\ d.delete = DeletedIn((pts + 1)..upto)
        /\ d.set = [p \in Post |-> LastSet(p, (pts + 1)..upto)]
    BY <1>3, <1>5
  <2> QED
    BY <1>1, <1>2, <1>5, <2>1 DEF d
<1> QED
  BY <1>4, <1>5

LEMMA DeletedWithin ==
  ASSUME NEW S, NEW R \in SUBSET S
  PROVE  DeletedIn(R) \subseteq DeletedIn(S)
  BY DEF DeletedIn

\* What a window does not show between two posts it shows is deleted.
LEMMA MissingDeleted ==
  ASSUME LogOK, HorizonOK, NEW wide \in BOOLEAN
  PROVE  Missing(InWindow(wide)) \subseteq Deleted
<1> DEFINE W == InWindow(wide)
           newer(p) == {q \in Live : q > p}
<1>1. SUFFICES ASSUME NEW p \in Post, p \notin W, NEW lo \in W, NEW hi \in W, lo < p, p < hi
               PROVE  p \in Deleted
  BY DEF Missing
<1>2. W = {q \in Live : q > horizon[wide] /\ Cardinality(newer(q)) < RecentLimit}
  BY DEF InWindow
<1>3. lo \in Live /\ hi \in Live
  BY <1>2
<1>4. LastSet(p, 1..Now) > 0
  BY <1>1, <1>3 DEF LogOK, Live
<1>5. /\ horizon[wide] \in Nat /\ RecentLimit \in Nat /\ IsFiniteSet(Post)
      /\ \A q \in Post : q \in Nat
      /\ lo \in Nat /\ p \in Nat
  BY <1>3, CollectorAssumption DEF HorizonOK, Live
<1>6. ASSUME p \in Live PROVE FALSE
  <2>1. IsFiniteSet(newer(lo)) /\ newer(p) \subseteq newer(lo)
    <3>1. newer(lo) \subseteq Post
      BY DEF Live
    <3>2. IsFiniteSet(newer(lo))
      <4> HIDE DEF newer
      <4> QED
        BY <1>5, <3>1, FS_Subset
    <3>3. ASSUME NEW q \in newer(p) PROVE q \in newer(lo)
      <4>1. q \in Live /\ q > p /\ q \in Nat
        BY <1>5 DEF Live
      <4>2. q > lo
        BY <1>1, <1>5, <4>1
      <4> QED
        BY <4>1, <4>2
    <3> QED
      BY <3>2, <3>3
  <2>2. /\ Cardinality(newer(p)) <= Cardinality(newer(lo))
        /\ Cardinality(newer(p)) \in Nat /\ Cardinality(newer(lo)) \in Nat
    <3> HIDE DEF newer
    <3> QED
      BY <2>1, FS_Subset, FS_CardinalityType
  <2>3. Cardinality(newer(lo)) < RecentLimit /\ lo > horizon[wide]
    BY <1>2
  <2>4. Cardinality(newer(p)) < RecentLimit /\ p > horizon[wide]
    <3> HIDE DEF newer
    <3> QED
      BY <1>1, <1>5, <2>2, <2>3
  <2> QED
    BY <1>1, <1>2, <1>6, <2>4
<1> QED
  BY <1>4, <1>6 DEF Live

\* The batch of a page, and of an update, says what the log says.
LEMMA BatchTold ==
  ASSUME LogOK, NEW r, Told(r), NEW s, s.target = r.target,
         NEW S \in SUBSET (1..Now), s.batch.pts <= Now,
         \A p \in Post : s.batch.set[p] = LastSet(p, S), s.batch.delete = DeletedIn(S),
         \A k \in 1..Len(s.queue) : s.queue[k].kind = "change" => s.queue[k].pts \in 1..Now
  PROVE  Told(s)
<1>1. DeletedIn(S) \subseteq Deleted
  BY DeletedWithin DEF Deleted
<1>2. \A p \in Post : s.batch.set[p] \in Nat
  BY LastSetIs DEF LogOK
<1> QED
  BY <1>1, <1>2 DEF Told

LEMMA DifferenceTold ==
  ASSUME CursorInv, ToldInv, NEW c \in Collector, NEW s, s = col'[c], Difference(c)
  PROVE  Told(s)
<1> DEFINE d == ChannelDifference(col[c].cursor)
           w == [col[c] EXCEPT !.pc = "window", !.wide = TRUE, !.target = d.pts]
           m == [col[c] EXCEPT !.pc = "commit",
                               !.batch = [set |-> d.set, delete |-> d.delete, pts |-> d.pts,
                                          next |-> IF d.final THEN col[c].after ELSE "catchup"]]
<1>1. Told(col[c]) /\ LogOK /\ log \in Seq(Change) /\ col[c].cursor \in Nat
  BY Parts DEF ToldInv, LogOK, Difference
<1>2. s = IF d.tooLong THEN w ELSE m
  BY Parts DEF Difference, Set
<1>3. CASE d.tooLong
  <2>1. s = w /\ d.pts = Now /\ Now \in Nat
    BY <1>1, <1>2, <1>3, Page, Parts
  <2> HIDE DEF d
  <2>2. s.target = Now /\ s.batch = col[c].batch /\ s.queue = col[c].queue
    BY <2>1, Parts DEF Fields
  <2> QED
    BY <1>1, <2>1, <2>2 DEF Told
<1>4. CASE ~d.tooLong
  <2> DEFINE S == (col[c].cursor + 1)..d.pts
  <2>1. /\ S \in SUBSET (1..Now) /\ d.pts <= Now /\ d.delete = DeletedIn(S)
        /\ \A p \in Post : d.set[p] = LastSet(p, S)
    BY <1>1, <1>4, Page
  <2> HIDE DEF S, d
  <2>2. /\ s.target = col[c].target /\ s.queue = col[c].queue
        /\ s.batch.pts = d.pts /\ s.batch.set = d.set /\ s.batch.delete = d.delete
    BY <1>2, <1>4, Parts DEF Fields
  <2>3. \A k \in 1..Len(s.queue) : s.queue[k].kind = "change" => s.queue[k].pts \in 1..Now
    BY <1>1, <2>2 DEF Told
  <2> QED
    BY <1>1, <2>1, <2>2, <2>3, BatchTold
<1> QED
  BY <1>3, <1>4

LEMMA HistoryTold ==
  ASSUME CursorInv, ToldInv, NEW c \in Collector, NEW s, s = col'[c], History(c)
  PROVE  Told(s)
<1> DEFINE W == InWindow(col[c].wide)
           b == [set |-> [p \in Post |-> IF p \in W THEN LastSet(p, 1..Now) ELSE 0],
                 delete |-> Missing(W), pts |-> col[c].target,
                 next |-> IF col[c].wide THEN col[c].after ELSE "run"]
<1>1. Told(col[c]) /\ LogOK /\ HorizonOK /\ log \in Seq(Change) /\ col[c].wide \in BOOLEAN
  BY Parts DEF ToldInv, LogOK
<1>2. s = [col[c] EXCEPT !.pc = "commit", !.batch = b]
  BY Parts DEF History, Set
<1>3. b.delete \subseteq Deleted /\ b.pts = col[c].target
  BY <1>1, MissingDeleted
<1>4. \A p \in Post : b.set[p] \in Nat
  BY <1>1, LastSetIs
<1> HIDE DEF b
<1>5. s.target = col[c].target /\ s.queue = col[c].queue /\ s.batch = b
  BY <1>2, Parts DEF Fields
<1> QED
  BY <1>1, <1>3, <1>4, <1>5 DEF Told

LEMMA ApplyTold ==
  ASSUME CursorInv, ToldInv, NEW c \in Collector, NEW s, s = col'[c], Apply(c)
  PROVE  Told(s)
<1> DEFINE u == Head(col[c].queue)
           t == [col[c] EXCEPT !.queue = Tail(col[c].queue)]
           r == [t EXCEPT !.resync = TRUE]
           k == [t EXCEPT !.pc = "catchup", !.after = "run"]
           b == [set |-> [p \in Post |-> LastSet(p, {u.pts})],
                 delete |-> DeletedIn({u.pts}), pts |-> u.pts, next |-> "run"]
           m == [t EXCEPT !.pc = "commit", !.batch = b]
<1>1. Told(col[c]) /\ LogOK /\ log \in Seq(Change)
  BY DEF ToldInv, LogOK
<1>2. col[c].queue \in Seq(Update) /\ col[c].queue # <<>> /\ Len(col[c].queue) \in Nat
  BY Parts DEF Apply
<1>3. u \in Update /\ (u.kind = "change" => u.pts \in 1..Now)
  BY <1>1, <1>2 DEF Told
<1>4. s \in {t, r, k} \/ (u.kind = "change" /\ s = m)
  <2>1. u.kind \notin {"reconnected", "tooLong"} => u.kind = "change"
    BY <1>3 DEF Update
  <2>2. Set(c, IF u.kind = "reconnected" THEN r
               ELSE IF col[c].cursor = Nothing THEN t
               ELSE IF u.kind = "tooLong" THEN k
               ELSE IF u.pts <= col[c].cursor THEN t
               ELSE IF u.pts - 1 # col[c].cursor THEN k
               ELSE m)
    BY DEF Apply
  <2> HIDE DEF u, t, r, k, m
  <2> QED
    BY <2>1, <2>2, Parts DEF Set
<1>5. \A i \in 1..Len(Tail(col[c].queue)) :
         Tail(col[c].queue)[i].kind = "change" => Tail(col[c].queue)[i].pts \in 1..Now
  <2>1. \A i \in 1..Len(Tail(col[c].queue)) :
          i + 1 \in 1..Len(col[c].queue) /\ Tail(col[c].queue)[i] = col[c].queue[i + 1]
    BY <1>2
  <2> QED
    BY <1>1, <2>1 DEF Told
<1>6. CASE s \in {t, r, k}
  <2>1. s.target = col[c].target /\ s.batch = col[c].batch /\ s.queue = Tail(col[c].queue)
    BY <1>6, Parts DEF Fields
  <2> QED
    BY <1>1, <1>5, <2>1 DEF Told
<1>7. CASE u.kind = "change" /\ s = m
  <2>1. s.target = col[c].target /\ s.batch = b /\ s.queue = Tail(col[c].queue)
    BY <1>7, Parts DEF Fields
  <2> HIDE DEF m, t
  <2>2. {u.pts} \in SUBSET (1..Now) /\ u.pts <= Now
    BY <1>3, <1>7, Parts
  <2>3. /\ \A p \in Post : s.batch.set[p] = LastSet(p, {u.pts})
        /\ s.batch.delete = DeletedIn({u.pts}) /\ s.batch.pts = u.pts
    BY <2>1
  <2> HIDE DEF u, b
  <2> QED
    BY <1>1, <1>5, <2>1, <2>2, <2>3, BatchTold
<1> QED
  BY <1>4, <1>6, <1>7

LEMMA DeliverTold ==
  ASSUME CursorInv, ToldInv, NEW c \in Collector, NEW u, NEW s, s = col'[c], Deliver(c, u)
  PROVE  Told(s)
<1> DEFINE drop == [col[c] EXCEPT !.queue = <<u>>, !.resync = TRUE]
           add == [col[c] EXCEPT !.queue = Append(col[c].queue, u)]
<1>1. Told(col[c]) /\ (u.kind = "change" => u.pts \in 1..Now)
  BY DEF ToldInv, Deliver
<1>2. s = IF Len(col[c].queue) >= MaxQueue THEN drop ELSE add
  BY Parts DEF Deliver
<1>3. /\ s.target = col[c].target /\ s.batch = col[c].batch
      /\ s.queue = <<u>> \/ s.queue = Append(col[c].queue, u)
  <2>1. s = drop \/ s = add
    <3> HIDE DEF drop, add
    <3> QED
      BY <1>2
  <2> QED
    BY <2>1, Parts DEF Fields
<1>4. \A k \in 1..Len(s.queue) : s.queue[k] = u \/ \E j \in 1..Len(col[c].queue) : s.queue[k] = col[c].queue[j]
  <2>1. CASE s.queue = <<u>>
    BY <2>1
  <2>2. CASE s.queue = Append(col[c].queue, u)
    <3>1. col[c].queue \in Seq(Update)
      BY Parts
    <3> QED
      BY <2>2, <3>1
  <2> QED
    BY <1>3, <2>1, <2>2
<1> QED
  BY <1>1, <1>3, <1>4 DEF Told

\* A failed await: the collector resyncs, drains what it has, or ends.
LEMMA FailedIs ==
  ASSUME CursorInv, NEW c \in Collector, NEW s, s = col'[c], Failed(c)
  PROVE  \/ End(c) /\ col[c].stop # "no"
         \/ /\ lock' = lock /\ s.cursor = col[c].cursor /\ s.target = col[c].target /\ s.pending = col[c].pending
            /\ s.batch = NoBatch /\ s.queue = col[c].queue
            /\ \/ s.pc = "resync" /\ s.stop = col[c].stop /\ s.stop = "no"
               \/ s.pc = "run" /\ s.stop # "no" /\ col[c].stop # "no"
<1> DEFINE r == [col[c] EXCEPT !.after = "run", !.wide = FALSE, !.batch = NoBatch]
<1>1. /\ DOMAIN r = Fields /\ r.cursor = col[c].cursor /\ r.target = col[c].target /\ r.pending = col[c].pending
      /\ r.batch = NoBatch /\ r.queue = col[c].queue /\ r.stop = col[c].stop
  BY Parts DEF Fields
<1>2. CASE r.stop = "no"
  <2>1. s = [r EXCEPT !.pc = "resync", !.resync = TRUE] /\ lock' = lock
    BY <1>2, Parts DEF Failed, Set
  <2> HIDE DEF r
  <2> QED
    BY <1>1, <1>2, <2>1 DEF Fields
<1>3. CASE r.stop = "loop" /\ ~r.resync
  <2>1. s = [r EXCEPT !.pc = "run", !.stop = "drain"] /\ lock' = lock
    BY <1>3, Parts DEF Failed, Set
  <2> HIDE DEF r
  <2> QED
    BY <1>1, <1>3, <2>1 DEF Fields
<1>4. CASE r.stop # "no" /\ ~(r.stop = "loop" /\ ~r.resync)
  <2>1. End(c)
    BY <1>4 DEF Failed
  <2> QED
    BY <1>1, <1>4, <2>1
<1> QED
  BY <1>2, <1>3, <1>4

\* The rest take target, batch and queue over, or leave them.
LEMMA RestTold ==
  ASSUME CursorInv, ToldInv, NEW c \in Collector, NEW s, s = col'[c],
         \/ Acquire(c) \/ Resync(c) \/ Fail(c) \/ CommitUnknown(c) \/ Unavailable(c)
         \/ Again(c) \/ Tick(c) \/ Shutdown(c) \/ Leave(c) \/ Crash(c)
  PROVE  Told(s)
<1>1. Told(col[c]) /\ Now \in Nat
  BY Parts DEF ToldInv
<1>2. CASE End(c)
  BY <1>1, <1>2, FreshTold, Parts DEF End
<1>3. CASE Acquire(c)
  <2>1. s = [Fresh EXCEPT !.pc = "resync"]
    BY <1>3, Parts DEF Acquire
  <2>2. s.target = Fresh.target /\ s.batch = Fresh.batch /\ s.queue = Fresh.queue
    BY <2>1 DEF Fresh
  <2> QED
    BY <1>1, <2>2, FreshTold, SameTold
<1>4. CASE Failed(c)
  <2>1. CASE s.target = col[c].target /\ s.batch = NoBatch /\ s.queue = col[c].queue
    BY <1>1, <2>1, SameTold
  <2> QED
    BY <1>2, <1>4, <2>1, FailedIs
<1>5. CASE Resync(c) \/ Unavailable(c) \/ Again(c) \/ Shutdown(c)
  <2>1. \/ s = [col[c] EXCEPT !.pc = "connect", !.queue = <<>>]
        \/ s = [col[c] EXCEPT !.pc = "run", !.resync = @ /\ col[c].pc # "connect", !.pending = TRUE,
                              !.cursor = Nothing, !.after = "run"]
        \/ s = [col[c] EXCEPT !.pc = "resync"]
        \/ s = [col[c] EXCEPT !.stop = "loop"]
    BY <1>5, Parts DEF Resync, Unavailable, Again, Shutdown, Set
  <2>2. s.target = col[c].target /\ s.batch = col[c].batch /\ s.queue \in {col[c].queue, <<>>}
    BY <2>1, Parts DEF Fields
  <2> QED
    BY <1>1, <2>2, SameTold
<1>6. CASE Tick(c)
  <2>1. End(c) \/ s = col[c] \/ s = [col[c] EXCEPT !.pc = "catchup", !.after = "run"]
    <3>1. \/ End(c)
          \/ Set(c, IF col[c].cursor = Nothing THEN col[c] ELSE [col[c] EXCEPT !.pc = "catchup", !.after = "run"])
      BY <1>6 DEF Tick
    <3> QED
      BY <3>1, Parts DEF Set
  <2>2. CASE ~End(c)
    <3>1. s.target = col[c].target /\ s.batch = col[c].batch /\ s.queue = col[c].queue
      BY <2>1, <2>2, Parts DEF Fields
    <3> QED
      BY <1>1, <3>1, SameTold
  <2> QED
    BY <1>2, <2>2
<1> QED
  BY <1>2, <1>3, <1>4, <1>5, <1>6 DEF Fail, CommitUnknown, Leave, Crash

LEMMA ConnectedTold ==
  ASSUME CursorInv, ToldInv, NEW c \in Collector, NEW s, s = col'[c], Connected(c)
  PROVE  Told(s)
<1>1. Told(col[c]) /\ Now \in Nat
  BY Parts DEF ToldInv
<1>2. s.target \in {Now, col[c].target} /\ s.batch = col[c].batch /\ s.queue = col[c].queue
  BY Parts DEF Connected, Set, Fields
<1> QED
  BY <1>1, <1>2 DEF Told

LEMMA CommitTold ==
  ASSUME CursorInv, ToldInv, NEW c \in Collector, NEW s, s = col'[c], Commit(c)
  PROVE  Told(s)
<1> DEFINE r == [col[c] EXCEPT !.cursor = col[c].batch.pts]
<1>1. Told(col[c]) /\ Now \in Nat
  BY Parts DEF ToldInv
<1>2. s = Continue(r, r.batch.next)
  BY Parts DEF Commit, Set
<1>3. /\ DOMAIN r = Fields /\ r.target = col[c].target /\ r.batch = col[c].batch /\ r.queue = col[c].queue
      /\ r.cursor = col[c].batch.pts
  BY Parts DEF Fields
<1> HIDE DEF r
<1>4. s.target \in {r.target, r.cursor} /\ s.batch = NoBatch /\ s.queue = r.queue
  BY <1>2, <1>3, Parts DEF Continue, Fields
<1> QED
  BY <1>1, <1>3, <1>4, NoBatchTold DEF Told

\* A step is one collector's, the server's, or the loss of the lock.
LEMMA OneMoves ==
  ASSUME CursorInv, [Next]_vars
  PROVE  \/ UNCHANGED col /\ (Publish \/ Forget \/ Elapse \/ LoseLock \/ UNCHANGED vars)
         \/ \E c \in Collector : /\ Step(c) \/ \E u \in Notice : Deliver(c, u)
                                 /\ \A d \in Collector \ {c} : col'[d] = col[d]
<1>1. ASSUME NEW c \in Collector, Step(c) \/ \E u \in Notice : Deliver(c, u)
      PROVE  \A d \in Collector \ {c} : col'[d] = col[d]
  <2>1. \E s : col' = [col EXCEPT ![c] = s]
    <3>1. ASSUME NEW u \in Notice, Deliver(c, u) PROVE \E s : col' = [col EXCEPT ![c] = s]
      BY <3>1 DEF Deliver
    <3>2. ASSUME Failed(c) \/ End(c) PROVE \E s : col' = [col EXCEPT ![c] = s]
      BY <3>2 DEF Failed, End, Set
    <3>3. ASSUME Step(c) PROVE \E s : col' = [col EXCEPT ![c] = s]
      BY <3>2, <3>3 DEF Step, Set, Acquire, Resync, Connected, Difference, History, Commit, CommitUnknown, Fail,
         Unavailable, Apply, Again, Tick, Shutdown, Leave, Crash
    <3> QED
      BY <1>1, <3>1, <3>3
  <2> QED
    BY <2>1, Parts
<1>2. Publish \/ Forget \/ Elapse \/ LoseLock \/ UNCHANGED vars => UNCHANGED col
  BY DEF Publish, Forget, Elapse, LoseLock, vars
<1> QED
  BY <1>1, <1>2 DEF Next

\* Nothing that happened is forgotten.
LEMMA UsedGrows ==
  ASSUME UsedOK, [Next]_vars
  PROVE  used' \in [Event -> Nat] /\ \A e \in Event : used[e] <= used'[e]
<1>1. UNCHANGED used \/ \E e \in Event : used' = [used EXCEPT ![e] = @ + 1]
  BY DEF Event, Next, Step, vars, Happens, Publish, Forget, Elapse, LoseLock, Deliver, Acquire, Resync, Connected, Difference, History,
     Commit, CommitUnknown, Fail, Unavailable, Apply, Again, Tick, Shutdown, Leave, Crash
<1> QED
  BY <1>1 DEF UsedOK

LEMMA CollectorTold ==
  ASSUME CursorInv, ToldInv, NEW c \in Collector, Step(c) \/ \E u \in Notice : Deliver(c, u), NEW s, s = col'[c]
  PROVE  Told(s)
<1>1. ASSUME NEW u \in Notice, Deliver(c, u) PROVE Told(s)
  BY <1>1, DeliverTold
<1> QED
  BY <1>1, DifferenceTold, HistoryTold, ApplyTold, RestTold, ConnectedTold, CommitTold DEF Step

\* What a step asks of `used` when it stops a collector.
LEMMA StopUsed ==
  ASSUME CursorInv, ToldInv, NEW c \in Collector, Step(c) \/ \E u \in Notice : Deliver(c, u), NEW s, s = col'[c],
         s.stop # "no"
  PROVE  col[c].stop # "no" \/ used'["shutdown"] = used["shutdown"] + 1
<1>1. CASE Shutdown(c)
  BY <1>1 DEF Shutdown, Happens, ToldInv, UsedOK, Event
<1>2. ~End(c) /\ ~Acquire(c)
  <2>1. Fresh.stop = "no"
    BY DEF Fresh
  <2>2. End(c) => s = Fresh
    BY Parts DEF End
  <2>3. Acquire(c) => s = [Fresh EXCEPT !.pc = "resync"]
    BY Parts DEF Acquire
  <2> QED
    BY <2>1, <2>2, <2>3 DEF Fresh
<1>3. CASE Failed(c)
  BY <1>2, <1>3, FailedIs
<1>4. CASE \E u \in Notice : Deliver(c, u)
  <2>1. PICK u \in Notice : col' = [col EXCEPT ![c] = IF Len(col[c].queue) >= MaxQueue
                                       THEN [col[c] EXCEPT !.queue = <<u>>, !.resync = TRUE]
                                       ELSE [col[c] EXCEPT !.queue = Append(col[c].queue, u)]]
    BY <1>4 DEF Deliver
  <2>2. s.stop = col[c].stop
    BY <2>1, Parts DEF Fields
  <2> QED
    BY <2>2
<1>5. CASE Connected(c) \/ Difference(c)
  <2>1. \E cur, t, b :
          s \in {[col[c] EXCEPT !.pc = "window", !.wide = TRUE, !.after = "run", !.resync = FALSE,
                               !.pending = FALSE, !.cursor = cur, !.target = t],
                 [col[c] EXCEPT !.pc = "catchup", !.after = "recheck", !.resync = FALSE,
                               !.pending = FALSE, !.cursor = cur],
                 [col[c] EXCEPT !.pc = "window", !.wide = TRUE, !.target = t],
                 [col[c] EXCEPT !.pc = "commit", !.batch = b]}
    <3>1. CASE Connected(c)
      BY <3>1, Parts DEF Connected, Set
    <3>2. CASE Difference(c)
      BY <3>2, Parts DEF Difference, Set
    <3> QED
      BY <1>5, <3>1, <3>2
  <2> QED
    BY <2>1, Parts DEF Fields
<1>6. CASE History(c) \/ Resync(c)
  BY <1>6, Parts DEF History, Resync, Set, Fields
<1>7. CASE Again(c) \/ Unavailable(c)
  BY <1>7, Parts DEF Again, Unavailable, Set, Fields
<1>8. CASE Commit(c)
  <2> DEFINE r == [col[c] EXCEPT !.cursor = col[c].batch.pts]
  <2>1. s = Continue(r, r.batch.next) /\ DOMAIN r = Fields /\ r.stop = col[c].stop
        /\ r.batch.next \in {"catchup", "recheck", "run"}
    BY <1>8, Parts DEF Commit, Set, Fields
  <2> HIDE DEF r
  <2>2. s.stop = r.stop
    BY <2>1 DEF Continue, Fields
  <2> QED
    BY <2>1, <2>2
<1>9. CASE Apply(c)
  <2> DEFINE t == [col[c] EXCEPT !.queue = Tail(col[c].queue)]
  <2>1. \E b : s \in {t, [t EXCEPT !.resync = TRUE], [t EXCEPT !.pc = "catchup", !.after = "run"],
                      [t EXCEPT !.pc = "commit", !.batch = b]}
    BY <1>9, Parts DEF Apply, Set
  <2>2. DOMAIN t = Fields /\ t.stop = col[c].stop
    BY Parts DEF Fields
  <2> HIDE DEF t
  <2> QED
    BY <2>1, <2>2 DEF Fields
<1>10. CASE Tick(c)
  <2>1. Set(c, IF col[c].cursor = Nothing THEN col[c] ELSE [col[c] EXCEPT !.pc = "catchup", !.after = "run"])
    BY <1>2, <1>10 DEF Tick
  <2> QED
    BY <2>1, Parts DEF Set, Fields
<1> QED
  BY <1>1, <1>2, <1>3, <1>4, <1>5, <1>6, <1>7, <1>8, <1>9, <1>10 DEF Step, CommitUnknown, Fail, Leave, Crash

\* Save takes rows and deletions from the batch.
LEMMA SaveIs ==
  ASSUME CursorInv, ToldInv, NEW c \in Collector, NEW b, b = col[c].batch, Save(b)
  PROVE  /\ stored' \in [Post -> Nat] /\ \A p \in Post : stored'[p] = Saved(b, p)
         /\ gone' = gone \cup {p \in b.delete : stored'[p] > 0}
         /\ checkpoint' = Later(checkpoint, b.pts) /\ checkpoint' \in Nat
         /\ checkpoint' = b.pts \/ checkpoint' = checkpoint
         /\ b.pts <= checkpoint' /\ (checkpoint # Nothing => checkpoint <= checkpoint')
<1>1. \A p \in Post : b.set[p] \in Nat /\ stored[p] \in Nat
  BY DEF ToldInv, Told, StoreOK
<1>2. stored' = [p \in Post |-> Saved(b, p)]
  BY DEF Save, Saved
<1>3. stored' \in [Post -> Nat]
  BY <1>1, <1>2 DEF Saved
<1>4. gone' = gone \cup {p \in b.delete : stored'[p] > 0}
  BY DEF Save, MarkDeleted
<1>5. checkpoint' = b.pts \/ checkpoint' = checkpoint
  <2>1. \A x, y \in Nat : Max({x, y}) \in {x, y}
    <3> TAKE x, y \in Nat
    <3>1. \E z \in {x, y} : \A w \in {x, y} : z >= w
      OBVIOUS
    <3> QED
      BY <3>1 DEF Max
  <2>2. b.pts \in Nat /\ checkpoint \in Nat \cup {Nothing}
    BY Parts
  <2> QED
    BY <2>1, <2>2 DEF Save, Later
<1> QED
  BY <1>2, <1>3, <1>4, <1>5, SaveForward DEF Save

LEMMA StoreStep ==
  ASSUME CursorInv, ToldInv, [Next]_vars
  PROVE  StoreOK'
<1>1. LogKept
  BY LogGrows DEF ToldInv, LogOK
<1>2. StoreOK
  BY DEF ToldInv
<1>3. CASE UNCHANGED db
  <2>1. checkpoint # Nothing => checkpoint \in Nat /\ checkpoint <= Now'
    BY <1>1, <1>2 DEF CursorInv, StoreOK, LogKept
  <2> QED
    BY <1>1, <1>2, <1>3, <2>1, DeletedGrows DEF StoreOK, db, server
<1>4. ASSUME NEW c \in Collector, Save(col[c].batch), log' = log
      PROVE  StoreOK'
  <2> PICK b : b = col[c].batch
    OBVIOUS
  <2>1. Told(col[c]) /\ b.pts <= Now /\ b.delete \subseteq Deleted
    BY DEF ToldInv, Told
  <2>2. /\ stored' \in [Post -> Nat] /\ gone' \subseteq gone \cup b.delete
        /\ checkpoint' \in Nat /\ (checkpoint' = b.pts \/ checkpoint' = checkpoint)
    BY <1>4, SaveIs
  <2>3. checkpoint' <= Now' /\ checkpoint' # Nothing
    BY <1>2, <1>4, <2>1, <2>2, CollectorAssumption DEF StoreOK, Now
  <2>4. gone' \subseteq Deleted'
    BY <1>1, <1>2, <2>1, <2>2, DeletedGrows DEF StoreOK
  <2> QED
    BY <2>2, <2>3, <2>4 DEF StoreOK
<1>5. UNCHANGED db \/ \E c \in Collector : Save(col[c].batch) /\ log' = log
  <2>1. ASSUME NEW c \in Collector, Commit(c) \/ CommitUnknown(c)
        PROVE  Save(col[c].batch) /\ log' = log
    BY <2>1 DEF Commit, CommitUnknown, server
  <2>2. ASSUME NEW c \in Collector, Step(c), ~Commit(c), ~CommitUnknown(c)
        PROVE  UNCHANGED db
    BY <2>2 DEF Step, Acquire, Resync, Connected, Difference, History, Fail, Unavailable, Apply, Again, Tick,
       Shutdown, Leave, Crash
  <2>3. ASSUME Publish \/ Forget \/ Elapse \/ LoseLock \/ UNCHANGED vars \/ \E c \in Collector, u \in Notice : Deliver(c, u)
        PROVE  UNCHANGED db
    BY <2>3 DEF Publish, Forget, Elapse, LoseLock, Deliver, vars, db, server
  <2> QED
    BY <2>1, <2>2, <2>3 DEF Next
<1> QED
  BY <1>3, <1>4, <1>5

LEMMA HorizonStep ==
  ASSUME ToldInv, [Next]_vars
  PROVE  HorizonOK'
<1>1. CASE Elapse
  <2>1. {0} \cup {p \in Post : LastSet(p, 1..Now) > 0} \subseteq Nat
    <3>1. \A p \in Post : p \in Nat
      BY CollectorAssumption
    <3> QED
      BY <3>1
  <2>2. horizon' \in [BOOLEAN -> {0} \cup {p \in Post : LastSet(p, 1..Now) > 0}]
    BY <1>1 DEF Elapse
  <2> QED
    BY <2>1, <2>2 DEF HorizonOK
<1>2. CASE UNCHANGED horizon
  BY <1>2 DEF ToldInv, HorizonOK
<1>3. Elapse \/ UNCHANGED horizon
  BY DEF Next, Step, vars, server, Publish, Forget, LoseLock, Deliver, Acquire, Resync, Connected, Difference,
         History, Commit, CommitUnknown, Fail, Unavailable, Apply, Again, Tick, Shutdown, Leave, Crash
<1> QED
  BY <1>1, <1>2, <1>3

LEMMA ToldStep == CursorInv /\ ToldInv /\ [Next]_vars => ToldInv'
<1> SUFFICES ASSUME CursorInv, ToldInv, [Next]_vars PROVE ToldInv'
  OBVIOUS
<1>1. LogKept /\ LogOK' /\ HorizonOK' /\ StoreOK'
  BY LogGrows, LogStep, HorizonStep, StoreStep DEF ToldInv, LogOK
<1>2. CursorInv'
  BY CursorStep
<1>3. used' \in [Event -> Nat] /\ \A e \in Event : used[e] <= used'[e]
  BY UsedGrows DEF ToldInv
<1>4. "shutdown" \in Event /\ used["shutdown"] \in Nat
  BY DEF Event, ToldInv, UsedOK
<1>5. ASSUME NEW c \in Collector, NEW s, s = col'[c], s = col[c]
      PROVE  Told(s)' /\ (s.stop # "no" => used'["shutdown"] > 0)
  <2>1. Told(s) /\ s.target \in Nat /\ s.batch.pts \in Nat
    BY <1>5, Parts DEF ToldInv
  <2>2. s.stop # "no" => used["shutdown"] > 0
    BY <1>5 DEF ToldInv, UsedOK
  <2> QED
    BY <1>1, <1>3, <1>4, <2>1, <2>2, ToldKept
<1>6. ASSUME NEW c \in Collector, Step(c) \/ \E u \in Notice : Deliver(c, u), NEW s, s = col'[c]
      PROVE  Told(s)' /\ (s.stop # "no" => used'["shutdown"] > 0)
  <2>1. Told(s)
    BY <1>6, CollectorTold
  <2>2. s.target \in Nat /\ s.batch.pts \in Nat
    BY <1>2, <1>6 DEF CursorInv, Numbered
  <2>3. s.stop # "no" => used["shutdown"] > 0 \/ used'["shutdown"] = used["shutdown"] + 1
    BY <1>6, StopUsed DEF ToldInv, UsedOK
  <2> QED
    BY <1>1, <1>3, <1>4, <2>1, <2>2, <2>3, ToldKept
<1>7. ASSUME NEW d \in Collector
      PROVE  Told(col[d])' /\ (col'[d].stop # "no" => used'["shutdown"] > 0)
  <2> PICK s : s = col'[d]
    OBVIOUS
  <2>1. Told(s)' /\ (s.stop # "no" => used'["shutdown"] > 0)
    <3>1. col'[d] = col[d] \/ Step(d) \/ \E u \in Notice : Deliver(d, u)
      BY OneMoves
    <3> QED
      BY <1>5, <1>6, <3>1
  <2>2. Told(s)' => Told(col[d])'
    BY DEF Told
  <2> QED
    BY <2>1, <2>2
<1> QED
  BY <1>1, <1>3, <1>7 DEF ToldInv, UsedOK

LEMMA ToldInit == Init => ToldInv
<1> SUFFICES ASSUME Init PROVE ToldInv
  OBVIOUS
<1>1. log = <<>> /\ Now = 0 /\ log \in Seq(Change)
  BY DEF Init, Now
<1>2. LogOK
  <2>1. \A p : ~(LastSet(p, 1..Now) > 0)
    BY <1>1, LastSetIs
  <2> QED
    BY <1>1, <2>1 DEF LogOK
<1>3. StoreOK
  BY <1>1 DEF Init, StoreOK
<1>4. \A c \in Collector : col[c] = Fresh
  BY DEF Init
<1>5. Fresh.stop = "no"
  BY DEF Fresh
<1>6. UsedOK
  BY <1>4, <1>5 DEF Init, UsedOK
<1>7. HorizonOK
  BY DEF Init, HorizonOK
<1> QED
  BY <1>1, <1>2, <1>3, <1>4, <1>6, <1>7, FreshTold DEF ToldInv

\* What is stored and known of the channel is what it published, whoever writes and
\* however late: no window and no page is ever ahead of the log.
THEOREM ToldInvariant == Spec => [](CursorInv /\ ToldInv)
  BY CursorInit, CursorStep, ToldInit, ToldStep, PTL DEF Spec

\* A post is marked deleted only if the channel deleted it, whether Telegram told of that or
\* not: a window that shows part of the history - cut by age, by RECENT_LIMIT or by the order
\* of calls - or shows it late drops no live post, even of two collectors at once.
THEOREM NoFalseDeletionTheorem == Spec => []NoFalseDeletion
<1>1. ToldInv => NoFalseDeletion
  BY DEF ToldInv, StoreOK, NoFalseDeletion
<1> QED
  BY <1>1, ToldInvariant, PTL

-----------------------------------------------------------------------------
(* One writer *)

\* A step that saves nothing.
Quiet ==
  /\ LogKept /\ UNCHANGED db /\ missed \subseteq missed'
  /\ used'["unknown commit"] = used["unknown commit"]

LEMMA CompleteKept ==
  ASSUME ToldInv, Quiet, NEW b, Complete(b), b.pts \in Nat, b.pts <= Now, \A p \in Post : b.set[p] \in Nat
  PROVE  Complete(b)'
<1>1. LogKept /\ Now \in Nat /\ UNCHANGED <<stored, gone, checkpoint>>
  BY DEF Quiet, LogKept, db
<1> PICK S : S = (1..b.pts) \ missed
  OBVIOUS
<1> PICK R : R = (1..b.pts) \ missed'
  OBVIOUS
<1>2. S \in SUBSET (1..Now) /\ R \in SUBSET S /\ R \in SUBSET (1..Now)
  <2>1. 1..b.pts \in SUBSET (1..Now)
    BY <1>1
  <2>2. missed \subseteq missed'
    BY DEF Quiet
  <2> QED
    BY <2>1, <2>2
<1>3. \A p : LastSet(p, R)' = LastSet(p, R) /\ Saved(b, p)' = Saved(b, p)
  BY <1>1, <1>2, PastKept DEF Saved
<1>4. \A p \in Post : p \notin Deleted' => p \notin Deleted
  BY <1>1, DeletedGrows
<1>5. DeletedIn(R)' \subseteq DeletedIn(S)
  <2>1. DeletedIn(R)' = DeletedIn(R) /\ DeletedIn(R) \subseteq DeletedIn(S)
    BY <1>1, <1>2, PastKept, DeletedWithin
  <2> QED
    BY <2>1
<1>6. ASSUME NEW p \in Post, p \notin Deleted' PROVE Saved(b, p)' >= LastSet(p, R)'
  <2>1. Saved(b, p) >= LastSet(p, S)
    BY <1>4, <1>6 DEF Complete
  <2>2. LastSet(p, R) <= LastSet(p, S) /\ LastSet(p, S) \in Nat /\ LastSet(p, R) \in Nat
    BY <1>2, LastSetGrows, LastSetIs DEF ToldInv, LogOK
  <2>3. Saved(b, p) \in Nat
    BY DEF Saved, ToldInv, StoreOK
  <2> QED
    BY <1>3, <2>1, <2>2, <2>3
<1> QED
  BY <1>1, <1>3, <1>5, <1>6 DEF Complete

LEMMA ReachesGrows ==
  ASSUME LogKept, NEW x \in Nat, NEW y \in Nat, Reaches(x, y)
  PROVE  Reaches(x, y)'
<1>1. PageSize \in Nat /\ GapLimit \in Nat
  BY CollectorAssumption
<1>2. Now \in Nat /\ Now' \in Nat /\ Now <= Now'
  BY DEF LogKept
<1>3. Now - x > GapLimit => Now' - x > GapLimit
  <2>1. \A m, n, g \in Nat : m <= n /\ m - x > g => n - x > g
    OBVIOUS
  <2> QED
    BY <1>1, <1>2, <2>1
<1> QED
  BY <1>3 DEF Reaches

LEMMA InStepKept ==
  ASSUME ToldInv, Quiet, NEW s, InStep(s), Told(s), Behind(s, checkpoint), checkpoint \in Nat \cup {Nothing},
         s.cursor \in Nat \cup {Nothing}, s.target \in Nat, s.batch.pts \in Nat
  PROVE  InStep(s)'
<1>1. Now \in Nat /\ Now' \in Nat /\ Now <= Now' /\ checkpoint' = checkpoint
  BY DEF Quiet, LogKept, db, server
<1>2. \A x, y \in Nat : Reaches(x, y) => Reaches(x, y)'
  BY ReachesGrows DEF Quiet
<1>3. s.pc = "commit" => Complete(s.batch)'
  BY CompleteKept DEF InStep, Told
<1>4. s.cursor # Nothing => Reaches(s.cursor, checkpoint)'
  BY <1>1, <1>2 DEF InStep, Behind
<1>5. s.pc = "window" /\ s.wide /\ s.cursor # Nothing => Now' - s.cursor > GapLimit
  <2>1. SUFFICES ASSUME s.pc = "window" /\ s.wide /\ s.cursor # Nothing
                 PROVE  Now' - s.cursor > GapLimit
    OBVIOUS
  <2>2. Now - s.cursor > GapLimit /\ s.cursor \in Nat
    BY <2>1 DEF InStep
  <2> QED
    BY <1>1, <2>2, CollectorAssumption
<1>6. s.pc = "commit" /\ s.cursor # Nothing => Reaches(s.cursor, s.batch.pts)'
  BY <1>2 DEF InStep
<1>7. s.pc = "commit" /\ s.cursor = Nothing => s.batch.pts = s.target
  BY DEF InStep
<1> QED
  BY <1>1, <1>3, <1>4, <1>5, <1>6, <1>7 DEF InStep, Quiet

LEMMA CoveredKept ==
  ASSUME CursorInv, ToldInv, Quiet, NoOldWriter, CursorCovered, DeletionsCovered
  PROVE  CursorCovered' /\ DeletionsCovered'
<1>1. LogKept /\ Now \in Nat /\ UNCHANGED <<stored, gone, checkpoint>>
  BY DEF Quiet, LogKept, db, server
<1>2. Covered \in SUBSET (1..Now) /\ Covered' = Covered
  <2>1. checkpoint \in Nat \cup {Nothing} /\ (checkpoint # Nothing => checkpoint <= Now)
    BY DEF CursorInv, ToldInv, StoreOK
  <2> QED
    BY <1>1, <2>1 DEF Covered
<1> PICK S : S = Covered \ missed
  OBVIOUS
<1> PICK R : R = Covered \ missed'
  OBVIOUS
<1>3. /\ S \in SUBSET (1..Now) /\ R \in SUBSET S /\ R \in SUBSET (1..Now)
      /\ R = (Covered \ missed)'
  BY <1>2 DEF Quiet
<1>4. \A p \in Post : p \notin Deleted' => p \notin Deleted
  BY <1>1, DeletedGrows
<1>5. DeletedIn(R)' = DeletedIn(R) /\ \A p : LastSet(p, R)' = LastSet(p, R)
  BY <1>1, <1>3, PastKept
<1>6. CursorCovered'
  <2>1. ASSUME NEW p \in Post, p \notin Deleted' PROVE stored'[p] >= LastSet(p, R)'
    <3>1. stored[p] >= LastSet(p, S)
      BY <1>4, <2>1 DEF CursorCovered
    <3>2. LastSet(p, R) <= LastSet(p, S) /\ LastSet(p, S) \in Nat /\ LastSet(p, R) \in Nat /\ stored[p] \in Nat
      BY <1>3, LastSetGrows, LastSetIs DEF ToldInv, LogOK, StoreOK
    <3> QED
      BY <1>1, <1>5, <3>1, <3>2
  <2> QED
    BY <1>3, <2>1 DEF CursorCovered
<1>7. DeletionsCovered'
  <2>1. DeletedIn(R) \subseteq DeletedIn(S)
    BY <1>3, DeletedWithin
  <2> QED
    BY <1>1, <1>3, <1>5, <2>1 DEF DeletionsCovered
<1> QED
  BY <1>6, <1>7

\* Who was an old writer stays one.
LEMMA WasAlone ==
  ASSUME ToldInv, [Next]_vars, NoOldWriter'
  PROVE  NoOldWriter
<1>1. \A e \in Event : used[e] \in Nat /\ used'[e] \in Nat /\ used[e] <= used'[e]
  BY UsedGrows DEF ToldInv, UsedOK
<1>2. \A e \in Event : used'[e] = 0 => used[e] = 0
  BY <1>1
<1>3. /\ used'["lost lock"] = 0 => used["lost lock"] = 0
      /\ used'["unknown commit"] = 0 => used["unknown commit"] = 0
      /\ used'["shutdown"] = 0 => used["shutdown"] = 0
  BY <1>2 DEF Event
<1> QED
  BY <1>3 DEF NoOldWriter

\* A step that saves nothing leaves the writer in step, if its new state is.
LEMMA WriterKept ==
  ASSUME CursorInv, ToldInv, WriterInv, [Next]_vars, Quiet, NoOldWriter',
         NEW c, NEW s, s = col'[c], \A d \in Collector \ {c} : col'[d] = col[d],
         lock' # lock => \A d \in Collector \ {c} : col[d].pc = "off",
         c \in Collector /\ s.pc # "off" => lock' = c /\ ((InStep(s) /\ Told(s)) \/ InStep(s)')
  PROVE  WriterInv'
<1>1. NoOldWriter /\ CursorCovered' /\ DeletionsCovered'
  BY WasAlone, CoveredKept DEF WriterInv
<1>2. CursorInv' /\ checkpoint' = checkpoint
  BY CursorStep DEF Quiet, db, server
<1>3. ASSUME NEW d \in Collector, col'[d].pc # "off"
      PROVE  lock' = d /\ InStep(col[d])'
  <2> PICK r : r = col'[d]
    OBVIOUS
  <2>1. /\ Behind(r, checkpoint) /\ checkpoint \in Nat \cup {Nothing}
        /\ r.cursor \in Nat \cup {Nothing} /\ r.target \in Nat /\ r.batch.pts \in Nat
    BY <1>2 DEF CursorInv, Numbered
  <2>2. lock' = d /\ ((InStep(r) /\ Told(r)) \/ InStep(r)')
    <3>1. CASE d = c
      BY <1>3, <3>1
    <3>2. CASE d # c
      <4>1. r = col[d]
        BY <3>2
      <4>2. lock = d /\ InStep(r) /\ Told(r)
        BY <1>1, <1>3, <4>1 DEF WriterInv, ToldInv
      <4>3. lock' = lock
        BY <1>3, <3>2, <4>1
      <4> QED
        BY <4>2, <4>3
    <3> QED
      BY <3>1, <3>2
  <2>3. InStep(r) /\ Told(r) => InStep(r)'
    BY <2>1, InStepKept
  <2>4. InStep(r)' => InStep(col[d])'
    BY DEF InStep, Complete, Saved, Reaches
  <2> QED
    BY <2>2, <2>3, <2>4
<1> QED
  BY <1>1, <1>3 DEF WriterInv

\* What a collector at work may rely on.
LEMMA AtWork ==
  ASSUME ToldInv, WriterInv, NoOldWriter, NEW c \in Collector, col[c].pc # "off"
  PROVE  /\ lock = c /\ InStep(col[c]) /\ Told(col[c])
         /\ \A d \in Collector \ {c} : col[d].pc = "off"
         /\ CursorCovered /\ DeletionsCovered
         /\ col[c].stop # "no" => used["unknown commit"] = 0
<1>1. \A d \in Collector : col[d].pc # "off" => lock = d
  BY DEF WriterInv
<1>2. col[c].stop # "no" => used["shutdown"] > 0
  BY DEF ToldInv, UsedOK
<1>3. lock = c /\ InStep(col[c]) /\ CursorCovered /\ DeletionsCovered
  BY DEF WriterInv
<1>4. col[c].stop # "no" => used["unknown commit"] = 0
  <2>1. used["shutdown"] = 0 \/ used["unknown commit"] = 0
    BY DEF NoOldWriter
  <2>2. ~(0 > 0)
    OBVIOUS
  <2> QED
    BY <1>2, <2>1, <2>2, Zenon
<1> QED
  BY <1>1, <1>3, <1>4 DEF ToldInv

LEMMA EndWriter ==
  ASSUME CursorInv, ToldInv, WriterInv, [Next]_vars, Quiet, NoOldWriter',
         NEW c \in Collector, End(c), col[c].pc # "off"
  PROVE  WriterInv'
<1> PICK s : s = col'[c]
  OBVIOUS
<1>1. s.pc = "off" /\ \A d \in Collector \ {c} : col'[d] = col[d]
  <2>1. Fresh.pc = "off"
    BY DEF Fresh
  <2> QED
    BY <2>1, Parts DEF End
<1>2. \A d \in Collector \ {c} : col[d].pc = "off"
  BY WasAlone, AtWork
<1> QED
  BY <1>1, <1>2, WriterKept

LEMMA OthersUsed ==
  ASSUME ToldInv, NEW e \in Event \ {"unknown commit"}, UNCHANGED used \/ Happens(e)
  PROVE  used'["unknown commit"] = used["unknown commit"]
<1>1. used \in [Event -> Nat] /\ "unknown commit" \in Event
  BY DEF ToldInv, UsedOK, Event
<1> QED
  BY <1>1 DEF Happens

LEMMA QuietSteps ==
  ASSUME ToldInv, [Next]_vars, NEW c,
         \/ UNCHANGED vars \/ Publish \/ Forget \/ Elapse \/ LoseLock \/ \E u \in Notice : Deliver(c, u)
         \/ Acquire(c) \/ Resync(c) \/ Connected(c) \/ Difference(c) \/ History(c) \/ Fail(c)
         \/ Unavailable(c) \/ Apply(c) \/ Again(c) \/ Tick(c) \/ Shutdown(c) \/ Leave(c) \/ Crash(c)
  PROVE  Quiet
<1>1. LogKept
  BY LogGrows DEF ToldInv, LogOK
<1>2. UNCHANGED db /\ missed \subseteq missed'
  BY DEF vars, db, server, Publish, Forget, Elapse, LoseLock, Deliver, Acquire, Resync, Connected, Difference, History, Fail, Unavailable,
         Apply, Again, Tick, Shutdown, Leave, Crash
<1>3. \E e \in Event \ {"unknown commit"} : UNCHANGED used \/ Happens(e)
  <2>1. {"deliver", "crash", "shutdown", "lost lock", "unavailable", "untold deletion", "time passes"} = Event \ {"unknown commit"}
    BY DEF Event
  <2> QED
    BY <2>1 DEF vars, Publish, Forget, Elapse, LoseLock, Deliver, Acquire, Resync, Connected, Difference, History, Fail, Unavailable,
         Apply, Again, Tick, Shutdown, Leave, Crash
<1> QED
  BY <1>1, <1>2, <1>3, OthersUsed DEF Quiet

\* A state that keeps cursor, target and the channel's resolution, at a place that asks
\* no more of them, is in step.
LEMMA StaysInStep ==
  ASSUME NEW r, NEW s, InStep(r), s.cursor = r.cursor, s.target = r.target, s.pending = r.pending,
         s.pc \notin {"window", "commit"}, s.pc = "run" => r.pc = "run" \/ used["unknown commit"] = 0
  PROVE  InStep(s)
  BY DEF InStep

LEMMA ServerWriter ==
  ASSUME CursorInv, ToldInv, WriterInv, [Next]_vars, NoOldWriter',
         UNCHANGED col, Publish \/ Forget \/ Elapse \/ LoseLock \/ UNCHANGED vars
  PROVE  WriterInv'
<1>1. Quiet
  BY QuietSteps
<1>2. CASE LoseLock
  <2>1. used \in [Event -> Nat] /\ "lost lock" \in Event
    BY DEF ToldInv, UsedOK, Event
  <2>2. used' = [used EXCEPT !["lost lock"] = @ + 1]
    BY <1>2 DEF LoseLock, Happens
  <2>3. used["lost lock"] \in Nat /\ used'["lost lock"] = used["lost lock"] + 1
    BY <2>1, <2>2
  <2>4. used'["lost lock"] = 0
    BY DEF NoOldWriter
  <2>5. \A n \in Nat : n + 1 # 0
    OBVIOUS
  <2> QED
    BY <2>3, <2>4, <2>5, Zenon
<1>3. CASE UNCHANGED lock
  <2>1. \A d \in Collector \ {Nothing} : col'[d] = col[d]
    OBVIOUS
  <2>2. Nothing \notin Collector
    BY CollectorAssumption
  <2> QED
    BY <1>1, <1>3, <2>1, <2>2, WriterKept
<1> QED
  BY <1>2, <1>3 DEF Publish, Forget, Elapse, vars

LEMMA LeaseWriter ==
  ASSUME CursorInv, ToldInv, WriterInv, [Next]_vars, NoOldWriter', NEW c \in Collector,
         \A d \in Collector \ {c} : col'[d] = col[d], Acquire(c) \/ Leave(c) \/ Crash(c)
  PROVE  WriterInv'
<1>1. Quiet
  BY QuietSteps
<1>2. CASE Acquire(c)
  <2> PICK s : s = col'[c]
    OBVIOUS
  <2>1. s = [Fresh EXCEPT !.pc = "resync"] /\ lock' = c /\ lock = Nothing
    BY <1>2, Parts DEF Acquire
  <2>2. s.pc = "resync" /\ s.cursor = Nothing /\ s.pending /\ s.target = 0 /\ s.batch = NoBatch /\ s.queue = <<>>
    BY <2>1 DEF Fresh
  <2>3. InStep(s) /\ Told(s)
    BY <2>2, Parts, NoBatchTold DEF InStep, Told
  <2>4. \A d \in Collector : col[d].pc = "off"
    <3>1. \A d \in Collector : col[d].pc # "off" => lock = d
      BY WasAlone DEF WriterInv
    <3> QED
      BY <2>1, <3>1, CollectorAssumption
  <2> QED
    BY <1>1, <2>1, <2>3, <2>4, WriterKept
<1>3. CASE Leave(c) \/ Crash(c)
  <2>1. End(c) /\ col[c].pc # "off"
    BY <1>3 DEF Leave, Crash
  <2> QED
    BY <1>1, <2>1, EndWriter
<1> QED
  BY <1>2, <1>3

\* The steps that fetch nothing and save nothing.
LEMMA LoopWriter ==
  ASSUME CursorInv, ToldInv, WriterInv, [Next]_vars, NoOldWriter', NEW c \in Collector,
         \A d \in Collector \ {c} : col'[d] = col[d],
         \/ Resync(c) \/ Again(c) \/ Shutdown(c) \/ Unavailable(c) \/ Tick(c) \/ Fail(c)
         \/ \E u \in Notice : Deliver(c, u)
  PROVE  WriterInv'
<1> PICK s : s = col'[c]
  OBVIOUS
<1>1. Quiet /\ NoOldWriter /\ col[c].pc # "off"
  <2>1. col[c].pc # "off"
    BY DEF Resync, Again, Shutdown, Unavailable, Tick, Fail, Deliver
  <2> QED
    BY <2>1, QuietSteps, WasAlone
<1>2. /\ lock = c /\ InStep(col[c]) /\ (col[c].stop # "no" => used["unknown commit"] = 0)
      /\ \A d \in Collector \ {c} : col[d].pc = "off"
  BY <1>1, AtWork
<1>3. Told(s)
  BY CollectorTold DEF Step
<1>4. ASSUME lock' = lock, InStep(s) PROVE WriterInv'
  BY <1>1, <1>2, <1>3, <1>4, WriterKept
<1>5. CASE End(c)
  BY <1>1, <1>5, EndWriter
<1>6. CASE Resync(c) \/ Again(c)
  <2>1. s = [col[c] EXCEPT !.pc = "connect", !.queue = <<>>] \/ s = [col[c] EXCEPT !.pc = "resync"]
    BY <1>6, Parts DEF Resync, Again, Set
  <2>2. s.cursor = col[c].cursor /\ s.target = col[c].target /\ s.pending = col[c].pending /\ s.pc \in {"connect", "resync"}
    BY <2>1, Parts DEF Fields
  <2> QED
    BY <1>2, <1>4, <1>6, <2>2, StaysInStep DEF Resync, Again
<1>7. CASE Shutdown(c) \/ \E u \in Notice : Deliver(c, u)
  <2>1. \/ s = [col[c] EXCEPT !.stop = "loop"]
        \/ \E q : s \in {[col[c] EXCEPT !.queue = q, !.resync = TRUE], [col[c] EXCEPT !.queue = q]}
    <3>1. CASE Shutdown(c)
      BY <3>1, Parts DEF Shutdown, Set
    <3>2. ASSUME NEW u \in Notice, Deliver(c, u)
          PROVE  \E q : s \in {[col[c] EXCEPT !.queue = q, !.resync = TRUE], [col[c] EXCEPT !.queue = q]}
      BY <3>2, Parts DEF Deliver
    <3> QED
      BY <1>7, <3>1, <3>2
  <2>2. /\ s.cursor = col[c].cursor /\ s.target = col[c].target /\ s.pending = col[c].pending /\ s.pc = col[c].pc
        /\ s.wide = col[c].wide /\ s.batch = col[c].batch
    BY <2>1, Parts DEF Fields
  <2>3. InStep(s)
    BY <1>2, <2>2 DEF InStep
  <2> QED
    BY <1>4, <1>7, <2>3 DEF Shutdown, Deliver
<1>8. CASE Unavailable(c)
  <2>1. s = [col[c] EXCEPT !.pc = "run", !.resync = @ /\ col[c].pc # "connect", !.pending = TRUE,
                           !.cursor = Nothing, !.after = "run"]
    BY <1>8, Parts DEF Unavailable, Set
  <2>2. s.pc = "run" /\ s.pending = TRUE /\ s.cursor = Nothing
    BY <2>1, Parts DEF Fields
  <2>3. InStep(s)
    BY <2>2 DEF InStep
  <2> QED
    BY <1>4, <1>8, <2>3 DEF Unavailable
<1>9. CASE Tick(c) /\ ~End(c)
  <2>1. s = col[c] \/ s = [col[c] EXCEPT !.pc = "catchup", !.after = "run"]
    <3>1. Set(c, IF col[c].cursor = Nothing THEN col[c] ELSE [col[c] EXCEPT !.pc = "catchup", !.after = "run"])
      BY <1>9 DEF Tick
    <3> QED
      BY <3>1, Parts DEF Set
  <2>2. s.cursor = col[c].cursor /\ s.target = col[c].target /\ s.pending = col[c].pending /\ s.pc \in {"run", "catchup"}
    BY <1>9, <2>1, Parts DEF Fields, Tick
  <2>3. lock' = lock /\ col[c].pc = "run"
    BY <1>9 DEF Tick
  <2>4. InStep(s)
    BY <1>2, <2>2, <2>3, StaysInStep
  <2> QED
    BY <1>4, <2>3, <2>4
<1>10. CASE Fail(c) /\ ~End(c)
  <2>1. Failed(c)
    BY <1>10 DEF Fail
  <2>2. /\ lock' = lock /\ s.cursor = col[c].cursor /\ s.target = col[c].target /\ s.pending = col[c].pending
        /\ s.pc = "resync" \/ (s.pc = "run" /\ col[c].stop # "no")
    BY <1>10, <2>1, FailedIs
  <2>3. InStep(s)
    BY <1>2, <2>2, StaysInStep
  <2> QED
    BY <1>4, <2>2, <2>3
<1> QED
  BY <1>5, <1>6, <1>7, <1>8, <1>9, <1>10

LEMMA Here == \A x \in Nat : Reaches(x, x)
<1>1. PageSize \in Nat /\ \A x \in Nat : x - x = 0
  BY CollectorAssumption
<1> QED
  BY <1>1 DEF Reaches

\* Connecting takes the cursor from the checkpoint, or keeps the one it has.
LEMMA ConnectedWriter ==
  ASSUME CursorInv, ToldInv, WriterInv, [Next]_vars, NoOldWriter', NEW c \in Collector,
         \A d \in Collector \ {c} : col'[d] = col[d], Connected(c)
  PROVE  WriterInv'
<1> PICK s : s = col'[c]
  OBVIOUS
<1> PICK r : r = col[c]
  OBVIOUS
<1>1. Quiet /\ NoOldWriter /\ r.pc = "connect" /\ lock' = lock
  BY QuietSteps, WasAlone DEF Connected
<1>2. lock = c /\ InStep(r) /\ \A d \in Collector \ {c} : col[d].pc = "off"
  BY <1>1, AtWork
<1>3. Told(s)
  BY CollectorTold DEF Step
<1> DEFINE cur == IF r.pending THEN checkpoint ELSE r.cursor
           t == IF r.pending THEN Now ELSE r.target
<1>4. s = IF cur = Nothing
          THEN [r EXCEPT !.pc = "window", !.wide = TRUE, !.after = "run", !.resync = FALSE,
                         !.pending = FALSE, !.cursor = cur, !.target = t]
          ELSE [r EXCEPT !.pc = "catchup", !.after = "recheck", !.resync = FALSE,
                         !.pending = FALSE, !.cursor = cur]
  BY Parts DEF Connected, Set
<1>5. s.pending = FALSE /\ s.cursor = cur
  <2> HIDE DEF cur, t
  <2> QED
    BY <1>4, Parts DEF Fields
<1>6. CASE cur = Nothing
  <2>1. s.pc = "window" /\ s.wide = TRUE /\ s.target = t
    <3> HIDE DEF cur, t
    <3> QED
      BY <1>4, <1>6, Parts DEF Fields
  <2>2. checkpoint \in {Nothing, t}
    <3>1. CASE r.pending
      BY <1>6, <3>1
    <3>2. CASE ~r.pending
      BY <1>2, <1>6, <3>2 DEF InStep
    <3> QED
      BY <3>1, <3>2
  <2>3. InStep(s)
    <3> HIDE DEF cur, t
    <3> QED
      BY <1>5, <1>6, <2>1, <2>2 DEF InStep
  <2> QED
    BY <1>1, <1>2, <1>3, <2>3, WriterKept
<1>7. CASE cur # Nothing
  <2>1. s.pc = "catchup"
    <3> HIDE DEF cur, t
    <3> QED
      BY <1>4, <1>7, Parts DEF Fields
  <2>2. Reaches(cur, checkpoint) /\ (used["unknown commit"] = 0 => cur = checkpoint)
    <3>1. CASE r.pending
      <4>1. cur = checkpoint /\ checkpoint \in Nat
        BY <1>7, <3>1, Parts
      <4>2. Reaches(checkpoint, checkpoint)
        BY <4>1, Here
      <4> QED
        BY <4>1, <4>2
    <3>2. CASE ~r.pending
      BY <1>2, <1>7, <3>2 DEF InStep
    <3> QED
      BY <3>1, <3>2
  <2>3. InStep(s)
    <3> HIDE DEF cur, t
    <3> QED
      BY <1>5, <1>7, <2>1, <2>2 DEF InStep
  <2> QED
    BY <1>1, <1>2, <1>3, <2>3, WriterKept
<1> QED
  BY <1>6, <1>7

\* A batch of all the changes after a cursor that is not ahead of the checkpoint.
LEMMA PageComplete ==
  ASSUME CursorInv, ToldInv, NoOldWriter, CursorCovered, DeletionsCovered, checkpoint # Nothing,
         NEW from \in Nat, NEW to \in Nat, from <= checkpoint, checkpoint <= to, to <= Now, NEW b, b.pts = to,
         \A p \in Post : b.set[p] = LastSet(p, (from + 1)..to), b.delete = DeletedIn((from + 1)..to)
  PROVE  Complete(b)
<1> DEFINE page == (from + 1)..to
<1>1. log \in Seq(Change) /\ Now \in Nat /\ checkpoint \in Nat /\ Covered = 1..checkpoint
  BY DEF CursorInv, ToldInv, LogOK, Now, Covered
<1> DEFINE all == (1..to) \ missed
           old == Covered \ missed
<1>2. /\ page \in SUBSET (1..Now) /\ all \in SUBSET (1..Now) /\ old \in SUBSET (1..Now)
      /\ \A i \in 1..to : i \in page \/ i \in Covered
      /\ \A i \in all : i \in page \/ i \in old
      /\ \A i \in page : i > from
      /\ \A i \in all : i \in 1..to
      /\ Covered \in SUBSET (1..Now)
  BY <1>1
<1>3. ASSUME NEW p \in Post
      PROVE  /\ LastSet(p, page) \in Nat /\ LastSet(p, all) \in Nat /\ LastSet(p, old) \in Nat
             /\ LastSet(p, page) > 0 => LastSet(p, page) \in page /\ SetsAt(log, p, LastSet(p, page))
             /\ LastSet(p, all) > 0 => LastSet(p, all) \in all /\ SetsAt(log, p, LastSet(p, all))
             /\ \A i \in page : SetsAt(log, p, i) => i <= LastSet(p, page)
             /\ \A i \in old : SetsAt(log, p, i) => i <= LastSet(p, old)
  <2> HIDE DEF page, all, old
  <2> QED
    BY <1>1, <1>2, LastSetIs
<1>4. \A p \in Post : stored[p] \in Nat
  BY DEF ToldInv, StoreOK
<1>5. ASSUME NEW p \in Post, p \notin Deleted
      PROVE  Saved(b, p) >= LastSet(p, all)
  <2> PICK x : x = LastSet(p, page)
    OBVIOUS
  <2> PICK y : y = LastSet(p, all)
    OBVIOUS
  <2>1. Saved(b, p) = IF x = 0 THEN stored[p] ELSE x
    BY DEF Saved
  <2>2. stored[p] >= LastSet(p, old)
    BY <1>5 DEF CursorCovered
  <2>3. x \in Nat /\ y \in Nat /\ LastSet(p, old) \in Nat
    BY <1>3
  <2>4. CASE y > 0 /\ y \in page
    <3>1. y <= x
      BY <1>3, <2>4
    <3> QED
      BY <2>1, <2>3, <2>4, <3>1
  <2>5. CASE y > 0 /\ y \notin page
    <3>1. y \in all /\ y \in 1..to /\ SetsAt(log, p, y)
      BY <1>2, <1>3, <2>5
    <3>2. y \in old
      BY <1>2, <2>5, <3>1
    <3>3. y <= LastSet(p, old)
      BY <1>3, <3>1, <3>2
    <3>4. x # 0 => x \in page
      BY <1>3, <2>3
    <3>5. x # 0 => x > y
      BY <1>1, <2>3, <2>5, <3>1, <3>4
    <3> HIDE DEF all, old, page
    <3> QED
      BY <1>4, <2>1, <2>2, <2>3, <3>3, <3>5
  <2>6. CASE y = 0
    BY <1>4, <2>1, <2>3, <2>6
  <2> QED
    BY <2>3, <2>4, <2>5, <2>6
<1>6. ASSUME NEW p \in DeletedIn((1..to) \ missed), Saved(b, p) > 0
      PROVE  p \in gone \cup b.delete
  <2>1. PICK i \in (1..to) \ missed : log[i].kind = "delete" /\ log[i].post = p
    BY DeletedWhere
  <2>2. CASE i \in page
    <3>1. p \in DeletedIn(page)
      BY <2>1, <2>2, DeletedWhere
    <3> QED
      BY <3>1
  <2>3. CASE i \in Covered /\ i \notin page
    <3>1. p \in Post
      <4>1. i \in 1..Len(log)
        BY <1>1, <1>2, <2>3 DEF Now
      <4>2. log[i] \in Change
        BY <1>1, <4>1
      <4> QED
        BY <2>1, <4>2 DEF Change
    <3>2. b.set[p] = 0
      <4>1. SUFFICES ASSUME LastSet(p, page) # 0 PROVE FALSE
        BY <3>1
      <4> PICK j : j = LastSet(p, page)
        OBVIOUS
      <4>2. j \in page /\ SetsAt(log, p, j)
        BY <1>3, <3>1, <4>1
      <4>3. i \in 1..Now /\ j \in 1..Now /\ i < j
        BY <1>1, <1>2, <2>3, <4>2
      <4>4. log[j].post # log[i].post
        BY <2>1, <4>3 DEF ToldInv, LogOK
      <4> QED
        BY <2>1, <4>2, <4>4 DEF SetsAt
    <3>3. stored[p] > 0
      BY <1>6, <3>2 DEF Saved
    <3>4. p \in DeletedIn(Covered \ missed)
      BY <2>1, <2>3, DeletedWhere
    <3> QED
      BY <3>3, <3>4 DEF DeletionsCovered
  <2> QED
    BY <1>2, <2>2, <2>3
<1> QED
  BY <1>5, <1>6 DEF Complete

\* A window of the posts is complete up to the pts it is committed with, but for what is
\* recorded as missed.
LEMMA WindowComplete ==
  ASSUME CursorInv, ToldInv, NoOldWriter, CursorCovered, DeletionsCovered, NEW c \in Collector,
         NEW r, r = col[c], r.pc = "window", InStep(r), NEW W, W = InWindow(r.wide), NEW b, b.pts = r.target,
         \A p \in Post : b.set[p] = IF p \in W THEN LastSet(p, 1..Now) ELSE 0, b.delete = Missing(W), History(c)
  PROVE  Complete(b)'
<1> PICK t : t = r.target
  OBVIOUS
<1> PICK M : M = missed'
  OBVIOUS
<1> DEFINE all == (1..t) \ M
           old == Covered \ missed
<1>0. /\ UNCHANGED <<log, lost, stored, gone, checkpoint>>
      /\ missed' = missed \cup {i \in (1..t) \ Covered :
                                 IF log[i].kind = "set" THEN Beyond(log[i].post)
                                 ELSE log[i].post \notin Missing(W)}
  BY DEF History, server, db
<1>1. /\ log \in Seq(Change) /\ Now \in Nat /\ t \in Nat /\ t <= Now /\ checkpoint \in Nat \cup {Nothing}
      /\ checkpoint # Nothing => checkpoint <= Now
      /\ Nothing \notin Nat
  BY Parts, CollectorAssumption DEF ToldInv, LogOK, Told, StoreOK
<1>2. \A p \in Post : stored[p] \in Nat /\ (checkpoint = Nothing => stored[p] = 0)
  BY DEF ToldInv, StoreOK
<1>3. /\ checkpoint # Nothing => checkpoint <= t
      /\ ~r.wide => Covered = 1..t
  <2>1. CASE r.cursor = Nothing
    BY <1>1, <2>1 DEF InStep
  <2>2. CASE r.cursor # Nothing /\ r.wide
    BY <2>2 DEF InStep
  <2>3. CASE r.cursor # Nothing /\ ~r.wide
    <3>1. checkpoint = t
      BY <2>3, Zenon DEF InStep
    <3> QED
      BY <1>1, <3>1 DEF Covered
  <2> QED
    BY <2>1, <2>2, <2>3
<1>4. W \subseteq Live /\ r.wide \in BOOLEAN
  BY Parts DEF InWindow
<1>5. all \in SUBSET (1..Now) /\ 1..Now \in SUBSET (1..Now) /\ old \in SUBSET (1..Now)
  BY <1>1 DEF Covered
<1>6. ASSUME NEW i \in all, i \notin Covered
      PROVE  /\ log[i].kind = "set" => ~Beyond(log[i].post) /\ r.wide
             /\ log[i].kind # "set" => log[i].post \in Missing(W)
  <2>1. i \in (1..t) \ Covered /\ i \notin missed'
    BY <1>6
  <2> QED
    BY <1>0, <1>3, <2>1
<1>7. ASSUME NEW i \in all, i \in Covered PROVE i \in old
  BY <1>0, <1>7
<1>8. ASSUME NEW p \in Post, p \notin Deleted
      PROVE  Saved(b, p) >= LastSet(p, all)
  <2> PICK x : x = LastSet(p, 1..Now)
    OBVIOUS
  <2> PICK y : y = LastSet(p, all)
    OBVIOUS
  <2>1. /\ x \in Nat /\ y \in Nat /\ y <= x
        /\ y > 0 => y \in all /\ SetsAt(log, p, y)
        /\ LastSet(p, old) \in Nat /\ \A i \in old : SetsAt(log, p, i) => i <= LastSet(p, old)
    <3> HIDE DEF all, old
    <3> QED
      BY <1>1, <1>5, LastSetIs, LastSetGrows
  <2>2. Saved(b, p) = IF p \in W /\ x # 0 THEN x ELSE stored[p]
    BY DEF Saved
  <2>3. stored[p] >= LastSet(p, old)
    BY <1>8 DEF CursorCovered
  <2> HIDE DEF all, old
  <2>4. CASE p \in W /\ x # 0
    BY <2>1, <2>2, <2>4
  <2>5. CASE y = 0 /\ ~(p \in W /\ x # 0)
    BY <1>2, <2>1, <2>2, <2>5
  <2>6. CASE y > 0 /\ ~(p \in W /\ x # 0)
    <3>1. y \in all /\ SetsAt(log, p, y) /\ x # 0 /\ p \notin W
      BY <2>1, <2>6
    <3>2. p \in Live
      BY <1>8, <2>1, <2>6 DEF Live
    <3>3. y \in Covered
      <4>1. SUFFICES ASSUME y \notin Covered PROVE FALSE
        OBVIOUS
      <4>2. ~Beyond(p) /\ r.wide
        BY <1>6, <3>1, <4>1 DEF SetsAt
      <4>3. horizon[TRUE] \in Nat /\ p \in Nat /\ RecentLimit \in Nat
        BY CollectorAssumption DEF ToldInv, HorizonOK
      <4>4. IsFiniteSet({q \in Live : q > p}) /\ Cardinality({q \in Live : q > p}) \in Nat
        <5>1. {q \in Live : q > p} \subseteq Post
          BY DEF Live
        <5> QED
          BY <5>1, FS_Subset, FS_CardinalityType, CollectorAssumption
      <4>5. p > horizon[TRUE] /\ Cardinality({q \in Live : q > p}) < RecentLimit
        <5> PICK n : n = Cardinality({q \in Live : q > p})
          OBVIOUS
        <5> PICK h : h = horizon[TRUE]
          OBVIOUS
        <5>1. ~(p <= h) /\ ~(n >= RecentLimit)
          BY <4>2 DEF Beyond
        <5>2. n \in Nat /\ h \in Nat
          BY <4>3, <4>4
        <5>3. \A i, j \in Nat : (~(i <= j) => i > j) /\ (~(i >= j) => i < j)
          OBVIOUS
        <5> QED
          BY <4>3, <5>1, <5>2, <5>3
      <4>6. W = InWindow(TRUE)
        BY <1>4, <4>2
      <4> QED
        BY <3>1, <3>2, <4>5, <4>6 DEF InWindow
    <3>4. y <= LastSet(p, old)
      BY <1>7, <2>1, <3>1, <3>3
    <3> QED
      BY <1>2, <2>1, <2>2, <2>3, <3>1, <3>4
  <2> QED
    BY <2>1, <2>4, <2>5, <2>6
<1>9. ASSUME NEW p \in DeletedIn(all), Saved(b, p) > 0
      PROVE  p \in gone \cup b.delete
  <2>1. PICK i \in all : log[i].kind = "delete" /\ log[i].post = p
    BY DeletedWhere
  <2>2. CASE i \notin Covered
    <3>1. log[i].kind # "set"
      BY <2>1
    <3> QED
      BY <1>6, <2>1, <2>2, <3>1
  <2>3. CASE i \in Covered
    <3>1. p \in Post /\ p \in Deleted
      <4>1. i \in 1..Now
        BY <1>5
      <4>2. log[i] \in Change
        BY <1>1, <4>1 DEF Now
      <4> QED
        BY <2>1, <4>1, <4>2, DeletedWhere DEF Change, Deleted
    <3>2. b.set[p] = 0
      BY <1>4, <3>1 DEF Live
    <3>3. stored[p] > 0
      BY <1>9, <3>2 DEF Saved
    <3>4. p \in DeletedIn(old)
      BY <1>7, <2>1, <2>3, DeletedWhere
    <3> QED
      BY <3>3, <3>4 DEF DeletionsCovered
  <2> QED
    BY <2>2, <2>3
<1>10. /\ Deleted' = Deleted /\ DeletedIn(all)' = DeletedIn(all) /\ gone' = gone /\ checkpoint' = checkpoint
       /\ \A p : LastSet(p, all)' = LastSet(p, all) /\ Saved(b, p)' = Saved(b, p)
  BY <1>0 DEF Deleted, DeletedIn, LastSet, Now, Saved
<1>11. (1..b.pts) \ missed' = all
  OBVIOUS
<1> HIDE DEF all, old
<1> QED
  BY <1>1, <1>3, <1>8, <1>9, <1>10, <1>11 DEF Complete

LEMMA HistoryWriter ==
  ASSUME CursorInv, ToldInv, WriterInv, [Next]_vars, NoOldWriter', NEW c \in Collector,
         \A d \in Collector \ {c} : col'[d] = col[d], History(c)
  PROVE  WriterInv'
<1> PICK s : s = col'[c]
  OBVIOUS
<1> PICK r : r = col[c]
  OBVIOUS
<1>1. Quiet /\ NoOldWriter /\ r.pc = "window" /\ lock' = lock
  BY QuietSteps, WasAlone DEF History
<1>2. lock = c /\ InStep(r) /\ CursorCovered /\ DeletionsCovered /\ \A d \in Collector \ {c} : col[d].pc = "off"
  BY <1>1, AtWork
<1>3. Told(s)
  BY CollectorTold DEF Step
<1> PICK W : W = InWindow(r.wide)
  OBVIOUS
<1> PICK b : b = [set |-> [p \in Post |-> IF p \in W THEN LastSet(p, 1..Now) ELSE 0],
                  delete |-> Missing(W), pts |-> r.target, next |-> IF r.wide THEN r.after ELSE "run"]
  OBVIOUS
<1>4. s = [r EXCEPT !.pc = "commit", !.batch = b]
  BY Parts DEF History, Set
<1>5. Complete(b)' /\ b.pts = r.target
  <2>1. /\ \A p \in Post : b.set[p] = IF p \in W THEN LastSet(p, 1..Now) ELSE 0
        /\ b.delete = Missing(W) /\ b.pts = r.target
    OBVIOUS
  <2> QED
    BY <1>1, <1>2, <2>1, WindowComplete
<1>6. /\ s.pc = "commit" /\ s.batch = b /\ s.cursor = r.cursor /\ s.target = r.target /\ s.pending = r.pending
  BY <1>4, Parts DEF Fields
<1>7. r.cursor # Nothing => Reaches(r.cursor, r.target)
  <2>1. CASE r.cursor # Nothing /\ r.wide
    BY <1>1, <1>2, <2>1 DEF InStep, Reaches
  <2>2. CASE r.cursor # Nothing /\ ~r.wide
    <3>1. r.target = r.cursor /\ r.cursor \in Nat
      BY <1>1, <1>2, <2>2, Parts DEF InStep
    <3> QED
      BY <3>1, Here
  <2> QED
    BY <2>1, <2>2
<1>8. UNCHANGED <<checkpoint, used>> /\ Now' = Now
  BY DEF History, server, db, Now
<1>9. \A x, y : Reaches(x, y)' = Reaches(x, y)
  BY <1>8 DEF Reaches
<1>10. InStep(s)'
  <2>1. s.cursor = Nothing => ~s.pending /\ checkpoint' \in {Nothing, s.target}
    BY <1>1, <1>2, <1>6, <1>8 DEF InStep
  <2>2. s.cursor # Nothing => Reaches(s.cursor, checkpoint)'
    BY <1>2, <1>6, <1>8, <1>9 DEF InStep
  <2>3. used'["unknown commit"] = 0 /\ s.cursor # Nothing => s.cursor = checkpoint'
    BY <1>2, <1>6, <1>8 DEF InStep
  <2>4. IF s.cursor = Nothing THEN s.batch.pts = s.target ELSE Reaches(s.cursor, s.batch.pts)'
    BY <1>5, <1>6, <1>7, <1>9
  <2>5. Complete(s.batch)'
    BY <1>5, <1>6
  <2> QED
    BY <1>6, <2>1, <2>2, <2>3, <2>4, <2>5 DEF InStep
<1> QED
  BY <1>1, <1>2, <1>10, WriterKept

LEMMA DifferenceWriter ==
  ASSUME CursorInv, ToldInv, WriterInv, [Next]_vars, NoOldWriter', NEW c \in Collector,
         \A d \in Collector \ {c} : col'[d] = col[d], Difference(c)
  PROVE  WriterInv'
<1> PICK s : s = col'[c]
  OBVIOUS
<1> PICK r : r = col[c]
  OBVIOUS
<1>1. Quiet /\ NoOldWriter /\ r.pc = "catchup" /\ UNCHANGED <<lock, log, checkpoint, used>>
  BY QuietSteps, WasAlone DEF Difference, db, server
<1>2. lock = c /\ InStep(r) /\ CursorCovered /\ DeletionsCovered /\ \A d \in Collector \ {c} : col[d].pc = "off"
  BY <1>1, AtWork
<1>3. Told(s)
  BY CollectorTold DEF Step
<1>4. /\ r.cursor \in Nat /\ checkpoint \in Nat /\ r.cursor <= checkpoint /\ r.cursor # Nothing /\ Now \in Nat
      /\ checkpoint <= Now /\ checkpoint # Nothing
  BY <1>1, Parts, CollectorAssumption DEF ToldInv, StoreOK
<1>5. log \in Seq(Change)
  BY DEF ToldInv, LogOK
<1> DEFINE d == ChannelDifference(r.cursor)
           b == [set |-> d.set, delete |-> d.delete, pts |-> d.pts,
                 next |-> IF d.final THEN r.after ELSE "catchup"]
           w == [r EXCEPT !.pc = "window", !.wide = TRUE, !.target = d.pts]
           m == [r EXCEPT !.pc = "commit", !.batch = b]
<1>6. s = IF d.tooLong THEN w ELSE m
  BY Parts DEF Difference, Set
<1>7. CASE d.tooLong
  <2>1. Now - r.cursor > GapLimit /\ d.pts = Now
    BY <1>4, <1>5, <1>7, Page
  <2> HIDE DEF d
  <2>3. s.pc = "window" /\ s.wide = TRUE /\ s.target = Now /\ s.cursor = r.cursor /\ s.pending = r.pending
    BY <1>6, <1>7, <2>1, Parts DEF Fields
  <2>4. Reaches(s.cursor, checkpoint)' /\ (used["unknown commit"] = 0 => s.cursor = checkpoint)
    BY <1>1, <1>2, <1>4, <2>3 DEF InStep, Reaches, Now
  <2>5. Now' = Now
    BY <1>1 DEF Now
  <2>6. InStep(s)'
    BY <1>1, <1>4, <2>1, <2>3, <2>4, <2>5 DEF InStep
  <2> QED
    BY <1>1, <1>2, <2>6, WriterKept
<1>8. CASE ~d.tooLong
  <2>1. /\ d.pts \in Nat /\ d.pts <= Now /\ d.pts <= r.cursor + PageSize
        /\ d.pts = Now \/ d.pts = r.cursor + PageSize
        /\ \A p \in Post : d.set[p] = LastSet(p, (r.cursor + 1)..d.pts)
        /\ d.delete = DeletedIn((r.cursor + 1)..d.pts)
        /\ ~(Now - r.cursor > GapLimit)
    BY <1>4, <1>5, <1>8, Page
  <2>2. b.pts = d.pts /\ b.set = d.set /\ b.delete = d.delete
    OBVIOUS
  <2> HIDE DEF d, b
  <2>3. checkpoint <= d.pts
    <3>1. checkpoint - r.cursor <= PageSize
      BY <1>2, <1>4, <2>1 DEF InStep, Reaches
    <3>2. PageSize \in Nat
      BY CollectorAssumption
    <3>3. checkpoint <= r.cursor + PageSize
      BY <1>4, <3>1, <3>2
    <3> QED
      BY <1>4, <2>1, <3>3
  <2>4. Complete(b)
    BY <1>1, <1>2, <1>4, <2>1, <2>2, <2>3, PageComplete
  <2>5. s.pc = "commit" /\ s.batch = b /\ s.target = r.target /\ s.cursor = r.cursor /\ s.pending = r.pending
    BY <1>6, <1>8, Parts DEF Fields
  <2>6. Reaches(r.cursor, b.pts)
    BY <1>4, <2>1, <2>2, CollectorAssumption DEF Reaches
  <2>7. InStep(s)
    BY <1>1, <1>2, <1>4, <2>4, <2>5, <2>6 DEF InStep
  <2> QED
    BY <1>1, <1>2, <1>3, <2>7, WriterKept
<1> QED
  BY <1>7, <1>8

LEMMA ApplyWriter ==
  ASSUME CursorInv, ToldInv, WriterInv, [Next]_vars, NoOldWriter', NEW c \in Collector,
         \A d \in Collector \ {c} : col'[d] = col[d], Apply(c)
  PROVE  WriterInv'
<1> PICK s : s = col'[c]
  OBVIOUS
<1> PICK q : q = col[c]
  OBVIOUS
<1>1. Quiet /\ NoOldWriter /\ q.pc = "run" /\ lock' = lock
  BY QuietSteps, WasAlone DEF Apply
<1>2. lock = c /\ InStep(q) /\ CursorCovered /\ DeletionsCovered /\ \A d \in Collector \ {c} : col[d].pc = "off"
  BY <1>1, AtWork
<1>3. Told(s)
  BY CollectorTold DEF Step
<1> DEFINE u == Head(q.queue)
           t == [q EXCEPT !.queue = Tail(q.queue)]
           r == [t EXCEPT !.resync = TRUE]
           k == [t EXCEPT !.pc = "catchup", !.after = "run"]
           b == [set |-> [p \in Post |-> LastSet(p, {u.pts})],
                 delete |-> DeletedIn({u.pts}), pts |-> u.pts, next |-> "run"]
           m == [t EXCEPT !.pc = "commit", !.batch = b]
<1>4. u \in Update /\ (u.kind = "change" => u.pts \in 1..Now)
  <2>1. q.queue \in Seq(Update) /\ q.queue # <<>> /\ Told(q)
    BY Parts DEF Apply, ToldInv
  <2>2. 1 \in 1..Len(q.queue) /\ u = q.queue[1]
    BY <2>1
  <2> QED
    BY <2>1, <2>2 DEF Told
<1>5. s \in {t, r, k} \/ (u.kind = "change" /\ q.cursor # Nothing /\ u.pts - 1 = q.cursor /\ s = m)
  <2>1. u.kind \notin {"reconnected", "tooLong"} => u.kind = "change"
    BY <1>4 DEF Update
  <2>2. Set(c, IF u.kind = "reconnected" THEN r
               ELSE IF q.cursor = Nothing THEN t
               ELSE IF u.kind = "tooLong" THEN k
               ELSE IF u.pts <= q.cursor THEN t
               ELSE IF u.pts - 1 # q.cursor THEN k
               ELSE m)
    BY DEF Apply
  <2> HIDE DEF u, t, r, k, m
  <2> QED
    BY <2>1, <2>2, Parts DEF Set
<1>6. CASE s \in {t, r, k}
  <2>1. s.cursor = q.cursor /\ s.target = q.target /\ s.pending = q.pending /\ s.pc \in {"run", "catchup"}
    BY <1>1, <1>6, Parts DEF Fields
  <2>2. InStep(s)
    BY <1>1, <1>2, <2>1, StaysInStep
  <2> QED
    BY <1>1, <1>2, <1>3, <2>2, WriterKept
<1>7. CASE u.kind = "change" /\ q.cursor # Nothing /\ u.pts - 1 = q.cursor /\ s = m
  <2> DEFINE x == q.cursor
  <2>1. x \in Nat /\ x = checkpoint /\ checkpoint # Nothing /\ Now \in Nat /\ u.pts \in Nat /\ u.pts = x + 1 /\ u.pts <= Now
    <3>1. x = checkpoint
      BY <1>1, <1>2, <1>7 DEF InStep
    <3>2. x \in Nat /\ Now \in Nat
      BY <1>7, Parts
    <3>3. u.pts \in 1..Now
      BY <1>4, <1>7
    <3> HIDE DEF u, x
    <3> QED
      BY <1>7, <3>1, <3>2, <3>3 DEF x
  <2>2. s.pc = "commit" /\ s.batch = b /\ s.target = q.target /\ s.cursor = x /\ s.pending = q.pending
    BY <1>7, Parts DEF Fields
  <2>3. Complete(b)
    <3>1. (x + 1)..u.pts = {u.pts}
      <4> HIDE DEF u, x
      <4> QED
        BY <2>1
    <3>2. /\ \A p \in Post : b.set[p] = LastSet(p, (x + 1)..u.pts)
          /\ b.delete = DeletedIn((x + 1)..u.pts) /\ b.pts = u.pts
      <4> HIDE DEF u, x
      <4> QED
        BY <3>1
    <3> HIDE DEF b, u, x
    <3>3. x <= checkpoint /\ checkpoint <= u.pts
      BY <2>1
    <3> QED
      BY <1>1, <1>2, <2>1, <3>2, <3>3, PageComplete
  <2>4. Reaches(x, checkpoint) /\ Reaches(x, b.pts)
    <3>1. b.pts = x + 1 /\ PageSize \in Nat \ {0}
      BY <2>1, CollectorAssumption
    <3>2. b.pts - x = 1 /\ PageSize >= 1
      <4> HIDE DEF b, x
      <4> QED
        BY <2>1, <3>1
    <3>3. Reaches(x, x)
      BY <2>1, Here
    <3> HIDE DEF b, x
    <3> QED
      BY <2>1, <3>2, <3>3 DEF Reaches
  <2> HIDE DEF b, x
  <2>5. InStep(s)
    BY <2>1, <2>2, <2>3, <2>4 DEF InStep
  <2> QED
    BY <1>1, <1>2, <1>3, <2>5, WriterKept
<1> QED
  BY <1>5, <1>6, <1>7

\* The transaction of a batch that leaves nothing out.
LEMMA SaveCovers ==
  ASSUME CursorInv, ToldInv, NEW c \in Collector, NEW b, b = col[c].batch, Save(b), Complete(b),
         UNCHANGED <<server, missed>>
  PROVE  CursorCovered' /\ DeletionsCovered' /\ checkpoint' = b.pts /\ b.pts \in Nat
<1>1. /\ b.pts \in Nat /\ b.pts <= Now /\ Now \in Nat /\ log \in Seq(Change) /\ checkpoint \in Nat \cup {Nothing}
      /\ Nothing \notin Nat
  BY Parts, CollectorAssumption DEF ToldInv, Told, LogOK
<1>2. /\ \A p \in Post : stored'[p] = Saved(b, p)
      /\ gone' = gone \cup {p \in b.delete : stored'[p] > 0}
      /\ checkpoint' \in Nat /\ b.pts <= checkpoint' /\ (checkpoint' = b.pts \/ checkpoint' = checkpoint)
  BY SaveIs
<1>3. checkpoint' = b.pts
  <2>1. checkpoint # Nothing => checkpoint <= b.pts
    BY DEF Complete
  <2> QED
    BY <1>1, <1>2, <2>1
<1>4. Covered' = 1..b.pts /\ 1..b.pts \in SUBSET (1..Now)
  BY <1>1, <1>3 DEF Covered
<1>5. /\ Deleted' = Deleted
      /\ \A S : DeletedIn(S)' = DeletedIn(S)
      /\ \A p, S : LastSet(p, S)' = LastSet(p, S)
  BY DEF server, Deleted, DeletedIn, LastSet, Now
<1>6. CursorCovered'
  <2>1. \A p \in Post \ Deleted : stored'[p] >= LastSet(p, (1..b.pts) \ missed)
    BY <1>2 DEF Complete
  <2>2. \A p : LastSet(p, Covered \ missed)' = LastSet(p, (1..b.pts) \ missed)
    BY <1>4 DEF LastSet, server
  <2> QED
    BY <1>5, <2>1, <2>2 DEF CursorCovered
<1>7. DeletionsCovered'
  <2>1. DeletedIn(Covered \ missed)' = DeletedIn((1..b.pts) \ missed)
    BY <1>4 DEF DeletedIn, server
  <2>2. ASSUME NEW p \in DeletedIn((1..b.pts) \ missed), stored'[p] > 0
        PROVE  p \in gone'
    <3>1. PICK i \in (1..b.pts) \ missed : log[i].kind = "delete" /\ log[i].post = p
      BY DeletedWhere
    <3>2. i \in 1..Len(log)
      BY <1>4 DEF Now
    <3>3. log[i] \in Change
      BY <1>1, <3>2
    <3>4. p \in Post
      BY <3>1, <3>3 DEF Change
    <3>5. p \in gone \cup b.delete
      BY <1>2, <2>2, <3>4 DEF Complete
    <3> QED
      BY <1>2, <2>2, <3>5
  <2> QED
    BY <2>1, <2>2 DEF DeletionsCovered
<1> QED
  BY <1>1, <1>3, <1>6, <1>7

\* After the transaction the collector is at the checkpoint, or, if it saw an error,
\* where the next page takes it there.
LEMMA CommittedWriter ==
  ASSUME CursorInv, ToldInv, WriterInv, [Next]_vars, NoOldWriter', NEW c \in Collector,
         \A d \in Collector \ {c} : col'[d] = col[d], Commit(c) \/ CommitUnknown(c), ~End(c),
         NEW s, s = col'[c], InStep(s)'
  PROVE  WriterInv'
<1> PICK r : r = col[c]
  OBVIOUS
<1>1. r.pc = "commit" /\ Save(r.batch) /\ UNCHANGED <<server, missed>> /\ NoOldWriter
  BY WasAlone DEF Commit, CommitUnknown
<1>2. lock = c /\ InStep(r) /\ \A d \in Collector \ {c} : col[d].pc = "off"
  BY <1>1, AtWork
<1>3. CursorCovered' /\ DeletionsCovered'
  BY <1>1, <1>2, SaveCovers DEF InStep
<1>4. lock' = lock
  BY FailedIs DEF Commit, CommitUnknown
<1>5. ASSUME NEW d \in Collector, col'[d].pc # "off"
      PROVE  lock' = d /\ InStep(col[d])'
  <2>1. d = c
    BY <1>2, <1>5
  <2>2. InStep(s)' => InStep(col[c])'
    BY DEF InStep, Complete, Saved, Reaches
  <2> QED
    BY <1>2, <1>4, <2>1, <2>2
<1> QED
  BY <1>3, <1>5 DEF WriterInv

LEMMA CommitWriter ==
  ASSUME CursorInv, ToldInv, WriterInv, [Next]_vars, NoOldWriter', NEW c \in Collector,
         \A d \in Collector \ {c} : col'[d] = col[d], Commit(c)
  PROVE  WriterInv'
<1> PICK s : s = col'[c]
  OBVIOUS
<1> PICK b : b = col[c].batch
  OBVIOUS
<1>1. col[c].pc = "commit" /\ Save(b) /\ UNCHANGED <<server, missed>> /\ NoOldWriter
  BY WasAlone DEF Commit
<1>2. InStep(col[c])
  BY <1>1, AtWork
<1>3. checkpoint' = b.pts /\ b.pts \in Nat /\ b.pts # Nothing
  BY <1>1, <1>2, SaveCovers, CollectorAssumption DEF InStep
<1> DEFINE r == [col[c] EXCEPT !.cursor = b.pts]
<1>4. s = Continue(r, r.batch.next)
  BY Parts DEF Commit, Set
<1>5. DOMAIN r = Fields /\ r.cursor = b.pts /\ r.batch.next \in {"catchup", "recheck", "run"}
  BY Parts DEF Fields
<1> HIDE DEF r
<1>6. /\ s.cursor = b.pts /\ s.pc \in {"window", "catchup", "run"}
      /\ s.pc = "window" => s.target = b.pts /\ s.wide = FALSE
  BY <1>4, <1>5 DEF Continue, Fields
<1>7. Reaches(b.pts, checkpoint)'
  <2>1. b.pts - b.pts = 0 /\ PageSize \in Nat
    BY <1>3, CollectorAssumption
  <2> QED
    BY <1>3, <2>1 DEF Reaches
<1>8. InStep(s)'
  BY <1>3, <1>6, <1>7 DEF InStep
<1>9. ~End(c)
  <2>1. Fresh.cursor = Nothing
    BY DEF Fresh
  <2> QED
    BY <1>3, <1>6, <2>1, Parts DEF End
<1> QED
  BY <1>8, <1>9, CommittedWriter

LEMMA CommitUnknownWriter ==
  ASSUME CursorInv, ToldInv, WriterInv, [Next]_vars, NoOldWriter', NEW c \in Collector,
         \A d \in Collector \ {c} : col'[d] = col[d], CommitUnknown(c)
  PROVE  WriterInv'
<1> PICK s : s = col'[c]
  OBVIOUS
<1> PICK b : b = col[c].batch
  OBVIOUS
<1>1. col[c].pc = "commit" /\ Save(b) /\ UNCHANGED <<server, missed>> /\ NoOldWriter /\ Failed(c)
  BY WasAlone DEF CommitUnknown
<1>2. InStep(col[c])
  BY <1>1, AtWork
<1>3. checkpoint' = b.pts /\ b.pts \in Nat /\ b.pts # Nothing
  BY <1>1, <1>2, SaveCovers, CollectorAssumption DEF InStep
<1>4. used'["unknown commit"] # 0 /\ used'["shutdown"] = used["shutdown"]
  <2>1. used \in [Event -> Nat] /\ "unknown commit" \in Event /\ "shutdown" \in Event
    BY DEF ToldInv, UsedOK, Event
  <2>2. used' = [used EXCEPT !["unknown commit"] = @ + 1]
    BY DEF CommitUnknown, Happens
  <2>3. used["unknown commit"] \in Nat /\ used'["unknown commit"] = used["unknown commit"] + 1
    BY <2>1, <2>2
  <2>4. \A n \in Nat : n + 1 # 0
    OBVIOUS
  <2>5. used'["unknown commit"] # 0
    BY <2>3, <2>4, Zenon
  <2> QED
    BY <2>1, <2>2, <2>5
<1>5. col[c].stop = "no"
  <2>1. used["shutdown"] = 0
    BY <1>4, Zenon DEF NoOldWriter
  <2>2. col[c].stop # "no" => used["shutdown"] > 0
    BY DEF ToldInv, UsedOK
  <2>3. ~(0 > 0)
    OBVIOUS
  <2> QED
    BY <2>1, <2>2, <2>3, Zenon
<1>6. ~End(c) /\ s.cursor = col[c].cursor /\ s.target = col[c].target /\ s.pending = col[c].pending /\ s.pc = "resync"
  <2>1. /\ s.cursor = col[c].cursor /\ s.target = col[c].target /\ s.pending = col[c].pending /\ s.pc = "resync"
    BY <1>1, <1>5, FailedIs
  <2>2. End(c) => s.pc = "off"
    <3>1. Fresh.pc = "off"
      BY DEF Fresh
    <3> QED
      BY <3>1, Parts DEF End
  <2> QED
    BY <2>1, <2>2
<1>7. s.cursor = Nothing => checkpoint' = s.target
  BY <1>1, <1>2, <1>3, <1>6 DEF InStep
<1>8. s.cursor # Nothing => Reaches(s.cursor, checkpoint)'
  <2>1. s.cursor # Nothing => Reaches(s.cursor, b.pts)
    BY <1>1, <1>2, <1>6 DEF InStep
  <2> QED
    BY <1>1, <1>3, <2>1 DEF Reaches, Now, server
<1>9. InStep(s)'
  BY <1>3, <1>4, <1>6, <1>7, <1>8 DEF InStep
<1> QED
  BY <1>6, <1>9, CommittedWriter

LEMMA WriterInit == Init => WriterInv
<1> SUFFICES ASSUME Init PROVE WriterInv
  OBVIOUS
<1>1. ToldInv /\ CursorInv
  BY ToldInit, CursorInit
<1>2. Covered = {} /\ \A p \in Post : stored[p] = 0
  BY DEF Init, Covered
<1>3. \A p : LastSet(p, {}) = 0
  <2>1. log \in Seq(Change) /\ {} \in SUBSET (1..Now)
    BY <1>1 DEF ToldInv, LogOK
  <2>2. \A p : LastSet(p, {}) \in Nat /\ ~(LastSet(p, {}) > 0)
    BY <2>1, LastSetIs
  <2> QED
    BY <2>2
<1>4. CursorCovered
  <2>1. Covered \ missed = {}
    BY <1>2
  <2> QED
    BY <1>2, <1>3, <2>1 DEF CursorCovered
<1>5. DeletionsCovered
  BY <1>2, DeletedWhere DEF DeletionsCovered
<1>6. \A c \in Collector : col[c].pc = "off"
  BY DEF Init, Fresh
<1> QED
  BY <1>4, <1>5, <1>6 DEF WriterInv

LEMMA WriterStep == CursorInv /\ ToldInv /\ WriterInv /\ [Next]_vars => WriterInv'
<1> SUFFICES ASSUME CursorInv, ToldInv, WriterInv, [Next]_vars PROVE WriterInv'
  OBVIOUS
<1>1. CASE ~NoOldWriter'
  BY <1>1 DEF WriterInv
<1>2. CASE NoOldWriter' /\ UNCHANGED col /\ (Publish \/ Forget \/ Elapse \/ LoseLock \/ UNCHANGED vars)
  BY <1>2, ServerWriter
<1>3. ASSUME NoOldWriter', NEW c \in Collector, Step(c) \/ \E u \in Notice : Deliver(c, u),
             \A d \in Collector \ {c} : col'[d] = col[d]
      PROVE  WriterInv'
  BY <1>3, LeaseWriter, LoopWriter, ConnectedWriter, DifferenceWriter, HistoryWriter, CommitWriter,
     CommitUnknownWriter, ApplyWriter DEF Step
<1> QED
  BY <1>1, <1>2, <1>3, OneMoves

\* While no collector lost the lock at work, and none drained its queue after a commit that
\* seemed to fail, one writer at most is at work, and its cursor, its window and its
\* batch leave nothing out between the checkpoint and what they are committed with.
THEOREM WriterInvariant == Spec => [](CursorInv /\ ToldInv /\ WriterInv)
<1>1. Init => CursorInv /\ ToldInv /\ WriterInv
  BY CursorInit, ToldInit, WriterInit
<1>2. CursorInv /\ ToldInv /\ WriterInv /\ [Next]_vars => (CursorInv /\ ToldInv /\ WriterInv)'
  BY CursorStep, ToldStep, WriterStep
<1> QED
  BY <1>1, <1>2, PTL DEF Spec

\* "The cursor never passes unsaved data" (telegram.ts:5-6): whatever crashes, failures,
\* lost updates and gaps, a live post's stored content is as new as the checkpoint says, but
\* for content that a first start or too long a gap left to a window it was too old for, or
\* had RECENT_LIMIT newer posts for (telegram.ts:220, 249; gramjs.ts:22, 68-79).
THEOREM CursorCoveredTheorem == Spec => []CursorCovered
<1>1. CursorInv /\ ToldInv /\ WriterInv => CursorCovered
  BY DEF WriterInv, CursorCovered
<1> QED
  BY <1>1, WriterInvariant, PTL

\* A deletion that Telegram told, up to the checkpoint, is marked, unless it came before a
\* first start, or in too long a gap, and not between two posts of the window that was read
\* instead (telegram.ts:369-379).  Nothing is said of one it did not tell.
THEOREM DeletionsCoveredTheorem == Spec => []DeletionsCovered
<1>1. CursorInv /\ ToldInv /\ WriterInv => DeletionsCovered
  BY DEF WriterInv, DeletionsCovered
<1> QED
  BY <1>1, WriterInvariant, PTL

=============================================================================
