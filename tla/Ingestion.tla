----------------------------- MODULE Ingestion -----------------------------
(***************************************************************************)
(* How one post is stored: ingestMessage (packages/db/src/ingest.ts), run  *)
(* by the live collector, and ingestArchivePost                            *)
(* (apps/worker/src/import/index.ts), run by `cli import` with an export   *)
(* of the channel.  Each is one READ COMMITTED transaction; its steps are  *)
(* the points where another transaction can come between.                  *)
(*                                                                         *)
(* The channel edits the post; a version is its index in the log of its    *)
(* texts and also the time of that edit.                                   *)
(***************************************************************************)
EXTENDS Integers, Sequences, FiniteSets

CONSTANTS
  Live, Importer,  \* the live collector, and runs of `cli import`
  Text,
  MaxVersions,     \* bound on the channel's log
  MaxLoad,         \* bound on the versions in it plus the imports under way
  Nothing

Writer == {Live} \cup Importer
Message == [mode: {"live", "archive"}, text: Text]

ASSUME IngestionAssumption ==
  /\ Live \notin Importer
  /\ Nothing \notin Writer \cup Text \cup Nat /\ Nothing \notin Message
  /\ IsFiniteSet(Importer) /\ {MaxVersions, MaxLoad} \subseteq Nat

VARIABLES
  log,        \* the texts the channel has given the post
  row,        \* the message: mode and the text of its latest revision
  revision,   \* revision[x]: editedAt of the revision with text x, 0 for null
  job,        \* job[x]: the process_revision job of that revision
  holder,     \* who holds the row's lock or its uncommitted insert
  ses,        \* the transaction of each writer
  current,    \* the version the row is known to show (history)
  signalled,  \* a job of the post was completed since its text last changed (history)
  unheard     \* the job the last change relied on was completed before it committed (history)

db == <<row, revision, job>>
history == <<current, signalled, unheard>>
vars == <<log, row, revision, job, holder, ses, current, signalled, unheard>>

Versions == 1..Len(log)

(* pc: look - ingestArchivePost reads the message; lock - and waits for its *)
(* row; put - ingestMessage inserts the message or locks it; store - the    *)
(* revision and its job; commit.  saw is the row of the first read, found   *)
(* whether the enqueue found a job of the revision, overtaken whether that  *)
(* job was completed before the commit (history).                           *)
Session == [pc: {"idle", "look", "lock", "put", "store", "commit"},
            ver: Nat, saw: Message \cup {Nothing}, inserted: BOOLEAN,
            found: BOOLEAN, overtaken: BOOLEAN]

Idle == [pc |-> "idle", ver |-> 0, saw |-> Nothing, inserted |-> FALSE,
         found |-> FALSE, overtaken |-> FALSE]

TypeOK ==
  /\ log \in Seq(Text)
  /\ row \in Message \cup {Nothing}
  /\ revision \in [Text -> 0..Len(log) \cup {Nothing}]
  /\ row # Nothing => revision[row.text] # Nothing
  /\ job \in [Text -> {"none", "active", "done"}]
  /\ \A x \in Text : job[x] = "none" <=> revision[x] = Nothing
  /\ holder \in Writer \cup {Nothing}
  /\ ses \in [Writer -> Session]
  /\ \A w \in Writer : ses[w].pc \in {"store", "commit"} <=> holder = w
  /\ current \in 0..Len(log)
  /\ signalled \in BOOLEAN /\ unheard \in BOOLEAN

Init ==
  /\ log = <<>>
  /\ row = Nothing
  /\ revision = [x \in Text |-> Nothing] /\ job = [x \in Text |-> "none"]
  /\ holder = Nothing /\ ses = [w \in Writer |-> Idle]
  /\ current = 0 /\ signalled = FALSE /\ unheard = FALSE

Go(w, s) == ses' = [ses EXCEPT ![w] = s]

\* The transaction ends, and with it its lock.
End(w) ==
  /\ Go(w, Idle)
  /\ holder' = IF holder = w THEN Nothing ELSE holder

TextOf(w) == log[ses[w].ver]

\* The editedAt of a version: none for the post as it was published.
DateOf(v) == IF v = 1 THEN 0 ELSE v

Load == Len(log) + Cardinality({i \in Importer : ses[i].pc # "idle"})

-----------------------------------------------------------------------------
(* The channel and the worker *)

\* The post is published, or edited - back to an earlier text too.
Edit(x) ==
  /\ Len(log) < MaxVersions /\ Load < MaxLoad
  /\ log # <<>> => log[Len(log)] # x
  /\ log' = Append(log, x)
  /\ UNCHANGED <<db, holder, ses, history>>

\* The situation loop completes a job of the post: it looks at the post again.
Complete(x) ==
  /\ job[x] = "active"
  /\ job' = [job EXCEPT ![x] = "done"]
  /\ signalled' = TRUE
  /\ ses' = [w \in Writer |->
       [ses[w] EXCEPT !.overtaken = @ \/ (ses[w].pc = "commit" /\ ses[w].found /\ TextOf(w) = x)]]
  /\ UNCHANGED <<log, row, revision, holder, current, unheard>>

-----------------------------------------------------------------------------
(* ingestArchivePost *)

\* The live collector always has the current text, an export any version.
Begin(w) ==
  /\ ses[w].pc = "idle"
  /\ \E v \in Versions :
       /\ IF w = Live THEN v = Len(log) ELSE Load < MaxLoad
       /\ Go(w, [Idle EXCEPT !.pc = IF w = Live THEN "put" ELSE "look", !.ver = v])
  /\ UNCHANGED <<log, db, holder, history>>

\* The statement's snapshot: what is committed now.
Look(i) ==
  /\ ses[i].pc = "look"
  /\ Go(i, [ses[i] EXCEPT !.pc = IF row = Nothing THEN "put" ELSE "lock", !.saw = row])
  /\ UNCHANGED <<log, db, holder, history>>

\* editedAt as the locking read returns it.  PostgreSQL re-evaluates the join of a
\* row that changed while it waited against the revision of its snapshot: the two
\* no longer match, and the outer join gives null.
EditedAt(i) == IF row.text = ses[i].saw.text THEN revision[row.text] ELSE 0

\* Fault: the older export is not told from a newer one.
OlderNever(i) == FALSE

\* new Date(post.editedAt ?? post.publishedAt) < current.editedAt
Older(i) == EditedAt(i) # 0 /\ ses[i].ver < EditedAt(i)

\* for update: 'live' and 'older' end it.
Lock(i) ==
  /\ ses[i].pc = "lock" /\ holder = Nothing
  /\ IF row.mode = "live" \/ Older(i)
     THEN End(i)
     ELSE holder' = i /\ Go(i, [ses[i] EXCEPT !.pc = "store"])
  /\ UNCHANGED <<log, db, history>>

-----------------------------------------------------------------------------
(* ingestMessage *)

\* insert ... on conflict do nothing, or the row's lock; either waits for others.
Put(w) ==
  /\ ses[w].pc = "put" /\ holder = Nothing
  /\ holder' = w
  /\ Go(w, [ses[w] EXCEPT !.pc = "store", !.inserted = (row = Nothing)])
  /\ UNCHANGED <<log, db, history>>

\* Fault: a revision that is stored already needs no job.
HasJobOnceStored(x) == revision[x] # Nothing

\* enqueue finds an active job of the revision.
HasJob(x) == job[x] = "active"

\* The current text again: 'unchanged'.  Otherwise the revision and its job.
Store(w) ==
  /\ ses[w].pc = "store"
  /\ IF row # Nothing /\ row.text = TextOf(w)
     THEN /\ End(w)
          /\ current' = IF current < ses[w].ver THEN ses[w].ver ELSE current
     ELSE /\ Go(w, [ses[w] EXCEPT !.pc = "commit", !.found = HasJob(TextOf(w))])
          /\ UNCHANGED <<holder, current>>
  /\ UNCHANGED <<log, db, signalled, unheard>>

\* Fault: the import does not look again at a post it did not find.
LiveSinceNever(w) == FALSE

\* The import found no post, but the live collector has inserted it since.
LiveSince(w) == w # Live /\ ses[w].saw = Nothing /\ ~ses[w].inserted /\ row.mode = "live"

\* An earlier revision that becomes current again keeps its editedAt.
Commit(w) ==
  /\ ses[w].pc = "commit"
  /\ LET x == TextOf(w)
     IN  IF LiveSince(w)
         THEN UNCHANGED <<db, history>>
         ELSE /\ row' = IF row = Nothing
                        THEN [mode |-> IF w = Live THEN "live" ELSE "archive", text |-> x]
                        ELSE [row EXCEPT !.text = x]
              /\ revision' = [revision EXCEPT ![x] = IF @ # Nothing THEN @ ELSE DateOf(ses[w].ver)]
              /\ job' = [job EXCEPT ![x] = IF ses[w].found THEN @ ELSE "active"]
              /\ current' = ses[w].ver
              /\ signalled' = FALSE
              /\ unheard' = ses[w].overtaken
  /\ End(w)
  /\ UNCHANGED log

\* The database or the process fails: the transaction is rolled back.
Fail(w) ==
  /\ ses[w].pc # "idle"
  /\ End(w)
  /\ UNCHANGED <<log, db, history>>

Next ==
  \/ \E x \in Text : Edit(x) \/ Complete(x)
  \/ \E w \in Writer : Begin(w) \/ Put(w) \/ Store(w) \/ Commit(w) \/ Fail(w)
  \/ \E i \in Importer : Look(i) \/ Lock(i)

Spec == Init /\ [][Next]_vars

-----------------------------------------------------------------------------
(* Properties *)

Commits(i) == ses[i].pc = "commit" /\ row # Nothing /\ row' # row

\* "Never rewrites a post the live collector owns" (import/index.ts:120), even one
\* that it inserted after the import found none.
LiveOwned == [][\A i \in Importer : Commits(i) => row.mode # "live"]_vars

\* "Never lets an older export roll a post back to an earlier text"
\* (import/index.ts:120-121): an import whose first read of the row still holds replaces
\* only a text the post had before the export, and whose revision has the date of then.
\* So the text the post shows is not a later one, unless the channel edited it back.
NotOlder ==
  [][\A i \in Importer :
       Commits(i) /\ ses[i].saw = row =>
         \E v \in 1..(ses[i].ver - 1) : log[v] = row.text /\ revision[row.text] = DateOf(v)]_vars

\* The same as the comment has it, of every import.
NeverOlder == [][\A i \in Importer : Commits(i) => ses[i].ver > current]_vars

\* Whatever the post shows now, the worker has been told of, or a job will tell it:
\* a revision that becomes current again gets a new job once its old one is done.
\* The exception is an enqueue that found the old job still active, when the job
\* is completed before the transaction commits.
Announced ==
  row # Nothing => signalled \/ unheard \/ job[row.text] = "active"
=============================================================================
