--------------------------- MODULE EvidenceProofs ---------------------------
(***************************************************************************)
(* From a post to evidence.  Proofs about Ingestion, for any number of     *)
(* imports, texts and versions: the worker is told of what changes, live   *)
(* posts stay, older exports are refused.                                  *)
(* Proofs about Aggregation, for any claims, places, windows, incidents    *)
(* and callers: a claim has one home, no row is lost, and only reports     *)
(* bring an incident to life.                                              *)
(***************************************************************************)
EXTENDS Ingestion, Aggregation, FiniteSetTheorems, WellFoundedInduction, TLAPS

Inside(w) == ses[w].pc \in {"store", "commit"}

\* What a transaction knows of the row: the mode never changes, and while it holds
\* the row, what Lock and Store compared is still so.
KnowsRow(w) ==
  /\ ses[w].saw # Nothing => w # Live /\ row # Nothing /\ ses[w].saw.mode = row.mode
  /\ ses[w].pc = "lock" => ses[w].saw # Nothing
  /\ ses[w].pc \in {"idle", "look", "put"} => ses[w].saw = Nothing
  /\ ~Inside(w) => ~ses[w].inserted
  /\ Inside(w) => (ses[w].inserted <=> row = Nothing)
  /\ Inside(w) /\ ses[w].saw # Nothing =>
       /\ row.mode # "live"
       /\ ses[w].saw = row => revision[row.text] = 0 \/ ses[w].ver >= revision[row.text]
  /\ ses[w].pc = "commit" /\ row # Nothing => row.text # TextOf(w)

\* What it knows of the job of its text.
KnowsJob(w) ==
  ses[w].pc = "commit" /\ ses[w].found =>
    /\ job[TextOf(w)] # "none"
    /\ ~ses[w].overtaken => job[TextOf(w)] = "active"

HasVersion(w) == ses[w].pc # "idle" => ses[w].ver \in Versions

\* A date is that of a version with this text, and no date means the first one.
Dated(x) ==
  revision[x] # Nothing =>
    /\ revision[x] = 0 => 1 \in Versions /\ log[1] = x
    /\ revision[x] # 0 => revision[x] \in Versions \ {1} /\ log[revision[x]] = x

RowIsCurrent == row # Nothing => current \in Versions /\ log[current] = row.text

IngestionInv ==
  /\ TypeOK
  /\ \A w \in Writer : HasVersion(w) /\ KnowsRow(w) /\ KnowsJob(w)
  /\ \A x \in Text : Dated(x)
  /\ RowIsCurrent
  /\ Announced

-----------------------------------------------------------------------------

LEMMA IngestionStarts == Init => IngestionInv
<1> SUFFICES ASSUME Init PROVE IngestionInv
  OBVIOUS
<1> USE IngestionAssumption DEF Init
<1>0. Idle \in Session
  BY DEF Idle, Session
<1>1. TypeOK
  <2>1. \A w \in Writer : ses[w].pc \in {"store", "commit"} <=> holder = w
    BY DEF Idle
  <2>2. log \in Seq(Text) /\ Len(log) = 0
    OBVIOUS
  <2>3. /\ revision \in [Text -> 0..Len(log) \cup {Nothing}] /\ job \in [Text -> {"none", "active", "done"}]
        /\ \A x \in Text : job[x] = "none" /\ revision[x] = Nothing
    OBVIOUS
  <2>4. ses \in [Writer -> Session] /\ current \in 0..Len(log)
    BY <1>0, <2>2
  <2> QED
    BY <2>1, <2>2, <2>3, <2>4 DEF TypeOK
<1>2. \A w \in Writer : HasVersion(w) /\ KnowsRow(w) /\ KnowsJob(w)
  BY DEF HasVersion, KnowsRow, KnowsJob, Idle, Inside
<1>3. (\A x \in Text : Dated(x)) /\ RowIsCurrent /\ Announced
  BY DEF Dated, RowIsCurrent, Announced
<1> QED
  BY <1>1, <1>2, <1>3 DEF IngestionInv

LEMMA StutterInv == IngestionInv /\ UNCHANGED vars => IngestionInv'
BY DEF IngestionInv, vars, TypeOK, HasVersion, KnowsRow, KnowsJob, Inside, Dated, RowIsCurrent, Announced,
       TextOf, Versions, Session, Message

LEMMA EditInv ==
  ASSUME IngestionInv, NEW x \in Text, Edit(x)
  PROVE  IngestionInv'
<1> USE IngestionAssumption DEF IngestionInv, Edit, db, history
<1>1. /\ log' \in Seq(Text) /\ Len(log') = Len(log) + 1
      /\ \A v \in Versions : v \in Versions' /\ log'[v] = log[v]
  BY DEF TypeOK, Versions
<1>2. TypeOK'
  BY <1>1 DEF TypeOK, Versions
<1>3. \A w \in Writer : HasVersion(w)'
  BY <1>1 DEF HasVersion
<1>4. \A w \in Writer : ses[w].pc = "commit" => TextOf(w)' = TextOf(w)
  BY <1>1 DEF HasVersion, TextOf
<1>5. \A w \in Writer : KnowsRow(w)' /\ KnowsJob(w)'
  BY <1>4 DEF KnowsRow, KnowsJob, Inside
<1>6. (\A y \in Text : Dated(y)') /\ RowIsCurrent' /\ Announced'
  BY <1>1, 1 \in Versions <=> Len(log) >= 1 DEF Dated, RowIsCurrent, Announced, Versions, TypeOK
<1> QED
  BY <1>2, <1>3, <1>5, <1>6

LEMMA CompleteInv ==
  ASSUME IngestionInv, NEW x \in Text, Complete(x)
  PROVE  IngestionInv'
<1> USE IngestionAssumption DEF IngestionInv, Complete
<1>1. \A w \in Writer :
        /\ ses'[w] \in Session
        /\ ses'[w].pc = ses[w].pc /\ ses'[w].ver = ses[w].ver /\ ses'[w].saw = ses[w].saw
        /\ ses'[w].inserted = ses[w].inserted /\ ses'[w].found = ses[w].found
        /\ ses'[w].overtaken <=> ses[w].overtaken \/ (ses[w].pc = "commit" /\ ses[w].found /\ TextOf(w) = x)
  BY DEF TypeOK, Session
<1>2. TypeOK'
  BY <1>1 DEF TypeOK, Versions
<1>3. \A w \in Writer : HasVersion(w)' /\ KnowsRow(w)'
  BY <1>1 DEF HasVersion, KnowsRow, Inside, TextOf, Versions
<1>4. \A w \in Writer : KnowsJob(w)'
  <2> TAKE w \in Writer
  <2>1. TextOf(w)' = TextOf(w)
    BY <1>1 DEF TextOf
  <2>2. ses[w].pc = "commit" => TextOf(w) \in Text
    BY DEF TextOf, HasVersion, Versions, TypeOK
  <2> SUFFICES ASSUME ses[w].pc = "commit", ses[w].found
               PROVE  /\ job'[TextOf(w)] # "none"
                      /\ ~ses'[w].overtaken => job'[TextOf(w)] = "active"
    BY <1>1, <2>1 DEF KnowsJob
  <2>3. job[TextOf(w)] # "none" /\ (~ses[w].overtaken => job[TextOf(w)] = "active")
    BY DEF KnowsJob
  <2>4. CASE TextOf(w) = x
    BY <1>1, <2>2, <2>4 DEF TypeOK
  <2>5. CASE TextOf(w) # x
    BY <1>1, <2>2, <2>3, <2>5 DEF TypeOK
  <2> QED
    BY <2>4, <2>5
<1>5. (\A y \in Text : Dated(y)') /\ RowIsCurrent' /\ Announced'
  BY DEF Dated, RowIsCurrent, Announced, Versions
<1> QED
  BY <1>2, <1>3, <1>4, <1>5

\* What a transaction that changes nothing but itself has to keep.
LEMMA OthersKeep ==
  ASSUME IngestionInv, NEW w \in Writer, NEW s \in Session,
         UNCHANGED <<log, row, revision, job, signalled, unheard>>,
         ses' = [ses EXCEPT ![w] = s],
         (HasVersion(w) /\ KnowsRow(w) /\ KnowsJob(w))'
  PROVE  \A u \in Writer : (HasVersion(u) /\ KnowsRow(u) /\ KnowsJob(u))'
<1>1. \A u \in Writer \ {w} : ses'[u] = ses[u]
  BY DEF IngestionInv, TypeOK
<1>2. \A u \in Writer \ {w} : (HasVersion(u) /\ KnowsRow(u) /\ KnowsJob(u))'
  BY <1>1 DEF IngestionInv, HasVersion, KnowsRow, KnowsJob, Inside, TextOf, Versions
<1> QED
  BY <1>2

\* The lock follows the session.
LEMMA LockKept ==
  ASSUME TypeOK, NEW w \in Writer, NEW s \in Session,
         ses' = [ses EXCEPT ![w] = s],
         \/ /\ s.pc \in {"store", "commit"} /\ holder' = w
            /\ holder = Nothing \/ holder = w
         \/ /\ s.pc \notin {"store", "commit"}
            /\ holder' = IF holder = w THEN Nothing ELSE holder
  PROVE  /\ ses' \in [Writer -> Session] /\ holder' \in Writer \cup {Nothing}
         /\ \A u \in Writer : ses'[u].pc \in {"store", "commit"} <=> holder' = u
<1>1. /\ ses' \in [Writer -> Session] /\ ses'[w] = s
      /\ \A u \in Writer \ {w} : ses'[u] = ses[u]
  BY DEF TypeOK
<1>2. Nothing \notin Writer
  BY IngestionAssumption
<1> QED
  BY <1>1, <1>2 DEF TypeOK

LEMMA BeginInv ==
  ASSUME IngestionInv, NEW w \in Writer, Begin(w)
  PROVE  IngestionInv'
<1> USE DEF IngestionInv, Begin, db, history, Go
<1>1. PICK v \in Versions :
        ses' = [ses EXCEPT ![w] = [Idle EXCEPT !.pc = IF w = Live THEN "put" ELSE "look", !.ver = v]]
  OBVIOUS
<1> DEFINE s == [Idle EXCEPT !.pc = IF w = Live THEN "put" ELSE "look", !.ver = v]
<1>2. s \in Session /\ s.pc \in {"put", "look"} /\ s.ver = v /\ s.saw = Nothing /\ ~s.inserted
  <2>1. v \in Nat
    BY DEF Versions
  <2> QED
    BY <2>1 DEF Session, Idle
<1>3. ses'[w] = s
  BY <1>1 DEF TypeOK
<1>4. holder # w
  BY DEF TypeOK
<1> HIDE DEF s
<1>5. TypeOK'
  BY <1>1, <1>2, <1>4, LockKept DEF TypeOK, s, Versions
<1>6. (HasVersion(w) /\ KnowsRow(w) /\ KnowsJob(w))'
  BY <1>2, <1>3 DEF HasVersion, KnowsRow, KnowsJob, Inside, Versions
<1>7. \A u \in Writer : (HasVersion(u) /\ KnowsRow(u) /\ KnowsJob(u))'
  BY <1>1, <1>2, <1>6, OthersKeep DEF s
<1>8. (\A x \in Text : Dated(x)') /\ RowIsCurrent' /\ Announced'
  BY DEF Dated, RowIsCurrent, Announced, Versions
<1> QED
  BY <1>5, <1>7, <1>8

LEMMA LookInv ==
  ASSUME IngestionInv, NEW i \in Importer, Look(i)
  PROVE  IngestionInv'
<1> USE DEF IngestionInv, Look, db, history, Go
<1> DEFINE s == [ses[i] EXCEPT !.pc = IF row = Nothing THEN "put" ELSE "lock", !.saw = row]
<1>0. i \in Writer /\ i # Live /\ Nothing \notin Message
  BY IngestionAssumption DEF Writer
<1>2. s \in Session /\ s.pc = (IF row = Nothing THEN "put" ELSE "lock") /\ s.ver = ses[i].ver /\ s.saw = row
  BY <1>0 DEF Session, TypeOK
<1>3. ses'[i] = s /\ ses' = [ses EXCEPT ![i] = s] /\ holder # i
  BY <1>0 DEF TypeOK
<1> HIDE DEF s
<1>5. TypeOK'
  BY <1>0, <1>2, <1>3, LockKept DEF TypeOK, Versions
<1>6. (HasVersion(i) /\ KnowsRow(i) /\ KnowsJob(i))'
  BY <1>0, <1>2, <1>3 DEF HasVersion, KnowsRow, KnowsJob, Inside, Versions
<1>7. \A u \in Writer : (HasVersion(u) /\ KnowsRow(u) /\ KnowsJob(u))'
  BY <1>0, <1>2, <1>3, <1>6, OthersKeep
<1>8. (\A x \in Text : Dated(x)') /\ RowIsCurrent' /\ Announced'
  BY DEF Dated, RowIsCurrent, Announced, Versions
<1> QED
  BY <1>5, <1>7, <1>8

\* A transaction that ends with nothing changed.
LEMMA EndInv ==
  ASSUME IngestionInv, NEW w \in Writer, End(w), UNCHANGED <<log, db, history>>
  PROVE  IngestionInv'
<1> USE DEF IngestionInv, End, db, history, Go
<1>1. Idle \in Session /\ Idle.pc = "idle" /\ Idle.saw = Nothing /\ ~Idle.inserted
  BY DEF Idle, Session
<1>2. ses'[w] = Idle
  BY DEF TypeOK
<1>3. TypeOK'
  BY <1>1, LockKept DEF TypeOK, Versions
<1>4. (HasVersion(w) /\ KnowsRow(w) /\ KnowsJob(w))'
  BY <1>1, <1>2 DEF HasVersion, KnowsRow, KnowsJob, Inside
<1>5. \A u \in Writer : (HasVersion(u) /\ KnowsRow(u) /\ KnowsJob(u))'
  BY <1>1, <1>4, OthersKeep
<1>6. (\A x \in Text : Dated(x)') /\ RowIsCurrent' /\ Announced'
  BY DEF Dated, RowIsCurrent, Announced, Versions
<1> QED
  BY <1>3, <1>5, <1>6

LEMMA LockInv ==
  ASSUME IngestionInv, NEW i \in Importer, Lock(i)
  PROVE  IngestionInv'
<1>0. i \in Writer /\ i # Live
  BY IngestionAssumption DEF Writer
<1>1. CASE row.mode = "live" \/ Older(i)
  BY <1>0, <1>1, EndInv DEF Lock
<1>2. CASE ~(row.mode = "live" \/ Older(i))
  <2> USE DEF IngestionInv, db, history, Go
  <2> DEFINE s == [ses[i] EXCEPT !.pc = "store"]
  <2>1. /\ ses' = [ses EXCEPT ![i] = s] /\ holder' = i /\ holder = Nothing
        /\ UNCHANGED <<log, row, revision, job, current, signalled, unheard>>
    BY <1>2 DEF Lock
  <2>2. s \in Session /\ s.pc = "store" /\ s.ver = ses[i].ver /\ s.saw = ses[i].saw /\ s.inserted = ses[i].inserted
    BY <1>0 DEF Session, TypeOK
  <2>3. ses'[i] = s
    BY <1>0, <2>1 DEF TypeOK
  <2>4. ses[i].saw # Nothing /\ row # Nothing /\ ses[i].saw.mode = row.mode /\ ses[i].pc = "lock"
    BY <1>0 DEF Lock, KnowsRow
  <2>5. ses[i].saw = row => revision[row.text] = 0 \/ ses[i].ver >= revision[row.text]
    BY <1>0, <1>2, <2>4 DEF Older, EditedAt, TypeOK, Message, Session
  <2>6. ~ses[i].inserted
    BY <1>0, <2>4 DEF KnowsRow
  <2> HIDE DEF s
  <2>7. TypeOK'
    BY <1>0, <2>1, <2>2, LockKept DEF TypeOK, Versions
  <2>8. (HasVersion(i) /\ KnowsRow(i) /\ KnowsJob(i))'
    BY <1>0, <1>2, <2>1, <2>2, <2>3, <2>4, <2>5, <2>6 DEF HasVersion, KnowsRow, KnowsJob, Inside, Versions
  <2>9. \A u \in Writer : (HasVersion(u) /\ KnowsRow(u) /\ KnowsJob(u))'
    BY <1>0, <2>1, <2>2, <2>8, OthersKeep
  <2>10. (\A x \in Text : Dated(x)') /\ RowIsCurrent' /\ Announced'
    BY <2>1 DEF Dated, RowIsCurrent, Announced, Versions
  <2> QED
    BY <2>7, <2>9, <2>10
<1> QED
  BY <1>1, <1>2

LEMMA PutInv ==
  ASSUME IngestionInv, NEW w \in Writer, Put(w)
  PROVE  IngestionInv'
<1> USE DEF IngestionInv, Put, db, history, Go
<1> DEFINE s == [ses[w] EXCEPT !.pc = "store", !.inserted = (row = Nothing)]
<1>1. s \in Session /\ s.pc = "store" /\ s.ver = ses[w].ver /\ s.saw = ses[w].saw /\ (s.inserted <=> row = Nothing)
  <2>1. ses[w] \in Session
    BY DEF TypeOK
  <2>2. (row = Nothing) \in BOOLEAN
    OBVIOUS
  <2> QED
    BY <2>1, <2>2 DEF Session
<1>2. ses' = [ses EXCEPT ![w] = s] /\ ses'[w] = s
  BY DEF TypeOK
<1>3. ses[w].saw = Nothing
  BY DEF KnowsRow
<1> HIDE DEF s
<1>4. TypeOK'
  <2>1. /\ ses' \in [Writer -> Session] /\ holder' \in Writer \cup {Nothing}
        /\ \A u \in Writer : ses'[u].pc \in {"store", "commit"} <=> holder' = u
    BY <1>1, <1>2, LockKept
  <2> QED
    BY <2>1 DEF TypeOK
<1>5. (HasVersion(w) /\ KnowsRow(w) /\ KnowsJob(w))'
  BY <1>1, <1>2, <1>3 DEF HasVersion, KnowsRow, KnowsJob, Inside, Versions
<1>6. \A u \in Writer : (HasVersion(u) /\ KnowsRow(u) /\ KnowsJob(u))'
  BY <1>1, <1>2, <1>5, OthersKeep
<1>7. (\A x \in Text : Dated(x)') /\ RowIsCurrent' /\ Announced'
  BY DEF Dated, RowIsCurrent, Announced, Versions
<1> QED
  BY <1>4, <1>6, <1>7

LEMMA StoreInv ==
  ASSUME IngestionInv, NEW w \in Writer, Store(w)
  PROVE  IngestionInv'
<1> USE DEF IngestionInv, Store, db, Go
<1>0. ses[w].ver \in Versions /\ TextOf(w) \in Text /\ Inside(w) /\ holder = w
  BY DEF HasVersion, TextOf, Versions, TypeOK, Inside
<1>1. CASE row # Nothing /\ row.text = TextOf(w)
  <2>1. /\ ses' = [ses EXCEPT ![w] = Idle] /\ holder' = IF holder = w THEN Nothing ELSE holder
        /\ current' = IF current < ses[w].ver THEN ses[w].ver ELSE current
    BY <1>1 DEF End
  <2>2. Idle \in Session /\ Idle.pc = "idle" /\ Idle.saw = Nothing /\ ~Idle.inserted /\ ses'[w] = Idle
    BY <2>1 DEF Idle, Session, TypeOK
  <2>3. TypeOK'
    <3>1. /\ ses' \in [Writer -> Session] /\ holder' \in Writer \cup {Nothing}
          /\ \A u \in Writer : ses'[u].pc \in {"store", "commit"} <=> holder' = u
      BY <2>1, <2>2, LockKept
    <3>2. current' \in 0..Len(log)
      BY <1>0, <2>1 DEF TypeOK, Versions
    <3> QED
      BY <3>1, <3>2 DEF TypeOK
  <2>4. (HasVersion(w) /\ KnowsRow(w) /\ KnowsJob(w))'
    BY <2>2 DEF HasVersion, KnowsRow, KnowsJob, Inside
  <2>5. \A u \in Writer : (HasVersion(u) /\ KnowsRow(u) /\ KnowsJob(u))'
    BY <2>1, <2>2, <2>4, OthersKeep
  <2>6. (\A x \in Text : Dated(x)') /\ Announced'
    BY DEF Dated, Announced, Versions
  <2>7. RowIsCurrent'
    BY <1>0, <1>1, <2>1 DEF RowIsCurrent, TextOf, Versions
  <2> QED
    BY <2>3, <2>5, <2>6, <2>7
<1>2. CASE ~(row # Nothing /\ row.text = TextOf(w))
  <2> DEFINE s == [ses[w] EXCEPT !.pc = "commit", !.found = HasJob(TextOf(w))]
  <2>1. ses' = [ses EXCEPT ![w] = s] /\ holder' = holder /\ current' = current
    BY <1>2
  <2>2. /\ s \in Session /\ s.pc = "commit" /\ s.ver = ses[w].ver /\ s.saw = ses[w].saw
        /\ s.inserted = ses[w].inserted /\ s.found = (job[TextOf(w)] = "active")
    BY DEF Session, TypeOK, HasJob
  <2>3. ses'[w] = s
    BY <2>1 DEF TypeOK
  <2> HIDE DEF s
  <2>4. TypeOK'
    BY <1>0, <2>1, <2>2, LockKept DEF TypeOK, Versions
  <2>5. TextOf(w)' = TextOf(w)
    BY <2>2, <2>3 DEF TextOf
  <2>6. KnowsRow(w)'
    BY <1>0, <1>2, <2>2, <2>3, <2>5 DEF KnowsRow, Inside
  <2>7. HasVersion(w)' /\ KnowsJob(w)'
    BY <1>0, <2>2, <2>3, <2>5 DEF HasVersion, KnowsJob, Versions
  <2>8. \A u \in Writer : (HasVersion(u) /\ KnowsRow(u) /\ KnowsJob(u))'
    BY <2>1, <2>2, <2>6, <2>7, OthersKeep
  <2>9. (\A x \in Text : Dated(x)') /\ RowIsCurrent' /\ Announced'
    BY <2>1 DEF Dated, RowIsCurrent, Announced, Versions
  <2> QED
    BY <2>4, <2>8, <2>9
<1> QED
  BY <1>1, <1>2

LEMMA CommitInv ==
  ASSUME IngestionInv, NEW w \in Writer, Commit(w)
  PROVE  IngestionInv'
<1>1. CASE LiveSince(w)
  BY <1>1, EndInv DEF Commit
<1>2. CASE ~LiveSince(w)
  <2> USE DEF IngestionInv
  <2> DEFINE x == TextOf(w)
  <2>0. /\ ses[w].ver \in Versions /\ x \in Text /\ Inside(w) /\ holder = w /\ ses[w].pc = "commit"
        /\ log[ses[w].ver] = x
    BY DEF Commit, HasVersion, TextOf, Versions, TypeOK, Inside
  <2>1. /\ row' = IF row = Nothing
                  THEN [mode |-> IF w = Live THEN "live" ELSE "archive", text |-> x]
                  ELSE [row EXCEPT !.text = x]
        /\ revision' = [revision EXCEPT ![x] = IF @ # Nothing THEN @
                           ELSE IF ses[w].ver = 1 THEN 0 ELSE ses[w].ver]
        /\ job' = [job EXCEPT ![x] = IF ses[w].found THEN @ ELSE "active"]
        /\ current' = ses[w].ver /\ signalled' = FALSE /\ unheard' = ses[w].overtaken
        /\ ses' = [ses EXCEPT ![w] = Idle] /\ holder' = Nothing /\ log' = log
    BY <1>2, <2>0 DEF Commit, End, Go, DateOf
  <2>2. Idle \in Session /\ Idle.pc = "idle" /\ Idle.saw = Nothing /\ ~Idle.inserted
    BY DEF Idle, Session
  <2>3. ses'[w] = Idle /\ \A u \in Writer \ {w} : ses'[u] = ses[u] /\ ~Inside(u)
    BY <2>0, <2>1 DEF TypeOK, Inside
  <2> HIDE DEF x
  <2>4. /\ row' \in Message /\ row'.text = x /\ row' # Nothing
        /\ row # Nothing => row'.mode = row.mode
    BY <2>0, <2>1, IngestionAssumption DEF TypeOK, Message
  <2>5. /\ revision' \in [Text -> 0..Len(log) \cup {Nothing}] /\ revision'[x] # Nothing
        /\ \A y \in Text \ {x} : revision'[y] = revision[y]
    BY <2>0, <2>1, IngestionAssumption DEF TypeOK, Versions
  <2>6. /\ job' \in [Text -> {"none", "active", "done"}] /\ job'[x] # "none"
        /\ \A y \in Text \ {x} : job'[y] = job[y]
    BY <2>0, <2>1 DEF TypeOK, KnowsJob, x
  <2>7. /\ ses' \in [Writer -> Session] /\ holder' \in Writer \cup {Nothing}
        /\ \A u \in Writer : ses'[u].pc \in {"store", "commit"} <=> holder' = u
    BY <2>0, <2>1, <2>2, LockKept
  <2>8. TypeOK'
    <3>1. current' \in 0..Len(log) /\ unheard' \in BOOLEAN /\ signalled' \in BOOLEAN
      <4>1. ses[w] \in Session /\ ses[w].ver \in 0..Len(log)
        BY <2>0 DEF TypeOK, Versions
      <4> QED
        BY <2>1, <4>1 DEF Session
    <3> QED
      BY <2>0, <2>1, <2>4, <2>5, <2>6, <2>7, <3>1 DEF TypeOK
  <2>9. \A u \in Writer : (HasVersion(u) /\ KnowsRow(u) /\ KnowsJob(u))'
    <3> TAKE u \in Writer
    <3>1. CASE u = w
      BY <2>2, <2>3, <3>1 DEF HasVersion, KnowsRow, KnowsJob, Inside
    <3>2. CASE u # w
      BY <2>1, <2>3, <2>4, <3>2 DEF HasVersion, KnowsRow, KnowsJob, Inside, Versions
    <3> QED
      BY <3>1, <3>2
  <2>10. \A y \in Text : Dated(y)'
    <3> TAKE y \in Text
    <3>1. CASE y = x /\ revision[x] = Nothing
      <4>1. revision'[x] = IF ses[w].ver = 1 THEN 0 ELSE ses[w].ver
        BY <2>0, <2>1, <3>1 DEF TypeOK
      <4> QED
        BY <2>0, <2>1, <3>1, <4>1 DEF Dated, Versions
    <3>2. CASE ~(y = x /\ revision[x] = Nothing)
      <4>1. revision'[y] = revision[y]
        BY <2>0, <2>1, <2>5, <3>2 DEF TypeOK
      <4> QED
        BY <2>1, <4>1 DEF Dated, Versions
    <3> QED
      BY <3>1, <3>2
  <2>11. RowIsCurrent'
    BY <2>0, <2>1, <2>4 DEF RowIsCurrent, Versions
  <2>12. Announced'
    BY <2>0, <2>1, <2>4 DEF Announced, KnowsJob, TypeOK, x
  <2> QED
    BY <2>8, <2>9, <2>10, <2>11, <2>12
<1> QED
  BY <1>1, <1>2

\* The inductive invariant, and with it what it is made of.
THEOREM IngestionInvariant == Spec => []IngestionInv
<1>1. IngestionInv /\ [Next]_vars => IngestionInv'
  <2> SUFFICES ASSUME IngestionInv, Next PROVE IngestionInv'
    BY StutterInv
  <2>1. ASSUME NEW x \in Text, Edit(x) \/ Complete(x) PROVE IngestionInv'
    BY <2>1, EditInv, CompleteInv
  <2>2. ASSUME NEW w \in Writer, Fail(w) PROVE IngestionInv'
    BY <2>2, EndInv DEF Fail
  <2>3. ASSUME NEW w \in Writer, Begin(w) \/ Put(w) \/ Store(w) \/ Commit(w) PROVE IngestionInv'
    BY <2>3, BeginInv, PutInv, StoreInv, CommitInv
  <2>4. ASSUME NEW i \in Importer, Look(i) \/ Lock(i) PROVE IngestionInv'
    BY <2>4, LookInv, LockInv
  <2> QED
    BY <2>1, <2>2, <2>3, <2>4 DEF Next
<1> QED
  BY IngestionStarts, <1>1, PTL DEF Spec

-----------------------------------------------------------------------------

\* The state keeps its types, and every transaction that is inside holds the row.
THEOREM IngestionTypes == Spec => []TypeOK
<1>1. IngestionInv => TypeOK
  BY DEF IngestionInv
<1> QED
  BY <1>1, IngestionInvariant, PTL

\* Whatever a post shows, the worker has been told of it or a job will tell it
\* (ingest.ts:79-85 with the deduplication of enqueue).
THEOREM EveryTextAnnounced == Spec => []Announced
<1>1. IngestionInv => Announced
  BY DEF IngestionInv
<1> QED
  BY <1>1, IngestionInvariant, PTL

\* The only step in which a transaction changes the row is its commit.
LEMMA CommitChanges ==
  ASSUME IngestionInv, Next, NEW i \in Importer, Commits(i)
  PROVE  Commit(i) /\ ~LiveSince(i)
<1>1. i \in Writer /\ holder = i /\ row' # row
  BY DEF IngestionInv, TypeOK, Commits, Writer
<1>2. \A w \in Writer : ses[w].pc \in {"store", "commit"} => w = i
  BY <1>1, IngestionAssumption DEF IngestionInv, TypeOK
<1>3. \E w \in Writer : Commit(w) /\ ~LiveSince(w)
  BY <1>1 DEF Next, Edit, Complete, Begin, Put, Store, Commit, Fail, Look, Lock, db, Writer
<1> QED
  BY <1>2, <1>3 DEF Commit

\* A post the live collector inserted is never rewritten by an import, one it
\* inserted after the import found none included (import/index.ts:133, 136-140).
THEOREM LivePostsStay == Spec => LiveOwned
<1>1. IngestionInv /\ [Next]_vars =>
        [\A i \in Importer : Commits(i) => row.mode # "live"]_vars
  <2> SUFFICES ASSUME IngestionInv, Next, NEW i \in Importer, Commits(i)
               PROVE  row.mode # "live"
    OBVIOUS
  <2>1. i \in Writer /\ i # Live /\ KnowsRow(i) /\ Inside(i) /\ row # Nothing
    BY IngestionAssumption DEF IngestionInv, Writer, Commits, Inside
  <2>2. ~LiveSince(i)
    BY CommitChanges
  <2> QED
    BY <2>1, <2>2 DEF KnowsRow, LiveSince
<1> QED
  BY <1>1, IngestionInvariant, PTL DEF Spec, LiveOwned

\* An import whose first read still holds replaces only a text the post had before the
\* export (import/index.ts:134): the text is older, or was edited back to and its revision
\* kept the date of then (ingest.ts:60-69).
THEOREM OlderExportsRefused == Spec => NotOlder
<1>1. IngestionInv /\ [Next]_vars =>
        [\A i \in Importer :
           Commits(i) /\ ses[i].saw = row =>
             \E v \in 1..(ses[i].ver - 1) : log[v] = row.text /\ revision[row.text] = DateOf(v)]_vars
  <2> SUFFICES ASSUME IngestionInv, Next, NEW i \in Importer, Commits(i), ses[i].saw = row
               PROVE  \E v \in 1..(ses[i].ver - 1) : log[v] = row.text /\ revision[row.text] = DateOf(v)
    OBVIOUS
  <2> DEFINE d == revision[row.text]
  <2>1. i \in Writer /\ KnowsRow(i) /\ HasVersion(i) /\ ses[i].pc = "commit" /\ row # Nothing
    BY DEF IngestionInv, Writer, Commits
  <2>2. ses[i].ver \in Versions /\ log[ses[i].ver] # row.text
    BY <2>1 DEF KnowsRow, HasVersion, TextOf
  <2>3. d = 0 \/ ses[i].ver >= d
    BY <2>1 DEF KnowsRow, Inside
  <2>4. row.text \in Text /\ d # Nothing
    BY <2>1 DEF IngestionInv, TypeOK, Message
  <2>5. CASE d = 0
    <3>1. 1 \in Versions /\ log[1] = row.text
      BY <2>4, <2>5 DEF IngestionInv, Dated
    <3>2. 1 \in 1..(ses[i].ver - 1)
      BY <2>2, <3>1 DEF Versions
    <3> QED
      BY <2>5, <3>1, <3>2 DEF DateOf
  <2>6. CASE d # 0
    <3>1. d \in Versions /\ log[d] = row.text /\ d # 1
      BY <2>4, <2>6 DEF IngestionInv, Dated
    <3>2. d \in 1..(ses[i].ver - 1)
      BY <2>2, <2>3, <2>6, <3>1 DEF Versions
    <3> QED
      BY <3>1, <3>2 DEF DateOf
  <2> QED
    BY <2>5, <2>6
<1> QED
  BY <1>1, IngestionInvariant, PTL DEF Spec, NotOlder

-----------------------------------------------------------------------------
(* Aggregation *)

AggregationTypes ==
  /\ facts \in Scenarios /\ now \in Nat
  /\ stage \in [Claim -> {"none", "pending", "linked", "withdrawn"}]
  /\ version \in [Claim -> Nat] /\ decision \in [Claim -> Decision]
  /\ incident \in [Incident -> Incidents \cup {None}]
  /\ changes \in Nat

\* What follows takes the facts and the time as parameters: it is used of two states at once.
Told(x, fs) ==
  {e \in x.evidence : e.active /\ ~(fs[e.claim].kind = "clear_claim" /\ x.kind # "clear_claim")}

\* The lifecycle that incident x has at time t.
Life(x, fs, t) ==
  LET rs == Told(x, fs)
      age == t - x.last
  IN  CASE rs = {} -> "retracted"
        [] rs # {} /\ age >= ArchiveAfter -> "archived"
        [] OTHER -> IF \A e \in rs : e.decision # "publish" THEN "candidate"
                    ELSE IF x.kind = "aftermath" \/ \A e \in rs : fs[e.claim].scope = "past" THEN "archived"
                    ELSE IF age >= StaleAfter THEN "stale" ELSE "reported"

\* One row per claim, all of them of this mode and no later than now.
Rows(x, fs, t) ==
  /\ x \in Incidents
  /\ \A e, f \in x.evidence : e.claim = f.claim => e = f
  /\ \A e \in x.evidence : fs[e.claim].mode = x.mode /\ fs[e.claim].at <= t

\* Its last evidence is that of its reports, and its lifecycle is that of some moment so far.
Good(x, fs, t) ==
  /\ Rows(x, fs, t)
  /\ \A e \in Told(x, fs) : fs[e.claim].at <= x.last
  /\ Told(x, fs) # {} => \E e \in Told(x, fs) : fs[e.claim].at = x.last
  /\ \E s \in 0..t : x.lifecycle = Life(x, fs, s)

ActiveIn(x, c) == \E e \in x.evidence : e.active /\ e.claim = c
KeptIn(x, c) == \E e \in x.evidence : e.claim = c

\* Incident i of inc is a home of claim c; it has a row of it.
Home(inc, i, c) == inc[i] # None /\ ActiveIn(inc[i], c)
Trace(inc, i, c) == inc[i] # None /\ KeptIn(inc[i], c)

Housed(st, inc, fs, c) ==
  /\ fs[c].kind # "clear_claim" => \A i, j \in Incident : Home(inc, i, c) /\ Home(inc, j, c) => i = j
  /\ st[c] \in {"none", "withdrawn"} => \A i \in Incident : ~Home(inc, i, c)
  /\ st[c] = "linked" => \E i \in Incident : Home(inc, i, c)
  /\ st[c] # "withdrawn" /\ (\E i \in Incident : Trace(inc, i, c)) => \E i \in Incident : Home(inc, i, c)

AggregationInv ==
  /\ AggregationTypes
  /\ \A c \in Claim : stage[c] # "none" => facts[c].at <= now
  /\ \A i \in Incident : incident[i] # None => Good(incident[i], facts, now)
  /\ \A c \in Claim : Housed(stage, incident, facts, c)

-----------------------------------------------------------------------------
(* What an incident shows of its rows *)

Below == {p \in Nat \X Nat : p[1] < p[2]}

LEMMA BelowWellFounded == IsWellFoundedOn(Below, Nat)
PROOF
  <1>1. OpToRel(<, Nat) = Below
    BY Zenon DEF OpToRel, Below
  <1> QED
    BY <1>1, NatLessThanWellFounded, Zenon

\* A set of numbers that is not empty has a least one.
LEMMA Least ==
  ASSUME NEW T \in SUBSET Nat, T # {}
  PROVE  \E m \in T : \A x \in T : m <= x
PROOF
  <1>1. PICK m \in T : \A x \in T : <<x, m>> \notin Below
    BY BelowWellFounded, WFMin
  <1>2. \A x, y \in Nat : x < y => <<x, y>> \in Below
    BY DEF Below
  <1>3. \A x \in T : m <= x
    <2> TAKE x \in T
    <2>1. x \in Nat /\ m \in Nat /\ ~(x < m)
      BY <1>1, <1>2
    <2> QED
      BY <2>1
  <1> QED
    BY <1>3

\* A bounded one has a greatest.
LEMMA Greatest ==
  ASSUME NEW T \in SUBSET Nat, T # {}, NEW t \in Nat, \A x \in T : x <= t
  PROVE  \E m \in T : \A x \in T : x <= m
PROOF
  <1> DEFINE Gaps == {t - x : x \in T}
  <1>1. Gaps \in SUBSET Nat /\ Gaps # {}
    <2>1. \A x \in T : t - x \in Nat
      OBVIOUS
    <2> QED
      BY <2>1
  <1>2. PICK g \in Gaps : \A h \in Gaps : g <= h
    BY <1>1, Least
  <1>3. PICK m \in T : g = t - m
    BY <1>2
  <1>4. \A x \in T : x <= m
    BY <1>2, <1>3
  <1> QED
    BY <1>4

\* The facts of the claims are facts.
LEMMA FactsAre ==
  ASSUME AggregationTypes
  PROVE  \A c \in Claim : facts[c] \in Fact
  BY AggregationAssumption DEF AggregationTypes

\* The latest and the first of some rows are among them.
LEMMA Extremes ==
  ASSUME AggregationTypes, NEW es \in SUBSET Evidence, es # {}, \A e \in es : F(e).at <= now
  PROVE  /\ Latest(es) \in es /\ \A f \in es : F(f).at <= F(Latest(es)).at
         /\ First(es) \in es /\ \A f \in es : F(First(es)).at <= F(f).at
PROOF
  <1>1. now \in Nat /\ \A e \in es : F(e).at \in Nat
    BY FactsAre DEF AggregationTypes, F, Evidence, Fact
  <1> DEFINE Ats == {F(e).at : e \in es}
  <1>2. Ats \in SUBSET Nat /\ Ats # {} /\ \A a \in Ats : a <= now
    BY <1>1
  <1>3. PICK m \in Ats : \A a \in Ats : a <= m
    BY <1>1, <1>2, Greatest
  <1>4. \E e \in es : \A f \in es : F(f).at <= F(e).at
    BY <1>3
  <1>5. PICK n \in Ats : \A a \in Ats : n <= a
    BY <1>2, Least
  <1>6. \E e \in es : \A f \in es : F(e).at <= F(f).at
    BY <1>5
  <1> QED
    BY <1>4, <1>6 DEF Latest, First

\* Of places that all nest there is a most specific one.
LEMMA MostSpecific ==
  ASSUME NEW places \in SUBSET DOMAIN Ancestors, places # {},
         \A a, b \in places : a = b \/ Broader(a, b) \/ Broader(b, a)
  PROVE  \E p \in places : \A q \in places \ {p} : Broader(q, p)
PROOF
  <1> DEFINE Depth(p) == Cardinality(Ancestors[p])
  <1>1. \A p \in DOMAIN Ancestors :
          Depth(p) \in Nat /\ IsFiniteSet(Ancestors[p]) /\ Depth(p) <= Cardinality(DOMAIN Ancestors)
    <2> TAKE p \in DOMAIN Ancestors
    <2>1. IsFiniteSet(DOMAIN Ancestors) /\ Ancestors[p] \in SUBSET DOMAIN Ancestors
      BY AggregationAssumption
    <2>2. IsFiniteSet(Ancestors[p]) /\ Cardinality(Ancestors[p]) <= Cardinality(DOMAIN Ancestors)
      BY <2>1, FS_Subset
    <2> QED
      BY <2>2, FS_CardinalityType
  <1>2. \A p \in DOMAIN Ancestors : \A q \in Ancestors[p] : q \in DOMAIN Ancestors /\ Depth(q) < Depth(p)
    <2> TAKE p \in DOMAIN Ancestors
    <2> TAKE q \in Ancestors[p]
    <2>1. q \in DOMAIN Ancestors /\ Ancestors[q] \in SUBSET Ancestors[p] /\ q \notin Ancestors[q]
      BY AggregationAssumption
    <2>2. IsFiniteSet(Ancestors[p]) /\ Depth(p) \in Nat /\ Depth(q) \in Nat
      BY <1>1, <2>1
    <2>3. Depth(q) <= Depth(p) /\ (Depth(q) = Depth(p) => Ancestors[q] = Ancestors[p])
      BY <2>1, <2>2, FS_Subset
    <2>4. Ancestors[q] # Ancestors[p]
      BY <2>1
    <2> QED
      BY <2>1, <2>2, <2>3, <2>4
  <1>3. Cardinality(DOMAIN Ancestors) \in Nat
    BY AggregationAssumption, FS_CardinalityType
  <1> DEFINE Depths == {Depth(p) : p \in places}
  <1> HIDE DEF Depth
  <1>4. Depths \in SUBSET Nat /\ Depths # {} /\ \A d \in Depths : d <= Cardinality(DOMAIN Ancestors)
    BY <1>1
  <1>5. PICK m \in Depths : \A d \in Depths : d <= m
    BY <1>3, <1>4, Greatest
  <1>6. PICK p \in places : m = Depth(p)
    BY <1>5
  <1>7. \A q \in places \ {p} : Broader(q, p)
    <2> TAKE q \in places \ {p}
    <2>1. Depth(q) <= Depth(p) /\ Depth(p) \in Nat /\ Depth(q) \in Nat
      BY <1>1, <1>5, <1>6
    <2>2. ~Broader(p, q)
      BY <1>2, <2>1 DEF Broader
    <2> QED
      BY <2>2
  <1> QED
    BY <1>7

LEMMA AreaIs ==
  ASSUME AggregationTypes, NEW es \in SUBSET Evidence, \A e \in es : F(e).at <= now
  PROVE  AreaOf(es) \in DOMAIN Ancestors \cup {None}
PROOF
  <1> DEFINE placed == {e \in es : F(e).place # None}
             places == {F(e).place : e \in placed}
  <1>1. \A e \in es : F(e).place \in DOMAIN Ancestors \cup {None}
    BY FactsAre DEF F, Evidence, Fact
  <1>2. places \in SUBSET DOMAIN Ancestors
    BY <1>1
  <1>3. CASE placed = {}
    BY <1>3 DEF AreaOf
  <1>4. CASE placed # {} /\ \E a, b \in places : Disjoint(a, b)
    <2>1. First(placed) \in placed
      BY <1>4, Extremes
    <2>2. AreaOf(es) = F(First(placed)).place
      BY <1>4 DEF AreaOf
    <2> QED
      BY <1>1, <2>1, <2>2
  <1>5. CASE placed # {} /\ ~\E a, b \in places : Disjoint(a, b)
    <2>1. \A a, b \in places : a = b \/ Broader(a, b) \/ Broader(b, a)
      BY <1>5 DEF Disjoint
    <2>2. \E p \in places : \A q \in places \ {p} : Broader(q, p)
      BY <1>2, <1>5, <2>1, MostSpecific
    <2>3. AreaOf(es) = CHOOSE p \in places : \A q \in places \ {p} : Broader(q, p)
      BY <1>5 DEF AreaOf
    <2> QED
      BY <1>2, <2>2, <2>3
  <1> QED
    BY <1>3, <1>4, <1>5

LEMMA ToldAreReports ==
  ASSUME NEW x
  PROVE  ActiveReports(x) = Told(x, facts)
  BY DEF ActiveReports, Told, IsClosure, F

LEMMA LifeNow ==
  ASSUME NEW x
  PROVE  LifecycleAt(x) = Life(x, facts, now)
  BY ToldAreReports DEF LifecycleAt, Life, F

LEMMA LifeIs ==
  ASSUME NEW x, NEW t
  PROVE  /\ Life(x, facts, t) \in {"candidate", "reported", "stale", "archived", "retracted"}
         /\ Life(x, facts, t) = "retracted" => Told(x, facts) = {}
  BY DEF Life

\* Whatever the rows of an incident are, derive makes the rest of it what they say.
LEMMA DeriveIs ==
  ASSUME AggregationTypes, NEW x, Rows(x, facts, now)
  PROVE  /\ Good(Derive(x), facts, now)
         /\ Derive(x).kind = x.kind /\ Derive(x).mode = x.mode /\ Derive(x).evidence = x.evidence
         /\ Derive(x).lifecycle = Life(Derive(x), facts, now)
         /\ Told(x, facts) = {} => Derive(x).last = x.last
PROOF
  <1> DEFINE rs == ActiveReports(x)
             closing == IF x.kind = "clear_claim" THEN rs ELSE ActiveClosures(x)
             f == IF rs = {} THEN x.first ELSE F(First(rs)).at
             l == IF rs = {} THEN x.last ELSE F(Latest(rs)).at
             c == IF closing = {} THEN None ELSE Latest(closing).claim
             y == [x EXCEPT !.first = f, !.last = l, !.area = AreaOf(rs), !.conflict = Conflict(rs), !.closure = c]
  <1>1. x \in Incidents /\ x.evidence \in SUBSET Evidence /\ \A e \in x.evidence : F(e).at <= now
    BY DEF Rows, F, Incidents
  <1>2. rs \in SUBSET Evidence /\ \A e \in rs : F(e).at <= now
    BY <1>1 DEF ActiveReports
  <1>3. closing \in SUBSET Evidence /\ \A e \in closing : F(e).at <= now
    BY <1>1, <1>2 DEF ActiveClosures
  <1>4. rs # {} => /\ First(rs) \in rs /\ Latest(rs) \in rs
                   /\ \A e \in rs : F(e).at <= F(Latest(rs)).at
    BY <1>2, Extremes
  <1>5. f \in Nat /\ l \in Nat
    BY <1>1, <1>2, <1>4, FactsAre DEF Incidents, F, Evidence, Fact
  <1>6. AreaOf(rs) \in DOMAIN Ancestors \cup {None}
    BY <1>2, AreaIs
  <1>7. c \in Claim \cup {None}
    <2>1. closing # {} => Latest(closing) \in closing
      BY <1>3, Extremes
    <2> QED
      BY <1>3, <2>1 DEF Evidence
  <1>8. Conflict(rs) \in BOOLEAN
    BY DEF Conflict
  <1> HIDE DEF f, l, c, closing, rs
  <1>9. /\ y \in Incidents
        /\ y.kind = x.kind /\ y.mode = x.mode /\ y.evidence = x.evidence /\ y.last = l
    BY <1>1, <1>5, <1>6, <1>7, <1>8 DEF Incidents
  <1>10. Derive(x) = [y EXCEPT !.lifecycle = LifecycleAt(y)]
    BY DEF Derive, rs, closing, f, l, c
  <1> HIDE DEF y
  <1>11. LifecycleAt(y) \in {"candidate", "reported", "stale", "archived", "retracted"}
    BY LifeNow, LifeIs
  <1>12. /\ Derive(x) \in Incidents
         /\ Derive(x).kind = x.kind /\ Derive(x).mode = x.mode /\ Derive(x).evidence = x.evidence
         /\ Derive(x).last = l /\ Derive(x).lifecycle = LifecycleAt(y)
    BY <1>9, <1>10, <1>11 DEF Incidents
  <1>13. Told(Derive(x), facts) = Told(x, facts) /\ Told(y, facts) = Told(x, facts) /\ rs = Told(x, facts)
    BY <1>9, <1>12, ToldAreReports DEF Told, rs
  <1>14. Derive(x).lifecycle = Life(Derive(x), facts, now)
    BY <1>9, <1>12, <1>13, LifeNow DEF Life
  <1>15. Rows(Derive(x), facts, now)
    BY <1>12 DEF Rows
  <1>16. /\ \A e \in Told(Derive(x), facts) : facts[e.claim].at <= Derive(x).last
         /\ Told(Derive(x), facts) # {} =>
              \E e \in Told(Derive(x), facts) : facts[e.claim].at = Derive(x).last
    BY <1>4, <1>12, <1>13 DEF l, F
  <1>17. now \in 0..now
    BY DEF AggregationTypes
  <1> QED
    BY <1>12, <1>13, <1>14, <1>15, <1>16, <1>17 DEF Good, l

-----------------------------------------------------------------------------
(* What the operations do to the rows of an incident *)

\* Incident x became y: it is as it was, or says anew what its rows now say.
Renewed(x, y, fs, t) ==
  \/ y = x
  \/ /\ y.kind = x.kind /\ y.lifecycle = Life(y, fs, t)
     /\ Told(y, fs) = {} => y.last = x.last

LEMMA RowIs ==
  ASSUME AggregationTypes, NEW c \in Claim, NEW g \in STRING \X Nat, NEW by \in {"new", "auto", "asked"}
  PROVE  Row(c, g, by) \in Evidence /\ Row(c, g, by).claim = c /\ Row(c, g, by).active
  BY DEF Row, Evidence, AggregationTypes

\* With other rows of the same mode an incident is derived anew.
LEMMA RowsReplaced ==
  ASSUME AggregationTypes, NEW x, Good(x, facts, now), NEW es \in SUBSET Evidence,
         \A e, f \in es : e.claim = f.claim => e = f,
         \A e \in es : facts[e.claim].mode = x.mode /\ facts[e.claim].at <= now,
         NEW y, y = Derive([x EXCEPT !.evidence = es])
  PROVE  /\ Good(y, facts, now) /\ y.evidence = es /\ y.mode = x.mode
         /\ Renewed(x, y, facts, now)
PROOF
  <1> DEFINE z == [x EXCEPT !.evidence = es]
  <1>1. z \in Incidents /\ z.kind = x.kind /\ z.mode = x.mode /\ z.last = x.last /\ z.evidence = es
    BY DEF Good, Rows, Incidents
  <1>2. Rows(z, facts, now)
    BY <1>1 DEF Rows
  <1> HIDE DEF z
  <1>3. /\ Good(y, facts, now) /\ y.kind = z.kind /\ y.mode = z.mode /\ y.evidence = z.evidence
        /\ y.lifecycle = Life(y, facts, now)
        /\ Told(z, facts) = {} => y.last = z.last
    BY <1>2, DeriveIs DEF z
  <1>4. Told(y, facts) = Told(z, facts)
    BY <1>3 DEF Told
  <1> QED
    BY <1>1, <1>3, <1>4 DEF Renewed

LEMMA ApplyIs ==
  ASSUME AggregationTypes, NEW x, Good(x, facts, now), NEW c \in Claim, NEW g \in STRING \X Nat,
         NEW by \in {"auto", "asked"}, facts[c].mode = x.mode, facts[c].at <= now,
         NEW y, y = Apply(x, c, g, by)
  PROVE  /\ Good(y, facts, now) /\ Renewed(x, y, facts, now)
         /\ \A d \in Claim : KeptIn(x, d) => KeptIn(y, d)
         /\ \A d \in Claim \ {c} : (KeptIn(y, d) => KeptIn(x, d)) /\ (ActiveIn(y, d) <=> ActiveIn(x, d))
         /\ ActiveIn(x, c) \/ ~KeptIn(x, c) => ActiveIn(y, c)
PROOF
  <1> DEFINE old == {e \in x.evidence : e.claim = c}
             es == (x.evidence \ old) \cup {Row(c, g, by)}
  <1>1. x.evidence \in SUBSET Evidence
    BY DEF Good, Rows, Incidents
  <1>2. Row(c, g, by) \in Evidence /\ Row(c, g, by).claim = c /\ Row(c, g, by).active
    BY RowIs
  <1>3. CASE \E e \in old : e.version >= version[c]
    <2>1. y = x
      BY <1>3 DEF Apply
    <2>2. \E e \in x.evidence : e.claim = c
      BY <1>3
    <2> QED
      BY <2>1, <2>2 DEF Renewed, KeptIn
  <1>4. CASE ~\E e \in old : e.version >= version[c]
    <2>1. y = Derive([x EXCEPT !.evidence = es])
      <3>1. Apply(x, c, g, by) = Derive([x EXCEPT !.evidence = (@ \ old) \cup {Row(c, g, by)}])
        BY <1>4 DEF Apply
      <3>2. [x EXCEPT !.evidence = (@ \ old) \cup {Row(c, g, by)}] = [x EXCEPT !.evidence = es]
        OBVIOUS
      <3> QED
        BY <3>1, <3>2
    <2>2. es \in SUBSET Evidence
      BY <1>1, <1>2
    <2>3. \A e, f \in es : e.claim = f.claim => e = f
      BY <1>1, <1>2 DEF Good, Rows
    <2>4. \A e \in es : facts[e.claim].mode = x.mode /\ facts[e.claim].at <= now
      BY <1>1, <1>2 DEF Good, Rows
    <2> HIDE DEF es
    <2>5. Good(y, facts, now) /\ y.evidence = es /\ Renewed(x, y, facts, now)
      BY <2>1, <2>2, <2>3, <2>4, RowsReplaced
    <2>6. /\ \A d \in Claim : KeptIn(x, d) => KeptIn(y, d)
          /\ \A d \in Claim \ {c} : (KeptIn(y, d) => KeptIn(x, d)) /\ (ActiveIn(y, d) <=> ActiveIn(x, d))
          /\ ActiveIn(y, c)
      BY <1>2, <2>5 DEF KeptIn, ActiveIn, es
    <2> QED
      BY <2>5, <2>6
  <1> QED
    BY <1>3, <1>4

LEMMA WithdrawIs ==
  ASSUME AggregationTypes, NEW x, Good(x, facts, now), NEW cs, NEW y, y = WithdrawFrom(x, cs)
  PROVE  /\ Good(y, facts, now) /\ Renewed(x, y, facts, now)
         /\ \A d \in Claim : KeptIn(y, d) <=> KeptIn(x, d)
         /\ \A d \in Claim : ActiveIn(y, d) <=> ActiveIn(x, d) /\ d \notin cs
PROOF
  <1> DEFINE hit == {e \in x.evidence : e.active /\ e.claim \in cs}
             off == {[e EXCEPT !.active = FALSE] : e \in hit}
             es == (x.evidence \ hit) \cup off
  <1>1. x.evidence \in SUBSET Evidence
    BY DEF Good, Rows, Incidents
  <1>2. CASE hit = {}
    <2>1. y = x
      BY <1>2 DEF WithdrawFrom
    <2>2. \A d \in Claim : ActiveIn(x, d) => d \notin cs
      BY <1>2 DEF ActiveIn
    <2> QED
      BY <2>1, <2>2 DEF Renewed
  <1>3. CASE hit # {}
    <2>1. y = Derive([x EXCEPT !.evidence = es])
      <3>1. WithdrawFrom(x, cs) = Derive([x EXCEPT !.evidence = (@ \ hit) \cup off])
        BY <1>3 DEF WithdrawFrom
      <3>2. [x EXCEPT !.evidence = (@ \ hit) \cup off] = [x EXCEPT !.evidence = es]
        OBVIOUS
      <3> QED
        BY <3>1, <3>2
    <2>2. /\ off \in SUBSET Evidence
          /\ \A e \in hit : \E f \in off : f.claim = e.claim
          /\ \A f \in off : ~f.active /\ \E e \in hit : f = [e EXCEPT !.active = FALSE] /\ f.claim = e.claim
      <3>1. \A e \in hit : LET f == [e EXCEPT !.active = FALSE]
                           IN  f \in Evidence /\ f.claim = e.claim /\ ~f.active
        BY <1>1 DEF Evidence
      <3>2. \A e \in hit : [e EXCEPT !.active = FALSE] \in off
        OBVIOUS
      <3>3. \A f \in off : \E e \in hit : f = [e EXCEPT !.active = FALSE]
        OBVIOUS
      <3> HIDE DEF off, hit
      <3> QED
        BY <3>1, <3>2, <3>3
    <2> HIDE DEF off
    <2>3. es \in SUBSET Evidence
      BY <1>1, <2>2
    <2>4. \A e, f \in es : e.claim = f.claim => e = f
      <3>1. \A e, f \in x.evidence : e.claim = f.claim => e = f
        BY DEF Good, Rows
      <3>2. \A e, f \in off : e.claim = f.claim => e = f
        <4> TAKE e, f \in off
        <4> HAVE e.claim = f.claim
        <4>1. PICK a \in hit : e = [a EXCEPT !.active = FALSE] /\ e.claim = a.claim
          BY <2>2
        <4>2. PICK b \in hit : f = [b EXCEPT !.active = FALSE] /\ f.claim = b.claim
          BY <2>2
        <4>3. a = b
          BY <3>1, <4>1, <4>2
        <4> QED
          BY <4>1, <4>2, <4>3
      <3>3. \A e \in x.evidence \ hit, f \in off : e.claim # f.claim
        BY <2>2, <3>1
      <3> QED
        BY <3>1, <3>2, <3>3
    <2>5. \A e \in es : facts[e.claim].mode = x.mode /\ facts[e.claim].at <= now
      BY <2>2 DEF Good, Rows
    <2> HIDE DEF es
    <2>6. Good(y, facts, now) /\ y.evidence = es /\ Renewed(x, y, facts, now)
      BY <2>1, <2>3, <2>4, <2>5, RowsReplaced
    <2>7. \A d \in Claim : KeptIn(y, d) <=> KeptIn(x, d)
      BY <2>2, <2>6 DEF KeptIn, es
    <2>8. \A d \in Claim : ActiveIn(y, d) <=> ActiveIn(x, d) /\ d \notin cs
      BY <2>2, <2>6 DEF ActiveIn, es
    <2> QED
      BY <2>6, <2>7, <2>8
  <1> QED
    BY <1>2, <1>3

\* Rows that an operator moves keep their claims.
LEMMA MovedAre ==
  ASSUME AggregationTypes, NEW x, Good(x, facts, now), NEW hit \in SUBSET x.evidence,
         \A e \in hit : e.active,
         NEW moved, moved = {[e EXCEPT !.by = "operator"] : e \in hit}
  PROVE  /\ moved \in SUBSET Evidence
         /\ \A e \in hit : \E f \in moved : f.claim = e.claim
         /\ \A f \in moved : f.active /\ \E e \in hit : f.claim = e.claim
         /\ \A e, f \in moved : e.claim = f.claim => e = f
         /\ \A e \in moved : facts[e.claim].mode = x.mode /\ facts[e.claim].at <= now
PROOF
  <1>1. x.evidence \in SUBSET Evidence /\ \A e, f \in x.evidence : e.claim = f.claim => e = f
    BY DEF Good, Rows, Incidents
  <1>2. \A e \in hit : LET f == [e EXCEPT !.by = "operator"]
                       IN  f \in Evidence /\ f.claim = e.claim /\ f.active
    BY <1>1 DEF Evidence
  <1>3. \A e \in hit : [e EXCEPT !.by = "operator"] \in moved
    OBVIOUS
  <1>4. \A f \in moved :
          /\ f \in Evidence /\ f.active
          /\ \E e \in hit : f = [e EXCEPT !.by = "operator"] /\ f.claim = e.claim
    BY <1>2
  <1>5. \A e, f \in moved : e.claim = f.claim => e = f
    <2> TAKE e, f \in moved
    <2> HAVE e.claim = f.claim
    <2>1. PICK a \in hit : e = [a EXCEPT !.by = "operator"] /\ e.claim = a.claim
      BY <1>4
    <2>2. PICK b \in hit : f = [b EXCEPT !.by = "operator"] /\ f.claim = b.claim
      BY <1>4
    <2>3. a = b
      BY <1>1, <2>1, <2>2
    <2> QED
      BY <2>1, <2>2, <2>3
  <1>6. moved \in SUBSET Evidence /\ \A f \in moved : f.active
    BY <1>4
  <1>7. \A e \in moved : facts[e.claim].mode = x.mode /\ facts[e.claim].at <= now
    BY <1>4 DEF Good, Rows
  <1>8. \A e \in hit : \E f \in moved : f.claim = e.claim
    BY <1>2, <1>3
  <1> QED
    BY <1>4, <1>5, <1>6, <1>7, <1>8

LEMMA MergeIs ==
  ASSUME AggregationTypes, NEW x, Good(x, facts, now), NEW s, Good(s, facts, now), x.mode = s.mode,
         NEW y, y = Derive([x EXCEPT !.evidence =
                              {e \in @ : e.claim \notin ActiveClaims(s)} \cup
                              {[e EXCEPT !.by = "operator"] : e \in {f \in s.evidence : f.active}}])
  PROVE  /\ Good(y, facts, now) /\ Renewed(x, y, facts, now)
         /\ \A d \in Claim : KeptIn(y, d) <=> KeptIn(x, d) \/ ActiveIn(s, d)
         /\ \A d \in Claim : ActiveIn(y, d) <=> ActiveIn(x, d) \/ ActiveIn(s, d)
PROOF
  <1> DEFINE hit == {f \in s.evidence : f.active}
             moved == {[e EXCEPT !.by = "operator"] : e \in hit}
             rest == {e \in x.evidence : e.claim \notin ActiveClaims(s)}
             es == rest \cup moved
  <1>1. /\ moved \in SUBSET Evidence
        /\ \A e \in hit : \E f \in moved : f.claim = e.claim
        /\ \A f \in moved : f.active /\ \E e \in hit : f.claim = e.claim
        /\ \A e, f \in moved : e.claim = f.claim => e = f
        /\ \A e \in moved : facts[e.claim].mode = x.mode /\ facts[e.claim].at <= now
    <2>1. hit \in SUBSET s.evidence /\ \A e \in hit : e.active
      OBVIOUS
    <2> HIDE DEF hit
    <2>2. /\ moved \in SUBSET Evidence
          /\ \A e \in hit : \E f \in moved : f.claim = e.claim
          /\ \A f \in moved : f.active /\ \E e \in hit : f.claim = e.claim
          /\ \A e, f \in moved : e.claim = f.claim => e = f
          /\ \A e \in moved : facts[e.claim].mode = s.mode /\ facts[e.claim].at <= now
      BY <2>1, MovedAre
    <2> QED
      BY <2>2
  <1>2. y = Derive([x EXCEPT !.evidence = es])
    <2>1. [x EXCEPT !.evidence = {e \in @ : e.claim \notin ActiveClaims(s)} \cup moved] = [x EXCEPT !.evidence = es]
      OBVIOUS
    <2> QED
      BY <2>1
  <1> HIDE DEF moved
  <1>3. \A d : d \in ActiveClaims(s) <=> \E e \in hit : e.claim = d
    BY DEF ActiveClaims
  <1>4. /\ rest \in SUBSET Evidence
        /\ \A e, f \in rest : e.claim = f.claim => e = f
        /\ \A e \in rest : facts[e.claim].mode = x.mode /\ facts[e.claim].at <= now
    BY DEF Good, Rows, Incidents
  <1>5. \A e \in rest, f \in moved : e.claim # f.claim
    BY <1>1, <1>3
  <1>6. es \in SUBSET Evidence
    BY <1>1, <1>4
  <1>7. \A e, f \in es : e.claim = f.claim => e = f
    BY <1>1, <1>4, <1>5
  <1>8. \A e \in es : facts[e.claim].mode = x.mode /\ facts[e.claim].at <= now
    BY <1>1, <1>4
  <1> HIDE DEF es
  <1>9. Good(y, facts, now) /\ y.evidence = es /\ Renewed(x, y, facts, now)
    BY <1>2, <1>6, <1>7, <1>8, RowsReplaced
  <1>10. \A d : (\E f \in moved : f.claim = d) <=> ActiveIn(s, d)
    BY <1>1 DEF ActiveIn
  <1>11. \A d : d \in ActiveClaims(s) <=> ActiveIn(s, d)
    BY <1>3 DEF ActiveIn
  <1>12. \A d \in Claim : KeptIn(y, d) <=> KeptIn(x, d) \/ ActiveIn(s, d)
    BY <1>9, <1>10, <1>11 DEF KeptIn, es
  <1>13. \A d \in Claim : ActiveIn(y, d) <=> ActiveIn(x, d) \/ ActiveIn(s, d)
    <2> TAKE d \in Claim
    <2>1. ActiveIn(y, d) => ActiveIn(x, d) \/ ActiveIn(s, d)
      BY <1>9, <1>10 DEF ActiveIn, es
    <2>2. ActiveIn(s, d) => ActiveIn(y, d)
      <3> HAVE ActiveIn(s, d)
      <3>1. PICK f \in moved : f.claim = d
        BY <1>10
      <3>2. f \in y.evidence /\ f.active
        BY <1>1, <1>9 DEF es
      <3> QED
        BY <3>1, <3>2 DEF ActiveIn
    <2>3. ActiveIn(x, d) /\ d \notin ActiveClaims(s) => ActiveIn(y, d)
      BY <1>9 DEF ActiveIn, es
    <2> QED
      BY <1>11, <2>1, <2>2, <2>3
  <1> QED
    BY <1>9, <1>12, <1>13

LEMMA CreateIs ==
  ASSUME AggregationTypes, NEW kind \in Kind, NEW mode \in {"live", "archive"},
         NEW es \in SUBSET Evidence, \A e, f \in es : e.claim = f.claim => e = f,
         \A e \in es : facts[e.claim].mode = mode /\ facts[e.claim].at <= now,
         NEW y, y = Create(kind, mode, es)
  PROVE  Good(y, facts, now) /\ y.evidence = es
PROOF
  <1> DEFINE z == [kind |-> kind, mode |-> mode, evidence |-> es, lifecycle |-> "candidate",
                   first |-> now, last |-> now, area |-> None, conflict |-> FALSE, closure |-> None]
  <1>1. z \in Incidents /\ z.evidence = es /\ z.mode = mode
    BY DEF Incidents, AggregationTypes
  <1>2. y = Derive(z)
    BY DEF Create
  <1> HIDE DEF z
  <1>3. Rows(z, facts, now)
    BY <1>1 DEF Rows
  <1> QED
    BY <1>1, <1>2, <1>3, DeriveIs

LEMMA RefreshIs ==
  ASSUME AggregationTypes, NEW x, Good(x, facts, now),
         NEW y, y = [x EXCEPT !.lifecycle = LifecycleAt(x)]
  PROVE  /\ Good(y, facts, now) /\ Renewed(x, y, facts, now)
         /\ y.evidence = x.evidence
PROOF
  <1>1. x \in Incidents
    BY DEF Good, Rows
  <1>2. LifecycleAt(x) \in {"candidate", "reported", "stale", "archived", "retracted"}
    BY LifeNow, LifeIs
  <1>3. /\ y \in Incidents /\ y.kind = x.kind /\ y.mode = x.mode /\ y.evidence = x.evidence
        /\ y.last = x.last /\ y.lifecycle = LifecycleAt(x)
    BY <1>1, <1>2 DEF Incidents
  <1>4. Told(y, facts) = Told(x, facts)
    BY <1>3 DEF Told
  <1>5. y.lifecycle = Life(y, facts, now)
    BY <1>3, <1>4, LifeNow DEF Life
  <1>6. now \in 0..now
    BY DEF AggregationTypes
  <1>7. Rows(y, facts, now)
    BY <1>3 DEF Good, Rows
  <1> QED
    BY <1>3, <1>4, <1>5, <1>6, <1>7 DEF Good, Renewed

-----------------------------------------------------------------------------
(* The steps *)

LEMMA AggregationStarts == AggregationInit => AggregationInv
PROOF
  <1> SUFFICES ASSUME AggregationInit PROVE AggregationInv
    OBVIOUS
  <1>1. AggregationTypes
    BY DEF AggregationInit, AggregationTypes, Decision
  <1>2. \A i \in Incident : incident[i] = None
    BY DEF AggregationInit
  <1>3. \A c \in Claim : stage[c] = "none"
    BY DEF AggregationInit
  <1> QED
    BY <1>1, <1>2, <1>3 DEF AggregationInv, Housed, Home, Trace

\* What a step that does not let time pass does to an incident: it stays, with a row of
\* every claim it had one of.
Carried ==
  \A i \in Incident : incident[i] # None =>
    /\ incident'[i] # None
    /\ Renewed(incident[i], incident'[i], facts, now)
    /\ \A d \in Claim : KeptIn(incident[i], d) => KeptIn(incident'[i], d)

Step ==
  /\ facts' = facts /\ now' = now /\ AggregationTypes'
  /\ \A c \in Claim : stage'[c] # "none" => facts[c].at <= now
  /\ Carried
  /\ \A i \in Incident : incident'[i] # None => Good(incident'[i], facts, now)
  /\ \A c \in Claim : Housed(stage', incident', facts, c)

LEMMA StepKeeps ==
  ASSUME Step
  PROVE  AggregationInv'
  BY DEF Step, AggregationInv

\* Nothing happens to the incidents.
LEMMA ReceiveStep ==
  ASSUME AggregationInv, NEW c \in Claim, Receive(c)
  PROVE  Step
PROOF
  <1>1. /\ facts' = facts /\ now' = now /\ incident' = incident
        /\ facts[c].at <= now /\ stage[c] = "none" /\ stage' = [stage EXCEPT ![c] = "pending"]
        /\ UNCHANGED <<version, decision, changes>>
    BY DEF Receive
  <1>2. AggregationTypes'
    BY <1>1 DEF AggregationInv, AggregationTypes
  <1>3. Carried
    BY <1>1 DEF Carried, Renewed
  <1>4. \A d \in Claim : Housed(stage', incident', facts, d)
    <2> TAKE d \in Claim
    <2>1. Housed(stage, incident, facts, d) /\ stage \in [Claim -> {"none", "pending", "linked", "withdrawn"}]
      BY DEF AggregationInv, AggregationTypes
    <2>2. d # c => stage'[d] = stage[d]
      BY <1>1, <2>1
    <2>3. stage'[c] = "pending"
      BY <1>1, <2>1
    <2> QED
      BY <1>1, <2>1, <2>2, <2>3 DEF Housed
  <1>5. \A d \in Claim : stage'[d] # "none" => facts[d].at <= now
    BY <1>1 DEF AggregationInv, AggregationTypes
  <1> QED
    BY <1>1, <1>2, <1>3, <1>4, <1>5 DEF Step, AggregationInv

LEMMA ReviewStep ==
  ASSUME AggregationInv, NEW c \in Claim, Review(c)
  PROVE  Step
PROOF
  <1>1. /\ facts' = facts /\ now' = now /\ incident' = incident
        /\ stage[c] \in {"pending", "linked"} /\ stage' = [stage EXCEPT ![c] = "pending"]
        /\ version' = [version EXCEPT ![c] = 2]
        /\ decision' = [decision EXCEPT ![c] = IF @ = "publish" THEN "review" ELSE "publish"]
        /\ changes' = changes + 1
    BY DEF Review, Change
  <1>2. AggregationTypes'
    BY <1>1 DEF AggregationInv, AggregationTypes, Decision
  <1>3. Carried
    BY <1>1 DEF Carried, Renewed
  <1>4. \A d \in Claim : Housed(stage', incident', facts, d)
    <2> TAKE d \in Claim
    <2>1. Housed(stage, incident, facts, d) /\ stage \in [Claim -> {"none", "pending", "linked", "withdrawn"}]
      BY DEF AggregationInv, AggregationTypes
    <2>2. d # c => stage'[d] = stage[d]
      BY <1>1, <2>1
    <2>3. stage'[c] = "pending"
      BY <1>1, <2>1
    <2> QED
      BY <1>1, <2>1, <2>2, <2>3 DEF Housed
  <1>5. \A d \in Claim : stage'[d] # "none" => facts[d].at <= now
    BY <1>1 DEF AggregationInv, AggregationTypes
  <1> QED
    BY <1>1, <1>2, <1>3, <1>4, <1>5 DEF Step, AggregationInv

LEMMA OriginsAre ==
  ASSUME AggregationInv, NEW c \in Claim
  PROVE  Origins(facts[c]) \subseteq STRING \X Nat
PROOF
  <1> DEFINE f == facts[c]
             found == {e \in UNION {incident[i].evidence : i \in Open(f)} : e.active /\ SameOrigin(f, F(e))}
  <1>1. f.source \in STRING /\ f.message \in Nat
    BY FactsAre DEF AggregationInv, Fact
  <1>2. \A i \in Open(f) : incident[i].evidence \subseteq Evidence
    BY DEF Open, Used, AggregationInv, Good, Rows, Incidents
  <1>3. \A e \in found : e.origin \in STRING \X Nat
    BY <1>2 DEF Evidence
  <1> HIDE DEF f, found
  <1>4. \/ Origins(f) = {<<f.source, f.message>>}
        \/ Origins(f) = {e.origin : e \in {x \in found : \A y \in found : F(x).at <= F(y).at}}
    BY DEF Origins, found
  <1> QED
    BY <1>1, <1>3, <1>4 DEF f

\* A home of a report is open, and passed whenever the claim is delivered again.
LEMMA HomesAreOpen ==
  ASSUME AggregationInv, NEW c \in Claim, facts[c].kind # "clear_claim",
         NEW i \in Incident, Home(incident, i, c)
  PROVE  i \in Holding(c)
PROOF
  <1> DEFINE x == incident[i]
  <1>1. Good(x, facts, now) /\ x # None
    BY DEF Home, AggregationInv
  <1>2. PICK e \in x.evidence : e.active /\ e.claim = c
    BY DEF Home, ActiveIn
  <1>3. e \in Told(x, facts)
    BY <1>2 DEF Told
  <1>4. x.lifecycle # "retracted"
    BY <1>1, <1>3, LifeIs DEF Good
  <1>5. x.mode = facts[c].mode
    BY <1>1, <1>2 DEF Good, Rows
  <1>6. F(e).at - facts[c].at \in -HistoricalWindow..HistoricalWindow
    BY <1>2, FactsAre, AggregationAssumption DEF F, AggregationInv, Fact
  <1> QED
    BY <1>1, <1>2, <1>4, <1>5, <1>6 DEF Holding, Open, Used, ActiveClaims

\* The claim is applied to the incidents of S; a report has no home beside them.
LEMMA ApplyStep ==
  ASSUME AggregationInv, NEW c \in Claim, stage[c] \in {"pending", "linked"},
         NEW g \in STRING \X Nat, NEW by \in {"auto", "asked"},
         NEW S \in SUBSET Incident, S # {},
         \A i \in S : incident[i] # None /\ incident[i].mode = facts[c].mode,
         facts[c].kind # "clear_claim" =>
           \A i \in S, j \in Incident : j \in S \/ Home(incident, j, c) => i = j,
         incident' = [i \in Incident |-> IF i \in S THEN Apply(incident[i], c, g, by) ELSE incident[i]],
         stage' = [stage EXCEPT ![c] = "linked"],
         UNCHANGED <<facts, now, version, decision, changes>>
  PROVE  Step
PROOF
  <1>1. /\ AggregationTypes /\ facts[c].at <= now
        /\ \A i \in Incident : incident[i] # None => Good(incident[i], facts, now)
        /\ \A d \in Claim : Housed(stage, incident, facts, d)
    BY DEF AggregationInv
  <1>2. \A i \in S :
          /\ Good(incident'[i], facts, now) /\ Renewed(incident[i], incident'[i], facts, now)
          /\ \A d \in Claim : KeptIn(incident[i], d) => KeptIn(incident'[i], d)
          /\ \A d \in Claim \ {c} : /\ KeptIn(incident'[i], d) => KeptIn(incident[i], d)
                                    /\ ActiveIn(incident'[i], d) <=> ActiveIn(incident[i], d)
          /\ ActiveIn(incident[i], c) \/ ~KeptIn(incident[i], c) => ActiveIn(incident'[i], c)
    <2> TAKE i \in S
    <2>1. incident'[i] = Apply(incident[i], c, g, by) /\ Good(incident[i], facts, now)
      BY <1>1
    <2> QED
      BY <1>1, <2>1, ApplyIs
  <1>3. \A i \in Incident \ S : incident'[i] = incident[i]
    OBVIOUS
  <1>4. \A i \in S : incident'[i] \in Incidents /\ incident'[i] # None
    BY <1>2, NoneAssumption DEF Good, Rows
  <1>5. AggregationTypes'
    <2>1. incident' \in [Incident -> Incidents \cup {None}]
      <3>1. \A i \in Incident : incident'[i] \in Incidents \cup {None}
        BY <1>1, <1>3, <1>4 DEF AggregationTypes
      <3>2. incident' = [i \in Incident |-> incident'[i]]
        OBVIOUS
      <3> QED
        BY <3>1, <3>2
    <2>2. stage' \in [Claim -> {"none", "pending", "linked", "withdrawn"}]
      BY <1>1 DEF AggregationTypes
    <2> QED
      BY <1>1, <2>1, <2>2 DEF AggregationTypes
  <1>6. Carried
    BY <1>2, <1>3, <1>4 DEF Carried, Renewed
  <1>7. \A i \in Incident : incident'[i] # None => Good(incident'[i], facts, now)
    BY <1>1, <1>2, <1>3
  <1>8. stage'[c] = "linked" /\ \A d \in Claim \ {c} : stage'[d] = stage[d]
    BY <1>1 DEF AggregationTypes
  <1>9. \A d \in Claim \ {c}, i \in Incident :
          /\ Home(incident', i, d) <=> Home(incident, i, d)
          /\ Trace(incident', i, d) <=> Trace(incident, i, d)
    BY <1>2, <1>3, <1>4 DEF Home, Trace
  <1>10. /\ \A i \in Incident : Home(incident, i, c) => Home(incident', i, c)
         /\ \A i \in Incident \ S : Home(incident', i, c) <=> Home(incident, i, c)
         /\ \A i \in S : Trace(incident, i, c) \/ Home(incident', i, c)
    BY <1>2, <1>3, <1>4 DEF Home, Trace
  <1>11. \E i \in Incident : Home(incident', i, c)
    <2>1. CASE \E i \in S : Trace(incident, i, c)
      BY <1>1, <1>10, <2>1 DEF Housed
    <2>2. CASE ~\E i \in S : Trace(incident, i, c)
      BY <1>10, <2>2
    <2> QED
      BY <2>1, <2>2
  <1>12. facts[c].kind # "clear_claim" =>
           \A i, j \in Incident : Home(incident', i, c) /\ Home(incident', j, c) => i = j
    <2>1. \A i \in Incident : Home(incident', i, c) => i \in S \/ Home(incident, i, c)
      BY <1>10
    <2> QED
      BY <2>1
  <1>13. \A d \in Claim : Housed(stage', incident', facts, d)
    <2> TAKE d \in Claim
    <2>1. CASE d = c
      BY <1>8, <1>11, <1>12, <2>1 DEF Housed
    <2>2. CASE d # c
      <3>1. Housed(stage, incident, facts, d)
        BY <1>1
      <3> QED
        BY <1>8, <1>9, <2>2, <3>1 DEF Housed
    <2> QED
      BY <2>1, <2>2
  <1>14. \A d \in Claim : stage'[d] # "none" => facts[d].at <= now
    BY <1>1, <1>8 DEF AggregationInv
  <1> QED
    BY <1>5, <1>6, <1>7, <1>13, <1>14 DEF Step

LEMMA NewIdIs ==
  ASSUME Used # Incident
  PROVE  NewId \in Incident /\ incident[NewId] = None
PROOF
  <1>1. Incident \ Used \in SUBSET Nat /\ Incident \ Used # {}
    BY AggregationAssumption DEF Incident, Used
  <1>2. \E i \in Incident \ Used : \A j \in Incident \ Used : i <= j
    BY <1>1, Least
  <1> QED
    BY <1>2 DEF NewId, Used

\* A claim that no incident suits gets one of its own.
LEMMA CreateStep ==
  ASSUME AggregationInv, NEW c \in Claim, stage[c] \in {"pending", "linked"}, NEW g \in STRING \X Nat,
         facts[c].kind # "clear_claim" => \A j \in Incident : ~Home(incident, j, c),
         Used # Incident,
         incident' = [incident EXCEPT ![NewId] = Create(facts[c].kind, facts[c].mode, {Row(c, g, "new")})],
         stage' = [stage EXCEPT ![c] = "linked"],
         UNCHANGED <<facts, now, version, decision, changes>>
  PROVE  Step
PROOF
  <1> DEFINE n == NewId
  <1>1. /\ AggregationTypes /\ facts[c].at <= now
        /\ \A i \in Incident : incident[i] # None => Good(incident[i], facts, now)
        /\ \A d \in Claim : Housed(stage, incident, facts, d)
    BY DEF AggregationInv
  <1>2. n \in Incident /\ incident[n] = None
    BY NewIdIs
  <1> HIDE DEF n
  <1>3. incident' = [incident EXCEPT ![n] = Create(facts[c].kind, facts[c].mode, {Row(c, g, "new")})]
    BY DEF n
  <1>4. \A i \in Incident \ {n} : incident'[i] = incident[i]
    BY <1>1, <1>3 DEF AggregationTypes
  <1>5. Row(c, g, "new") \in Evidence /\ Row(c, g, "new").claim = c /\ Row(c, g, "new").active
    BY <1>1, RowIs
  <1>6. Good(incident'[n], facts, now) /\ incident'[n].evidence = {Row(c, g, "new")}
    <2>1. incident'[n] = Create(facts[c].kind, facts[c].mode, {Row(c, g, "new")})
      BY <1>1, <1>2, <1>3 DEF AggregationTypes
    <2>2. facts[c].kind \in Kind /\ facts[c].mode \in {"live", "archive"}
      BY <1>1, FactsAre DEF Fact
    <2> QED
      BY <1>1, <1>5, <2>1, <2>2, CreateIs
  <1>7. incident'[n] \in Incidents /\ incident'[n] # None
    BY <1>6, NoneAssumption DEF Good, Rows
  <1>8. AggregationTypes'
    <2>1. incident' \in [Incident -> Incidents \cup {None}]
      <3>1. \A i \in Incident : incident'[i] \in Incidents \cup {None}
        BY <1>1, <1>4, <1>7 DEF AggregationTypes
      <3>2. incident' = [i \in Incident |-> incident'[i]]
        BY <1>1, <1>3 DEF AggregationTypes
      <3> QED
        BY <3>1, <3>2
    <2>2. stage' \in [Claim -> {"none", "pending", "linked", "withdrawn"}]
      BY <1>1 DEF AggregationTypes
    <2> QED
      BY <1>1, <2>1, <2>2 DEF AggregationTypes
  <1>9. Carried
    BY <1>2, <1>4 DEF Carried, Renewed
  <1>10. \A i \in Incident : incident'[i] # None => Good(incident'[i], facts, now)
    BY <1>1, <1>4, <1>6
  <1>11. stage'[c] = "linked" /\ \A d \in Claim \ {c} : stage'[d] = stage[d]
    BY <1>1 DEF AggregationTypes
  <1>12. \A d \in Claim : /\ Home(incident', n, d) <=> d = c
                          /\ Trace(incident', n, d) <=> d = c
                          /\ ~Home(incident, n, d) /\ ~Trace(incident, n, d)
    BY <1>2, <1>5, <1>6, <1>7 DEF Home, Trace, ActiveIn, KeptIn
  <1>13. \A d \in Claim, i \in Incident \ {n} :
           /\ Home(incident', i, d) <=> Home(incident, i, d)
           /\ Trace(incident', i, d) <=> Trace(incident, i, d)
    BY <1>4 DEF Home, Trace
  <1>14. \A d \in Claim : Housed(stage', incident', facts, d)
    <2> TAKE d \in Claim
    <2>1. CASE d = c
      <3>1. \E i \in Incident : Home(incident', i, c)
        BY <1>2, <1>12
      <3>2. facts[c].kind # "clear_claim" => \A i \in Incident : Home(incident', i, c) => i = n
        BY <1>13
      <3> QED
        BY <1>11, <2>1, <3>1, <3>2 DEF Housed
    <2>2. CASE d # c
      <3>1. Housed(stage, incident, facts, d) /\ stage'[d] = stage[d]
        BY <1>1, <1>11, <2>2
      <3>2. \A i \in Incident : /\ Home(incident', i, d) <=> Home(incident, i, d)
                                /\ Trace(incident', i, d) <=> Trace(incident, i, d)
        BY <1>12, <1>13, <2>2
      <3> QED
        BY <3>1, <3>2 DEF Housed
    <2> QED
      BY <2>1, <2>2
  <1>15. \A d \in Claim : stage'[d] # "none" => facts[d].at <= now
    BY <1>1, <1>11 DEF AggregationInv
  <1> QED
    BY <1>8, <1>9, <1>10, <1>14, <1>15 DEF Step

LEMMA DeliverStep ==
  ASSUME AggregationInv, NEW c \in Claim, Deliver(c)
  PROVE  Step
PROOF
  <1> DEFINE f == facts[c]
             report == f.kind # "clear_claim"
             Link(g) == IF Holding(c) # {} THEN Holding(c) ELSE Links(f, g)
  <1>1. PICK g \in Origins(f) :
          \/ /\ Link(g) # {}
             /\ incident' = [i \in Incident |-> IF i \in Link(g) THEN Apply(incident[i], c, g, "auto")
                                                ELSE incident[i]]
          \/ /\ Link(g) = {}
             /\ \E i \in Candidates(f) : incident' = [incident EXCEPT ![i] = Apply(@, c, g, "asked")]
          \/ /\ Link(g) = {} /\ Used # Incident
             /\ incident' = [incident EXCEPT ![NewId] = Create(f.kind, f.mode, {Row(c, g, "new")})]
    BY DEF Deliver
  <1>2. g \in STRING \X Nat
    BY OriginsAre
  <1>3. /\ stage[c] \in {"pending", "linked"} /\ stage' = [stage EXCEPT ![c] = "linked"]
        /\ UNCHANGED <<facts, now, version, decision, changes>>
    BY DEF Deliver
  <1>4. /\ incident \in [Incident -> Incidents \cup {None}]
        /\ \A d \in Claim : Housed(stage, incident, facts, d)
    BY DEF AggregationInv, AggregationTypes
  <1>5. \A i \in Open(f) : i \in Incident /\ incident[i] # None /\ incident[i].mode = f.mode
    BY DEF Open, Used
  <1>6. Candidates(f) \subseteq Open(f) /\ Links(f, g) \subseteq Candidates(f) /\ Holding(c) \subseteq Open(f)
    BY DEF Candidates, Links, Holding
  <1>7. \A i \in Holding(c) : Home(incident, i, c)
    BY <1>5, <1>6 DEF Holding, Home, ActiveIn, ActiveClaims
  <1>8. report => \A j \in Incident : Home(incident, j, c) => j \in Holding(c)
    BY HomesAreOpen
  <1>9. report => \A i, j \in Holding(c) : i = j
    BY <1>4, <1>5, <1>6, <1>7 DEF Housed
  <1>10. report => \A i, j \in Links(f, g) : i = j
    BY DEF Links
  <1> HIDE DEF Link
  <1>11. CASE Link(g) # {} /\ incident' = [i \in Incident |-> IF i \in Link(g) THEN Apply(incident[i], c, g, "auto")
                                                              ELSE incident[i]]
    <2>1. Link(g) \in SUBSET Incident /\ \A i \in Link(g) : incident[i] # None /\ incident[i].mode = f.mode
      BY <1>5, <1>6 DEF Link
    <2>2. report => \A i \in Link(g), j \in Incident : j \in Link(g) \/ Home(incident, j, c) => i = j
      <3>1. CASE Holding(c) # {}
        BY <1>8, <1>9, <3>1 DEF Link
      <3>2. CASE Holding(c) = {}
        BY <1>8, <1>10, <3>2 DEF Link
      <3> QED
        BY <3>1, <3>2
    <2> QED
      BY <1>2, <1>3, <1>11, <2>1, <2>2, ApplyStep
  <1>12. Link(g) = {} => Holding(c) = {}
    BY DEF Link
  <1>13. CASE Link(g) = {} /\ \E i \in Candidates(f) : incident' = [incident EXCEPT ![i] = Apply(@, c, g, "asked")]
    <2>1. PICK i \in Candidates(f) : incident' = [incident EXCEPT ![i] = Apply(@, c, g, "asked")]
      BY <1>13
    <2>2. i \in Incident /\ incident[i] # None /\ incident[i].mode = f.mode
      BY <1>5, <1>6
    <2>3. incident' = [j \in Incident |-> IF j \in {i} THEN Apply(incident[j], c, g, "asked") ELSE incident[j]]
      BY <1>4, <2>1
    <2>4. report => \A k \in {i}, j \in Incident : j \in {i} \/ Home(incident, j, c) => k = j
      BY <1>8, <1>12, <1>13
    <2>5. {i} \in SUBSET Incident /\ {i} # {} /\ \A k \in {i} : incident[k] # None /\ incident[k].mode = f.mode
      BY <2>2
    <2> QED
      BY <1>2, <1>3, <2>3, <2>4, <2>5, ApplyStep
  <1>14. CASE /\ Link(g) = {} /\ Used # Incident
              /\ incident' = [incident EXCEPT ![NewId] = Create(f.kind, f.mode, {Row(c, g, "new")})]
    <2>1. report => \A j \in Incident : ~Home(incident, j, c)
      BY <1>8, <1>12, <1>14
    <2> QED
      BY <1>2, <1>3, <1>14, <2>1, CreateStep
  <1> QED
    BY <1>1, <1>11, <1>13, <1>14

LEMMA WithdrawStep ==
  ASSUME AggregationInv, NEW c \in Claim, Withdraw(c)
  PROVE  Step
PROOF
  <1>1. /\ facts' = facts /\ now' = now /\ stage[c] \in {"pending", "linked"}
        /\ stage' = [stage EXCEPT ![c] = "withdrawn"]
        /\ incident' = [i \in Incident |-> IF i \in Used THEN WithdrawFrom(incident[i], {c}) ELSE None]
        /\ version' = version /\ decision' = decision /\ changes' = changes + 1
    BY DEF Withdraw, Change
  <1>2. /\ AggregationTypes
        /\ \A i \in Incident : incident[i] # None => Good(incident[i], facts, now)
        /\ \A d \in Claim : Housed(stage, incident, facts, d)
    BY DEF AggregationInv
  <1>3. \A i \in Used :
          /\ Good(incident'[i], facts, now) /\ Renewed(incident[i], incident'[i], facts, now)
          /\ \A d \in Claim : KeptIn(incident'[i], d) <=> KeptIn(incident[i], d)
          /\ \A d \in Claim : ActiveIn(incident'[i], d) <=> ActiveIn(incident[i], d) /\ d # c
    <2> TAKE i \in Used
    <2>1. i \in Incident /\ incident'[i] = WithdrawFrom(incident[i], {c}) /\ Good(incident[i], facts, now)
      BY <1>1, <1>2 DEF Used
    <2>2. /\ Good(incident'[i], facts, now) /\ Renewed(incident[i], incident'[i], facts, now)
          /\ \A d \in Claim : KeptIn(incident'[i], d) <=> KeptIn(incident[i], d)
          /\ \A d \in Claim : ActiveIn(incident'[i], d) <=> ActiveIn(incident[i], d) /\ d \notin {c}
      BY <1>2, <2>1, WithdrawIs
    <2> QED
      BY <2>2
  <1>4. \A i \in Incident : incident[i] = None => incident'[i] = None
    BY <1>1 DEF Used
  <1>5. \A i \in Used : incident'[i] \in Incidents /\ incident'[i] # None /\ incident[i] # None
    BY <1>3, NoneAssumption DEF Good, Rows, Used
  <1>6. AggregationTypes'
    <2>1. incident' \in [Incident -> Incidents \cup {None}]
      <3>1. \A i \in Incident : incident'[i] \in Incidents \cup {None}
        BY <1>4, <1>5 DEF Used
      <3>2. incident' = [i \in Incident |-> incident'[i]]
        BY <1>1
      <3> QED
        BY <3>1, <3>2
    <2>2. stage' \in [Claim -> {"none", "pending", "linked", "withdrawn"}]
      BY <1>1, <1>2 DEF AggregationTypes
    <2> QED
      BY <1>1, <1>2, <2>1, <2>2 DEF AggregationTypes
  <1>7. Carried
    BY <1>3, <1>5 DEF Carried, Used
  <1>8. \A i \in Incident : incident'[i] # None => Good(incident'[i], facts, now)
    BY <1>3, <1>4 DEF Used
  <1>9. \A i \in Incident, d \in Claim :
          /\ Home(incident', i, d) <=> Home(incident, i, d) /\ d # c
          /\ Trace(incident', i, d) <=> Trace(incident, i, d)
    BY <1>3, <1>4, <1>5 DEF Home, Trace, Used
  <1>10. stage'[c] = "withdrawn" /\ \A d \in Claim \ {c} : stage'[d] = stage[d]
    BY <1>1, <1>2 DEF AggregationTypes
  <1>11. \A d \in Claim : Housed(stage', incident', facts, d)
    <2> TAKE d \in Claim
    <2>1. Housed(stage, incident, facts, d)
      BY <1>2
    <2> QED
      BY <1>9, <1>10, <2>1 DEF Housed
  <1>12. \A d \in Claim : stage'[d] # "none" => facts[d].at <= now
    BY <1>1, <1>10 DEF AggregationInv
  <1> QED
    BY <1>1, <1>6, <1>7, <1>8, <1>11, <1>12 DEF Step

LEMMA MergeStep ==
  ASSUME AggregationInv, NEW t \in Incident, NEW s \in Incident, Merge(t, s)
  PROVE  Step
PROOF
  <1> DEFINE x == incident[t]
             y == incident[s]
             X == Derive([x EXCEPT !.evidence =
                            {e \in @ : e.claim \notin ActiveClaims(y)} \cup
                            {[e EXCEPT !.by = "operator"] : e \in {f \in y.evidence : f.active}}])
             Y == WithdrawFrom(y, ActiveClaims(y))
  <1>1. /\ facts' = facts /\ now' = now /\ UNCHANGED <<stage, version, decision>> /\ changes' = changes + 1
        /\ s # t /\ x # None /\ y # None /\ x.mode = y.mode
        /\ incident' = [incident EXCEPT ![t] = X, ![s] = Y]
    BY DEF Merge, Change, Used
  <1>2. /\ AggregationTypes
        /\ \A i \in Incident : incident[i] # None => Good(incident[i], facts, now)
        /\ \A d \in Claim : Housed(stage, incident, facts, d)
    BY DEF AggregationInv
  <1>3. /\ Good(X, facts, now) /\ Renewed(x, X, facts, now)
        /\ \A d \in Claim : KeptIn(X, d) <=> KeptIn(x, d) \/ ActiveIn(y, d)
        /\ \A d \in Claim : ActiveIn(X, d) <=> ActiveIn(x, d) \/ ActiveIn(y, d)
    BY <1>1, <1>2, MergeIs
  <1>4. /\ Good(Y, facts, now) /\ Renewed(y, Y, facts, now)
        /\ \A d \in Claim : KeptIn(Y, d) <=> KeptIn(y, d)
        /\ \A d \in Claim : ~ActiveIn(Y, d)
    <2>1. /\ Good(Y, facts, now) /\ Renewed(y, Y, facts, now)
          /\ \A d \in Claim : KeptIn(Y, d) <=> KeptIn(y, d)
          /\ \A d \in Claim : ActiveIn(Y, d) <=> ActiveIn(y, d) /\ d \notin ActiveClaims(y)
      BY <1>1, <1>2, WithdrawIs
    <2>2. \A d : ActiveIn(y, d) => d \in ActiveClaims(y)
      BY DEF ActiveIn, ActiveClaims
    <2> QED
      BY <2>1, <2>2
  <1> HIDE DEF X, Y
  <1>5. /\ incident'[t] = X /\ incident'[s] = Y
        /\ \A i \in Incident \ {s, t} : incident'[i] = incident[i]
    BY <1>1, <1>2 DEF AggregationTypes
  <1>6. X \in Incidents /\ X # None /\ Y \in Incidents /\ Y # None
    BY <1>3, <1>4, NoneAssumption DEF Good, Rows
  <1>7. AggregationTypes'
    <2>1. incident' \in [Incident -> Incidents \cup {None}]
      BY <1>1, <1>2, <1>6 DEF AggregationTypes
    <2> QED
      BY <1>1, <1>2, <2>1 DEF AggregationTypes
  <1>8. Carried
    BY <1>1, <1>3, <1>4, <1>5, <1>6 DEF Carried, Renewed
  <1>9. \A i \in Incident : incident'[i] # None => Good(incident'[i], facts, now)
    BY <1>2, <1>3, <1>4, <1>5
  <1>10. \A d \in Claim :
           /\ Home(incident', t, d) <=> Home(incident, t, d) \/ Home(incident, s, d)
           /\ ~Home(incident', s, d)
           /\ Trace(incident', t, d) <=> Trace(incident, t, d) \/ Home(incident, s, d)
           /\ Trace(incident', s, d) <=> Trace(incident, s, d)
    BY <1>1, <1>3, <1>4, <1>5, <1>6 DEF Home, Trace
  <1>11. \A d \in Claim, i \in Incident \ {s, t} :
           /\ Home(incident', i, d) <=> Home(incident, i, d)
           /\ Trace(incident', i, d) <=> Trace(incident, i, d)
    BY <1>5 DEF Home, Trace
  <1>12. \A d \in Claim : Housed(stage', incident', facts, d)
    <2> TAKE d \in Claim
    <2>1. Housed(stage, incident, facts, d)
      BY <1>2
    <2>2. facts[d].kind # "clear_claim" =>
            \A i, j \in Incident : Home(incident', i, d) /\ Home(incident', j, d) => i = j
      BY <1>1, <1>10, <1>11, <2>1 DEF Housed
    <2>3. (\E i \in Incident : Home(incident', i, d)) <=> \E i \in Incident : Home(incident, i, d)
      BY <1>10, <1>11
    <2>4. (\E i \in Incident : Trace(incident', i, d)) =>
            \/ \E i \in Incident : Trace(incident, i, d)
            \/ \E i \in Incident : Home(incident, i, d)
      BY <1>10, <1>11
    <2> QED
      BY <1>1, <2>1, <2>2, <2>3, <2>4 DEF Housed
  <1>13. \A d \in Claim : stage'[d] # "none" => facts[d].at <= now
    BY <1>1 DEF AggregationInv
  <1> QED
    BY <1>1, <1>7, <1>8, <1>9, <1>12, <1>13 DEF Step

LEMMA SplitStep ==
  ASSUME AggregationInv, NEW i \in Incident, incident[i] # None, NEW cs, Split(i, cs)
  PROVE  Step
PROOF
  <1> DEFINE x == incident[i]
             hit == {e \in x.evidence : e.active /\ e.claim \in cs}
             told == {e \in hit : F(e).kind # "clear_claim"}
             kind == IF told = {} THEN "clear_claim" ELSE F(First(told)).kind
             moved == {[e EXCEPT !.by = "operator"] : e \in hit}
             X == WithdrawFrom(x, cs)
             Y == Create(kind, x.mode, moved)
             n == NewId
  <1>1. /\ facts' = facts /\ now' = now /\ UNCHANGED <<stage, version, decision>> /\ changes' = changes + 1
        /\ Used # Incident /\ incident' = [incident EXCEPT ![i] = X, ![n] = Y]
    BY DEF Split, Change
  <1>2. /\ AggregationTypes
        /\ \A j \in Incident : incident[j] # None => Good(incident[j], facts, now)
        /\ \A d \in Claim : Housed(stage, incident, facts, d)
    BY DEF AggregationInv
  <1>3. n \in Incident /\ incident[n] = None /\ n # i
    BY <1>1, NewIdIs
  <1> HIDE DEF n
  <1>4. /\ Good(X, facts, now) /\ Renewed(x, X, facts, now)
        /\ \A d \in Claim : KeptIn(X, d) <=> KeptIn(x, d)
        /\ \A d \in Claim : ActiveIn(X, d) <=> ActiveIn(x, d) /\ d \notin cs
    BY <1>2, WithdrawIs
  <1>5. kind \in Kind
    <2>1. x.evidence \in SUBSET Evidence /\ \A e \in x.evidence : F(e).at <= now
      BY <1>2 DEF Good, Rows, Incidents, F
    <2>2. told \in SUBSET Evidence /\ \A e \in told : F(e).at <= now
      BY <2>1
    <2>3. told # {} => First(told) \in Evidence
      BY <1>2, <2>2, Extremes
    <2> HIDE DEF told
    <2>4. told # {} => F(First(told)).kind \in Kind
      BY <1>2, <2>3, FactsAre DEF F, Evidence, Fact
    <2> QED
      BY <2>4 DEF Kind
  <1>6. /\ moved \in SUBSET Evidence
        /\ \A e \in hit : \E f \in moved : f.claim = e.claim
        /\ \A f \in moved : f.active /\ \E e \in hit : f.claim = e.claim
        /\ \A e, f \in moved : e.claim = f.claim => e = f
        /\ \A e \in moved : facts[e.claim].mode = x.mode /\ facts[e.claim].at <= now
    <2>1. hit \in SUBSET x.evidence /\ (\A e \in hit : e.active) /\ Good(x, facts, now)
      BY <1>2
    <2> HIDE DEF hit, x
    <2> QED
      BY <1>2, <2>1, MovedAre
  <1> HIDE DEF kind, moved
  <1>7. Good(Y, facts, now) /\ Y.evidence = moved
    <2>1. x.mode \in {"live", "archive"}
      BY <1>2 DEF Good, Rows, Incidents
    <2> QED
      BY <1>2, <1>5, <1>6, <2>1, CreateIs
  <1>8. \A d \in Claim : /\ KeptIn(Y, d) <=> ActiveIn(x, d) /\ d \in cs
                         /\ ActiveIn(Y, d) <=> ActiveIn(x, d) /\ d \in cs
    <2> TAKE d \in Claim
    <2>1. (\E f \in moved : f.claim = d) <=> \E e \in hit : e.claim = d
      BY <1>6
    <2>2. (\E e \in hit : e.claim = d) <=> ActiveIn(x, d) /\ d \in cs
      BY DEF ActiveIn
    <2>3. KeptIn(Y, d) <=> \E f \in moved : f.claim = d
      BY <1>7 DEF KeptIn
    <2>4. ActiveIn(Y, d) <=> \E f \in moved : f.claim = d
      BY <1>6, <1>7 DEF ActiveIn
    <2> QED
      BY <2>1, <2>2, <2>3, <2>4
  <1> HIDE DEF X, Y
  <1>9. /\ incident'[i] = X /\ incident'[n] = Y
        /\ \A j \in Incident \ {i, n} : incident'[j] = incident[j]
    BY <1>1, <1>2, <1>3 DEF AggregationTypes
  <1>10. X \in Incidents /\ X # None /\ Y \in Incidents /\ Y # None
    BY <1>4, <1>7, NoneAssumption DEF Good, Rows
  <1>11. AggregationTypes'
    <2>1. incident' \in [Incident -> Incidents \cup {None}]
      BY <1>1, <1>2, <1>10 DEF AggregationTypes
    <2> QED
      BY <1>1, <1>2, <2>1 DEF AggregationTypes
  <1>12. Carried
    BY <1>3, <1>4, <1>9, <1>10 DEF Carried, Renewed
  <1>13. \A j \in Incident : incident'[j] # None => Good(incident'[j], facts, now)
    BY <1>2, <1>4, <1>7, <1>9
  <1>14. \A d \in Claim :
           /\ Home(incident', i, d) <=> Home(incident, i, d) /\ d \notin cs
           /\ Home(incident', n, d) <=> Home(incident, i, d) /\ d \in cs
           /\ Trace(incident', i, d) <=> Trace(incident, i, d)
           /\ Trace(incident', n, d) => Home(incident, i, d)
           /\ ~Home(incident, n, d)
    BY <1>3, <1>4, <1>8, <1>9, <1>10 DEF Home, Trace
  <1>15. \A d \in Claim, j \in Incident \ {i, n} :
           /\ Home(incident', j, d) <=> Home(incident, j, d)
           /\ Trace(incident', j, d) <=> Trace(incident, j, d)
    BY <1>9 DEF Home, Trace
  <1>16. \A d \in Claim : Housed(stage', incident', facts, d)
    <2> TAKE d \in Claim
    <2>1. Housed(stage, incident, facts, d)
      BY <1>2
    <2>2. facts[d].kind # "clear_claim" =>
            \A j, k \in Incident : Home(incident', j, d) /\ Home(incident', k, d) => j = k
      BY <1>3, <1>14, <1>15, <2>1 DEF Housed
    <2>3. (\E j \in Incident : Home(incident', j, d)) <=> \E j \in Incident : Home(incident, j, d)
      BY <1>3, <1>14, <1>15
    <2>4. (\E j \in Incident : Trace(incident', j, d)) =>
            \/ \E j \in Incident : Trace(incident, j, d)
            \/ \E j \in Incident : Home(incident, j, d)
      BY <1>14, <1>15
    <2> QED
      BY <1>1, <2>1, <2>2, <2>3, <2>4 DEF Housed
  <1>17. \A d \in Claim : stage'[d] # "none" => facts[d].at <= now
    BY <1>1 DEF AggregationInv
  <1> QED
    BY <1>1, <1>11, <1>12, <1>13, <1>16, <1>17 DEF Step

LEMMA RefreshStep ==
  ASSUME AggregationInv, NEW i \in Incident, incident[i] # None, Refresh(i)
  PROVE  Step
PROOF
  <1> DEFINE x == incident[i]
             X == [x EXCEPT !.lifecycle = LifecycleAt(x)]
  <1>1. /\ UNCHANGED <<facts, now, stage, version, decision, changes>>
        /\ incident' = [incident EXCEPT ![i] = X]
    BY DEF Refresh
  <1>2. /\ AggregationTypes
        /\ \A j \in Incident : incident[j] # None => Good(incident[j], facts, now)
        /\ \A d \in Claim : Housed(stage, incident, facts, d)
    BY DEF AggregationInv
  <1>3. Good(X, facts, now) /\ Renewed(x, X, facts, now) /\ X.evidence = x.evidence
    BY <1>2, RefreshIs
  <1> HIDE DEF X
  <1>4. incident'[i] = X /\ \A j \in Incident \ {i} : incident'[j] = incident[j]
    BY <1>1, <1>2 DEF AggregationTypes
  <1>5. X \in Incidents /\ X # None
    BY <1>3, NoneAssumption DEF Good, Rows
  <1>6. AggregationTypes'
    <2>1. incident' \in [Incident -> Incidents \cup {None}]
      BY <1>1, <1>2, <1>5 DEF AggregationTypes
    <2> QED
      BY <1>1, <1>2, <2>1 DEF AggregationTypes
  <1>7. Carried
    BY <1>3, <1>4, <1>5 DEF Carried, Renewed, KeptIn
  <1>8. \A j \in Incident : incident'[j] # None => Good(incident'[j], facts, now)
    BY <1>2, <1>3, <1>4
  <1>9. \A d \in Claim, j \in Incident :
          /\ Home(incident', j, d) <=> Home(incident, j, d)
          /\ Trace(incident', j, d) <=> Trace(incident, j, d)
    BY <1>3, <1>4, <1>5 DEF Home, Trace, KeptIn, ActiveIn
  <1>10. \A d \in Claim : Housed(stage', incident', facts, d)
    BY <1>1, <1>2, <1>9 DEF Housed
  <1>11. \A d \in Claim : stage'[d] # "none" => facts[d].at <= now
    BY <1>1 DEF AggregationInv
  <1> QED
    BY <1>1, <1>6, <1>7, <1>8, <1>10, <1>11 DEF Step

\* As time passes nothing that holds of an incident stops to hold.
LEMMA TickKeeps ==
  ASSUME AggregationInv, Tick
  PROVE  AggregationInv'
PROOF
  <1>1. /\ now' = now + 1 /\ now \in Nat
        /\ UNCHANGED <<facts, stage, version, decision, incident, changes>>
    BY DEF Tick, AggregationInv, AggregationTypes
  <1>2. AggregationTypes'
    BY <1>1 DEF AggregationInv, AggregationTypes
  <1>3. \A c \in Claim : stage[c] # "none" => facts[c].at <= now'
    BY <1>1, FactsAre DEF AggregationInv, Fact
  <1>4. \A i \in Incident : incident[i] # None => Good(incident[i], facts, now')
    <2> SUFFICES ASSUME NEW i \in Incident, incident[i] # None
                 PROVE  Good(incident[i], facts, now')
      OBVIOUS
    <2>1. Good(incident[i], facts, now) /\ incident[i].evidence \in SUBSET Evidence
      BY DEF AggregationInv, Good, Rows, Incidents
    <2>2. \A e \in incident[i].evidence : facts[e.claim].at \in Nat
      BY <2>1, FactsAre DEF AggregationInv, Evidence, Fact
    <2>3. Rows(incident[i], facts, now')
      BY <1>1, <2>1, <2>2 DEF Good, Rows
    <2>4. \A s \in 0..now : s \in 0..now'
      BY <1>1
    <2> QED
      BY <2>1, <2>3, <2>4 DEF Good
  <1>5. \A c \in Claim : Housed(stage, incident, facts, c)
    BY DEF AggregationInv
  <1> QED
    BY <1>1, <1>2, <1>3, <1>4, <1>5 DEF AggregationInv

\* Every step is one that keeps the incidents, or the clock's.
LEMMA NextStep ==
  ASSUME AggregationInv, AggregationNext
  PROVE  Step \/ Tick
PROOF
  <1>1. ASSUME NEW c \in Claim, Receive(c) \/ Deliver(c) \/ Review(c) \/ Withdraw(c)
        PROVE  Step
    BY <1>1, ReceiveStep, DeliverStep, ReviewStep, WithdrawStep
  <1>2. ASSUME NEW i \in Used, Refresh(i) PROVE Step
    BY <1>2, RefreshStep DEF Used
  <1>3. ASSUME NEW i \in Used, NEW j \in Used, Merge(i, j) PROVE Step
    BY <1>3, MergeStep DEF Used
  <1>4. ASSUME NEW i \in Used, NEW cs \in SUBSET ActiveClaims(incident[i]), Split(i, cs) PROVE Step
    BY <1>4, SplitStep DEF Used
  <1> QED
    BY <1>1, <1>2, <1>3, <1>4 DEF AggregationNext

\* The inductive invariant: every incident says what its rows say, as of some moment, one
\* row per claim and all of its mode; a claim that has a row and was not withdrawn has a
\* home, and a report has no other.
THEOREM AggregationInvariant == AggregationSpec => []AggregationInv
PROOF
  <1>1. AggregationInit => AggregationInv
    BY AggregationStarts
  <1>2. AggregationInv /\ [AggregationNext]_aggregation => AggregationInv'
    <2> SUFFICES ASSUME AggregationInv, [AggregationNext]_aggregation PROVE AggregationInv'
      OBVIOUS
    <2>1. CASE AggregationNext
      BY <2>1, NextStep, StepKeeps, TickKeeps
    <2>2. CASE UNCHANGED aggregation
      BY <2>2 DEF aggregation, AggregationInv, AggregationTypes
    <2> QED
      BY <2>1, <2>2
  <1> QED
    BY <1>1, <1>2, PTL DEF AggregationSpec

\* OneHome: through redeliveries, reviews, merges and splits a report is active in exactly
\* one incident once it is linked, a clear claim in at least one, and nothing is left of
\* what was withdrawn (applyClaim, mergeIncidents, splitIncident, withdrawClaims).
THEOREM EvidenceHasOneHome == AggregationSpec => []OneHome
PROOF
  <1>1. AggregationInv => OneHome
    <2> SUFFICES ASSUME AggregationInv, NEW c \in Claim
                 PROVE  /\ \A i \in Used : \A e, f \in incident[i].evidence : e.claim = c /\ f.claim = c => e = f
                        /\ facts[c].kind # "clear_claim" => Cardinality(Homes(c)) <= 1
                        /\ stage[c] = "linked" => Homes(c) # {}
                        /\ stage[c] \in {"none", "withdrawn"} => Homes(c) = {}
      BY DEF OneHome
    <2>1. Housed(stage, incident, facts, c)
      BY DEF AggregationInv
    <2>2. \A i : i \in Homes(c) <=> i \in Incident /\ Home(incident, i, c)
      BY DEF Homes, Home, ActiveIn, ActiveClaims, Used
    <2>3. facts[c].kind # "clear_claim" => Cardinality(Homes(c)) <= 1
      <3>1. CASE Homes(c) = {}
        BY <3>1, FS_EmptySet
      <3>2. CASE facts[c].kind # "clear_claim" /\ Homes(c) # {}
        <4>1. PICK i : i \in Homes(c)
          BY <3>2
        <4>2. Homes(c) = {i}
          BY <2>1, <2>2, <3>2, <4>1 DEF Housed
        <4>3. Cardinality(Homes(c)) = 1
          BY <4>2, FS_Singleton
        <4> QED
          BY <4>3
      <3> QED
        BY <3>1, <3>2
    <2>4. \A i \in Used : \A e, f \in incident[i].evidence : e.claim = c /\ f.claim = c => e = f
      BY DEF AggregationInv, Good, Rows, Used
    <2> QED
      BY <2>1, <2>2, <2>3, <2>4 DEF Housed
  <1> QED
    BY <1>1, AggregationInvariant, PTL

\* KeptForAudit: withdrawn, merged or split, an incident never loses the row of a claim.
THEOREM EvidenceIsKept == AggregationSpec => KeptForAudit
PROOF
  <1>1. ASSUME AggregationInv, [AggregationNext]_aggregation
        PROVE  [\A i \in Used : {e.claim : e \in incident[i].evidence} \subseteq
                                {e.claim : e \in incident'[i].evidence}]_aggregation
    <2>1. CASE Step
      <3> SUFFICES ASSUME NEW i \in Used, NEW e \in incident[i].evidence
                   PROVE  \E f \in incident'[i].evidence : f.claim = e.claim
        OBVIOUS
      <3>1. i \in Incident /\ incident[i] # None
        BY DEF Used
      <3>2. incident[i].evidence \in SUBSET Evidence
        BY <1>1, <3>1 DEF AggregationInv, Good, Rows, Incidents
      <3>3. e.claim \in Claim
        BY <3>2 DEF Evidence
      <3>4. KeptIn(incident[i], e.claim)
        BY DEF KeptIn
      <3> QED
        BY <2>1, <3>1, <3>3, <3>4 DEF Step, Carried, KeptIn
    <2>2. CASE Tick
      BY <2>2 DEF Tick
    <2> QED
      BY <1>1, <2>1, <2>2, NextStep
  <1> QED
    BY <1>1, AggregationInvariant, PTL DEF AggregationSpec, KeptForAudit

-----------------------------------------------------------------------------
(* What brings an incident to life *)

\* The lifecycle only depends on what the reports say, all together.
LEMMA LifeOfTheSame ==
  ASSUME NEW x, NEW z, NEW fs, NEW t, x.kind = z.kind, x.last = z.last,
         Told(x, fs) = {} <=> Told(z, fs) = {},
         (\A e \in Told(x, fs) : e.decision # "publish") <=> (\A e \in Told(z, fs) : e.decision # "publish"),
         (\A e \in Told(x, fs) : fs[e.claim].scope = "past") <=> (\A e \in Told(z, fs) : fs[e.claim].scope = "past")
  PROVE  Life(x, fs, t) = Life(z, fs, t)
  BY DEF Life

\* Silence only ages it.
LEMMA LifeAges ==
  ASSUME NEW x, x.last \in Nat, NEW fs, NEW s \in Nat, NEW t \in Nat, s <= t
  PROVE  Life(x, fs, t) = Life(x, fs, s) \/ Life(x, fs, t) \in {"stale", "archived"}
PROOF
  <1>1. /\ s - x.last >= StaleAfter => t - x.last >= StaleAfter
        /\ s - x.last >= ArchiveAfter => t - x.last >= ArchiveAfter
    BY AggregationAssumption
  <1> QED
    BY <1>1 DEF Life

LEMMA RenewedRevives ==
  ASSUME AggregationTypes, NEW x, Good(x, facts, now), NEW y, Good(y, facts, now), Renewed(x, y, facts, now),
         x.kind # "clear_claim",
         {[e EXCEPT !.by = "auto"] : e \in {r \in x.evidence : r.active /\ F(r).kind # "clear_claim"}} =
         {[e EXCEPT !.by = "auto"] : e \in {r \in y.evidence : r.active /\ F(r).kind # "clear_claim"}}
  PROVE  /\ y.last = x.last
         /\ y.lifecycle = x.lifecycle \/ y.lifecycle \in {"stale", "archived"}
PROOF
  <1> SUFFICES ASSUME y.kind = x.kind, y.lifecycle = Life(y, facts, now),
                      Told(y, facts) = {} => y.last = x.last
               PROVE  /\ y.last = x.last
                      /\ y.lifecycle = x.lifecycle \/ y.lifecycle \in {"stale", "archived"}
    BY DEF Renewed
  <1>1. /\ Told(x, facts) = {r \in x.evidence : r.active /\ F(r).kind # "clear_claim"}
        /\ Told(y, facts) = {r \in y.evidence : r.active /\ F(r).kind # "clear_claim"}
    BY DEF Told, F
  <1>2. /\ Told(x, facts) \in SUBSET Evidence /\ Told(y, facts) \in SUBSET Evidence
        /\ x.last \in Nat /\ y.last \in Nat
    BY DEF Told, Good, Rows, Incidents
  <1>3. {[e EXCEPT !.by = "auto"] : e \in Told(x, facts)} = {[e EXCEPT !.by = "auto"] : e \in Told(y, facts)}
    BY <1>1
  <1>4. \A a, b \in Evidence : [a EXCEPT !.by = "auto"] = [b EXCEPT !.by = "auto"] =>
          a.claim = b.claim /\ a.decision = b.decision
    BY DEF Evidence
  <1>5. \A e \in Told(x, facts) : \E f \in Told(y, facts) : f.claim = e.claim /\ f.decision = e.decision
    <2> TAKE e \in Told(x, facts)
    <2>1. [e EXCEPT !.by = "auto"] \in {[f EXCEPT !.by = "auto"] : f \in Told(y, facts)}
      BY <1>3
    <2>2. PICK f \in Told(y, facts) : [e EXCEPT !.by = "auto"] = [f EXCEPT !.by = "auto"]
      BY <2>1
    <2> QED
      BY <1>2, <1>4, <2>2
  <1>6. \A f \in Told(y, facts) : \E e \in Told(x, facts) : e.claim = f.claim /\ e.decision = f.decision
    <2> TAKE f \in Told(y, facts)
    <2>1. [f EXCEPT !.by = "auto"] \in {[e EXCEPT !.by = "auto"] : e \in Told(x, facts)}
      BY <1>3
    <2>2. PICK e \in Told(x, facts) : [f EXCEPT !.by = "auto"] = [e EXCEPT !.by = "auto"]
      BY <2>1
    <2> QED
      BY <1>2, <1>4, <2>2
  <1>7. y.last = x.last
    <2>1. CASE Told(y, facts) = {}
      BY <2>1
    <2>2. CASE Told(y, facts) # {}
      <3>1. PICK f \in Told(y, facts) : facts[f.claim].at = y.last
        BY <2>2 DEF Good
      <3>2. y.last <= x.last
        BY <1>6, <3>1 DEF Good
      <3>3. Told(x, facts) # {}
        BY <1>6, <2>2
      <3>4. PICK e \in Told(x, facts) : facts[e.claim].at = x.last
        BY <3>3 DEF Good
      <3>5. x.last <= y.last
        BY <1>5, <3>4 DEF Good
      <3> QED
        BY <1>2, <3>2, <3>5
    <2> QED
      BY <2>1, <2>2
  <1>8. /\ Told(x, facts) = {} <=> Told(y, facts) = {}
        /\ (\A e \in Told(x, facts) : e.decision # "publish") <=> (\A e \in Told(y, facts) : e.decision # "publish")
        /\ (\A e \in Told(x, facts) : facts[e.claim].scope = "past") <=>
           (\A e \in Told(y, facts) : facts[e.claim].scope = "past")
    BY <1>5, <1>6
  <1>9. PICK s \in 0..now : x.lifecycle = Life(x, facts, s)
    BY DEF Good
  <1>10. now \in Nat /\ s \in Nat /\ s <= now
    BY <1>9 DEF AggregationTypes
  <1>11. y.lifecycle = Life(x, facts, now)
    BY <1>7, <1>8, LifeOfTheSame
  <1> QED
    BY <1>2, <1>7, <1>9, <1>10, <1>11, LifeAges

\* OnlyReportsRevive: while its active reports stay the same, a closure, silence, a merge
\* or the sweep (lifecycleAt) can only age an incident, and never dates it anew.
THEOREM ReportsRevive == AggregationSpec => OnlyReportsRevive
PROOF
  <1> DEFINE Reports(x) == {[e EXCEPT !.by = "auto"] : e \in {r \in x.evidence : r.active /\ F(r).kind # "clear_claim"}}
             Revived == \A i \in Used :
               Reports(incident[i]) = Reports(incident'[i]) /\ incident[i].kind # "clear_claim" =>
                 /\ incident'[i].last = incident[i].last
                 /\ \/ incident'[i].lifecycle = incident[i].lifecycle
                    \/ incident'[i].lifecycle \in {"stale", "archived"}
  <1>1. ASSUME AggregationInv, [AggregationNext]_aggregation
        PROVE  [Revived]_aggregation
    <2>1. CASE Step
      <3> SUFFICES ASSUME NEW i \in Used, Reports(incident[i]) = Reports(incident'[i]),
                          incident[i].kind # "clear_claim"
                   PROVE  /\ incident'[i].last = incident[i].last
                          /\ \/ incident'[i].lifecycle = incident[i].lifecycle
                             \/ incident'[i].lifecycle \in {"stale", "archived"}
        OBVIOUS
      <3>1. /\ i \in Incident /\ incident[i] # None /\ AggregationTypes /\ Good(incident[i], facts, now)
        BY <1>1 DEF Used, AggregationInv
      <3>2. incident'[i] # None /\ Renewed(incident[i], incident'[i], facts, now)
        BY <2>1, <3>1 DEF Step, Carried
      <3>3. Good(incident'[i], facts, now)
        BY <2>1, <3>2, <3>1 DEF Step
      <3> QED
        BY <3>1, <3>2, <3>3, RenewedRevives
    <2>2. CASE Tick
      BY <2>2 DEF Tick
    <2> QED
      BY <1>1, <2>1, <2>2, NextStep
  <1> QED
    BY <1>1, AggregationInvariant, PTL DEF AggregationSpec, OnlyReportsRevive
=============================================================================
