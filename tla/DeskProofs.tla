----------------------------- MODULE DeskProofs -----------------------------
(***************************************************************************)
(* For any number of workers, users, subjects, retries and repetitions:    *)
(* nobody who files a task fails on the row of another, no two tasks tell  *)
(* the same thing, and whatever has been handled left its task.            *)
(*                                                                         *)
(* A task is filed in four steps that others interleave with, so what is   *)
(* claimed of the rows is not inductive: what each step already knows must *)
(* be kept by the steps of everybody else.                                 *)
(*                                                                         *)
(* For any bank references, amounts, companies and rows: what the inboxes  *)
(* say of a file is so, and an answer of the sale settles the matter.      *)
(* Most requests are quiet: they leave the tasks and what the tasks speak  *)
(* of, and what is paid only grows (Quiet).  The others file and close     *)
(* tasks, and each is shown to tell the truth.                             *)
(***************************************************************************)
EXTENDS Desk, FiniteSetTheorems, TLAPS

Tasked == Reserves \cup Missions \cup Alerts

\* Whoever files does so for a subject that has tasks.
FilingIsKnown ==
  \A e \in Executors : work[e].at \in {"get", "insert", "inserted", "reget"} => work[e].on \in Tasked

\* An inserted row that is not committed is the only one of its subject.
InsertedAlone ==
  \A e \in Executors : work[e].at = "inserted" =>
    /\ Rows(work[e].on) = {}
    /\ \A x \in Executors : work[x].at = "inserted" /\ work[x].on = work[e].on => x = e

\* The row that refused an insert stays.
RefusedByARow == \A e \in Executors : work[e].at = "reget" => Rows(work[e].on) # {}

\* A row has its five columns.
RowsAreRows ==
  \A t \in tasks :
    t = [subject |-> t.subject, source |-> t.source, for |-> t.for, status |-> t.status, no |-> t.no]

IInv ==
  /\ TypeOK /\ RowsAreRows
  /\ FilingIsKnown /\ InsertedAlone /\ RefusedByARow
  /\ FiledExactlyOnce

-----------------------------------------------------------------------------
\* Nobody but a reserve without a declaration lacks a person to tell.
LEMMA SomebodyIsTold ==
  ASSUME NEW e \in Executors, NEW s \in Tasked, TaskBy(e, s).for = None
  PROVE  s \in Reserves /\ Builder[s] = None
<1>1. CASE s \in Reserves
  BY <1>1 DEF TaskBy, ReserveOpened, Task
<1>2. CASE s \notin Reserves /\ s \in Missions
  <2>1. TaskBy(e, s).for = Inspector[s]
    BY <1>2 DEF TaskBy, MissionAssigned, Task
  <2>2. QED
    BY <2>1, <1>2, NoneIsNobody
<1>3. CASE s \notin Reserves \cup Missions /\ s \in Devis \cup Ledgers
  <2>1. TaskBy(e, s).for = e
    BY <1>3 DEF TaskBy, DevisAjustementRefuse, LotLedgerMarginNegative, Task
  <2>2. QED
    BY <2>1, NoneIsNobody DEF Executors
<1>4. CASE s \notin Reserves \cup Missions \cup Devis \cup Ledgers /\ s \in Asked
  <2>1. TaskBy(e, s).for = Requester[s]
    BY <1>4 DEF TaskBy, ProgramRequestDecided, Task
  <2>2. QED
    BY <2>1, <1>4, NoneIsNobody
<1>5. QED
  BY <1>1, <1>2, <1>3, <1>4 DEF Tasked, Alerts

\* A row tells its subject, whoever files it.
LEMMA RowTellsSubject ==
  ASSUME NEW e, NEW s, NEW n
  PROVE  LET row == [TaskBy(e, s) EXCEPT !.no = n] IN
         /\ row.subject = s /\ row.status = "pending"
         /\ row = [subject |-> row.subject, source |-> row.source, for |-> row.for,
                   status |-> row.status, no |-> row.no]
BY DEF TaskBy, ReserveOpened, MissionAssigned, DevisAjustementRefuse, LotLedgerMarginNegative,
       ProgramRequestDecided, Task

\* What the rows say of somebody at work is not changed by a step of the
\* messages: the rows, what is handled and who files are the same.
LEMMA MessagesKeepIInv ==
  ASSUME IInv, UNCHANGED <<tasks, handled>>, TypeOK',
         \A e \in Executors : work'[e] # work[e] => work'[e].at \in {"idle", "read"}
  PROVE  IInv'
<1>1. \A s : Rows(s)' = Rows(s)
  BY DEF Rows
<1>2. \A e \in Executors : work'[e].at \notin {"idle", "read"} => work'[e] = work[e]
  OBVIOUS
<1>3. FilingIsKnown'
  BY <1>2 DEF IInv, FilingIsKnown
<1>4. InsertedAlone'
  <2>1. SUFFICES ASSUME NEW e \in Executors, work'[e].at = "inserted"
                 PROVE  /\ Rows(work[e].on)' = {}
                        /\ \A x \in Executors :
                             work'[x].at = "inserted" /\ work'[x].on = work'[e].on => x = e
    BY DEF InsertedAlone
  <2>2. work'[e] = work[e]
    BY <1>2, <2>1
  <2>3. QED
    BY <1>1, <1>2, <2>1, <2>2 DEF IInv, InsertedAlone, Rows
<1>5. RefusedByARow'
  BY <1>1, <1>2 DEF IInv, RefusedByARow
<1>6. FiledExactlyOnce'
  BY <1>1, <1>2 DEF IInv, FiledExactlyOnce, Same
<1>7. QED
  BY <1>3, <1>4, <1>5, <1>6 DEF IInv, RowsAreRows

-----------------------------------------------------------------------------
LEMMA InitIInv == ASSUME Init PROVE IInv
<1>1. TypeOK
  BY DEF Init, TypeOK, Idle, Announced
<1>2. \A e \in Executors : work[e].at = "idle"
  BY DEF Init, Idle
<1>3. QED
  BY <1>1, <1>2 DEF Init, IInv, RowsAreRows, FilingIsKnown, InsertedAlone, RefusedByARow,
                    FiledExactlyOnce

LEMMA AnnounceIInv == ASSUME IInv, NEW s \in Announced, Announce(s) PROVE IInv'
<1>1. TypeOK'
  BY DEF IInv, TypeOK, Announce
<1>2. QED
  BY <1>1, MessagesKeepIInv DEF Announce

LEMMA ConcludeIInv == ASSUME IInv, NEW s \in Announced, Conclude(s) PROVE IInv'
<1>1. TypeOK'
  BY DEF IInv, TypeOK, Conclude
<1>2. QED
  BY <1>1, MessagesKeepIInv DEF Conclude

LEMMA SendAgainIInv == ASSUME IInv, NEW s \in Announced, SendAgain(s) PROVE IInv'
<1>1. TypeOK'
  BY DEF IInv, TypeOK, SendAgain
<1>2. QED
  BY <1>1, MessagesKeepIInv DEF SendAgain

LEMMA TakeIInv == ASSUME IInv, NEW w \in Workers, NEW s \in Announced, Take(w, s) PROVE IInv'
<1>1. PICK n \in queue[s] : /\ work' = [work EXCEPT ![w] = [on |-> s, at |-> "read", tried |-> n]]
                            /\ queue' = [queue EXCEPT ![s] = @ \ {n}]
  BY DEF Take
<1>2. n \in Nat
  BY DEF IInv, TypeOK
<1>3. w \in Executors
  BY DEF Executors
<1>4. TypeOK'
  BY <1>1, <1>2, <1>3 DEF IInv, TypeOK, Take
<1>5. work \in [Executors -> [on : Announced \cup Alerts \cup {None}, tried : Nat,
                  at : {"idle", "read", "get", "insert", "inserted", "reget", "broken"}]]
  BY DEF IInv, TypeOK
<1>6. \A e \in Executors : work'[e] # work[e] => work'[e].at \in {"idle", "read"}
  BY <1>1, <1>3, <1>5
<1>7. QED
  BY <1>4, <1>6, MessagesKeepIInv DEF Take

\* Whoever stops, or gives up, leaves the rows and the others as they are.
LEMMA StopIInv ==
  ASSUME IInv, NEW e \in Executors, work' = [work EXCEPT ![e] = Idle],
         UNCHANGED <<subject, copies, tasks, handled>>,
         queue' \in [Announced -> SUBSET Nat]
  PROVE  IInv'
<1>1. TypeOK'
  BY DEF IInv, TypeOK, Idle
<1>2. work \in [Executors -> [on : Announced \cup Alerts \cup {None}, tried : Nat,
                  at : {"idle", "read", "get", "insert", "inserted", "reget", "broken"}]]
  BY DEF IInv, TypeOK
<1>3. \A x \in Executors : work'[x] # work[x] => work'[x].at \in {"idle", "read"}
  BY <1>2 DEF Idle
<1>4. QED
  BY <1>1, <1>3, MessagesKeepIInv

-----------------------------------------------------------------------------
\* Somebody goes to his next step, for a subject that has tasks.
LEMMA GoesIInv ==
  ASSUME IInv, NEW e \in Executors, NEW step \in {"get", "insert", "inserted", "reget"},
         Goes(e, step), UNCHANGED <<subject, queue, copies, tasks, handled>>,
         work[e].on \in Tasked,
         step = "inserted" => Rows(work[e].on) = {} /\ Inserting(work[e].on) = {},
         step = "reget" => Rows(work[e].on) # {}
  PROVE  IInv'
<1>1. work \in [Executors -> [on : Announced \cup Alerts \cup {None}, tried : Nat,
                  at : {"idle", "read", "get", "insert", "inserted", "reget", "broken"}]]
  BY DEF IInv, TypeOK
<1>2. /\ \A x \in Executors : work'[x].on = work[x].on
      /\ work'[e].at = step
      /\ \A x \in Executors \ {e} : work'[x].at = work[x].at
      /\ work' \in [Executors -> [on : Announced \cup Alerts \cup {None}, tried : Nat,
                  at : {"idle", "read", "get", "insert", "inserted", "reget", "broken"}]]
  BY <1>1 DEF Goes
<1>3. \A s : Rows(s)' = Rows(s)
  BY DEF Rows
<1>4. TypeOK'
  BY <1>2 DEF IInv, TypeOK
<1>5. FilingIsKnown'
  BY <1>2 DEF IInv, FilingIsKnown
<1>6. InsertedAlone'
  <2>1. SUFFICES ASSUME NEW x \in Executors, work'[x].at = "inserted"
                 PROVE  /\ Rows(work[x].on)' = {}
                        /\ \A y \in Executors :
                             work'[y].at = "inserted" /\ work'[y].on = work'[x].on => y = x
    BY DEF InsertedAlone, Rows
  <2>2. Rows(work[x].on)' = {}
    BY <1>2, <1>3, <2>1 DEF IInv, InsertedAlone
  <2>3. ASSUME NEW y \in Executors, work'[y].at = "inserted", work'[y].on = work'[x].on
        PROVE  y = x
    BY <1>2, <2>1, <2>3 DEF IInv, InsertedAlone, Inserting
  <2>4. QED
    BY <2>2, <2>3
<1>7. RefusedByARow'
  BY <1>2, <1>3 DEF IInv, RefusedByARow
<1>8. FiledExactlyOnce'
  BY <1>2, <1>3 DEF IInv, FiledExactlyOnce, Same
<1>9. QED
  BY <1>4, <1>5, <1>6, <1>7, <1>8 DEF IInv, RowsAreRows

\* Somebody is done without a new row: the subject has one, or has no task.
LEMMA EndsIInv ==
  ASSUME IInv, NEW e \in Executors, Ends(e), UNCHANGED <<subject, queue, copies, tasks>>,
         work[e].on \in Announced \cup Alerts,
         \/ work[e].on \in Documents
         \/ Rows(work[e].on) # {}
         \/ work[e].on \in Reserves /\ Builder[work[e].on] = None
  PROVE  IInv'
<1>1. work \in [Executors -> [on : Announced \cup Alerts \cup {None}, tried : Nat,
                  at : {"idle", "read", "get", "insert", "inserted", "reget", "broken"}]]
  BY DEF IInv, TypeOK
<1>2. /\ work'[e].at = "idle"
      /\ \A x \in Executors \ {e} : work'[x] = work[x]
      /\ work' \in [Executors -> [on : Announced \cup Alerts \cup {None}, tried : Nat,
                  at : {"idle", "read", "get", "insert", "inserted", "reget", "broken"}]]
  BY <1>1 DEF Ends, Idle
<1>3. \A s : Rows(s)' = Rows(s)
  BY DEF Rows
<1>4. handled' = handled \cup {work[e].on}
  BY DEF Ends
<1>5. TypeOK'
  BY <1>2, <1>4 DEF IInv, TypeOK
<1>6. FilingIsKnown' /\ RefusedByARow'
  BY <1>2, <1>3 DEF IInv, FilingIsKnown, RefusedByARow
<1>7. InsertedAlone'
  <2>1. SUFFICES ASSUME NEW x \in Executors, work'[x].at = "inserted"
                 PROVE  /\ Rows(work[x].on)' = {}
                        /\ \A y \in Executors :
                             work'[y].at = "inserted" /\ work'[y].on = work'[x].on => y = x
    BY DEF InsertedAlone
  <2>2. work'[x] = work[x]
    BY <1>2, <2>1
  <2>3. QED
    BY <1>2, <1>3, <2>1, <2>2 DEF IInv, InsertedAlone, Rows
<1>8. FiledExactlyOnce'
  <2>1. \A t, u \in tasks' : Same(t, u) => t = u
    BY DEF IInv, FiledExactlyOnce
  <2>2. \A s \in handled' \ Documents : Rows(s)' # {} \/ (s \in Reserves /\ Builder[s] = None)
    BY <1>3, <1>4 DEF IInv, FiledExactlyOnce
  <2>3. \A x \in Executors : work'[x].at # "broken"
    BY <1>2 DEF IInv, FiledExactlyOnce
  <2>4. QED
    BY <2>1, <2>2, <2>3 DEF FiledExactlyOnce, Same
<1>9. QED
  BY <1>5, <1>6, <1>7, <1>8 DEF IInv, RowsAreRows

-----------------------------------------------------------------------------
LEMMA ReadSubjectIInv == ASSUME IInv, NEW w \in Workers, ReadSubject(w) PROVE IInv'
<1>1. w \in Executors /\ work[w].on \in Tasked
  BY DEF Executors, ReadSubject, Tasked
<1>2. CASE subject[work[w].on] = "stored"
  <2>1. Goes(w, "get") /\ UNCHANGED <<subject, queue, copies, tasks, handled>>
    BY <1>2 DEF ReadSubject
  <2>2. QED
    BY <1>1, <2>1, GoesIInv
<1>3. CASE subject[work[w].on] # "stored"
  <2>1. work' = [work EXCEPT ![w] = Idle] /\ UNCHANGED <<subject, queue, copies, tasks, handled>>
    BY <1>3 DEF ReadSubject
  <2>2. QED
    BY <1>1, <2>1, StopIInv DEF IInv, TypeOK
<1>4. QED
  BY <1>2, <1>3

LEMMA ProcessDocumentIInv == ASSUME IInv, NEW w \in Workers, ProcessDocument(w) PROVE IInv'
<1>1. w \in Executors /\ work[w].on \in Documents /\ work[w].on \in Announced
  BY DEF Executors, ProcessDocument, Announced
<1>2. CASE subject[work[w].on] = "stored"
  <2>1. Ends(w) /\ UNCHANGED <<subject, queue, copies, tasks>>
    BY <1>2 DEF ProcessDocument
  <2>2. QED
    BY <1>1, <2>1, EndsIInv
<1>3. CASE subject[work[w].on] # "stored"
  <2>1. /\ work' = [work EXCEPT ![w] = Idle]
        /\ queue' = IF work[w].tried + 1 <= MaxRetries
                    THEN [queue EXCEPT ![work[w].on] = @ \cup {work[w].tried + 1}] ELSE queue
        /\ UNCHANGED <<subject, copies, tasks, handled>>
    BY <1>3 DEF ProcessDocument
  <2>2. work[w].tried + 1 \in Nat
    BY <1>1 DEF IInv, TypeOK
  <2>3. queue' \in [Announced -> SUBSET Nat]
    BY <1>1, <2>1, <2>2 DEF IInv, TypeOK
  <2>4. QED
    BY <1>1, <2>1, <2>3, StopIInv
<1>4. QED
  BY <1>2, <1>3

LEMMA CrashIInv == ASSUME IInv, NEW w \in Workers, Crash(w) PROVE IInv'
<1>1. queue' \in [Announced -> SUBSET Nat]
  BY DEF Crash, IInv, TypeOK
<1>2. QED
  BY <1>1, StopIInv DEF Crash, Executors

LEMMA AbortIInv == ASSUME IInv, NEW u \in Users, Abort(u) PROVE IInv'
<1>1. queue' \in [Announced -> SUBSET Nat]
  BY DEF Abort, IInv, TypeOK
<1>2. QED
  BY <1>1, StopIInv DEF Abort, Executors

LEMMA AlertIInv == ASSUME IInv, NEW u \in Users, NEW s \in Alerts, Alert(u, s) PROVE IInv'
<1>1. u \in Executors /\ s \in Tasked
  BY DEF Executors, Tasked
<1>2. work \in [Executors -> [on : Announced \cup Alerts \cup {None}, tried : Nat,
                  at : {"idle", "read", "get", "insert", "inserted", "reget", "broken"}]]
  BY DEF IInv, TypeOK
<1>3. /\ work'[u] = [on |-> s, at |-> "get", tried |-> 0]
      /\ \A x \in Executors \ {u} : work'[x] = work[x]
      /\ work' \in [Executors -> [on : Announced \cup Alerts \cup {None}, tried : Nat,
                  at : {"idle", "read", "get", "insert", "inserted", "reget", "broken"}]]
  BY <1>1, <1>2 DEF Alert
<1>4. UNCHANGED <<subject, queue, copies, tasks, handled>>
  BY DEF Alert
<1>5. \A r : Rows(r)' = Rows(r)
  BY <1>4 DEF Rows
<1>6. TypeOK'
  BY <1>3, <1>4 DEF IInv, TypeOK
<1>7. FilingIsKnown' /\ RefusedByARow'
  BY <1>1, <1>3, <1>5 DEF IInv, FilingIsKnown, RefusedByARow
<1>8. InsertedAlone'
  <2>1. SUFFICES ASSUME NEW x \in Executors, work'[x].at = "inserted"
                 PROVE  /\ Rows(work[x].on)' = {}
                        /\ \A y \in Executors :
                             work'[y].at = "inserted" /\ work'[y].on = work'[x].on => y = x
    BY DEF InsertedAlone
  <2>2. \A y \in Executors : work'[y].at = "inserted" => work'[y] = work[y]
    BY <1>3
  <2>3. QED
    BY <1>4, <2>1, <2>2 DEF IInv, InsertedAlone, Rows
<1>9. FiledExactlyOnce'
  BY <1>3, <1>4, <1>5 DEF IInv, FiledExactlyOnce, Same
<1>10. QED
  BY <1>4, <1>6, <1>7, <1>8, <1>9 DEF IInv, RowsAreRows

LEMMA GetIInv == ASSUME IInv, NEW e \in Executors, Get(e) PROVE IInv'
<1>1. work[e].on \in Tasked /\ work[e].on \in Announced \cup Alerts
  BY DEF IInv, FilingIsKnown, Get, Tasked, Announced
<1>2. CASE Rows(work[e].on) # {} \/ TaskBy(e, work[e].on).for = None
  <2>1. Ends(e) /\ UNCHANGED <<subject, queue, copies, tasks>>
    BY <1>2 DEF Get
  <2>2. Rows(work[e].on) # {} \/ (work[e].on \in Reserves /\ Builder[work[e].on] = None)
    BY <1>1, <1>2, SomebodyIsTold
  <2>3. QED
    BY <1>1, <2>1, <2>2, EndsIInv
<1>3. CASE ~(Rows(work[e].on) # {} \/ TaskBy(e, work[e].on).for = None)
  <2>1. Goes(e, "insert") /\ UNCHANGED <<subject, queue, copies, tasks, handled>>
    BY <1>3 DEF Get
  <2>2. QED
    BY <1>1, <2>1, GoesIInv
<1>4. QED
  BY <1>2, <1>3

LEMMA InsertIInv == ASSUME IInv, NEW e \in Executors, Insert(e) PROVE IInv'
<1>1. work[e].on \in Tasked
  BY DEF IInv, FilingIsKnown, Insert
<1>2. CASE Rows(work[e].on) # {}
  <2>1. Goes(e, "reget") /\ UNCHANGED <<subject, queue, copies, tasks, handled>>
    BY <1>2 DEF Insert
  <2>2. QED
    BY <1>1, <1>2, <2>1, GoesIInv
<1>3. CASE Rows(work[e].on) = {}
  <2>1. Goes(e, "inserted") /\ UNCHANGED <<subject, queue, copies, tasks, handled>>
    BY <1>3 DEF Insert
  <2>2. Inserting(work[e].on) = {}
    BY DEF Insert
  <2>3. QED
    BY <1>1, <1>3, <2>1, <2>2, GoesIInv
<1>4. QED
  BY <1>2, <1>3

LEMMA SecondGetIInv == ASSUME IInv, NEW e \in Executors, SecondGet(e) PROVE IInv'
<1>1. Rows(work[e].on) # {} /\ work[e].on \in Announced \cup Alerts
  BY DEF IInv, FilingIsKnown, RefusedByARow, SecondGet, Tasked, Announced
<1>2. Ends(e) /\ UNCHANGED <<subject, queue, copies, tasks>>
  BY <1>1 DEF SecondGet
<1>3. QED
  BY <1>1, <1>2, EndsIInv

LEMMA CommitIInv == ASSUME IInv, NEW e \in Executors, Commit(e) PROVE IInv'
<1>1. PICK s : s = work[e].on
  OBVIOUS
<1>2. PICK row : row = [TaskBy(e, s) EXCEPT !.no = Cardinality({t \in tasks : Same(t, TaskBy(e, s))})]
  OBVIOUS
<1>3. /\ row.subject = s /\ row.status = "pending"
      /\ row = [subject |-> row.subject, source |-> row.source, for |-> row.for,
                status |-> row.status, no |-> row.no]
  BY <1>2, RowTellsSubject
<1>4. /\ tasks' = tasks \cup {row}
      /\ work' = [work EXCEPT ![e] = Idle] /\ handled' = handled \cup {s}
      /\ UNCHANGED <<subject, queue, copies>>
      /\ work[e].at = "inserted"
  BY <1>1, <1>2 DEF Commit, Ends
<1>5. s \in Announced \cup Alerts
  BY <1>1, <1>4 DEF IInv, FilingIsKnown, Tasked, Announced
<1>6. work \in [Executors -> [on : Announced \cup Alerts \cup {None}, tried : Nat,
                  at : {"idle", "read", "get", "insert", "inserted", "reget", "broken"}]]
  BY DEF IInv, TypeOK
<1>7. /\ work'[e].at = "idle"
      /\ \A x \in Executors \ {e} : work'[x] = work[x]
      /\ work' \in [Executors -> [on : Announced \cup Alerts \cup {None}, tried : Nat,
                  at : {"idle", "read", "get", "insert", "inserted", "reget", "broken"}]]
  BY <1>4, <1>6 DEF Idle
<1>8. \A r : /\ Rows(r) # {} => Rows(r)' # {}
             /\ r # s => Rows(r)' = Rows(r)
             /\ r = s => Rows(r)' # {}
  BY <1>3, <1>4 DEF Rows
<1>9. Rows(s) = {} /\ \A x \in Executors : work[x].at = "inserted" /\ work[x].on = s => x = e
  BY <1>1, <1>4 DEF IInv, InsertedAlone
<1>10. TypeOK'
  <2>1. \A t \in tasks' : t.subject \in Announced \cup Alerts /\ t.status \in {"pending", "done"}
    BY <1>3, <1>4, <1>5 DEF IInv, TypeOK
  <2>2. QED
    BY <1>4, <1>5, <1>7, <2>1 DEF IInv, TypeOK
<1>11. RowsAreRows'
  BY <1>3, <1>4 DEF IInv, RowsAreRows
<1>12. FilingIsKnown' /\ RefusedByARow'
  BY <1>7, <1>8 DEF IInv, FilingIsKnown, RefusedByARow
<1>13. InsertedAlone'
  <2>1. SUFFICES ASSUME NEW x \in Executors, work'[x].at = "inserted"
                 PROVE  /\ Rows(work[x].on)' = {}
                        /\ \A y \in Executors :
                             work'[y].at = "inserted" /\ work'[y].on = work'[x].on => y = x
    BY DEF InsertedAlone
  <2>2. x # e /\ work'[x] = work[x]
    BY <1>7, <2>1
  <2>3. work[x].on # s
    BY <1>9, <2>1, <2>2
  <2>4. QED
    BY <1>7, <1>8, <2>1, <2>2, <2>3 DEF IInv, InsertedAlone, Rows
<1>14. FiledExactlyOnce'
  <2>1. \A t \in tasks : t.subject # row.subject
    BY <1>3, <1>9 DEF Rows
  <2>2. \A t, u \in tasks' : Same(t, u) => t = u
    BY <1>4, <2>1 DEF IInv, FiledExactlyOnce, Same
  <2>3. \A r \in handled' \ Documents : Rows(r)' # {} \/ (r \in Reserves /\ Builder[r] = None)
    BY <1>4, <1>8 DEF IInv, FiledExactlyOnce
  <2>4. \A x \in Executors : work'[x].at # "broken"
    BY <1>7 DEF IInv, FiledExactlyOnce
  <2>5. QED
    BY <2>2, <2>3, <2>4 DEF FiledExactlyOnce, Same
<1>15. QED
  BY <1>10, <1>11, <1>12, <1>13, <1>14 DEF IInv

\* Whoever completes a task completes one that was filed.
LEMMA CompletingIsCompleting ==
  ASSUME NEW u, Completing(u)
  PROVE  \E t \in tasks : CompleteTask(t)
BY DEF Completing, Complete, AdminComplete, InspectorComplete, MyInboxComplete, OrganizationTasks,
       AdminInbox, InspectorInbox, MyInbox, MyTasks, MyTasksAcrossOrganizations,
       CompleteAcrossOrganizations

LEMMA CompletingIInv == ASSUME IInv, NEW u \in Users, Completing(u) PROVE IInv'
<1>1. PICK t \in tasks : CompleteTask(t)
  BY CompletingIsCompleting
<1>2. t = [subject |-> t.subject, source |-> t.source, for |-> t.for, status |-> t.status, no |-> t.no]
  BY DEF IInv, RowsAreRows
<1>3. PICK done : done = [subject |-> t.subject, source |-> t.source, for |-> t.for,
                          status |-> "done", no |-> t.no]
  OBVIOUS
<1>4. [t EXCEPT !.status = "done"] = done
  BY <1>2, <1>3
<1>5. done.subject = t.subject /\ done.source = t.source /\ done.status = "done"
  BY <1>3
<1>6. tasks' = (tasks \ {t}) \cup {done} /\ UNCHANGED <<subject, queue, copies, work, handled>>
  BY <1>1, <1>4 DEF CompleteTask
<1>7. \A s : Rows(s)' = {} <=> Rows(s) = {}
  BY <1>5, <1>6 DEF Rows
<1>8. TypeOK'
  BY <1>5, <1>6 DEF IInv, TypeOK
<1>9. RowsAreRows'
  BY <1>3, <1>6 DEF IInv, RowsAreRows
<1>10. FilingIsKnown' /\ RefusedByARow'
  BY <1>6, <1>7 DEF IInv, FilingIsKnown, RefusedByARow
<1>11. InsertedAlone'
  BY <1>6, <1>7 DEF IInv, InsertedAlone
<1>12. FiledExactlyOnce'
  <2>1. \A x, y \in tasks' : Same(x, y) => x = y
    BY <1>5, <1>6 DEF IInv, FiledExactlyOnce, Same
  <2>2. QED
    BY <1>6, <1>7, <2>1 DEF IInv, FiledExactlyOnce, Same
<1>13. QED
  BY <1>8, <1>9, <1>10, <1>11, <1>12 DEF IInv

LEMMA StutterIInv == ASSUME IInv, UNCHANGED vars PROVE IInv'
BY DEF IInv, vars, TypeOK, RowsAreRows, FilingIsKnown, InsertedAlone, RefusedByARow, FiledExactlyOnce,
       Rows, Same

\* Whatever a worker or a request does to file a task.
LEMMA FilingIInv == ASSUME IInv, NEW e \in Executors, Filing(e) PROVE IInv'
BY GetIInv, InsertIInv, SecondGetIInv, CommitIInv DEF Filing

LEMMA NextIInv == ASSUME IInv, [InboxNext]_vars PROVE IInv'
<1>1. CASE UNCHANGED vars
  BY <1>1, StutterIInv
<1>2. ASSUME NEW s \in Announced, Announce(s) \/ Conclude(s) \/ SendAgain(s) PROVE IInv'
  BY <1>2, AnnounceIInv, ConcludeIInv, SendAgainIInv
<1>3. ASSUME NEW w \in Workers, Working(w) PROVE IInv'
  <2>1. w \in Executors
    BY DEF Executors
  <2>2. QED
    BY <1>3, <2>1, TakeIInv, ReadSubjectIInv, ProcessDocumentIInv, FilingIInv DEF Working
<1>4. ASSUME NEW u \in Users, Requesting(u) \/ Completing(u) PROVE IInv'
  <2>1. u \in Executors
    BY DEF Executors
  <2>2. QED
    BY <1>4, <2>1, AbortIInv, FilingIInv, AlertIInv, CompletingIInv DEF Requesting
<1>5. ASSUME NEW w \in Workers, Crash(w) PROVE IInv'
  BY <1>5, CrashIInv
<1>6. QED
  BY <1>1, <1>2, <1>3, <1>4, <1>5 DEF InboxNext, Steady

LEMMA SpecIInv == InboxSpec => []IInv
BY InitIInv, NextIInv, PTL DEF InboxSpec

-----------------------------------------------------------------------------
\* Every message, every row and whoever handles one keeps its type.
THEOREM TypeCorrect == InboxSpec => []TypeOK
<1>1. IInv => TypeOK
  BY DEF IInv
<1>2. QED
  BY <1>1, SpecIInv, PTL

\* However many workers, users and repetitions of a message file at once: two
\* tasks never tell the same thing, what was handled has its task, and the second
\* get of _get_or_create_task always finds the row that refused the insert.
THEOREM FiledExactlyOnceCorrect == InboxSpec => []FiledExactlyOnce
<1>1. IInv => FiledExactlyOnce
  BY DEF IInv
<1>2. QED
  BY <1>1, SpecIInv, PTL

-----------------------------------------------------------------------------
(* The sums of the file are folds over finite sets.                         *)

\* If a set is good as soon as its proper subsets are, every subset is.
LEMMA SubsetInduction ==
  ASSUME NEW S, IsFiniteSet(S), NEW Good,
         \A s \in SUBSET S : (\A t \in SUBSET s : t # s => t \in Good) => s \in Good
  PROVE  SUBSET S \subseteq Good
<1>1. IsWellFoundedOn(StrictSubsetOrdering(S), SUBSET S)
  BY FS_StrictSubsetOrderingWellFounded, FS_FiniteSubsetsOfFinite
<1>2. ASSUME NEW Bad, Bad = (SUBSET S) \ Good, Bad # {} PROVE FALSE
  <2>1. PICK s \in Bad : \A t \in Bad : <<t, s>> \notin StrictSubsetOrdering(S)
    BY <1>1, <1>2, WFMin
  <2> QED BY <1>2, <2>1 DEF StrictSubsetOrdering
<1>3. (SUBSET S) \ Good = {}
  BY <1>2
<1> QED BY <1>3

-----------------------------------------------------------------------------
(* The recursion behind a sum is well defined.                              *)

Pick(S) == CHOOSE x \in S : TRUE
Left(S) == S \ {Pick(S)}

\* g sums f over every subset of S, one element after the other.
Sums(f, S, g)  == g = [s \in SUBSET S |-> IF s = {} THEN 0 ELSE f[Pick(s)] + g[Left(s)]]
SumsOver(f, S) == CHOOSE g : Sums(f, S, g)

\* The library folds with the same choice of an element.
LEMMA SumUnfolds ==
  ASSUME NEW f, NEW S
  PROVE  SumFunctionOnSet(f, S) = SumsOver(f, S)[S]
BY DEF SumFunctionOnSet, FoldFunctionOnSet, MapThenFoldSet, Sums, Pick, SumsOver, Left

LEMMA PickIn ==
  ASSUME NEW S, S # {}
  PROVE  Pick(S) \in S /\ Left(S) \in SUBSET S /\ Left(S) # S
BY DEF Pick, Left

\* Two recursions agree where both are defined.
LEMMA SumsAgree ==
  ASSUME NEW f, NEW S, IsFiniteSet(S), NEW s \in SUBSET S, NEW g, Sums(f, S, g), NEW h, Sums(f, s, h)
  PROVE  g[s] = h[s]
<1> DEFINE Good == {u \in SUBSET s : g[u] = h[u]}
<1>1. ASSUME NEW u \in SUBSET s, \A v \in SUBSET u : v # u => v \in Good PROVE u \in Good
  <2>1. CASE u = {}
    BY <2>1 DEF Sums
  <2>2. CASE u # {}
    <3>1. Left(u) \in Good
      BY <1>1, <2>2, PickIn
    <3> QED BY <2>2, <3>1 DEF Sums
  <2> QED BY <2>1, <2>2
<1>2. SUBSET s \subseteq Good
  <2>1. IsFiniteSet(s)
    BY FS_Subset
  <2> HIDE DEF Good
  <2> QED BY <1>1, <2>1, SubsetInduction
<1> QED BY <1>2

\* There is one, by taking the sum of a smaller set for granted.
LEMMA SumsExist ==
  ASSUME NEW f, NEW S, IsFiniteSet(S)
  PROVE  \A s \in SUBSET S : Sums(f, s, SumsOver(f, s))
<1> DEFINE Good == {s \in SUBSET S : Sums(f, s, SumsOver(f, s))}
<1>1. ASSUME NEW s \in SUBSET S, \A t \in SUBSET s : t # s => t \in Good PROVE s \in Good
  <2> DEFINE V(t) == SumsOver(f, t)[t]
             h == [t \in SUBSET s |-> IF t = {} THEN 0 ELSE f[Pick(t)] + V(Left(t))]
  <2>1. ASSUME NEW t \in SUBSET s, t # s PROVE V(t) = h[t]
    <3>1. CASE t = {}
      BY <1>1, <2>1, <3>1 DEF Sums
    <3>2. CASE t # {}
      <4>1. Left(t) \in SUBSET t /\ Left(t) \in SUBSET s /\ Left(t) # s
        BY <2>1, <3>2, PickIn
      <4>2. Sums(f, t, SumsOver(f, t)) /\ Sums(f, Left(t), SumsOver(f, Left(t)))
        BY <1>1, <2>1, <4>1
      <4>3. SumsOver(f, t)[Left(t)] = V(Left(t))
        BY <4>1, <4>2, SumsAgree, FS_Subset
      <4>4. SumsOver(f, t)[t] = f[Pick(t)] + SumsOver(f, t)[Left(t)]
        BY <3>2, <4>2 DEF Sums
      <4> QED BY <3>2, <4>3, <4>4
    <3> QED BY <3>1, <3>2
  <2>2. ASSUME NEW t \in SUBSET s, t # {} PROVE h[Left(t)] = V(Left(t))
    <3>1. Left(t) \in SUBSET s /\ Left(t) # s
      BY <2>2, PickIn
    <3> QED BY <2>1, <3>1
  <2> HIDE DEF V
  <2>3. Sums(f, s, h)
    BY <2>2 DEF Sums
  <2> QED BY <2>3 DEF SumsOver
<1>2. SUBSET S \subseteq Good
  <2> HIDE DEF Good
  <2> QED BY <1>1, SubsetInduction
<1> QED BY <1>2

\* A sum is its first term and the sum of the rest.
LEMMA SumStep ==
  ASSUME NEW f, NEW S, IsFiniteSet(S)
  PROVE  SumFunctionOnSet(f, S) = IF S = {} THEN 0 ELSE f[Pick(S)] + SumFunctionOnSet(f, Left(S))
<1>1. Sums(f, S, SumsOver(f, S))
  BY SumsExist
<1>2. CASE S = {}
  BY <1>1, <1>2, SumUnfolds DEF Sums
<1>3. CASE S # {}
  <2>1. Left(S) \in SUBSET S
    BY <1>3, PickIn
  <2>2. SumsOver(f, S)[Left(S)] = SumsOver(f, Left(S))[Left(S)]
    BY <1>1, <2>1, SumsExist, SumsAgree
  <2>3. SumsOver(f, S)[S] = f[Pick(S)] + SumsOver(f, S)[Left(S)]
    BY <1>1, <1>3 DEF Sums
  <2> QED BY <1>3, <2>2, <2>3, SumUnfolds
<1> QED BY <1>2, <1>3

-----------------------------------------------------------------------------
(* What the proofs use.                                                     *)

LEMMA SumOfNone ==
  ASSUME NEW f
  PROVE  SumFunctionOnSet(f, {}) = 0
BY SumStep, FS_EmptySet

\* Any element may be taken out first.
LEMMA SumRemove ==
  ASSUME NEW S, IsFiniteSet(S), NEW f, \A x \in S : f[x] \in Int
  PROVE  /\ SumFunctionOnSet(f, S) \in Int
         /\ \A x \in S : SumFunctionOnSet(f, S) = f[x] + SumFunctionOnSet(f, S \ {x})
<1> DEFINE Sum(s) == SumFunctionOnSet(f, s)
           Good == {s \in SUBSET S : Sum(s) \in Int /\ \A x \in s : Sum(s) = f[x] + Sum(s \ {x})}
<1>1. ASSUME NEW s \in SUBSET S, \A t \in SUBSET s : t # s => t \in Good PROVE s \in Good
  <2>1. CASE s = {}
    <3>1. Sum({}) = 0
      BY SumOfNone
    <3> QED BY <2>1, <3>1
  <2>2. CASE s # {}
    <3> DEFINE p == Pick(s)
    <3>1. p \in s /\ s \ {p} \in Good
      BY <1>1, <2>2, PickIn
    <3>2. Sum(s) = f[p] + Sum(s \ {p})
      BY <2>2, SumStep, FS_Subset DEF Left
    <3>3. ASSUME NEW x \in s, x # p PROVE Sum(s) = f[x] + Sum(s \ {x})
      <4> DEFINE r == (s \ {p}) \ {x}
      <4>1. r = (s \ {x}) \ {p} /\ x \in s \ {p} /\ p \in s \ {x}
        BY <3>1, <3>3
      <4>2. s \ {x} \in Good /\ r \in Good
        BY <1>1, <3>1, <3>3
      <4>3. Sum(s \ {p}) = f[x] + Sum(r)
        BY <3>1, <4>1
      <4>4. Sum(s \ {x}) = f[p] + Sum(r)
        BY <4>1, <4>2
      <4>5. f[x] \in Int /\ f[p] \in Int /\ Sum(r) \in Int
        BY <3>1, <4>2
      <4> QED BY <3>2, <4>3, <4>4, <4>5
    <3>4. Sum(s) \in Int
      BY <3>1, <3>2
    <3> QED BY <3>2, <3>3, <3>4
  <2> QED BY <2>1, <2>2
<1>2. SUBSET S \subseteq Good
  <2> HIDE DEF Good
  <2> QED BY <1>1, SubsetInduction
<1> QED BY <1>2

\* A sum of naturals grows with its terms, and with the set.
LEMMA SumGrows ==
  ASSUME NEW S, IsFiniteSet(S), NEW T \in SUBSET S, NEW f, NEW g,
         \A x \in S : g[x] \in Nat, \A x \in T : f[x] \in Nat /\ f[x] <= g[x]
  PROVE  /\ SumFunctionOnSet(f, T) \in Nat /\ SumFunctionOnSet(g, S) \in Nat
         /\ SumFunctionOnSet(f, T) <= SumFunctionOnSet(g, S)
<1> DEFINE F(t) == SumFunctionOnSet(f, t)
           G(s) == SumFunctionOnSet(g, s)
           Good == {s \in SUBSET S : /\ F(s \cap T) \in Nat /\ G(s) \in Nat
                                     /\ F(s \cap T) <= G(s)}
<1>1. ASSUME NEW s \in SUBSET S, \A t \in SUBSET s : t # s => t \in Good PROVE s \in Good
  <2>1. CASE s = {}
    <3>1. F({}) = 0 /\ G({}) = 0
      BY SumOfNone
    <3> QED BY <2>1, <3>1
  <2>2. CASE s # {}
    <3>1. PICK x \in s : TRUE
      BY <2>2
    <3>2. s \ {x} \in Good
      BY <1>1
    <3>3. G(s) = g[x] + G(s \ {x})
      BY FS_Subset, SumRemove
    <3>4. CASE x \notin T
      <4>1. s \cap T = (s \ {x}) \cap T
        BY <3>4
      <4>2. F(s \cap T) \in Nat /\ G(s \ {x}) \in Nat /\ F(s \cap T) <= G(s \ {x}) /\ g[x] \in Nat
        BY <3>1, <3>2, <4>1
      <4> HIDE DEF F, G
      <4> QED BY <3>3, <4>2
    <3>5. CASE x \in T
      <4>1. (s \cap T) \ {x} = (s \ {x}) \cap T
        OBVIOUS
      <4>2. IsFiniteSet(s \cap T) /\ \A y \in s \cap T : f[y] \in Int
        BY FS_Subset
      <4>3. F(s \cap T) = f[x] + F((s \cap T) \ {x})
        BY <3>1, <3>5, <4>2, SumRemove
      <4> QED BY <3>2, <3>3, <3>5, <4>1, <4>3
    <3> QED BY <3>4, <3>5
  <2> QED BY <2>1, <2>2
<1>2. SUBSET S \subseteq Good
  <2> HIDE DEF Good
  <2> QED BY <1>1, SubsetInduction
<1>3. S \in Good /\ S \cap T = T
  BY <1>2
<1> QED BY <1>3

-----------------------------------------------------------------------------
(* The file.                                                                *)

NoticeRow == [call : Kinds, amount : Nat, ref : References, status : {"declared", "confirmed", "rejected"}]
OutRow    == [amount : Nat, to : Companies, status : {"draft", "eligible", "executed", "cancelled"},
              flow : {"none", "bank_executed", "beneficiary_confirmed", "reconciled"},
              ref : References \cup {None}, confirmed : BOOLEAN]
Whys      == {"reservation_to_validate", "payment_call_to_pay", "payment_notice_to_confirm",
              "payment_received", "payment_notice_rejected"}
Everyone  == {Client} \cup FinanceStaff \cup Sellers \cup Admins
Subject   == {Reservation} \cup {Call(k) : k \in Kinds} \cup {Notice(n) : n \in Nat}
FileTask  == [subject : Subject, source : Whys \X Everyone, for : Everyone,
              status : {"pending", "done", "ticked"}, no : {0}]
File ==
  [res : {"none", "held", "reserved", "committed", "expired", "cancelled"}, late : BOOLEAN, valid : BOOLEAN,
   contracts : Seq({"draft", "review", "approved", "signed"}), calls : SUBSET Kinds,
   amount : [References -> Nat], reconciled : SUBSET References, alloc : [References -> [Kinds -> Nat]],
   notices : Seq(NoticeRow), accepted : BOOLEAN, assigned : Companies, out : Seq(OutRow),
   tasks : SUBSET FileTask]

\* No receipt without a reservation.
Unborn(f) == f.res = "none" => \A r \in References : f.amount[r] = 0

\* What a task tells of the file f, and about what.
Tells(f, t) ==
  /\ t.source[1] = "reservation_to_validate" =>
       /\ t.subject = Reservation
       /\ t.status = "pending" => ~f.valid
       /\ t.status = "done" => f.valid
  /\ t.source[1] = "payment_call_to_pay" =>
       /\ t.subject[2] \in Kinds /\ t.subject = Call(t.subject[2])
       /\ t.status = "done" => IsSettled(f, t.subject[2])
  /\ t.source[1] \in {"payment_notice_to_confirm", "payment_received", "payment_notice_rejected"} =>
       t.subject[2] \in DOMAIN f.notices /\ t.subject = Notice(t.subject[2])
  /\ t.source[1] = "payment_notice_to_confirm" =>
       /\ t.status = "pending" => t.subject[2] \in Pending(f)
       /\ t.status = "done" => t.subject[2] \notin Pending(f)
  /\ t.source[1] = "payment_received" => f.notices[t.subject[2]].status = "confirmed"
  /\ t.source[1] = "payment_notice_rejected" => f.notices[t.subject[2]].status = "rejected"
TellsTruth(f) == \A t \in f.tasks : Tells(f, t)

FileInv(f) == f \in File /\ Unborn(f) /\ TellsTruth(f)

\* What the inboxes speak of is as before, and what is paid stays paid.
Grows(f, g) ==
  /\ f.calls \subseteq g.calls /\ f.reconciled \subseteq g.reconciled
  /\ \A r \in References, k \in Kinds : f.alloc[r][k] <= g.alloc[r][k]
Quiet(f, g) ==
  /\ g \in File /\ (Unborn(f) => Unborn(g)) /\ Grows(f, g)
  /\ g.tasks = f.tasks /\ g.valid = f.valid /\ g.notices = f.notices

\* What is imputed to a call is a number, and so are its sums.
LEMMA ImputedIsNat ==
  ASSUME NEW f \in File, NEW k \in Kinds
  PROVE  /\ \A r \in References : Imputed(f, k)[r] = f.alloc[r][k] /\ Imputed(f, k)[r] \in Nat
         /\ DOMAIN Imputed(f, k) = References
BY DEF Imputed, File

LEMMA SumsOfFile ==
  ASSUME NEW f \in File
  PROVE  /\ \A k \in Kinds : AllocatedTo(f, k) \in Nat /\ SettledOf(f, k) \in Nat
         /\ \A r \in References : UnallocatedOf(f, r) \in Int
<1>1. ASSUME NEW k \in Kinds PROVE AllocatedTo(f, k) \in Nat /\ SettledOf(f, k) \in Nat
  <2>1. AllocatedTo(f, k) = SumFunctionOnSet(Imputed(f, k), References)
    BY ImputedIsNat DEF AllocatedTo, SumFunction
  <2>2. \A T \in SUBSET References : SumFunctionOnSet(Imputed(f, k), T) \in Nat
    BY ImputedIsNat, FewReferences, SumGrows
  <2> QED BY <2>1, <2>2 DEF SettledOf, File
<1>2. ASSUME NEW r \in References PROVE UnallocatedOf(f, r) \in Int
  <2>1. f.alloc[r] \in [Kinds -> Nat] /\ f.amount[r] \in Nat
    BY DEF File
  <2>2. IsFiniteSet(Kinds)
    <3>1. IsFiniteSet({"frais"}) /\ Kinds = {"frais"} \cup {"premier"}
      BY FS_Singleton DEF Kinds
    <3> QED BY <3>1, FS_AddElement
  <2>3. SumFunctionOnSet(f.alloc[r], Kinds) \in Nat
    <3>1. \A k \in Kinds : f.alloc[r][k] \in Nat /\ f.alloc[r][k] <= f.alloc[r][k]
      BY <2>1
    <3> QED BY <2>2, <3>1, SumGrows
  <2> QED BY <2>1, <2>3 DEF UnallocatedOf, SumFunction
<1> QED BY <1>1, <1>2

\* A call that is settled stays so while the money grows.
LEMMA SettledStays ==
  ASSUME NEW f \in File, NEW g \in File, Grows(f, g), NEW k \in Kinds, IsSettled(f, k)
  PROVE  IsSettled(g, k)
<1>1. \A r \in References : /\ Imputed(f, k)[r] \in Nat /\ Imputed(g, k)[r] \in Nat
                            /\ Imputed(f, k)[r] <= Imputed(g, k)[r]
  BY ImputedIsNat DEF Grows
<1>2. /\ g.reconciled \in SUBSET References /\ f.reconciled \in SUBSET g.reconciled
      /\ IsFiniteSet(g.reconciled)
  BY FewReferences, FS_Subset DEF Grows, File
<1>3. SettledOf(f, k) <= SettledOf(g, k) /\ SettledOf(f, k) \in Nat /\ SettledOf(g, k) \in Nat
  <2>1. /\ \A x \in g.reconciled : Imputed(g, k)[x] \in Nat
        /\ \A x \in f.reconciled : Imputed(f, k)[x] \in Nat /\ Imputed(f, k)[x] <= Imputed(g, k)[x]
    BY <1>1, <1>2
  <2> QED BY <1>2, <2>1, SumGrows DEF SettledOf
<1>4. Due \in Nat
  BY AmountsArePositive
<1> QED BY <1>3, <1>4 DEF IsSettled, Grows

\* A quiet request leaves the inboxes as true as they were.
LEMMA QuietTells ==
  ASSUME NEW f, NEW g, FileInv(f), Quiet(f, g)
  PROVE  FileInv(g)
<1>1. \A k \in Kinds : IsSettled(f, k) => IsSettled(g, k)
  BY SettledStays DEF FileInv, Quiet
<1>2. Pending(g) = Pending(f)
  BY DEF Quiet, Pending
<1>3. TellsTruth(g)
  BY <1>1, <1>2 DEF FileInv, Quiet, TellsTruth, Tells
<1> QED BY <1>3 DEF FileInv, Quiet

LEMMA QuietIsTransitive ==
  ASSUME NEW f \in File, NEW g, NEW h, Quiet(f, g), Quiet(g, h)
  PROVE  Quiet(f, h)
<1>1. Grows(f, h)
  <2>1. \A r \in References, k \in Kinds : f.alloc[r][k] \in Nat /\ g.alloc[r][k] \in Nat /\ h.alloc[r][k] \in Nat
    BY DEF Quiet, File
  <2> QED BY <2>1 DEF Quiet, Grows
<1> QED BY <1>1 DEF Quiet

LEMMA GrowsIsReflexive == \A f \in File : Grows(f, f)
BY DEF Grows, File

LEMMA QuietIsReflexive == \A f \in File : Quiet(f, f)
BY GrowsIsReflexive DEF Quiet

\* Releasing a hold, moving a reservation on and releasing an eligibility are quiet.
LEMMA ExpireIsQuiet ==
  ASSUME NEW f \in File
  PROVE  Quiet(f, Expire(f))
<1>1. Expire(f) \in File
  BY DEF Expire, File
<1> QED BY <1>1, GrowsIsReflexive DEF Expire, Quiet, Grows, Unborn, File

LEMMA EvaluateIsQuiet ==
  ASSUME NEW f \in File
  PROVE  Quiet(f, Evaluate(f))
<1>1. PICK s \in {"committed", "reserved", f.res} : Evaluate(f) = [f EXCEPT !.res = s]
  BY DEF Evaluate
<1>2. s \in {"none", "held", "reserved", "committed", "expired", "cancelled"}
  BY <1>1 DEF File
<1>3. [f EXCEPT !.res = s] \in File
  BY <1>2 DEF File
<1> QED BY <1>1, <1>3, GrowsIsReflexive DEF Quiet, Grows, Unborn, File

LEMMA ReleasedIsQuiet ==
  ASSUME NEW f \in File
  PROVE  Quiet(f, Released(f))
<1>1. PICK o : o = [d \in DOMAIN f.out |->
     IF f.out[d].status = "eligible" /\ ~f.accepted THEN [f.out[d] EXCEPT !.status = "draft"] ELSE f.out[d]]
  OBVIOUS
<1>2. o \in Seq(OutRow)
  <2>1. f.out \in Seq(OutRow)
    BY DEF File
  <2>2. ASSUME NEW d \in DOMAIN f.out PROVE f.out[d] \in OutRow /\ [f.out[d] EXCEPT !.status = "draft"] \in OutRow
    <3>1. PICK row \in OutRow : row = f.out[d]
      BY <2>1
    <3>2. [row EXCEPT !.status = "draft"] \in OutRow
      BY DEF OutRow
    <3> QED BY <3>1, <3>2
  <2>3. DOMAIN f.out = 1 .. Len(f.out) /\ Len(f.out) \in Nat
    BY <2>1
  <2>4. o \in [1 .. Len(f.out) -> OutRow]
    BY <1>1, <2>2, <2>3
  <2> QED BY <2>3, <2>4
<1>3. Released(f) = [f EXCEPT !.out = o]
  BY <1>1 DEF Released
<1>4. [f EXCEPT !.out = o] \in File
  BY <1>2 DEF File
<1> QED BY <1>3, <1>4, GrowsIsReflexive DEF Quiet, Grows, Unborn, File

ContractStatus == {"draft", "review", "approved", "signed"}

\* So is whatever only touches the contracts or the disbursements.
LEMMA ContractsAreQuiet ==
  ASSUME NEW f \in File, NEW c \in Seq(ContractStatus)
  PROVE  Quiet(f, [f EXCEPT !.contracts = c])
<1>1. [f EXCEPT !.contracts = c] \in File
  BY DEF File, ContractStatus
<1> QED BY <1>1, GrowsIsReflexive DEF Quiet, Grows, Unborn, File

LEMMA OutIsQuiet ==
  ASSUME NEW f \in File, NEW o \in Seq(OutRow)
  PROVE  Quiet(f, [f EXCEPT !.out = o])
<1>1. [f EXCEPT !.out = o] \in File
  BY DEF File
<1> QED BY <1>1, GrowsIsReflexive DEF Quiet, Grows, Unborn, File

LEMMA CancelIsQuiet ==
  ASSUME NEW f \in File
  PROVE  Quiet(f, CancelReservation(f).file)
<1>1. [f EXCEPT !.res = "cancelled"] \in File
  BY DEF File
<1>2. Quiet(f, [f EXCEPT !.res = "cancelled"])
  BY <1>1, GrowsIsReflexive DEF Quiet, Grows, Unborn, File
<1> QED BY <1>2, ExpireIsQuiet, QuietIsReflexive DEF CancelReservation, NotFound, Conflict, Done, Reply

LEMMA ContractCreateIsQuiet ==
  ASSUME NEW f \in File
  PROVE  Quiet(f, AdminContractCreate(f).file)
<1>1. Append(f.contracts, "draft") \in Seq(ContractStatus)
  BY DEF File, ContractStatus
<1>2. Quiet(f, [f EXCEPT !.contracts = Append(f.contracts, "draft")])
  BY <1>1, ContractsAreQuiet
<1> QED BY <1>2, ExpireIsQuiet, QuietIsReflexive
        DEF AdminContractCreate, NotFound, Conflict, Created, Reply

LEMMA ContractStepIsQuiet ==
  ASSUME NEW f \in File, NEW v, NEW from, NEW to \in ContractStatus
  PROVE  Quiet(f, ContractStep(f, v, from, to).file)
<1>1. ASSUME v \in DOMAIN f.contracts PROVE Quiet(f, [f EXCEPT !.contracts[v] = to])
  <2>1. f.contracts \in Seq(ContractStatus)
    BY DEF File, ContractStatus
  <2>2. PICK c : c = [f.contracts EXCEPT ![v] = to]
    OBVIOUS
  <2>3. c \in Seq(ContractStatus)
    BY <1>1, <2>1, <2>2
  <2>4. [f EXCEPT !.contracts[v] = to] = [f EXCEPT !.contracts = c]
    BY <2>2
  <2> QED BY <2>3, <2>4, ContractsAreQuiet
<1> QED BY <1>1, ExpireIsQuiet, QuietIsReflexive DEF ContractStep, NotFound, Conflict, Done, Reply

LEMMA ContractsQuiet ==
  ASSUME NEW f \in File, NEW v
  PROVE  /\ Quiet(f, AdminContractUpdate(f, v).file)
         /\ \A action \in DOMAIN Transitions : Quiet(f, AdminContractTransition(f, v, action).file)
         /\ Quiet(f, MyContractSign(f, v).file)
<1>1. \A from, to \in ContractStatus : Quiet(f, ContractStep(f, v, from, to).file)
  BY ContractStepIsQuiet
<1>2. "draft" \in ContractStatus /\ "signed" \in ContractStatus /\ "approved" \in ContractStatus
  BY DEF ContractStatus
<1>3. Quiet(f, AdminContractUpdate(f, v).file)
  BY <1>1, <1>2 DEF AdminContractUpdate
<1>4. \A action \in DOMAIN Transitions : Quiet(f, AdminContractTransition(f, v, action).file)
  <2>1. \A action \in DOMAIN Transitions :
          Transitions[action].from \in ContractStatus /\ Transitions[action].to \in ContractStatus
    BY DEF Transitions, ContractStatus
  <2> QED BY <1>1, <2>1 DEF AdminContractTransition
<1>5. Quiet(f, MyContractSign(f, v).file)
  <2>1. PICK s : s = ContractStep(f, v, "approved", "signed")
    OBVIOUS
  <2>2. Quiet(f, s.file) /\ s.file \in File
    BY <1>1, <1>2, <2>1 DEF Quiet
  <2>3. Quiet(f, Evaluate(s.file))
    BY <2>2, EvaluateIsQuiet, QuietIsTransitive
  <2>4. MyContractSign(f, v).file \in {f, Evaluate(s.file), s.file}
    BY <2>1 DEF MyContractSign, Conflict, Reply
  <2> QED BY <2>2, <2>3, <2>4, QuietIsReflexive
<1> QED BY <1>3, <1>4, <1>5

\* Money that comes in, is imputed and is reconciled.
LEMMA ReceiptIsQuiet ==
  ASSUME NEW f \in File, NEW r \in References, NEW a \in Nat
  PROVE  Quiet(f, ReceiptCreate(f, r, a).file)
<1>1. ASSUME f.res # "none" PROVE Quiet(f, [f EXCEPT !.amount[r] = a])
  <2>1. [f.amount EXCEPT ![r] = a] \in [References -> Nat]
    BY DEF File
  <2>2. PICK m \in [References -> Nat] : m = [f.amount EXCEPT ![r] = a]
    BY <2>1
  <2>3. [f EXCEPT !.amount[r] = a] = [f EXCEPT !.amount = m]
    BY <2>2
  <2>4. [f EXCEPT !.amount = m] \in File
    BY DEF File
  <2> QED BY <1>1, <2>3, <2>4, GrowsIsReflexive DEF Quiet, Grows, Unborn, File
<1> QED BY <1>1, ExpireIsQuiet, QuietIsReflexive
        DEF ReceiptCreate, NotFound, Conflict, Done, Created, Reply

LEMMA AllocationIsQuiet ==
  ASSUME NEW f \in File, NEW r \in References, NEW k \in Kinds, NEW a \in Nat
  PROVE  Quiet(f, AllocationCreate(f, r, k, a).file)
<1>1. PICK m : m = [f.alloc EXCEPT ![r][k] = f.alloc[r][k] + a]
  OBVIOUS
<1>2. /\ m \in [References -> [Kinds -> Nat]]
      /\ \A s \in References, j \in Kinds : f.alloc[s][j] <= m[s][j]
  <2>1. f.alloc \in [References -> [Kinds -> Nat]]
    BY DEF File
  <2>2. \A s \in References : m[s] = IF s = r THEN [f.alloc[r] EXCEPT ![k] = f.alloc[r][k] + a] ELSE f.alloc[s]
    BY <1>1, <2>1
  <2>3. \A s \in References, j \in Kinds : m[s][j] = IF s = r /\ j = k THEN f.alloc[r][k] + a ELSE f.alloc[s][j]
    BY <2>1, <2>2
  <2>4. \A s \in References, j \in Kinds : f.alloc[s][j] \in Nat
    BY <2>1
  <2>5. m \in [References -> [Kinds -> Nat]]
    BY <1>1, <2>1
  <2> QED BY <2>3, <2>4, <2>5
<1>3. Quiet(f, [f EXCEPT !.alloc = m])
  <2>1. [f EXCEPT !.alloc = m] \in File
    BY <1>2 DEF File
  <2> QED BY <1>2, <2>1 DEF Quiet, Grows, Unborn, File
<1>4. Quiet(f, Evaluate([f EXCEPT !.alloc = m]))
  BY <1>3, EvaluateIsQuiet, QuietIsTransitive DEF Quiet
<1>5. AllocationCreate(f, r, k, a).file \in {f, Evaluate([f EXCEPT !.alloc = m])}
  BY <1>1 DEF AllocationCreate, NotFound, Conflict, Created, Reply
<1> QED BY <1>4, <1>5, QuietIsReflexive

LEMMA ReconcileIsQuiet ==
  ASSUME NEW f \in File, NEW r \in References
  PROVE  Quiet(f, ReceiptReconcile(f, r).file)
<1>1. PICK g : g = [f EXCEPT !.reconciled = f.reconciled \cup {r}]
  OBVIOUS
<1>2. g \in File
  BY <1>1 DEF File
<1>3. Quiet(f, g)
  BY <1>1, <1>2, GrowsIsReflexive DEF Quiet, Grows, Unborn, File
<1>4. Quiet(f, Evaluate(g))
  BY <1>2, <1>3, EvaluateIsQuiet, QuietIsTransitive
<1>5. ReceiptReconcile(f, r).file \in {f, Evaluate(g)}
  BY <1>1 DEF ReceiptReconcile, NotFound, Conflict, Done, Reply
<1> QED BY <1>4, <1>5, QuietIsReflexive

\* The disbursements: a row is added, or one of them changes.
LEMMA RowChangeIsQuiet ==
  ASSUME NEW f \in File, NEW d \in DOMAIN f.out, NEW row \in OutRow
  PROVE  Quiet(f, [f EXCEPT !.out[d] = row])
<1>1. f.out \in Seq(OutRow)
  BY DEF File
<1>2. PICK o : o = [f.out EXCEPT ![d] = row]
  OBVIOUS
<1>3. o \in Seq(OutRow)
  BY <1>1, <1>2
<1>4. [f EXCEPT !.out[d] = row] = [f EXCEPT !.out = o]
  BY <1>2
<1> QED BY <1>3, <1>4, OutIsQuiet

LEMMA RowOfOut ==
  ASSUME NEW f \in File, NEW d \in DOMAIN f.out
  PROVE  f.out[d] \in OutRow
BY DEF File

LEMMA DisbursementCreateIsQuiet ==
  ASSUME NEW f \in File, NEW a \in Nat
  PROVE  Quiet(f, DisbursementCreate(f, a).file)
<1>1. PICK row : row = [amount |-> a, to |-> f.assigned, status |-> "draft",
                        flow |-> "none", ref |-> None, confirmed |-> FALSE]
  OBVIOUS
<1>2. row \in OutRow /\ f.out \in Seq(OutRow)
  BY <1>1 DEF OutRow, File
<1>3. Append(f.out, row) \in Seq(OutRow)
  BY <1>2
<1>4. Quiet(f, [f EXCEPT !.out = Append(f.out, row)])
  BY <1>3, OutIsQuiet
<1> QED BY <1>1, <1>4, QuietIsReflexive DEF DisbursementCreate, Done, Conflict, Created, Reply

LEMMA EligibilityIsQuiet ==
  ASSUME NEW f \in File, NEW d
  PROVE  Quiet(f, DisbursementEligibility(f, d).file)
<1>1. PICK g : g = Released(f)
  OBVIOUS
<1>2. Quiet(f, g) /\ g \in File /\ DOMAIN g.out = DOMAIN f.out
  BY <1>1, ReleasedIsQuiet DEF Quiet, Released, File
<1>3. ASSUME d \in DOMAIN g.out PROVE Quiet(f, [g EXCEPT !.out[d].status = "eligible"])
  <2>1. PICK row : row = [g.out[d] EXCEPT !.status = "eligible"]
    OBVIOUS
  <2>2. row \in OutRow
    BY <1>2, <1>3, <2>1, RowOfOut DEF OutRow
  <2>3. [g EXCEPT !.out[d].status = "eligible"] = [g EXCEPT !.out[d] = row]
    BY <2>1
  <2> QED BY <1>2, <1>3, <2>2, <2>3, RowChangeIsQuiet, QuietIsTransitive
<1>4. \/ DisbursementEligibility(f, d).file \in {f, g}
      \/ d \in DOMAIN g.out /\ DisbursementEligibility(f, d).file = [g EXCEPT !.out[d].status = "eligible"]
  BY <1>1, <1>2 DEF DisbursementEligibility, NotFound, Done, Conflict, Reply
<1> QED BY <1>2, <1>3, <1>4, QuietIsReflexive

LEMMA ExecuteIsQuiet ==
  ASSUME NEW f \in File, NEW d, NEW r \in References
  PROVE  Quiet(f, DisbursementExecute(f, d, r).file)
<1>1. PICK g : g = Released(f)
  OBVIOUS
<1>2. Quiet(f, g) /\ g \in File /\ DOMAIN g.out = DOMAIN f.out
  BY <1>1, ReleasedIsQuiet DEF Quiet, Released, File
<1>3. PICK h : h = [g EXCEPT !.out[d].status = "executed", !.out[d].flow = "bank_executed", !.out[d].ref = r]
  OBVIOUS
<1>4. ASSUME d \in DOMAIN g.out PROVE Quiet(f, h)
  <2>1. PICK row : row = [g.out[d] EXCEPT !.status = "executed", !.flow = "bank_executed", !.ref = r]
    OBVIOUS
  <2>2. row \in OutRow
    BY <1>2, <1>4, <2>1, RowOfOut DEF OutRow
  <2>3. h = [g EXCEPT !.out[d] = row]
    BY <1>2, <1>3, <1>4, <2>1, RowOfOut DEF File, OutRow
  <2> QED BY <1>2, <1>4, <2>2, <2>3, RowChangeIsQuiet, QuietIsTransitive
<1>5. \/ DisbursementExecute(f, d, r).file \in {f, g}
      \/ d \in DOMAIN g.out /\ DisbursementExecute(f, d, r).file = h
  BY <1>1, <1>2, <1>3 DEF DisbursementExecute, NotFound, Done, Conflict, Created, Reply
<1> QED BY <1>2, <1>4, <1>5, QuietIsReflexive

LEMMA OutOfAccountIsQuiet ==
  ASSUME NEW f \in File, NEW d
  PROVE  /\ Quiet(f, DisbursementCancel(f, d).file)
         /\ \A reason \in BOOLEAN : Quiet(f, DisbursementReconcile(f, d, reason).file)
         /\ \A c \in Companies : Quiet(f, BeneficiaryDisbursementConfirm(f, d, c).file)
<1>1. Quiet(f, DisbursementCancel(f, d).file)
  <2>1. ASSUME d \in DOMAIN f.out PROVE Quiet(f, [f EXCEPT !.out[d].status = "cancelled"])
    <3>1. PICK row : row = [f.out[d] EXCEPT !.status = "cancelled"]
      OBVIOUS
    <3>2. row \in OutRow
      BY <2>1, <3>1, RowOfOut DEF OutRow
    <3>3. [f EXCEPT !.out[d].status = "cancelled"] = [f EXCEPT !.out[d] = row]
      BY <3>1
    <3> QED BY <2>1, <3>2, <3>3, RowChangeIsQuiet
  <2> QED BY <2>1, QuietIsReflexive DEF DisbursementCancel, NotFound, Done, Conflict, Reply
<1>2. ASSUME NEW reason \in BOOLEAN PROVE Quiet(f, DisbursementReconcile(f, d, reason).file)
  <2>1. ASSUME d \in DOMAIN f.out PROVE Quiet(f, [f EXCEPT !.out[d].flow = "reconciled"])
    <3>1. PICK row : row = [f.out[d] EXCEPT !.flow = "reconciled"]
      OBVIOUS
    <3>2. row \in OutRow
      BY <2>1, <3>1, RowOfOut DEF OutRow
    <3>3. [f EXCEPT !.out[d].flow = "reconciled"] = [f EXCEPT !.out[d] = row]
      BY <3>1
    <3> QED BY <2>1, <3>2, <3>3, RowChangeIsQuiet
  <2> QED BY <2>1, QuietIsReflexive DEF DisbursementReconcile, NotFound, Done, Conflict, Reply
<1>3. ASSUME NEW c \in Companies PROVE Quiet(f, BeneficiaryDisbursementConfirm(f, d, c).file)
  <2>1. PICK h : h = [f EXCEPT !.out[d].confirmed = TRUE,
                      !.out[d].flow = IF @ = "bank_executed" THEN "beneficiary_confirmed" ELSE @]
    OBVIOUS
  <2>2. ASSUME d \in DOMAIN f.out PROVE Quiet(f, h)
    <3>1. PICK row : row = [f.out[d] EXCEPT !.confirmed = TRUE,
                      !.flow = IF f.out[d].flow = "bank_executed" THEN "beneficiary_confirmed" ELSE f.out[d].flow]
      OBVIOUS
    <3>2. row \in OutRow
      BY <2>2, <3>1, RowOfOut DEF OutRow
    <3>3. h = [f EXCEPT !.out[d] = row]
      BY <2>1, <2>2, <3>1, RowOfOut DEF File, OutRow
    <3> QED BY <2>2, <3>2, <3>3, RowChangeIsQuiet
  <2>3. \/ BeneficiaryDisbursementConfirm(f, d, c).file = f
        \/ d \in DOMAIN f.out /\ BeneficiaryDisbursementConfirm(f, d, c).file = h
    BY <2>1 DEF BeneficiaryDisbursementConfirm, NotFound, Done, Conflict, Reply
  <2> QED BY <2>2, <2>3, QuietIsReflexive
<1> QED BY <1>1, <1>2, <1>3

-----------------------------------------------------------------------------
(* The tasks.                                                               *)

\* g is f with other tasks.
Retold(f, g) == g \in File /\ \E T \in SUBSET FileTask : g = [f EXCEPT !.tasks = T]

\* Other tasks change nothing else that the tasks speak of.
LEMMA RetoldSays ==
  ASSUME NEW f \in File, NEW g, Retold(f, g)
  PROVE  /\ g.valid = f.valid /\ g.notices = f.notices /\ (Unborn(g) <=> Unborn(f))
         /\ \A k \in Kinds : IsSettled(g, k) <=> IsSettled(f, k)
         /\ \A t \in FileTask : Tells(g, t) <=> Tells(f, t)
<1>1. PICK T \in SUBSET FileTask : g = [f EXCEPT !.tasks = T]
  BY DEF Retold
<1>2. /\ g.valid = f.valid /\ g.notices = f.notices /\ g.calls = f.calls /\ g.res = f.res
      /\ g.alloc = f.alloc /\ g.reconciled = f.reconciled /\ g.amount = f.amount
  BY <1>1 DEF File
<1>3. (Unborn(g) <=> Unborn(f)) /\ Pending(g) = Pending(f)
  BY <1>2 DEF Unborn, Pending
<1>4. \A k : IsSettled(g, k) <=> IsSettled(f, k)
  BY <1>2 DEF IsSettled, SettledOf, Imputed
<1>5. \A t \in FileTask : Tells(g, t) <=> Tells(f, t)
  BY <1>2, <1>3, <1>4 DEF Tells
<1> QED BY <1>2, <1>3, <1>4, <1>5

\* New tasks may be filed when what they say is so.
LEMMA NotifyKeeps ==
  ASSUME NEW f, FileInv(f), NEW s \in Subject, NEW why \in Whys, NEW users \in SUBSET Everyone,
         \A t \in FileTask : t.subject = s /\ t.source[1] = why /\ t.status = "pending" => Tells(f, t)
  PROVE  FileInv(Notify(f, s, why, users)) /\ Retold(f, Notify(f, s, why, users))
<1> DEFINE g == Notify(f, s, why, users)
<1>1. PICK new : new = {Task(s, <<why, u>>, u) : u \in {v \in users : ~\E t \in f.tasks : t.subject = s /\ t.source = <<why, v>>}}
  OBVIOUS
<1>2. \A t \in new : t \in FileTask /\ t.subject = s /\ t.source[1] = why /\ t.status = "pending"
  <2> SUFFICES ASSUME NEW u \in users, NEW t, t = Task(s, <<why, u>>, u)
               PROVE  t \in FileTask /\ t.subject = s /\ t.source[1] = why /\ t.status = "pending"
    BY <1>1
  <2>1. u \in Everyone
    OBVIOUS
  <2> QED BY <2>1 DEF Task, FileTask
<1>3. f \in File /\ f.tasks \cup new \in SUBSET FileTask
  BY <1>2 DEF File, FileInv
<1>4. g = [f EXCEPT !.tasks = f.tasks \cup new]
  BY <1>1 DEF Notify
<1>5. g \in File /\ g.tasks = f.tasks \cup new
  BY <1>3, <1>4 DEF File
<1> HIDE DEF g
<1>6. Retold(f, g)
  BY <1>3, <1>4, <1>5 DEF Retold
<1>7. \A t \in g.tasks : t \in FileTask /\ Tells(f, t)
  BY <1>2, <1>3, <1>5 DEF FileInv, TellsTruth
<1>8. TellsTruth(g)
  BY <1>3, <1>6, <1>7, RetoldSays DEF TellsTruth
<1> QED BY <1>3, <1>5, <1>6, <1>8, RetoldSays DEF FileInv, g

\* The tasks that are closed are the only ones that may be wrong.
LEMMA CloseKeeps ==
  ASSUME NEW f \in File, Unborn(f), NEW s, NEW why,
         \A t \in f.tasks : Tells(f, t) \/ (t.subject = s /\ t.source[1] = why /\ t.status = "pending"),
         \A t \in FileTask : t.subject = s /\ t.source[1] = why /\ t.status = "done" => Tells(f, t)
  PROVE  FileInv(Close(f, s, why)) /\ Retold(f, Close(f, s, why))
<1> DEFINE g == Close(f, s, why)
<1>1. PICK T : T = {IF t.subject = s /\ t.source[1] = why /\ t.status = "pending"
                    THEN [t EXCEPT !.status = "done"] ELSE t : t \in f.tasks}
  OBVIOUS
<1>2. ASSUME NEW t \in T PROVE t \in FileTask /\ Tells(f, t)
  <2>1. PICK old \in f.tasks : t = IF old.subject = s /\ old.source[1] = why /\ old.status = "pending"
                                   THEN [old EXCEPT !.status = "done"] ELSE old
    BY <1>1
  <2>2. old \in FileTask
    BY DEF File
  <2>3. CASE old.subject = s /\ old.source[1] = why /\ old.status = "pending"
    <3>1. t = [old EXCEPT !.status = "done"]
      BY <2>1, <2>3
    <3>2. t \in FileTask /\ t.subject = old.subject /\ t.source = old.source /\ t.status = "done"
      BY <2>2, <3>1 DEF FileTask
    <3> QED BY <2>3, <3>2
  <2>4. CASE ~(old.subject = s /\ old.source[1] = why /\ old.status = "pending")
    BY <2>1, <2>2, <2>4
  <2> QED BY <2>3, <2>4
<1>3. g = [f EXCEPT !.tasks = T]
  BY <1>1 DEF Close
<1>4. g \in File /\ g.tasks = T
  BY <1>2, <1>3 DEF File
<1> HIDE DEF g
<1>5. Retold(f, g)
  BY <1>2, <1>3, <1>4 DEF Retold
<1>6. TellsTruth(g)
  BY <1>2, <1>4, <1>5, RetoldSays DEF TellsTruth
<1> QED BY <1>4, <1>5, <1>6, RetoldSays DEF FileInv, g

LEMMA RetoldIsTransitive ==
  ASSUME NEW f \in File, NEW g, NEW h, Retold(f, g), Retold(g, h)
  PROVE  Retold(f, h)
<1>1. PICK T \in SUBSET FileTask : g = [f EXCEPT !.tasks = T]
  BY DEF Retold
<1>2. PICK U \in SUBSET FileTask : h = [g EXCEPT !.tasks = U]
  BY DEF Retold
<1>3. h = [f EXCEPT !.tasks = U]
  BY <1>1, <1>2 DEF File
<1> QED BY <1>2, <1>3 DEF Retold

LEMMA PeopleAreKnown == /\ SalesTeam \in SUBSET Everyone /\ FinanceStaff \in SUBSET Everyone
                        /\ {Client} \in SUBSET Everyone /\ SalesTeam \cup {Client} \in SUBSET Everyone
BY DEF SalesTeam, Everyone

-----------------------------------------------------------------------------
(* The requests that file or close tasks.                                   *)

\* The file that nothing has been asked of yet.
LEMMA EmptyIsAFile == Empty \in File /\ Empty.tasks = {} /\ Unborn(Empty)
<1>1. (CHOOSE c \in Companies : TRUE) \in Companies
  BY SomeCompany
<1>2. PICK c \in Companies : c = CHOOSE d \in Companies : TRUE
  BY <1>1
<1> QED BY <1>2 DEF Empty, File, Unborn, Kinds

LEMMA NothingToldIsTrue == \A f \in File : f.tasks = {} /\ Unborn(f) => FileInv(f)
BY DEF FileInv, TellsTruth

LEMMA ReservationCreateKeeps ==
  ASSUME NEW f, FileInv(f)
  PROVE  FileInv(ReservationCreate(f).file)
<1>1. PICK g : g = [Empty EXCEPT !.res = "held", !.accepted = f.accepted, !.assigned = f.assigned, !.out = f.out]
  OBVIOUS
<1>2. g \in File /\ g.tasks = {} /\ Unborn(g) /\ g.valid = FALSE
  <2>1. g \in File /\ g.tasks = Empty.tasks /\ g.res = "held" /\ g.valid = Empty.valid
    BY <1>1, EmptyIsAFile DEF File, FileInv
  <2>2. Empty.valid = FALSE
    BY DEF Empty
  <2> QED BY <2>1, <2>2, EmptyIsAFile DEF Unborn
<1>3. FileInv(g)
  BY <1>2, NothingToldIsTrue
<1>4. Reservation \in Subject /\ "reservation_to_validate" \in Whys
  BY DEF Subject, Whys
<1>5. \A t \in FileTask : t.subject = Reservation /\ t.source[1] = "reservation_to_validate" /\ t.status = "pending" => Tells(g, t)
  BY <1>2 DEF Tells
<1>6. FileInv(ReservationRequested(g))
  BY <1>3, <1>4, <1>5, NotifyKeeps, PeopleAreKnown DEF ReservationRequested
<1>7. FileInv(Expire(f))
  BY ExpireIsQuiet, QuietTells DEF FileInv
<1> QED BY <1>1, <1>6, <1>7 DEF ReservationCreate, Created, Conflict, Reply

LEMMA IssueCallKeeps ==
  ASSUME NEW f, FileInv(f), NEW k \in Kinds
  PROVE  FileInv(IssueCall(f, k))
<1>1. PICK g : g = [f EXCEPT !.calls = f.calls \cup {k}]
  OBVIOUS
<1>2. f \in File /\ g \in File
  BY <1>1 DEF File, FileInv
<1>3. FileInv(g)
  <2>1. Quiet(f, g)
    BY <1>1, <1>2, GrowsIsReflexive DEF Quiet, Grows, Unborn, File
  <2> QED BY <2>1, QuietTells
<1>4. Call(k) \in Subject /\ "payment_call_to_pay" \in Whys /\ Call(k)[2] = k
  BY DEF Subject, Whys, Call
<1>5. \A t \in FileTask : t.subject = Call(k) /\ t.source[1] = "payment_call_to_pay" /\ t.status = "pending" => Tells(g, t)
  BY <1>4 DEF Tells
<1>6. FileInv(PaymentCallIssued(g, k))
  BY <1>3, <1>4, <1>5, NotifyKeeps, PeopleAreKnown DEF PaymentCallIssued
<1> QED BY <1>1, <1>6 DEF IssueCall

LEMMA ReservationValidateKeeps ==
  ASSUME NEW f, FileInv(f)
  PROVE  FileInv(ReservationValidate(f).file)
<1>1. PICK g : g = [f EXCEPT !.valid = TRUE, !.late = FALSE]
  OBVIOUS
<1>2. f \in File /\ g \in File
  BY <1>1 DEF File, FileInv
<1>3. /\ g.valid = TRUE /\ g.tasks = f.tasks /\ g.notices = f.notices /\ Grows(f, g) /\ Unborn(g)
  BY <1>1, <1>2, GrowsIsReflexive DEF Grows, Unborn, FileInv, File
<1>4. Pending(g) = Pending(f) /\ \A k \in Kinds : IsSettled(f, k) => IsSettled(g, k)
  BY <1>2, <1>3, SettledStays DEF Pending
<1>5. \A t \in g.tasks : \/ Tells(g, t)
                         \/ t.subject = Reservation /\ t.source[1] = "reservation_to_validate" /\ t.status = "pending"
  <2>1. \A t \in f.tasks : Tells(f, t)
    BY DEF FileInv, TellsTruth
  <2> QED BY <1>3, <1>4, <2>1 DEF Tells
<1>6. \A t \in FileTask : t.subject = Reservation /\ t.source[1] = "reservation_to_validate" /\ t.status = "done" => Tells(g, t)
  BY <1>3 DEF Tells
<1>7. FileInv(ReservationValidated(g))
  BY <1>2, <1>3, <1>5, <1>6, CloseKeeps DEF ReservationValidated
<1>8. "frais" \in Kinds
  BY DEF Kinds
<1>9. FileInv(IssueCall(ReservationValidated(g), "frais"))
  BY <1>7, <1>8, IssueCallKeeps
<1>10. FileInv(Expire(f))
  BY ExpireIsQuiet, QuietTells DEF FileInv
<1> QED BY <1>1, <1>9, <1>10 DEF ReservationValidate, NotFound, Done, Conflict, Reply

LEMMA CallIssueKeeps ==
  ASSUME NEW f, FileInv(f), NEW k \in Kinds
  PROVE  FileInv(TeamPaymentCallIssue(f, k).file)
<1>1. FileInv(Expire(f))
  BY ExpireIsQuiet, QuietTells DEF FileInv
<1> QED BY <1>1, IssueCallKeeps DEF TeamPaymentCallIssue, NotFound, Created, Conflict, Reply

LEMMA NoticeCreateKeeps ==
  ASSUME NEW f, FileInv(f), NEW k \in Kinds, NEW r \in References
  PROVE  FileInv(MyPaymentNoticeCreate(f, k, r).file)
<1>1. PICK left : left = Due - AllocatedTo(f, k)
  OBVIOUS
<1>2. left \in Int /\ f \in File
  BY <1>1, SumsOfFile, AmountsArePositive DEF FileInv
<1>3. PICK row : row = [call |-> k, amount |-> left, ref |-> r, status |-> "declared"]
  OBVIOUS
<1>4. PICK g : g = [f EXCEPT !.notices = Append(f.notices, row)]
  OBVIOUS
<1>5. PICK n : n = Len(f.notices) + 1
  OBVIOUS
<1>6. ASSUME left > 0 PROVE FileInv(PaymentDeclared(g, n))
  <2>1. row \in NoticeRow /\ row.status = "declared"
    BY <1>2, <1>3, <1>6 DEF NoticeRow
  <2>2. f.notices \in Seq(NoticeRow) /\ n \in Nat
    BY <1>2, <1>5 DEF File
  <2>3. /\ Append(f.notices, row) \in Seq(NoticeRow)
        /\ DOMAIN Append(f.notices, row) = DOMAIN f.notices \cup {n} /\ n \notin DOMAIN f.notices
        /\ Append(f.notices, row)[n] = row
        /\ \A m \in DOMAIN f.notices : Append(f.notices, row)[m] = f.notices[m]
    BY <1>5, <2>1, <2>2
  <2>4. g \in File /\ g.notices = Append(f.notices, row)
    BY <1>2, <1>4, <2>3 DEF File
  <2>5. g.valid = f.valid /\ g.tasks = f.tasks /\ Grows(f, g) /\ Unborn(g)
    BY <1>2, <1>4, <2>4, GrowsIsReflexive DEF Grows, Unborn, FileInv, File
  <2>6. Pending(g) = Pending(f) \cup {n}
    BY <2>1, <2>3, <2>4 DEF Pending
  <2>7. \A j \in Kinds : IsSettled(f, j) => IsSettled(g, j)
    BY <1>2, <2>4, <2>5, SettledStays
  <2>8. TellsTruth(g)
    BY <2>3, <2>4, <2>5, <2>6, <2>7 DEF FileInv, TellsTruth, Tells
  <2>9. Notice(n) \in Subject /\ "payment_notice_to_confirm" \in Whys /\ Notice(n)[2] = n
    BY <2>2 DEF Subject, Whys, Notice
  <2>10. \A t \in FileTask : t.subject = Notice(n) /\ t.source[1] = "payment_notice_to_confirm" /\ t.status = "pending" => Tells(g, t)
    BY <2>3, <2>4, <2>6, <2>9 DEF Tells
  <2>11. FileInv(g)
    BY <2>4, <2>5, <2>8 DEF FileInv
  <2> QED BY <2>9, <2>10, <2>11, NotifyKeeps, PeopleAreKnown DEF PaymentDeclared
<1>7. FileInv(Expire(f))
  BY <1>2, ExpireIsQuiet, QuietTells
<1>8. \/ MyPaymentNoticeCreate(f, k, r).file \in {f, Expire(f)}
      \/ left > 0 /\ MyPaymentNoticeCreate(f, k, r).file = PaymentDeclared(g, n)
  <2>1. left <= 0 \/ left > 0
    BY <1>2
  <2> QED BY <1>1, <1>3, <1>4, <1>5, <2>1 DEF MyPaymentNoticeCreate, NotFound, Done, Conflict, Created, Reply
<1> QED BY <1>6, <1>7, <1>8

\* The task asks somebody to confirm the notice n.
AsksFor(t, n) == t.subject = Notice(n) /\ t.source[1] = "payment_notice_to_confirm" /\ t.status = "pending"

Decided(f, n, to) == [f EXCEPT !.notices[n].status = to]

\* A notice that waited is decided.  Nothing else was told of it.
LEMMA DecideIsTrue ==
  ASSUME NEW f, FileInv(f), NEW n \in Pending(f), NEW to \in {"confirmed", "rejected"}, NEW g,
         g = Decided(f, n, to)
  PROVE  /\ g \in File /\ Unborn(g) /\ n \in Nat /\ f.notices[n].call \in Kinds
         /\ g.notices[n].status = to /\ g.notices[n].call = f.notices[n].call /\ n \in DOMAIN g.notices
         /\ n \notin Pending(g) /\ \A k \in Kinds : IsSettled(f, k) => IsSettled(g, k)
         /\ \A t \in g.tasks : Tells(g, t) \/ AsksFor(t, n)
<1>1. f \in File /\ f.notices \in Seq(NoticeRow) /\ n \in DOMAIN f.notices /\ f.notices[n].status = "declared"
  BY DEF FileInv, File, Pending
<1>2. PICK row : row = [f.notices[n] EXCEPT !.status = to]
  OBVIOUS
<1>3. f.notices[n] \in NoticeRow
  BY <1>1
<1>4. row \in NoticeRow /\ row.status = to /\ row.call = f.notices[n].call /\ row.call \in Kinds
  BY <1>2, <1>3 DEF NoticeRow
<1>5. PICK o : o = [f.notices EXCEPT ![n] = row]
  OBVIOUS
<1>6. /\ o \in Seq(NoticeRow) /\ DOMAIN o = DOMAIN f.notices /\ n \in Nat
      /\ \A m \in DOMAIN f.notices : o[m] = IF m = n THEN row ELSE f.notices[m]
  BY <1>1, <1>4, <1>5
<1>7. g = [f EXCEPT !.notices = o]
  BY <1>2, <1>5 DEF Decided
<1>8. g \in File /\ g.notices = o /\ g.tasks = f.tasks /\ g.valid = f.valid
  BY <1>1, <1>6, <1>7 DEF File
<1>9. Grows(f, g) /\ Unborn(g)
  BY <1>1, <1>7, <1>8, GrowsIsReflexive DEF Grows, Unborn, File, FileInv
<1>10. \A k \in Kinds : IsSettled(f, k) => IsSettled(g, k)
  BY <1>1, <1>8, <1>9, SettledStays
<1>11. \A m \in DOMAIN f.notices : m \in Pending(g) <=> m \in Pending(f) /\ m # n
  BY <1>4, <1>6, <1>8 DEF Pending
<1>12. ASSUME NEW t \in g.tasks
       PROVE  Tells(g, t) \/ AsksFor(t, n)
  <2>1. Tells(f, t)
    BY <1>8 DEF FileInv, TellsTruth
  <2>2. CASE t.source[1] \in {"reservation_to_validate", "payment_call_to_pay"}
    BY <1>8, <1>10, <2>1, <2>2 DEF Tells
  <2>3. CASE t.source[1] = "payment_notice_to_confirm"
    BY <1>6, <1>8, <1>11, <2>1, <2>3 DEF Tells, AsksFor
  <2>4. CASE t.source[1] \in {"payment_received", "payment_notice_rejected"}
    <3>1. t.subject[2] # n
      BY <1>1, <2>1, <2>4 DEF Tells
    <3> QED BY <1>6, <1>8, <2>1, <2>4, <3>1 DEF Tells
  <2>5. CASE t.source[1] \notin {"reservation_to_validate", "payment_call_to_pay", "payment_notice_to_confirm",
                                 "payment_received", "payment_notice_rejected"}
    BY <2>5 DEF Tells
  <2> QED BY <2>2, <2>3, <2>4, <2>5
<1> QED BY <1>4, <1>6, <1>8, <1>9, <1>10, <1>11, <1>12, <1>1

LEMMA NoticeIsASubject ==
  ASSUME NEW n \in Nat
  PROVE  /\ Notice(n) \in Subject /\ Notice(n)[2] = n
         /\ {"payment_notice_to_confirm", "payment_received", "payment_notice_rejected"} \subseteq Whys
BY DEF Notice, Subject, Whys

\* Once decided, nobody is asked to confirm the notice any more.
LEMMA DecidedIsClosed ==
  ASSUME NEW f, FileInv(f), NEW n \in Pending(f), NEW to \in {"confirmed", "rejected"}, NEW g,
         g = Decided(f, n, to), NEW h, h = Close(g, Notice(n), "payment_notice_to_confirm")
  PROVE  /\ g \in File /\ FileInv(h) /\ Retold(g, h)
<1>1. g \in File /\ Unborn(g) /\ n \in Nat /\ n \in DOMAIN g.notices /\ n \notin Pending(g)
  BY DecideIsTrue
<1>2. \A t \in g.tasks : Tells(g, t) \/ AsksFor(t, n)
  BY DecideIsTrue
<1>3. \A t \in FileTask : t.subject = Notice(n) /\ t.source[1] = "payment_notice_to_confirm" /\ t.status = "done" => Tells(g, t)
  BY <1>1, NoticeIsASubject DEF Tells
<1> QED BY <1>1, <1>2, <1>3, CloseKeeps DEF AsksFor

\* The answer a, on the file f, decides the notice n or refuses to.
Decides(f, n, a) ==
  \/ a \in {Conflict(f), Conflict(Expire(f))}
  \/ \E g \in File : a = Done(g) /\ n \in DOMAIN g.notices /\ n \notin Pending(g)

LEMMA RejectDecides ==
  ASSUME NEW f, FileInv(f), NEW n \in Pending(f)
  PROVE  FileInv(PaymentNoticeReject(f, n).file) /\ Decides(f, n, PaymentNoticeReject(f, n))
<1>1. PICK g : g = Decided(f, n, "rejected")
  OBVIOUS
<1>2. PICK h : h = Close(g, Notice(n), "payment_notice_to_confirm")
  OBVIOUS
<1>3. g \in File /\ FileInv(h) /\ Retold(g, h)
  BY <1>1, <1>2, DecidedIsClosed
<1>4. n \in Nat /\ n \in DOMAIN h.notices /\ h.notices[n].status = "rejected"
  BY <1>1, <1>3, DecideIsTrue, RetoldSays
<1>5. \A t \in FileTask : t.subject = Notice(n) /\ t.source[1] = "payment_notice_rejected" /\ t.status = "pending" => Tells(h, t)
  BY <1>4, NoticeIsASubject DEF Tells
<1>6. PICK z : z = Notify(h, Notice(n), "payment_notice_rejected", {Client})
  OBVIOUS
<1>7. FileInv(z) /\ Retold(h, z)
  BY <1>3, <1>4, <1>5, <1>6, NoticeIsASubject, NotifyKeeps, PeopleAreKnown
<1>8. z \in File /\ z.notices = h.notices
  <2>1. h \in File /\ z \in File
    BY <1>3, <1>7 DEF FileInv
  <2> QED BY <1>7, <2>1, RetoldSays
<1>9. n \in DOMAIN z.notices /\ n \notin Pending(z)
  BY <1>4, <1>8 DEF Pending
<1>10. PaymentNoticeReject(f, n) = Done(z)
  BY <1>1, <1>2, <1>6 DEF PaymentNoticeReject, PaymentRejected, Decided, Pending
<1> QED BY <1>7, <1>8, <1>9, <1>10 DEF Decides, Done, Reply

LEMMA RejectKeeps ==
  ASSUME NEW f, FileInv(f), NEW n
  PROVE  FileInv(PaymentNoticeReject(f, n).file)
<1>1. CASE n \in Pending(f)
  BY <1>1, RejectDecides
<1>2. CASE n \notin Pending(f)
  BY <1>2 DEF PaymentNoticeReject, NotFound, Conflict, Reply
<1> QED BY <1>1, <1>2

\* What is imputed on a confirmation is one of the two amounts left.
LEMMA LeastIsAmong ==
  ASSUME NEW x \in Int, NEW y \in Int
  PROVE  Min({x, y}) \in {x, y}
<1>1. \E z \in {x, y} : \A w \in {x, y} : z <= w
  <2>1. CASE x <= y
    BY <2>1
  <2>2. CASE ~(x <= y)
    BY <2>2
  <2> QED BY <2>1, <2>2
<1> QED BY <1>1 DEF Min

LEMMA ConfirmDecides ==
  ASSUME NEW f, FileInv(f), NEW n \in Pending(f), NEW r \in References
  PROVE  FileInv(PaymentNoticeConfirm(f, n, r).file) /\ Decides(f, n, PaymentNoticeConfirm(f, n, r))
<1>1. PICK k, a : k = f.notices[n].call /\ a = f.notices[n].amount
  OBVIOUS
<1>2. f \in File /\ k \in Kinds /\ a \in Nat
  <2>1. f \in File /\ f.notices \in Seq(NoticeRow)
    BY DEF FileInv, File
  <2>2. f.notices[n] \in NoticeRow
    BY <2>1 DEF Pending
  <2> QED BY <1>1, <2>1, <2>2 DEF NoticeRow
<1>3. PICK recorded : recorded = ReceiptCreate(f, r, a)
  OBVIOUS
<1>4. PICK g : g = recorded.file
  OBVIOUS
<1>5. PICK least : least = Min({UnallocatedOf(g, r), Due - AllocatedTo(g, k)})
  OBVIOUS
<1>6. PICK h : h = IF least > 0 THEN AllocationCreate(g, r, k, least).file ELSE g
  OBVIOUS
<1>7. PICK i : i = IF r \in h.reconciled THEN h ELSE ReceiptReconcile(h, r).file
  OBVIOUS
<1>8. Quiet(f, g) /\ g \in File
  BY <1>2, <1>3, <1>4, ReceiptIsQuiet DEF Quiet
<1>9. Quiet(f, h) /\ h \in File
  <2>1. UnallocatedOf(g, r) \in Int /\ Due - AllocatedTo(g, k) \in Int
    BY <1>2, <1>8, SumsOfFile, AmountsArePositive
  <2>2. least \in Int
    BY <1>5, <2>1, LeastIsAmong
  <2>3. least > 0 => Quiet(g, AllocationCreate(g, r, k, least).file)
    BY <1>2, <1>8, <2>2, AllocationIsQuiet
  <2> QED BY <1>2, <1>6, <1>8, <2>3, QuietIsTransitive DEF Quiet
<1>10. Quiet(f, i) /\ i \in File
  BY <1>2, <1>7, <1>9, ReconcileIsQuiet, QuietIsTransitive DEF Quiet
<1>11. FileInv(i) /\ n \in Pending(i) /\ i.notices[n].call = k
  BY <1>1, <1>10, QuietTells DEF Quiet, Pending
<1>12. PICK j : j = Decided(i, n, "confirmed")
  OBVIOUS
<1>13. PICK z : z = PaymentConfirmed(j, n, IsSettled(i, k))
  OBVIOUS
<1>14. FileInv(z) /\ z \in File /\ n \in DOMAIN z.notices /\ n \notin Pending(z)
  <2>1. PICK x : x = Close(j, Notice(n), "payment_notice_to_confirm")
    OBVIOUS
  <2>2. j \in File /\ FileInv(x) /\ Retold(j, x) /\ x \in File
    <3>1. j \in File /\ FileInv(x) /\ Retold(j, x)
      BY <1>11, <1>12, <2>1, DecidedIsClosed
    <3> QED BY <3>1 DEF FileInv
  <2>3. /\ n \in Nat /\ n \in DOMAIN j.notices /\ j.notices[n].status = "confirmed" /\ j.notices[n].call = k
        /\ (IsSettled(i, k) => IsSettled(j, k))
    BY <1>2, <1>11, <1>12, DecideIsTrue
  <2>4. PICK y : y = IF IsSettled(i, k) THEN Close(x, Call(k), "payment_call_to_pay") ELSE x
    OBVIOUS
  <2>5. FileInv(y) /\ Retold(x, y)
    <3>1. ASSUME IsSettled(i, k) PROVE FileInv(Close(x, Call(k), "payment_call_to_pay"))
                                       /\ Retold(x, Close(x, Call(k), "payment_call_to_pay"))
      <4>1. IsSettled(x, k) /\ Call(k)[2] = k
        BY <1>2, <2>2, <2>3, <3>1, RetoldSays DEF Call
      <4>2. \A t \in FileTask : t.subject = Call(k) /\ t.source[1] = "payment_call_to_pay" /\ t.status = "done" => Tells(x, t)
        BY <1>2, <4>1 DEF Tells
      <4>3. \A t \in x.tasks : Tells(x, t)
        BY <2>2 DEF FileInv, TellsTruth
      <4>4. Unborn(x)
        BY <2>2 DEF FileInv
      <4> QED BY <2>2, <4>2, <4>3, <4>4, CloseKeeps
    <3>2. x = [x EXCEPT !.tasks = x.tasks] /\ x.tasks \in SUBSET FileTask
      BY <2>2 DEF File
    <3> QED BY <2>2, <2>4, <3>1, <3>2 DEF Retold
  <2>6. Retold(j, y)
    BY <2>2, <2>5, RetoldIsTransitive
  <2>7. y.notices = j.notices
    BY <2>2, <2>6, RetoldSays
  <2>8. \A t \in FileTask : t.subject = Notice(n) /\ t.source[1] = "payment_received" /\ t.status = "pending" => Tells(y, t)
    BY <2>3, <2>7, NoticeIsASubject DEF Tells
  <2>9. z = Notify(y, Notice(n), "payment_received", SalesTeam \cup {Client})
    BY <1>13, <2>1, <2>3, <2>4 DEF PaymentConfirmed
  <2>10. FileInv(z) /\ Retold(y, z)
    BY <2>3, <2>5, <2>8, <2>9, NoticeIsASubject, NotifyKeeps, PeopleAreKnown
  <2>11. z \in File /\ z.notices = j.notices
    <3>1. y \in File /\ z \in File
      BY <2>5, <2>10 DEF FileInv
    <3> QED BY <2>7, <2>10, <3>1, RetoldSays
  <2>12. n \in DOMAIN z.notices /\ n \notin Pending(z)
    BY <2>3, <2>11 DEF Pending
  <2> QED BY <2>10, <2>11, <2>12
<1>15. FileInv(g)
  BY <1>8, QuietTells
<1>16. PaymentNoticeConfirm(f, n, r) = IF recorded.code = 409 THEN Conflict(g) ELSE Done(z)
  <2>1. n \in DOMAIN f.notices /\ n \in Pending(f)
    BY DEF Pending
  <2>2. z = PaymentConfirmed([i EXCEPT !.notices[n].status = "confirmed"], n, IsSettled(i, k))
    BY <1>12, <1>13 DEF Decided
  <2>3. CASE recorded.code = 409
    BY <1>1, <1>3, <1>4, <2>1, <2>3 DEF PaymentNoticeConfirm
  <2>4. CASE recorded.code # 409
    BY <1>1, <1>3, <1>4, <1>5, <1>6, <1>7, <2>1, <2>2, <2>4 DEF PaymentNoticeConfirm, Done, Reply, Conflict
  <2> QED BY <2>3, <2>4
<1>17. recorded.code = 409 => g \in {f, Expire(f)}
  BY <1>3, <1>4 DEF ReceiptCreate, NotFound, Conflict, Done, Created, Reply
<1>18. CASE recorded.code = 409
  BY <1>15, <1>16, <1>17, <1>18 DEF Decides, Conflict, Reply
<1>19. CASE recorded.code # 409
  BY <1>14, <1>16, <1>19 DEF Decides, Done, Reply
<1> QED BY <1>18, <1>19

LEMMA ConfirmKeeps ==
  ASSUME NEW f, FileInv(f), NEW n, NEW r \in References
  PROVE  FileInv(PaymentNoticeConfirm(f, n, r).file)
<1>1. CASE n \in Pending(f)
  BY <1>1, ConfirmDecides
<1>2. CASE n \notin Pending(f)
  BY <1>2 DEF PaymentNoticeConfirm, NotFound, Conflict, Reply
<1> QED BY <1>1, <1>2

-----------------------------------------------------------------------------
(* Every request keeps the file.                                            *)

LEMMA QuietKeeps ==
  ASSUME NEW f, FileInv(f)
  PROVE  \A g : Quiet(f, g) => FileInv(g)
BY QuietTells

\* The lists release what has lapsed, and nothing else.
LEMMA ListsAreQuiet ==
  ASSUME NEW f, FileInv(f)
  PROVE  /\ FileInv(CatalogLotList(f).file) /\ FileInv(PublicOffer(f).file)
         /\ FileInv(MyReservationList(f).file) /\ FileInv(AdminReservationList(f).file)
         /\ FileInv(AdminContractList(f).file) /\ FileInv(MyContractList(f).file)
         /\ FileInv(TeamPaymentCallList(f).file) /\ FileInv(MyPaymentCallList(f).file)
         /\ FileInv(FinanceFile(f).file) /\ FileInv(PaymentNoticeList(f).file)
         /\ FileInv(ProgramAccountList(f).file) /\ FileInv(ProgramAccount(f).file)
         /\ FileInv(BeneficiaryDisbursementList(f).file)
<1>1. FileInv(Expire(f)) /\ FileInv(Released(f))
  BY ExpireIsQuiet, ReleasedIsQuiet, QuietKeeps DEF FileInv
<1> QED BY <1>1 DEF CatalogLotList, ListPublishedLots, PublicOffer, MyReservationList, ListClientReservations,
           AdminReservationList, ListReservationsAsAdmin, AdminContractList, MyContractList, TeamPaymentCallList,
           MyPaymentCallList, FinanceFile, PaymentNoticeList, ProgramAccountList, ProgramAccount,
           BeneficiaryDisbursementList, NotFound, Done, Reply

LEMMA PlainRequestKeeps ==
  ASSUME NEW f, FileInv(f), NEW v \in Views \cup {"ProgramAccountList", "ProgramAccount", "BeneficiaryDisbursementList"}
  PROVE  FileInv(Handle(Ask(v, <<>>), f).file)
<1>1. FileInv(MyReservationCancel(f).file) /\ FileInv(AdminReservationCancel(f).file) /\ FileInv(AdminContractCreate(f).file)
  BY CancelIsQuiet, ContractCreateIsQuiet, QuietKeeps DEF MyReservationCancel, AdminReservationCancel, FileInv
<1>2. FileInv(ReservationCreate(f).file) /\ FileInv(ReservationValidate(f).file)
  BY ReservationCreateKeeps, ReservationValidateKeeps
<1> QED BY <1>1, <1>2, ListsAreQuiet DEF Views, Handle, Ask

\* The amount of a request is a positive number.
LEMMA AmountsAreNat == Amounts \subseteq Nat
BY AmountsArePositive

LEMMA ContractRequestKeeps ==
  ASSUME NEW f, FileInv(f), NEW q \in ContractRequests
  PROVE  FileInv(Handle(q, f).file)
<1>1. f \in File
  BY DEF FileInv
<1>2. CASE q \in {Ask(v, <<n>>) : v \in {"AdminContractUpdate", "MyContractSign"}, n \in Versions}
  <2>1. PICK v \in {"AdminContractUpdate", "MyContractSign"}, n \in Versions : q = Ask(v, <<n>>)
    BY <1>2
  <2>2. FileInv(AdminContractUpdate(f, n).file) /\ FileInv(MyContractSign(f, n).file)
    BY <1>1, ContractsQuiet, QuietKeeps
  <2> QED BY <2>1, <2>2 DEF Handle, Ask
<1>3. CASE q \in {Ask("AdminContractTransition", <<n, a>>) : n \in Versions, a \in DOMAIN Transitions}
  <2>1. PICK n \in Versions, a \in DOMAIN Transitions : q = Ask("AdminContractTransition", <<n, a>>)
    BY <1>3
  <2>2. FileInv(AdminContractTransition(f, n, a).file)
    BY <1>1, ContractsQuiet, QuietKeeps
  <2> QED BY <2>1, <2>2 DEF Handle, Ask
<1> QED BY <1>2, <1>3 DEF ContractRequests

LEMMA PaymentRequestKeeps ==
  ASSUME NEW f, FileInv(f), NEW q \in PaymentRequests
  PROVE  FileInv(Handle(q, f).file)
<1>1. f \in File
  BY DEF FileInv
<1>2. CASE q \in {Ask("TeamPaymentCallIssue", <<k>>) : k \in Kinds}
  <2>1. PICK k \in Kinds : q = Ask("TeamPaymentCallIssue", <<k>>)
    BY <1>2
  <2>2. FileInv(TeamPaymentCallIssue(f, k).file)
    BY CallIssueKeeps
  <2> QED BY <2>1, <2>2 DEF Handle, Ask
<1>3. CASE q \in {Ask("ReceiptCreate", <<r, a>>) : r \in References, a \in Amounts}
  <2>1. PICK r \in References, a \in Amounts : q = Ask("ReceiptCreate", <<r, a>>)
    BY <1>3
  <2>2. FileInv(ReceiptCreate(f, r, a).file)
    BY <1>1, AmountsAreNat, ReceiptIsQuiet, QuietKeeps
  <2> QED BY <2>1, <2>2 DEF Handle, Ask
<1>4. CASE q \in {Ask("AllocationCreate", <<r, k, a>>) : r \in References, k \in Kinds, a \in Amounts}
  <2>1. PICK r \in References, k \in Kinds, a \in Amounts : q = Ask("AllocationCreate", <<r, k, a>>)
    BY <1>4
  <2>2. FileInv(AllocationCreate(f, r, k, a).file)
    BY <1>1, AmountsAreNat, AllocationIsQuiet, QuietKeeps
  <2> QED BY <2>1, <2>2 DEF Handle, Ask
<1>5. CASE q \in {Ask("ReceiptReconcile", <<r>>) : r \in References}
  <2>1. PICK r \in References : q = Ask("ReceiptReconcile", <<r>>)
    BY <1>5
  <2>2. FileInv(ReceiptReconcile(f, r).file)
    BY <1>1, ReconcileIsQuiet, QuietKeeps
  <2> QED BY <2>1, <2>2 DEF Handle, Ask
<1>6. \/ q \in {Ask("TeamPaymentCallIssue", <<k>>) : k \in Kinds}
      \/ q \in {Ask("ReceiptCreate", <<r, a>>) : r \in References, a \in Amounts}
      \/ q \in {Ask("AllocationCreate", <<r, k, a>>) : r \in References, k \in Kinds, a \in Amounts}
      \/ q \in {Ask("ReceiptReconcile", <<r>>) : r \in References}
  BY DEF PaymentRequests
<1> QED BY <1>2, <1>3, <1>4, <1>5, <1>6

LEMMA NoticeRequestKeeps ==
  ASSUME NEW f, FileInv(f), NEW q \in NoticeRequests
  PROVE  FileInv(Handle(q, f).file)
<1>1. f \in File
  BY DEF FileInv
<1>2. CASE \E k \in Kinds, r \in References : q = Ask("MyPaymentNoticeCreate", <<k, r>>)
  <2>1. PICK k \in Kinds, r \in References : q = Ask("MyPaymentNoticeCreate", <<k, r>>)
    BY <1>2
  <2>2. FileInv(MyPaymentNoticeCreate(f, k, r).file)
    BY NoticeCreateKeeps
  <2> QED BY <2>1, <2>2 DEF Handle, Ask
<1>3. CASE \E n \in Versions, r \in References : q = Ask("PaymentNoticeConfirm", <<n, r>>)
  <2>1. PICK n \in Versions, r \in References : q = Ask("PaymentNoticeConfirm", <<n, r>>)
    BY <1>3
  <2>2. FileInv(PaymentNoticeConfirm(f, n, r).file)
    BY ConfirmKeeps
  <2> QED BY <2>1, <2>2 DEF Handle, Ask
<1>4. CASE \E n \in Versions : q = Ask("PaymentNoticeReject", <<n>>)
  <2>1. PICK n \in Versions : q = Ask("PaymentNoticeReject", <<n>>)
    BY <1>4
  <2>2. FileInv(PaymentNoticeReject(f, n).file)
    BY RejectKeeps
  <2> QED BY <2>1, <2>2 DEF Handle, Ask
<1>5. \/ \E k \in Kinds, r \in References : q = Ask("MyPaymentNoticeCreate", <<k, r>>)
      \/ \E n \in Versions, r \in References : q = Ask("PaymentNoticeConfirm", <<n, r>>)
      \/ \E n \in Versions : q = Ask("PaymentNoticeReject", <<n>>)
  BY DEF NoticeRequests
<1> QED BY <1>2, <1>3, <1>4, <1>5

LEMMA SaleRequestKeeps ==
  ASSUME NEW f, FileInv(f), NEW q \in SaleRequests
  PROVE  FileInv(Handle(q, f).file)
<1>1. CASE q \in {Ask(v, <<>>) : v \in Views}
  BY <1>1, PlainRequestKeeps
<1> QED BY <1>1, ContractRequestKeeps, PaymentRequestKeeps, NoticeRequestKeeps DEF SaleRequests

LEMMA AccountRequestKeeps ==
  ASSUME NEW f, FileInv(f), NEW q \in AccountRequests
  PROVE  FileInv(Handle(q, f).file)
<1>1. f \in File
  BY DEF FileInv
<1>2. CASE q \in {Ask(v, <<>>) : v \in {"ProgramAccountList", "ProgramAccount", "BeneficiaryDisbursementList"}}
  <2>1. PICK v \in {"ProgramAccountList", "ProgramAccount", "BeneficiaryDisbursementList"} : q = Ask(v, <<>>)
    BY <1>2
  <2> QED BY <2>1, PlainRequestKeeps
<1>3. CASE q \in {Ask("DisbursementCreate", <<a>>) : a \in Amounts}
  <2>1. PICK a \in Amounts : q = Ask("DisbursementCreate", <<a>>)
    BY <1>3
  <2>2. FileInv(DisbursementCreate(f, a).file)
    BY <1>1, AmountsAreNat, DisbursementCreateIsQuiet, QuietKeeps
  <2> QED BY <2>1, <2>2 DEF Handle, Ask
<1>4. CASE q \in {Ask(v, <<d>>) : v \in {"DisbursementEligibility", "DisbursementCancel"}, d \in Versions}
  <2>1. PICK v \in {"DisbursementEligibility", "DisbursementCancel"}, d \in Versions : q = Ask(v, <<d>>)
    BY <1>4
  <2>2. FileInv(DisbursementEligibility(f, d).file) /\ FileInv(DisbursementCancel(f, d).file)
    BY <1>1, EligibilityIsQuiet, OutOfAccountIsQuiet, QuietKeeps
  <2> QED BY <2>1, <2>2 DEF Handle, Ask
<1>5. CASE q \in {Ask("DisbursementExecute", <<d, r>>) : d \in Versions, r \in References}
  <2>1. PICK d \in Versions, r \in References : q = Ask("DisbursementExecute", <<d, r>>)
    BY <1>5
  <2>2. FileInv(DisbursementExecute(f, d, r).file)
    BY <1>1, ExecuteIsQuiet, QuietKeeps
  <2> QED BY <2>1, <2>2 DEF Handle, Ask
<1>6. CASE q \in {Ask("DisbursementReconcile", <<d, b>>) : d \in Versions, b \in BOOLEAN}
  <2>1. PICK d \in Versions, b \in BOOLEAN : q = Ask("DisbursementReconcile", <<d, b>>)
    BY <1>6
  <2>2. FileInv(DisbursementReconcile(f, d, b).file)
    BY <1>1, OutOfAccountIsQuiet, QuietKeeps
  <2> QED BY <2>1, <2>2 DEF Handle, Ask
<1>7. CASE q \in {Ask("BeneficiaryDisbursementConfirm", <<d, c>>) : d \in Versions, c \in Companies}
  <2>1. PICK d \in Versions, c \in Companies : q = Ask("BeneficiaryDisbursementConfirm", <<d, c>>)
    BY <1>7
  <2>2. FileInv(BeneficiaryDisbursementConfirm(f, d, c).file)
    BY <1>1, OutOfAccountIsQuiet, QuietKeeps
  <2> QED BY <2>1, <2>2 DEF Handle, Ask
<1> QED BY <1>2, <1>3, <1>4, <1>5, <1>6, <1>7 DEF AccountRequests

-----------------------------------------------------------------------------
(* Nor does the rest of the world.                                          *)

\* Time, the field and the assignment of the lot are quiet.
LEMMA WorldIsQuiet ==
  ASSUME NEW f \in File
  PROVE  /\ f.res = "held" => Quiet(f, [f EXCEPT !.late = TRUE])
         /\ Quiet(f, [f EXCEPT !.accepted = ~f.accepted])
         /\ \A c \in Companies : Quiet(f, [f EXCEPT !.assigned = c])
<1>1. Quiet(f, [f EXCEPT !.late = TRUE])
  <2>1. [f EXCEPT !.late = TRUE] \in File
    BY DEF File
  <2> QED BY <2>1, GrowsIsReflexive DEF Quiet, Grows, Unborn, File
<1>2. Quiet(f, [f EXCEPT !.accepted = ~f.accepted])
  <2>1. [f EXCEPT !.accepted = ~f.accepted] \in File
    BY DEF File
  <2> QED BY <2>1, GrowsIsReflexive DEF Quiet, Grows, Unborn, File
<1>3. ASSUME NEW c \in Companies PROVE Quiet(f, [f EXCEPT !.assigned = c])
  <2>1. [f EXCEPT !.assigned = c] \in File
    BY DEF File
  <2> QED BY <2>1, GrowsIsReflexive DEF Quiet, Grows, Unborn, File
<1> QED BY <1>1, <1>2, <1>3

\* Whoever ticks a task off claims nothing of the file.
LEMMA TickKeeps ==
  ASSUME NEW f, FileInv(f), NEW t \in f.tasks, t.status = "pending"
  PROVE  FileInv([f EXCEPT !.tasks = (f.tasks \ {t}) \cup {[t EXCEPT !.status = "ticked"]}])
<1>1. f \in File /\ t \in FileTask
  BY DEF FileInv, File
<1>2. PICK u : u = [t EXCEPT !.status = "ticked"]
  OBVIOUS
<1>3. u \in FileTask /\ u.subject = t.subject /\ u.source = t.source /\ u.status = "ticked"
  BY <1>1, <1>2 DEF FileTask
<1>4. PICK T : T = (f.tasks \ {t}) \cup {u}
  OBVIOUS
<1>5. T \in SUBSET FileTask
  BY <1>1, <1>3, <1>4 DEF File
<1>6. PICK g : g = [f EXCEPT !.tasks = T]
  OBVIOUS
<1>7. g \in File /\ g.tasks = T
  BY <1>1, <1>5, <1>6 DEF File
<1>8. Retold(f, g)
  BY <1>5, <1>6, <1>7 DEF Retold
<1>9. \A s \in T : Tells(f, s)
  <2>1. \A s \in f.tasks : Tells(f, s)
    BY DEF FileInv, TellsTruth
  <2>2. Tells(f, u)
    BY <1>3, <2>1 DEF Tells
  <2> QED BY <1>4, <2>1, <2>2
<1>10. FileInv(g)
  BY <1>1, <1>5, <1>7, <1>8, <1>9, RetoldSays DEF FileInv, TellsTruth
<1> QED BY <1>2, <1>4, <1>6, <1>10

FileIsTrue == FileInv(file)

\* Every request and every step of the world keeps the file true.
LEMMA FileStepKeeps == FileIsTrue /\ [FileNext]_file => FileIsTrue'
<1> SUFFICES ASSUME FileInv(file), [FileNext]_file PROVE FileInv(file')
  BY DEF FileIsTrue
<1>1. ASSUME NEW q \in SaleRequests \cup AccountRequests, Serve(q) PROVE FileInv(file')
  BY <1>1, SaleRequestKeeps, AccountRequestKeeps DEF Serve
<1>2. CASE Passes \/ FieldReports \/ Reassigned
  <2>1. file \in File
    BY DEF FileInv
  <2>2. Quiet(file, file')
    BY <1>2, <2>1, WorldIsQuiet DEF Passes, FieldReports, Reassigned
  <2> QED BY <2>2, QuietKeeps
<1>3. CASE Ticks
  BY <1>3, TickKeeps DEF Ticks
<1>4. CASE UNCHANGED file
  BY <1>4
<1> QED BY <1>1, <1>2, <1>3, <1>4 DEF FileNext

LEMMA FileInvSaysIt == FileIsTrue => InboxFollowsFile
BY DEF FileIsTrue, FileInv, TellsTruth, Tells, InboxFollowsFile

-----------------------------------------------------------------------------
\* What the inboxes say of a file is so, whatever is asked of it and however
\* often (apps/sales/notifications: notify_user, close_tasks).
THEOREM InboxFollowsFileCorrect == FileSpec => []InboxFollowsFile
<1>1. file = Empty => FileIsTrue
  BY EmptyIsAFile, NothingToldIsTrue DEF FileIsTrue
<1> QED BY <1>1, FileStepKeeps, FileInvSaysIt, PTL DEF FileSpec

-----------------------------------------------------------------------------
(* An answer settles the matter.                                            *)

\* once answered f, and twice what once left.
Final(f, once, twice) ==
  /\ once.code \in {404, 409} => once.file \in {f, Expire(f), Released(f)}
  /\ once.code \in {200, 201} => twice.file = once.file /\ twice.code # 201

\* The hold has run out, and nobody has paid or says so.
Lapsed(f) == f.res = "held" /\ f.late /\ (\A r \in References : f.amount[r] = 0) /\ Pending(f) = {}

\* A hold is released once, and one that can be acted upon had not lapsed.
LEMMA ExpireOf ==
  ASSUME NEW f \in File
  PROVE  /\ ~Lapsed(f) => Expire(f) = f
         /\ Lapsed(f) => Expire(f).res = "expired"
         /\ Expire(Expire(f)) = Expire(f)
         /\ Expire(f).res = "none" <=> f.res = "none"
         /\ Expire(f).res \in {"held", "reserved", "committed"} => ~Lapsed(f) /\ Expire(f) = f
<1>1. ~Lapsed(f) => Expire(f) = f
  BY DEF Lapsed, Expire
<1>2. ASSUME Lapsed(f) PROVE Expire(f) \in File /\ Expire(f).res = "expired" /\ Expire(Expire(f)) = Expire(f)
  <2>1. Expire(f) = [f EXCEPT !.res = "expired"]
    BY <1>2 DEF Lapsed, Expire
  <2>2. PICK g : g = [f EXCEPT !.res = "expired"]
    OBVIOUS
  <2>3. g \in File /\ g.res = "expired"
    BY <2>2 DEF File
  <2>4. Expire(g) = g
    BY <2>3 DEF Expire
  <2> QED BY <2>1, <2>2, <2>3, <2>4
<1>3. Lapsed(f) => f.res = "held"
  BY DEF Lapsed
<1> QED BY <1>1, <1>2, <1>3

\* An eligibility is released once.
LEMMA ReleasedOf ==
  ASSUME NEW f \in File
  PROVE  /\ Released(Released(f)) = Released(f)
         /\ f.accepted => Released(f) = f
         /\ Released(f) \in File /\ DOMAIN Released(f).out = DOMAIN f.out /\ Released(f).accepted = f.accepted
<1>1. Released(f) \in File /\ DOMAIN Released(f).out = DOMAIN f.out /\ Released(f).accepted = f.accepted
  BY ReleasedIsQuiet DEF Quiet, Released, File
<1>2. ASSUME NEW g \in File, g.accepted \/ \A d \in DOMAIN g.out : g.out[d].status # "eligible"
      PROVE  Released(g) = g
  <2>1. [d \in DOMAIN g.out |->
           IF g.out[d].status = "eligible" /\ ~g.accepted THEN [g.out[d] EXCEPT !.status = "draft"] ELSE g.out[d]]
          = [d \in DOMAIN g.out |-> g.out[d]]
    BY <1>2
  <2>2. g.out = [d \in DOMAIN g.out |-> g.out[d]]
    BY DEF File
  <2>3. g = [g EXCEPT !.out = g.out]
    BY DEF File
  <2> QED BY <2>1, <2>2, <2>3 DEF Released
<1>3. ASSUME ~f.accepted, NEW d \in DOMAIN f.out PROVE Released(f).out[d].status # "eligible"
  <2>1. Released(f).out[d] = IF f.out[d].status = "eligible" THEN [f.out[d] EXCEPT !.status = "draft"] ELSE f.out[d]
    BY <1>3 DEF Released, File
  <2>2. f.out[d] \in OutRow
    BY RowOfOut
  <2> QED BY <2>1, <2>2 DEF OutRow
<1> QED BY <1>1, <1>2, <1>3

LEMMA ListsAreFinal ==
  ASSUME NEW f \in File
  PROVE  /\ Final(f, Done(f), Done(f))
         /\ Final(f, Done(Expire(f)), Done(Expire(Expire(f))))
         /\ Final(f, Done(Released(f)), Done(Released(Released(f))))
         /\ \A a : Final(f, NotFound(f), a) /\ Final(f, Conflict(f), a) /\ Final(f, Conflict(Expire(f)), a)
                   /\ Final(f, Conflict(Released(f)), a)
BY ExpireOf, ReleasedOf DEF Final, Done, NotFound, Conflict, Reply

\* What a request did not find or did not allow, and what it did.
LEMMA Refused ==
  ASSUME NEW f, NEW a, a \in {NotFound(f), Conflict(f), Conflict(Expire(f)), Conflict(Released(f))}
  PROVE  \A b : Final(f, a, b)
BY DEF Final, NotFound, Conflict, Reply
LEMMA Accepted ==
  ASSUME NEW f, NEW g, NEW a \in {Done(g), Created(g)}, NEW b \in {NotFound(g), Conflict(g), Done(g)}
  PROVE  Final(f, a, b) /\ a.file = g
BY DEF Final, NotFound, Conflict, Done, Created, Reply

LEMMA CancelIsFinal ==
  ASSUME NEW f \in File
  PROVE  Final(f, CancelReservation(f), CancelReservation(CancelReservation(f).file))
<1>1. PICK g : g = [f EXCEPT !.res = "cancelled"]
  OBVIOUS
<1>2. g \in File /\ g.res = "cancelled"
  BY <1>1 DEF File
<1>3. CancelReservation(g) = Conflict(g)
  <2>1. Expire(g) = g
    BY <1>2, ExpireOf DEF Lapsed
  <2> QED BY <1>2, <2>1 DEF CancelReservation
<1>4. CancelReservation(f) \in {NotFound(f), Conflict(Expire(f)), Done(g)}
  BY <1>1 DEF CancelReservation
<1> QED BY <1>3, <1>4, Refused, Accepted

LEMMA ReservationCreateIsFinal ==
  ASSUME NEW f \in File
  PROVE  Final(f, ReservationCreate(f), ReservationCreate(ReservationCreate(f).file))
<1>1. PICK g : g = [Empty EXCEPT !.res = "held", !.accepted = f.accepted, !.assigned = f.assigned, !.out = f.out]
  OBVIOUS
<1>2. PICK h : h = ReservationRequested(g)
  OBVIOUS
<1>3. h.res = "held" /\ h.late = FALSE
  <2>1. g.res = "held" /\ g.late = FALSE /\ DOMAIN g = DOMAIN Empty
    BY <1>1 DEF Empty
  <2>2. PICK T : h = [g EXCEPT !.tasks = T]
    BY <1>2 DEF ReservationRequested, Notify
  <2> QED BY <2>1, <2>2 DEF Empty
<1>4. ReservationCreate(h) = Conflict(h)
  BY <1>3 DEF ReservationCreate, Published, Expire
<1>5. ReservationCreate(f) \in {Conflict(Expire(f)), Created(h)}
  BY <1>1, <1>2 DEF ReservationCreate
<1> QED BY <1>4, <1>5, Refused, Accepted

\* A version in progress refuses another.
LEMMA ContractCreateIsFinal ==
  ASSUME NEW f \in File
  PROVE  Final(f, AdminContractCreate(f), AdminContractCreate(AdminContractCreate(f).file))
<1>1. PICK c : c = Append(f.contracts, "draft")
  OBVIOUS
<1>2. PICK g : g = [f EXCEPT !.contracts = c]
  OBVIOUS
<1>3. InProgress(g) /\ g.res = f.res /\ (Lapsed(g) <=> Lapsed(f)) /\ g \in File
  <2>1. f.contracts \in Seq(ContractStatus)
    BY DEF File, ContractStatus
  <2>2. g.contracts = c /\ g.res = f.res /\ g.late = f.late /\ g.amount = f.amount /\ g.notices = f.notices
    BY <1>2 DEF File
  <2>3. Len(f.contracts) + 1 \in DOMAIN c /\ c[Len(f.contracts) + 1] = "draft"
    BY <1>1, <2>1
  <2>4. c \in Seq(ContractStatus)
    BY <1>1, <2>1 DEF ContractStatus
  <2> QED BY <1>2, <2>2, <2>3, <2>4, ContractsAreQuiet DEF InProgress, Lapsed, Pending, Quiet
<1>4. ASSUME Contractable(f), f.res # "none" PROVE AdminContractCreate(g) = Conflict(g)
  <2>1. ~Lapsed(f)
    BY <1>4, ExpireOf DEF Contractable, Blocking
  <2> QED BY <1>3, <1>4, <2>1, ExpireOf DEF AdminContractCreate
<1>5. \/ AdminContractCreate(f) \in {NotFound(f), Conflict(Expire(f))}
      \/ Contractable(f) /\ f.res # "none" /\ AdminContractCreate(f) = Created(g)
  BY <1>1, <1>2 DEF AdminContractCreate
<1> QED BY <1>4, <1>5, Refused, Accepted

LEMMA ContractStepIsFinal ==
  ASSUME NEW f \in File, NEW v, NEW from, NEW to \in ContractStatus
  PROVE  Final(f, ContractStep(f, v, from, to), ContractStep(ContractStep(f, v, from, to).file, v, from, to))
<1>1. PICK g : g = [f EXCEPT !.contracts[v] = to]
  OBVIOUS
<1>2. ASSUME v \in DOMAIN f.contracts, f.contracts[v] = from, Contractable(f)
      PROVE  ContractStep(g, v, from, to) \in {Conflict(g), Done(g)}
  <2>1. PICK c : c = [f.contracts EXCEPT ![v] = to]
    OBVIOUS
  <2>2. f.contracts \in Seq(ContractStatus)
    BY DEF File, ContractStatus
  <2>3. c \in Seq(ContractStatus) /\ DOMAIN c = DOMAIN f.contracts /\ c[v] = to
    BY <1>2, <2>1, <2>2
  <2>4. /\ g = [f EXCEPT !.contracts = c] /\ g \in File /\ g.contracts = c
    BY <1>1, <2>1, <2>3, ContractsAreQuiet DEF Quiet, File
  <2>5. CASE from # to
    BY <1>2, <2>3, <2>4, <2>5 DEF ContractStep
  <2>6. CASE from = to
    <3>1. c = f.contracts
      BY <1>2, <2>1, <2>2, <2>6
    <3>2. f = [f EXCEPT !.contracts = f.contracts]
      BY DEF File
    <3>3. g = f
      BY <2>4, <3>1, <3>2
    <3>4. [g EXCEPT !.contracts[v] = to] = g
      BY <1>1, <3>3
    <3> QED BY <1>2, <3>3, <3>4 DEF ContractStep
  <2> QED BY <2>5, <2>6
<1>3. \/ ContractStep(f, v, from, to) \in {NotFound(f), Conflict(f), Conflict(Expire(f))}
      \/ /\ v \in DOMAIN f.contracts /\ f.contracts[v] = from /\ Contractable(f)
         /\ ContractStep(f, v, from, to) = Done(g)
  BY <1>1 DEF ContractStep
<1> QED BY <1>2, <1>3, Refused, Accepted

LEMMA ContractsAreFinal ==
  ASSUME NEW f \in File, NEW v
  PROVE  /\ Final(f, AdminContractUpdate(f, v), AdminContractUpdate(AdminContractUpdate(f, v).file, v))
         /\ \A a \in DOMAIN Transitions :
              Final(f, AdminContractTransition(f, v, a), AdminContractTransition(AdminContractTransition(f, v, a).file, v, a))
<1>1. \A from, to \in ContractStatus :
        Final(f, ContractStep(f, v, from, to), ContractStep(ContractStep(f, v, from, to).file, v, from, to))
  BY ContractStepIsFinal
<1>2. "draft" \in ContractStatus
  BY DEF ContractStatus
<1>3. \A a \in DOMAIN Transitions : Transitions[a].from \in ContractStatus /\ Transitions[a].to \in ContractStatus
  BY DEF Transitions, ContractStatus
<1> QED BY <1>1, <1>2, <1>3 DEF AdminContractUpdate, AdminContractTransition

\* A signature sent again finds the version signed.
LEMMA SignIsFinal ==
  ASSUME NEW f \in File, NEW v
  PROVE  Final(f, MyContractSign(f, v), MyContractSign(MyContractSign(f, v).file, v))
<1>1. PICK s : s = ContractStep(f, v, "approved", "signed")
  OBVIOUS
<1>2. PICK g : g = [f EXCEPT !.contracts[v] = "signed"]
  OBVIOUS
<1>3. PICK e : e = Evaluate(g)
  OBVIOUS
<1>4. ASSUME v \in DOMAIN f.contracts
      PROVE  v \in DOMAIN e.contracts /\ e.contracts[v] = "signed"
  <2>1. f.contracts \in Seq(ContractStatus)
    BY DEF File, ContractStatus
  <2>2. g.contracts = [f.contracts EXCEPT ![v] = "signed"]
    BY <1>2 DEF File
  <2>3. PICK r : e = [g EXCEPT !.res = r]
    BY <1>3 DEF Evaluate
  <2>4. e.contracts = g.contracts
    BY <1>2, <2>3 DEF File
  <2> QED BY <1>4, <2>1, <2>2, <2>4
<1>5. \/ s \in {NotFound(f), Conflict(f), Conflict(Expire(f))}
      \/ v \in DOMAIN f.contracts /\ s = Done(g)
  BY <1>1, <1>2 DEF ContractStep
<1>6. \/ MyContractSign(f, v) \in {NotFound(f), Conflict(f), Conflict(Expire(f))}
      \/ v \in DOMAIN f.contracts /\ MyContractSign(f, v) = Done(e)
  <2>1. MyContractSign(f, v) \in {Conflict(f), Reply(IF s.code = 200 THEN Evaluate(s.file) ELSE s.file, s.code)}
    BY <1>1 DEF MyContractSign
  <2>2. CASE s \in {NotFound(f), Conflict(f), Conflict(Expire(f))}
    BY <2>1, <2>2 DEF NotFound, Conflict, Reply
  <2>3. CASE v \in DOMAIN f.contracts /\ s = Done(g)
    BY <1>3, <2>1, <2>3 DEF Done, Conflict, Reply
  <2> QED BY <1>5, <2>2, <2>3
<1>7. ASSUME v \in DOMAIN f.contracts PROVE MyContractSign(e, v) = Conflict(e)
  <2>1. ContractStep(e, v, "approved", "signed") = Conflict(e)
    BY <1>4, <1>7 DEF ContractStep
  <2>2. e.contracts[v] # "approved"
    BY <1>4, <1>7
  <2> QED BY <2>1, <2>2 DEF MyContractSign, Conflict, Reply
<1> QED BY <1>6, <1>7, Refused, Accepted

-----------------------------------------------------------------------------
LEMMA RetoldKeepsTheRest ==
  ASSUME NEW f \in File, NEW T, NEW g, g = [f EXCEPT !.tasks = T]
  PROVE  /\ g.res = f.res /\ g.late = f.late /\ g.valid = f.valid /\ g.calls = f.calls /\ g.notices = f.notices
         /\ g.amount = f.amount /\ g.alloc = f.alloc /\ (Lapsed(g) <=> Lapsed(f)) /\ (~Lapsed(g) => Expire(g) = g)
<1>1. /\ g.res = f.res /\ g.late = f.late /\ g.valid = f.valid /\ g.calls = f.calls /\ g.notices = f.notices
      /\ g.amount = f.amount /\ g.alloc = f.alloc
  BY DEF File
<1>2. Lapsed(g) <=> Lapsed(f)
  BY <1>1 DEF Lapsed, Pending
<1>3. ~Lapsed(g) => Expire(g) = g
  BY DEF Lapsed, Expire
<1> QED BY <1>1, <1>2, <1>3

\* A call that is issued: what the file then says.
LEMMA IssuedCall ==
  ASSUME NEW f \in File, NEW k \in Kinds, NEW g, g = IssueCall(f, k)
  PROVE  /\ g.res = f.res /\ g.late = f.late /\ g.valid = f.valid /\ k \in g.calls
         /\ (Lapsed(g) <=> Lapsed(f)) /\ (~Lapsed(g) => Expire(g) = g)
<1>1. PICK h : h = [f EXCEPT !.calls = f.calls \cup {k}]
  OBVIOUS
<1>2. /\ h \in File /\ h.res = f.res /\ h.late = f.late /\ h.valid = f.valid /\ h.amount = f.amount
      /\ h.notices = f.notices /\ k \in h.calls
  BY <1>1 DEF File
<1>3. PICK T : g = [h EXCEPT !.tasks = T]
  BY <1>1 DEF IssueCall, PaymentCallIssued, Notify
<1>4. Lapsed(h) <=> Lapsed(f)
  BY <1>2 DEF Lapsed, Pending
<1> QED BY <1>2, <1>3, <1>4, RetoldKeepsTheRest

\* Validated twice, a reservation is validated once.
LEMMA ValidateIsFinal ==
  ASSUME NEW f, FileInv(f)
  PROVE  Final(f, ReservationValidate(f), ReservationValidate(ReservationValidate(f).file))
<1>1. PICK g : g = [f EXCEPT !.valid = TRUE, !.late = FALSE]
  OBVIOUS
<1>2. f \in File /\ g \in File /\ g.valid = TRUE /\ g.late = FALSE /\ g.res = f.res
  BY <1>1 DEF File, FileInv
<1>3. PICK h : h = ReservationValidated(g)
  OBVIOUS
<1>4. h \in File /\ h.valid = TRUE /\ h.late = FALSE /\ h.res = f.res
  <2>1. PICK T : T = {IF t.subject = Reservation /\ t.source[1] = "reservation_to_validate" /\ t.status = "pending"
                      THEN [t EXCEPT !.status = "done"] ELSE t : t \in g.tasks}
    OBVIOUS
  <2>2. h = [g EXCEPT !.tasks = T]
    BY <1>3, <2>1 DEF ReservationValidated, Close
  <2>3. T \in SUBSET FileTask
    <3>1. g.tasks \in SUBSET FileTask
      BY <1>2 DEF File
    <3>2. \A t \in FileTask : [t EXCEPT !.status = "done"] \in FileTask
      BY DEF FileTask
    <3> QED BY <2>1, <3>1, <3>2
  <2> QED BY <1>2, <2>2, <2>3 DEF File
<1>5. PICK i : i = IssueCall(h, "frais")
  OBVIOUS
<1>6. i.valid = TRUE /\ i.late = FALSE /\ i.res = f.res /\ Expire(i) = i
  <2>1. "frais" \in Kinds
    BY DEF Kinds
  <2> QED BY <1>4, <1>5, <2>1, IssuedCall DEF Lapsed
<1>7. f.res # "none" => ReservationValidate(i) = Conflict(i)
  BY <1>6 DEF ReservationValidate
<1>8. \/ ReservationValidate(f) \in {NotFound(f), Conflict(Expire(f))}
      \/ f.res # "none" /\ ReservationValidate(f) = Done(i)
  BY <1>1, <1>3, <1>5 DEF ReservationValidate
<1> QED BY <1>7, <1>8, Refused, Accepted

LEMMA CallIssueIsFinal ==
  ASSUME NEW f \in File, NEW k \in Kinds
  PROVE  Final(f, TeamPaymentCallIssue(f, k), TeamPaymentCallIssue(TeamPaymentCallIssue(f, k).file, k))
<1>1. PICK g : g = IssueCall(f, k)
  OBVIOUS
<1>2. ASSUME f.res # "none", Candidate(Expire(f), k) PROVE TeamPaymentCallIssue(g, k) = Conflict(g)
  <2>1. Expire(f).res \in {"held", "reserved"}
    BY <1>2 DEF Candidate
  <2>2. ~Lapsed(f)
    BY <2>1, ExpireOf
  <2>3. Expire(g) = g /\ k \in g.calls /\ g.res # "none"
    BY <1>1, <1>2, <2>2, IssuedCall
  <2> QED BY <2>3 DEF TeamPaymentCallIssue, Candidate
<1>3. \/ TeamPaymentCallIssue(f, k) \in {NotFound(f), Conflict(Expire(f))}
      \/ f.res # "none" /\ Candidate(Expire(f), k) /\ TeamPaymentCallIssue(f, k) = Created(g)
  BY <1>1 DEF TeamPaymentCallIssue
<1> QED BY <1>2, <1>3, Refused, Accepted

-----------------------------------------------------------------------------
\* The same movement again is the receipt that is there (T10).
LEMMA ReceiptIsFinal ==
  ASSUME NEW f \in File, NEW r \in References, NEW a \in Nat \ {0}
  PROVE  Final(f, ReceiptCreate(f, r, a), ReceiptCreate(ReceiptCreate(f, r, a).file, r, a))
<1>1. PICK g : g = [f EXCEPT !.amount[r] = a]
  OBVIOUS
<1>2. g.amount[r] = a /\ g.res = f.res
  BY <1>1 DEF File
<1>3. f.res # "none" => ReceiptCreate(g, r, a) = Done(g)
  BY <1>2 DEF ReceiptCreate
<1>4. \/ ReceiptCreate(f, r, a) \in {NotFound(f), Conflict(f), Conflict(Expire(f)), Done(f)}
      \/ f.res # "none" /\ ReceiptCreate(f, r, a) = Created(g)
  BY <1>1 DEF ReceiptCreate
<1>5. ReceiptCreate(f, r, a) = Done(f) => ReceiptCreate(ReceiptCreate(f, r, a).file, r, a) = Done(f)
  BY DEF Done, Reply
<1> QED BY <1>3, <1>4, <1>5, Refused, Accepted

LEMMA ReconcileIsFinal ==
  ASSUME NEW f \in File, NEW r \in References
  PROVE  Final(f, ReceiptReconcile(f, r), ReceiptReconcile(ReceiptReconcile(f, r).file, r))
<1>1. PICK g : g = [f EXCEPT !.reconciled = f.reconciled \cup {r}]
  OBVIOUS
<1>2. PICK e : e = Evaluate(g)
  OBVIOUS
<1>3. r \in e.reconciled /\ e.amount = f.amount
  <2>1. PICK x : e = [g EXCEPT !.res = x]
    BY <1>2 DEF Evaluate
  <2> QED BY <1>1, <2>1 DEF File
<1>4. f.amount[r] # 0 => ReceiptReconcile(e, r) = Conflict(e)
  BY <1>3 DEF ReceiptReconcile
<1>5. \/ ReceiptReconcile(f, r) \in {NotFound(f), Conflict(f)}
      \/ f.amount[r] # 0 /\ ReceiptReconcile(f, r) = Done(e)
  BY <1>1, <1>2 DEF ReceiptReconcile
<1> QED BY <1>4, <1>5, Refused, Accepted

\* The same notice again is the one that waits.
LEMMA NoticeCreateIsFinal ==
  ASSUME NEW f \in File, NEW k \in Kinds, NEW r \in References
  PROVE  Final(f, MyPaymentNoticeCreate(f, k, r), MyPaymentNoticeCreate(MyPaymentNoticeCreate(f, k, r).file, k, r))
<1>1. PICK row : row = [call |-> k, amount |-> Due - AllocatedTo(f, k), ref |-> r, status |-> "declared"]
  OBVIOUS
<1>2. PICK o : o = Append(f.notices, row)
  OBVIOUS
<1>3. PICK g : g = [f EXCEPT !.notices = o]
  OBVIOUS
<1>4. PICK n : n = Len(f.notices) + 1
  OBVIOUS
<1>5. PICK h : h = PaymentDeclared(g, n)
  OBVIOUS
<1>6. h.calls = f.calls /\ h.notices = o
  <2>1. PICK T : h = [g EXCEPT !.tasks = T]
    BY <1>5 DEF PaymentDeclared, Notify
  <2> QED BY <1>3, <2>1 DEF File
<1>7. n \in DOMAIN o /\ o[n] = row /\ row.call = k /\ row.ref = r /\ row.status = "declared"
  <2>1. f.notices \in Seq(NoticeRow)
    BY DEF File
  <2> QED BY <1>1, <1>2, <1>4, <2>1
<1>8. n \in {m \in Pending(h) : h.notices[m].call = k} /\ h.notices[n].ref = r
  BY <1>6, <1>7 DEF Pending
<1>9. k \in f.calls => MyPaymentNoticeCreate(h, k, r) = Done(h)
  BY <1>6, <1>8 DEF MyPaymentNoticeCreate
<1>10. \/ MyPaymentNoticeCreate(f, k, r) \in {NotFound(f), Conflict(f), Conflict(Expire(f)), Done(f)}
       \/ k \in f.calls /\ MyPaymentNoticeCreate(f, k, r) = Created(h)
  BY <1>1, <1>2, <1>3, <1>4, <1>5 DEF MyPaymentNoticeCreate
<1>11. MyPaymentNoticeCreate(f, k, r) = Done(f) =>
         MyPaymentNoticeCreate(MyPaymentNoticeCreate(f, k, r).file, k, r) = Done(f)
  BY DEF Done, Reply
<1> QED BY <1>9, <1>10, <1>11, Refused, Accepted

\* A notice is decided once.
LEMMA DecisionIsFinal ==
  ASSUME NEW f, FileInv(f), NEW n, NEW r
  PROVE  /\ r \in References =>
              Final(f, PaymentNoticeConfirm(f, n, r), PaymentNoticeConfirm(PaymentNoticeConfirm(f, n, r).file, n, r))
         /\ Final(f, PaymentNoticeReject(f, n), PaymentNoticeReject(PaymentNoticeReject(f, n).file, n))
<1>1. CASE n \notin Pending(f)
  <2>1. PaymentNoticeConfirm(f, n, r) \in {NotFound(f), Conflict(f)} /\ PaymentNoticeReject(f, n) \in {NotFound(f), Conflict(f)}
    BY <1>1 DEF PaymentNoticeConfirm, PaymentNoticeReject
  <2> QED BY <2>1, Refused
<1>2. CASE n \in Pending(f)
  <2>1. \A g : n \in DOMAIN g.notices /\ n \notin Pending(g) =>
          PaymentNoticeConfirm(g, n, r) = Conflict(g) /\ PaymentNoticeReject(g, n) = Conflict(g)
    BY DEF PaymentNoticeConfirm, PaymentNoticeReject
  <2>2. ASSUME NEW a, Decides(f, n, a), NEW b, b = PaymentNoticeConfirm(a.file, n, r) \/ b = PaymentNoticeReject(a.file, n)
        PROVE  Final(f, a, b)
    <3>1. CASE a \in {Conflict(f), Conflict(Expire(f))}
      BY <3>1, Refused
    <3>2. CASE \E g \in File : a = Done(g) /\ n \in DOMAIN g.notices /\ n \notin Pending(g)
      <4>1. PICK g \in File : a = Done(g) /\ n \in DOMAIN g.notices /\ n \notin Pending(g)
        BY <3>2
      <4>2. a.file = g
        BY <4>1 DEF Done, Reply
      <4>3. b = Conflict(g)
        BY <2>1, <2>2, <4>1, <4>2
      <4> QED BY <4>1, <4>3, Accepted
    <3> QED BY <2>2, <3>1, <3>2 DEF Decides
  <2> QED BY <1>2, <2>2, ConfirmDecides, RejectDecides
<1> QED BY <1>1, <1>2

-----------------------------------------------------------------------------
(* The account.                                                             *)

\* A disbursement that was changed has these fields.
LEMMA ChangedRow ==
  ASSUME NEW f \in File, NEW d \in DOMAIN f.out, NEW row \in OutRow, NEW g, g = [f EXCEPT !.out[d] = row]
  PROVE  /\ g \in File /\ DOMAIN g.out = DOMAIN f.out /\ g.out[d] = row /\ g.accepted = f.accepted
         /\ g.assigned = f.assigned
<1>1. f.out \in Seq(OutRow)
  BY DEF File
<1>2. PICK o : o = [f.out EXCEPT ![d] = row]
  OBVIOUS
<1>3. o \in Seq(OutRow) /\ DOMAIN o = DOMAIN f.out /\ o[d] = row
  BY <1>1, <1>2
<1>4. g = [f EXCEPT !.out = o]
  BY <1>2
<1> QED BY <1>3, <1>4 DEF File

LEMMA DisbursementCreateIsFinal ==
  ASSUME NEW f \in File, NEW a \in Nat
  PROVE  Final(f, DisbursementCreate(f, a), DisbursementCreate(DisbursementCreate(f, a).file, a))
<1>1. PICK row : row = [amount |-> a, to |-> f.assigned, status |-> "draft",
                        flow |-> "none", ref |-> None, confirmed |-> FALSE]
  OBVIOUS
<1>2. PICK g : g = [f EXCEPT !.out = Append(f.out, row)]
  OBVIOUS
<1>3. PICK n : n = Len(f.out) + 1
  OBVIOUS
<1>4. n \in DOMAIN g.out /\ g.out[n].status = "draft" /\ g.out[n].amount = a
  <2>1. f.out \in Seq(OutRow)
    BY DEF File
  <2>2. g.out = Append(f.out, row)
    BY <1>2 DEF File
  <2> QED BY <1>1, <1>3, <2>1, <2>2
<1>5. DisbursementCreate(g, a) = Done(g)
  BY <1>4 DEF DisbursementCreate
<1>6. DisbursementCreate(f, a) \in {Done(f), Conflict(f), Created(g)}
  BY <1>1, <1>2 DEF DisbursementCreate
<1>7. DisbursementCreate(f, a) = Done(f) => DisbursementCreate(DisbursementCreate(f, a).file, a) = Done(f)
  BY DEF Done, Reply
<1> QED BY <1>5, <1>6, <1>7, Refused, Accepted

LEMMA EligibilityIsFinal ==
  ASSUME NEW f \in File, NEW d
  PROVE  Final(f, DisbursementEligibility(f, d), DisbursementEligibility(DisbursementEligibility(f, d).file, d))
<1>1. PICK g : g = Released(f)
  OBVIOUS
<1>2. g \in File /\ Released(g) = g /\ DOMAIN g.out = DOMAIN f.out
  BY <1>1, ReleasedOf
<1>3. PICK h : h = [g EXCEPT !.out[d].status = "eligible"]
  OBVIOUS
<1>4. ASSUME d \in DOMAIN f.out, g.accepted PROVE DisbursementEligibility(h, d) = Done(h)
  <2>1. PICK row : row = [g.out[d] EXCEPT !.status = "eligible"]
    OBVIOUS
  <2>2. row \in OutRow /\ row.status = "eligible"
    BY <1>2, <1>4, <2>1, RowOfOut DEF OutRow
  <2>3. h = [g EXCEPT !.out[d] = row]
    BY <1>3, <2>1
  <2>4. h \in File /\ DOMAIN h.out = DOMAIN f.out /\ h.out[d] = row /\ h.accepted
    BY <1>2, <1>4, <2>2, <2>3, ChangedRow
  <2>5. Released(h) = h
    BY <2>4, ReleasedOf
  <2> QED BY <1>4, <2>2, <2>4, <2>5 DEF DisbursementEligibility
<1>5. ASSUME d \in DOMAIN f.out, g.out[d].status = "eligible" PROVE DisbursementEligibility(g, d) = Done(g)
  BY <1>2, <1>5 DEF DisbursementEligibility
<1>6. \/ DisbursementEligibility(f, d) \in {NotFound(f), Conflict(g)}
      \/ /\ d \in DOMAIN f.out /\ g.out[d].status = "eligible"
         /\ DisbursementEligibility(f, d) = Done(g)
      \/ /\ d \in DOMAIN f.out /\ g.accepted
         /\ DisbursementEligibility(f, d) = Done(h)
  BY <1>1, <1>3 DEF DisbursementEligibility
<1> QED BY <1>1, <1>4, <1>5, <1>6, Refused, Accepted

LEMMA ExecuteIsFinal ==
  ASSUME NEW f \in File, NEW d, NEW r \in References
  PROVE  Final(f, DisbursementExecute(f, d, r), DisbursementExecute(DisbursementExecute(f, d, r).file, d, r))
<1>1. PICK g : g = Released(f)
  OBVIOUS
<1>2. g \in File /\ DOMAIN g.out = DOMAIN f.out
  BY <1>1, ReleasedOf
<1>3. PICK h : h = [g EXCEPT !.out[d].status = "executed", !.out[d].flow = "bank_executed", !.out[d].ref = r]
  OBVIOUS
<1>4. ASSUME d \in DOMAIN f.out PROVE DisbursementExecute(h, d, r) = Done(h)
  <2>1. PICK row : row = [g.out[d] EXCEPT !.status = "executed", !.flow = "bank_executed", !.ref = r]
    OBVIOUS
  <2>2. row \in OutRow /\ row.ref = r
    <3>1. PICK old \in OutRow : old = g.out[d]
      BY <1>2, <1>4, RowOfOut
    <3>2. row = [old EXCEPT !.status = "executed", !.flow = "bank_executed", !.ref = r]
      BY <2>1, <3>1
    <3>3. row \in OutRow
      BY <3>2 DEF OutRow
    <3>4. row.ref = r
      BY <3>2 DEF OutRow
    <3> QED BY <3>3, <3>4
  <2>3. h = [g EXCEPT !.out[d] = row]
    BY <1>2, <1>3, <1>4, <2>1, RowOfOut DEF File, OutRow
  <2>4. DOMAIN h.out = DOMAIN f.out /\ h.out[d] = row
    BY <1>2, <1>4, <2>2, <2>3, ChangedRow
  <2> QED BY <1>4, <2>2, <2>4 DEF DisbursementExecute
<1>5. \/ DisbursementExecute(f, d, r) \in {NotFound(f), Conflict(f), Conflict(g), Done(f)}
      \/ d \in DOMAIN f.out /\ DisbursementExecute(f, d, r) = Created(h)
  BY <1>1, <1>3 DEF DisbursementExecute
<1>6. DisbursementExecute(f, d, r) = Done(f) => DisbursementExecute(DisbursementExecute(f, d, r).file, d, r) = Done(f)
  BY DEF Done, Reply
<1> QED BY <1>1, <1>4, <1>5, <1>6, Refused, Accepted

LEMMA OutOfAccountIsFinal ==
  ASSUME NEW f \in File, NEW d
  PROVE  /\ Final(f, DisbursementCancel(f, d), DisbursementCancel(DisbursementCancel(f, d).file, d))
         /\ \A b \in BOOLEAN : Final(f, DisbursementReconcile(f, d, b), DisbursementReconcile(DisbursementReconcile(f, d, b).file, d, b))
         /\ \A c \in Companies : Final(f, BeneficiaryDisbursementConfirm(f, d, c),
                                       BeneficiaryDisbursementConfirm(BeneficiaryDisbursementConfirm(f, d, c).file, d, c))
<1>1. Final(f, DisbursementCancel(f, d), DisbursementCancel(DisbursementCancel(f, d).file, d))
  <2>1. PICK g : g = [f EXCEPT !.out[d].status = "cancelled"]
    OBVIOUS
  <2>2. ASSUME d \in DOMAIN f.out PROVE DisbursementCancel(g, d) = Done(g)
    <3>1. PICK row : row = [f.out[d] EXCEPT !.status = "cancelled"]
      OBVIOUS
    <3>2. row \in OutRow /\ row.status = "cancelled"
      BY <2>2, <3>1, RowOfOut DEF OutRow
    <3>3. g = [f EXCEPT !.out[d] = row]
      BY <2>1, <3>1
    <3>4. d \in DOMAIN g.out /\ g.out[d].status = "cancelled"
      BY <2>2, <3>2, <3>3, ChangedRow
    <3> QED BY <3>4 DEF DisbursementCancel
  <2>3. \/ DisbursementCancel(f, d) \in {NotFound(f), Conflict(f), Done(f)}
        \/ d \in DOMAIN f.out /\ DisbursementCancel(f, d) = Done(g)
    BY <2>1 DEF DisbursementCancel
  <2>4. DisbursementCancel(f, d) = Done(f) => DisbursementCancel(DisbursementCancel(f, d).file, d) = Done(f)
    BY DEF Done, Reply
  <2> QED BY <2>2, <2>3, <2>4, Refused, Accepted
<1>2. ASSUME NEW b \in BOOLEAN
      PROVE  Final(f, DisbursementReconcile(f, d, b), DisbursementReconcile(DisbursementReconcile(f, d, b).file, d, b))
  <2>1. PICK g : g = [f EXCEPT !.out[d].flow = "reconciled"]
    OBVIOUS
  <2>2. ASSUME d \in DOMAIN f.out PROVE DisbursementReconcile(g, d, b) = Conflict(g)
    <3>1. PICK row : row = [f.out[d] EXCEPT !.flow = "reconciled"]
      OBVIOUS
    <3>2. row \in OutRow /\ row.flow = "reconciled"
      BY <2>2, <3>1, RowOfOut DEF OutRow
    <3>3. g = [f EXCEPT !.out[d] = row]
      BY <2>1, <3>1
    <3>4. d \in DOMAIN g.out /\ g.out[d].flow = "reconciled"
      BY <2>2, <3>2, <3>3, ChangedRow
    <3> QED BY <3>4 DEF DisbursementReconcile
  <2>3. \/ DisbursementReconcile(f, d, b) \in {NotFound(f), Conflict(f)}
        \/ d \in DOMAIN f.out /\ DisbursementReconcile(f, d, b) = Done(g)
    BY <2>1 DEF DisbursementReconcile
  <2> QED BY <2>2, <2>3, Refused, Accepted
<1>3. ASSUME NEW c \in Companies
      PROVE  Final(f, BeneficiaryDisbursementConfirm(f, d, c),
                   BeneficiaryDisbursementConfirm(BeneficiaryDisbursementConfirm(f, d, c).file, d, c))
  <2>1. PICK g : g = [f EXCEPT !.out[d].confirmed = TRUE,
                      !.out[d].flow = IF @ = "bank_executed" THEN "beneficiary_confirmed" ELSE @]
    OBVIOUS
  <2>2. ASSUME d \in DOMAIN f.out, f.out[d].to = c, f.out[d].status = "executed"
        PROVE  BeneficiaryDisbursementConfirm(g, d, c) = Done(g)
    <3>1. PICK row : row = [f.out[d] EXCEPT !.confirmed = TRUE,
                      !.flow = IF f.out[d].flow = "bank_executed" THEN "beneficiary_confirmed" ELSE f.out[d].flow]
      OBVIOUS
    <3>2. row \in OutRow /\ row.confirmed /\ row.to = c /\ row.status = "executed"
      BY <2>2, <3>1, RowOfOut DEF OutRow
    <3>3. g = [f EXCEPT !.out[d] = row]
      BY <2>1, <2>2, <3>1, RowOfOut DEF File, OutRow
    <3>4. d \in DOMAIN g.out /\ g.out[d] = row
      BY <2>2, <3>2, <3>3, ChangedRow
    <3> QED BY <3>2, <3>4 DEF BeneficiaryDisbursementConfirm
  <2>3. \/ BeneficiaryDisbursementConfirm(f, d, c) \in {NotFound(f), Conflict(f), Done(f)}
        \/ /\ d \in DOMAIN f.out /\ f.out[d].to = c /\ f.out[d].status = "executed"
           /\ BeneficiaryDisbursementConfirm(f, d, c) = Done(g)
    BY <2>1 DEF BeneficiaryDisbursementConfirm
  <2>4. BeneficiaryDisbursementConfirm(f, d, c) = Done(f) =>
          BeneficiaryDisbursementConfirm(BeneficiaryDisbursementConfirm(f, d, c).file, d, c) = Done(f)
    BY DEF Done, Reply
  <2> QED BY <2>2, <2>3, <2>4, Refused, Accepted
<1> QED BY <1>1, <1>2, <1>3

\* The requests whose answer settles the matter, one after the other.
Answers(f, q) == Final(f, Handle(q, f), Handle(q, Handle(q, f).file))

\* The requests that name no row.
LEMMA PlainAnswersAreFinal ==
  ASSUME NEW f, FileInv(f), NEW v \in Views \cup {"ProgramAccountList", "ProgramAccount", "BeneficiaryDisbursementList"}
  PROVE  Answers(f, Ask(v, <<>>))
<1>1. f \in File /\ (Expire(f).res = "none" <=> f.res = "none")
  BY ExpireOf DEF FileInv
<1>2. CASE v \in {"PublicOffer", "AdminContractList", "MyContractList", "MyPaymentCallList", "FinanceFile",
                  "PaymentNoticeList", "BeneficiaryDisbursementList"}
  <2>1. \/ Handle(Ask(v, <<>>), f) = Done(f)
        \/ Handle(Ask(v, <<>>), f) = NotFound(f)
    BY <1>2 DEF Handle, Ask, PublicOffer, AdminContractList, MyContractList, MyPaymentCallList, FinanceFile,
                PaymentNoticeList, BeneficiaryDisbursementList
  <2>2. Done(f).file = f
    BY DEF Done, Reply
  <2> QED BY <1>1, <2>1, <2>2, ListsAreFinal DEF Answers
<1>3. CASE v \in {"CatalogLotList", "MyReservationList", "AdminReservationList", "TeamPaymentCallList"}
  <2>1. ASSUME NEW g PROVE \/ Handle(Ask(v, <<>>), g) = Done(Expire(g))
                           \/ g.res = "none" /\ Handle(Ask(v, <<>>), g) = NotFound(g)
    BY <1>3 DEF Handle, Ask, CatalogLotList, ListPublishedLots, MyReservationList, ListClientReservations,
                AdminReservationList, ListReservationsAsAdmin, TeamPaymentCallList
  <2>2. Done(Expire(f)).file = Expire(f)
    BY DEF Done, Reply
  <2>3. CASE Handle(Ask(v, <<>>), f) = Done(Expire(f))
    <3>1. Handle(Ask(v, <<>>), Expire(f)) \in {Done(Expire(Expire(f))), NotFound(Expire(f))}
      BY <2>1
    <3>2. Expire(Expire(f)) = Expire(f)
      BY <1>1, ExpireOf
    <3> QED BY <2>2, <2>3, <3>1, <3>2, Accepted DEF Answers
  <2>4. CASE Handle(Ask(v, <<>>), f) = NotFound(f)
    BY <2>4, Refused DEF Answers
  <2> QED BY <2>1, <2>3, <2>4
<1>4. CASE v \in {"ProgramAccountList", "ProgramAccount"}
  <2>1. \A g : Handle(Ask(v, <<>>), g) = Done(Released(g))
    BY <1>4 DEF Handle, Ask, ProgramAccountList, ProgramAccount
  <2>2. Done(Released(f)).file = Released(f)
    BY DEF Done, Reply
  <2> QED BY <1>1, <2>1, <2>2, ListsAreFinal DEF Answers
<1>5. CASE v \in {"MyReservationCancel", "AdminReservationCancel"}
  <2>1. \A g : Handle(Ask(v, <<>>), g) = CancelReservation(g)
    BY <1>5 DEF Handle, Ask, MyReservationCancel, AdminReservationCancel
  <2> QED BY <1>1, <2>1, CancelIsFinal DEF Answers
<1>6. CASE v = "ReservationCreate"
  <2>1. \A g : Handle(Ask(v, <<>>), g) = ReservationCreate(g)
    BY <1>6 DEF Handle, Ask
  <2> QED BY <1>1, <2>1, ReservationCreateIsFinal DEF Answers
<1>7. CASE v = "ReservationValidate"
  <2>1. \A g : Handle(Ask(v, <<>>), g) = ReservationValidate(g)
    BY <1>7 DEF Handle, Ask
  <2> QED BY <2>1, ValidateIsFinal DEF Answers
<1>8. CASE v = "AdminContractCreate"
  <2>1. \A g : Handle(Ask(v, <<>>), g) = AdminContractCreate(g)
    BY <1>8 DEF Handle, Ask
  <2> QED BY <1>1, <2>1, ContractCreateIsFinal DEF Answers
<1> QED BY <1>2, <1>3, <1>4, <1>5, <1>6, <1>7, <1>8 DEF Views

LEMMA ContractAnswersAreFinal ==
  ASSUME NEW f, FileInv(f), NEW q \in ContractRequests
  PROVE  Answers(f, q)
<1>1. f \in File
  BY DEF FileInv
<1>2. CASE \E v \in {"AdminContractUpdate", "MyContractSign"}, n \in Versions : q = Ask(v, <<n>>)
  <2>1. PICK v \in {"AdminContractUpdate", "MyContractSign"}, n \in Versions : q = Ask(v, <<n>>)
    BY <1>2
  <2>2. CASE v = "AdminContractUpdate"
    <3>1. \A g : Handle(q, g) = AdminContractUpdate(g, n)
      BY <2>1, <2>2 DEF Handle, Ask
    <3> QED BY <1>1, <3>1, ContractsAreFinal DEF Answers
  <2>3. CASE v = "MyContractSign"
    <3>1. \A g : Handle(q, g) = MyContractSign(g, n)
      BY <2>1, <2>3 DEF Handle, Ask
    <3> QED BY <1>1, <3>1, SignIsFinal DEF Answers
  <2> QED BY <2>1, <2>2, <2>3
<1>3. CASE \E n \in Versions, a \in DOMAIN Transitions : q = Ask("AdminContractTransition", <<n, a>>)
  <2>1. PICK n \in Versions, a \in DOMAIN Transitions : q = Ask("AdminContractTransition", <<n, a>>)
    BY <1>3
  <2>2. \A g : Handle(q, g) = AdminContractTransition(g, n, a)
    BY <2>1 DEF Handle, Ask
  <2> QED BY <1>1, <2>2, ContractsAreFinal DEF Answers
<1>4. \/ \E v \in {"AdminContractUpdate", "MyContractSign"}, n \in Versions : q = Ask(v, <<n>>)
      \/ \E n \in Versions, a \in DOMAIN Transitions : q = Ask("AdminContractTransition", <<n, a>>)
  BY DEF ContractRequests
<1> QED BY <1>2, <1>3, <1>4

\* An allocation is the one that may be made twice.
LEMMA PaymentAnswersAreFinal ==
  ASSUME NEW f, FileInv(f), NEW q \in PaymentRequests
  PROVE  \/ Answers(f, q)
         \/ /\ q.view = "AllocationCreate"
            /\ Handle(q, f).code \in {404, 409} => Handle(q, f).file = f
<1>1. f \in File
  BY DEF FileInv
<1>2. CASE \E k \in Kinds : q = Ask("TeamPaymentCallIssue", <<k>>)
  <2>1. PICK k \in Kinds : q = Ask("TeamPaymentCallIssue", <<k>>)
    BY <1>2
  <2>2. \A g : Handle(q, g) = TeamPaymentCallIssue(g, k)
    BY <2>1 DEF Handle, Ask
  <2> QED BY <1>1, <2>2, CallIssueIsFinal DEF Answers
<1>3. CASE \E r \in References, a \in Amounts : q = Ask("ReceiptCreate", <<r, a>>)
  <2>1. PICK r \in References, a \in Amounts : q = Ask("ReceiptCreate", <<r, a>>)
    BY <1>3
  <2>2. \A g : Handle(q, g) = ReceiptCreate(g, r, a)
    BY <2>1 DEF Handle, Ask
  <2> QED BY <1>1, <2>2, ReceiptIsFinal, AmountsArePositive DEF Answers
<1>4. CASE \E r \in References, k \in Kinds, a \in Amounts : q = Ask("AllocationCreate", <<r, k, a>>)
  <2>1. PICK r \in References, k \in Kinds, a \in Amounts : q = Ask("AllocationCreate", <<r, k, a>>)
    BY <1>4
  <2>2. q.view = "AllocationCreate" /\ Handle(q, f) = AllocationCreate(f, r, k, a)
    BY <2>1 DEF Handle, Ask
  <2> QED BY <2>2 DEF AllocationCreate, NotFound, Conflict, Created, Reply
<1>5. CASE \E r \in References : q = Ask("ReceiptReconcile", <<r>>)
  <2>1. PICK r \in References : q = Ask("ReceiptReconcile", <<r>>)
    BY <1>5
  <2>2. \A g : Handle(q, g) = ReceiptReconcile(g, r)
    BY <2>1 DEF Handle, Ask
  <2> QED BY <1>1, <2>2, ReconcileIsFinal DEF Answers
<1>6. \/ \E k \in Kinds : q = Ask("TeamPaymentCallIssue", <<k>>)
      \/ \E r \in References, a \in Amounts : q = Ask("ReceiptCreate", <<r, a>>)
      \/ \E r \in References, k \in Kinds, a \in Amounts : q = Ask("AllocationCreate", <<r, k, a>>)
      \/ \E r \in References : q = Ask("ReceiptReconcile", <<r>>)
  BY DEF PaymentRequests
<1> QED BY <1>2, <1>3, <1>4, <1>5, <1>6

LEMMA NoticeAnswersAreFinal ==
  ASSUME NEW f, FileInv(f), NEW q \in NoticeRequests
  PROVE  Answers(f, q)
<1>1. f \in File
  BY DEF FileInv
<1>2. CASE \E k \in Kinds, r \in References : q = Ask("MyPaymentNoticeCreate", <<k, r>>)
  <2>1. PICK k \in Kinds, r \in References : q = Ask("MyPaymentNoticeCreate", <<k, r>>)
    BY <1>2
  <2>2. \A g : Handle(q, g) = MyPaymentNoticeCreate(g, k, r)
    BY <2>1 DEF Handle, Ask
  <2> QED BY <1>1, <2>2, NoticeCreateIsFinal DEF Answers
<1>3. CASE \E n \in Versions, r \in References : q = Ask("PaymentNoticeConfirm", <<n, r>>)
  <2>1. PICK n \in Versions, r \in References : q = Ask("PaymentNoticeConfirm", <<n, r>>)
    BY <1>3
  <2>2. \A g : Handle(q, g) = PaymentNoticeConfirm(g, n, r)
    BY <2>1 DEF Handle, Ask
  <2> QED BY <2>2, DecisionIsFinal DEF Answers
<1>4. CASE \E n \in Versions : q = Ask("PaymentNoticeReject", <<n>>)
  <2>1. PICK n \in Versions : q = Ask("PaymentNoticeReject", <<n>>)
    BY <1>4
  <2>2. \A g : Handle(q, g) = PaymentNoticeReject(g, n)
    BY <2>1 DEF Handle, Ask
  <2> QED BY <2>2, DecisionIsFinal DEF Answers
<1>5. \/ \E k \in Kinds, r \in References : q = Ask("MyPaymentNoticeCreate", <<k, r>>)
      \/ \E n \in Versions, r \in References : q = Ask("PaymentNoticeConfirm", <<n, r>>)
      \/ \E n \in Versions : q = Ask("PaymentNoticeReject", <<n>>)
  BY DEF NoticeRequests
<1> QED BY <1>2, <1>3, <1>4, <1>5

LEMMA AccountAnswersAreFinal ==
  ASSUME NEW f, FileInv(f), NEW q \in AccountRequests
  PROVE  Answers(f, q)
<1>1. f \in File
  BY DEF FileInv
<1>2. CASE \E v \in {"ProgramAccountList", "ProgramAccount", "BeneficiaryDisbursementList"} : q = Ask(v, <<>>)
  BY <1>2, PlainAnswersAreFinal
<1>3. CASE \E a \in Amounts : q = Ask("DisbursementCreate", <<a>>)
  <2>1. PICK a \in Amounts : q = Ask("DisbursementCreate", <<a>>)
    BY <1>3
  <2>2. \A g : Handle(q, g) = DisbursementCreate(g, a)
    BY <2>1 DEF Handle, Ask
  <2> QED BY <1>1, <2>2, AmountsAreNat, DisbursementCreateIsFinal DEF Answers
<1>4. CASE \E v \in {"DisbursementEligibility", "DisbursementCancel"}, d \in Versions : q = Ask(v, <<d>>)
  <2>1. PICK v \in {"DisbursementEligibility", "DisbursementCancel"}, d \in Versions : q = Ask(v, <<d>>)
    BY <1>4
  <2>2. \/ \A g : Handle(q, g) = DisbursementEligibility(g, d)
        \/ \A g : Handle(q, g) = DisbursementCancel(g, d)
    BY <2>1 DEF Handle, Ask
  <2> QED BY <1>1, <2>2, EligibilityIsFinal, OutOfAccountIsFinal DEF Answers
<1>5. CASE \E d \in Versions, r \in References : q = Ask("DisbursementExecute", <<d, r>>)
  <2>1. PICK d \in Versions, r \in References : q = Ask("DisbursementExecute", <<d, r>>)
    BY <1>5
  <2>2. \A g : Handle(q, g) = DisbursementExecute(g, d, r)
    BY <2>1 DEF Handle, Ask
  <2> QED BY <1>1, <2>2, ExecuteIsFinal DEF Answers
<1>6. CASE \E d \in Versions, b \in BOOLEAN : q = Ask("DisbursementReconcile", <<d, b>>)
  <2>1. PICK d \in Versions, b \in BOOLEAN : q = Ask("DisbursementReconcile", <<d, b>>)
    BY <1>6
  <2>2. \A g : Handle(q, g) = DisbursementReconcile(g, d, b)
    BY <2>1 DEF Handle, Ask
  <2> QED BY <1>1, <2>2, OutOfAccountIsFinal DEF Answers
<1>7. CASE \E d \in Versions, c \in Companies : q = Ask("BeneficiaryDisbursementConfirm", <<d, c>>)
  <2>1. PICK d \in Versions, c \in Companies : q = Ask("BeneficiaryDisbursementConfirm", <<d, c>>)
    BY <1>7
  <2>2. \A g : Handle(q, g) = BeneficiaryDisbursementConfirm(g, d, c)
    BY <2>1 DEF Handle, Ask
  <2> QED BY <1>1, <2>2, OutOfAccountIsFinal DEF Answers
<1>8. \/ \E v \in {"ProgramAccountList", "ProgramAccount", "BeneficiaryDisbursementList"} : q = Ask(v, <<>>)
      \/ \E a \in Amounts : q = Ask("DisbursementCreate", <<a>>)
      \/ \E v \in {"DisbursementEligibility", "DisbursementCancel"}, d \in Versions : q = Ask(v, <<d>>)
      \/ \E d \in Versions, r \in References : q = Ask("DisbursementExecute", <<d, r>>)
      \/ \E d \in Versions, b \in BOOLEAN : q = Ask("DisbursementReconcile", <<d, b>>)
      \/ \E d \in Versions, c \in Companies : q = Ask("BeneficiaryDisbursementConfirm", <<d, c>>)
  BY DEF AccountRequests
<1> QED BY <1>2, <1>3, <1>4, <1>5, <1>6, <1>7, <1>8

LEMMA SaleAnswersAreFinal ==
  ASSUME NEW f, FileInv(f), NEW q \in SaleRequests \cup AccountRequests
  PROVE  /\ Handle(q, f).code \in {404, 409} => Handle(q, f).file \in {f, Expire(f), Released(f)}
         /\ Handle(q, f).code \in {200, 201} /\ q.view # "AllocationCreate" =>
              /\ Handle(q, Handle(q, f).file).file = Handle(q, f).file
              /\ Handle(q, Handle(q, f).file).code # 201
<1>1. CASE Answers(f, q)
  BY <1>1 DEF Answers, Final
<1>2. CASE q \in PaymentRequests /\ ~Answers(f, q)
  BY <1>2, PaymentAnswersAreFinal
<1>3. CASE q \notin PaymentRequests
  <2>1. Answers(f, q)
    <3>1. CASE q \in {Ask(v, <<>>) : v \in Views}
      BY <3>1, PlainAnswersAreFinal
    <3>2. CASE q \in ContractRequests
      BY <3>2, ContractAnswersAreFinal
    <3>3. CASE q \in NoticeRequests
      BY <3>3, NoticeAnswersAreFinal
    <3>4. CASE q \in AccountRequests
      BY <3>4, AccountAnswersAreFinal
    <3> QED BY <1>3, <3>1, <3>2, <3>3, <3>4 DEF SaleRequests
  <2> QED BY <1>1, <2>1
<1> QED BY <1>1, <1>2, <1>3

\* Every answer of a true file settles the matter.
LEMMA FileAnswersAreFinal == FileIsTrue => AnswersAreFinal
<1> SUFFICES ASSUME FileInv(file) PROVE AnswersAreFinal
  BY DEF FileIsTrue
<1>1. \A q \in SaleRequests \cup AccountRequests :
        /\ Handle(q, file).code \in {404, 409} => Handle(q, file).file \in {file, Expire(file), Released(file)}
        /\ Handle(q, file).code \in {200, 201} /\ q.view # "AllocationCreate" =>
             Handle(q, Handle(q, file).file).file = Handle(q, file).file /\ Handle(q, Handle(q, file).file).code # 201
  BY SaleAnswersAreFinal
<1>2. Published(CatalogLotList(file).file) => ReservationCreate(CatalogLotList(file).file).code = 201
  <2>1. \A f : Published(f) => ReservationCreate(f).code = 201
    BY DEF ReservationCreate, Created, Reply
  <2> QED BY <2>1
<1>3. ASSUME NEW r \in References, file.amount[r] # 0 PROVE ReceiptCreate(file, r, file.amount[r]) = Done(file)
  <2>1. file.res # "none"
    BY <1>3 DEF FileInv, Unborn
  <2> QED BY <1>3, <2>1 DEF ReceiptCreate
<1>4. ASSUME NEW d \in DOMAIN file.out, file.out[d].ref # None
      PROVE  DisbursementExecute(file, d, file.out[d].ref) = Done(file)
  <2>1. d \in {e \in DOMAIN file.out : file.out[e].ref = file.out[d].ref}
    OBVIOUS
  <2> QED BY <2>1 DEF DisbursementExecute
<1> QED BY <1>1, <1>2, <1>3, <1>4 DEF AnswersAreFinal

\* An answer settles the matter, for any bank references, amounts, companies
\* and rows (apps/sales/views and services, T10).
THEOREM AnswersAreFinalCorrect == FileSpec => []AnswersAreFinal
<1>1. file = Empty => FileIsTrue
  BY EmptyIsAFile, NothingToldIsTrue DEF FileIsTrue
<1> QED BY <1>1, FileStepKeeps, FileAnswersAreFinal, PTL DEF FileSpec
=============================================================================
