------------------------------- MODULE Inbox -------------------------------
(***************************************************************************)
(* The task inbox (apps/tasks) and the messages that fill it.              *)
(*                                                                         *)
(* A request writes its subject and sends its message before it commits;   *)
(* Celery acknowledges a message when a worker takes it, and may deliver   *)
(* it more than once.  An alert is filed by the request itself.  A task is *)
(* filed by whoever runs _get_or_create_task: a first get, an insert that  *)
(* waits for the uncommitted row of another transaction, and a second get  *)
(* when the unique constraint refuses it (READ COMMITTED).                 *)
(***************************************************************************)
EXTENDS Naturals, FiniteSets

CONSTANTS
  Reserves, Missions, Documents, \* announced by a message
  Devis, Ledgers, Asked,         \* alerts: their subject is there already
  Workers, Users,
  Builder,      \* Builder[r]: who declared the work of a reserve, or None
  Inspector,    \* Inspector[m]: who was given the mission
  Requester,    \* Requester[p]: who asked for the programme p
  Organization, \* of each subject
  Active,       \* Active[u]: the organisation a user works in
  Roles,        \* Roles[u]: admin_keyimmo, inspecteur
  MaxRetries,   \* MAX_RETRIES of the media task
  Copies,       \* how many times a message is sent again (bounds the run)
  None

\* A mission has an inspector and a request its author; a reserve may have no
\* declaration behind it.
ASSUME NoneIsNobody ==
  /\ None \notin Workers \cup Users
  /\ \A m \in Missions : Inspector[m] # None
  /\ \A p \in Asked : Requester[p] # None

Announced == Reserves \cup Missions \cup Documents
Alerts    == Devis \cup Ledgers \cup Asked

VARIABLES
  subject, \* subject[s]: whether its row is written and committed
  queue,   \* queue[s]: the attempts already made by each message waiting
  copies,  \* copies[s]: how often it was sent again
  work,    \* work[e]: what a worker or a request is doing
  tasks,   \* the committed rows of tasks_task
  handled  \* the subjects somebody has finished with

vars == <<subject, queue, copies, work, tasks, handled>>

Executors == Workers \cup Users
Idle == [on |-> None, at |-> "idle", tried |-> 0]

TypeOK ==
  /\ subject \in [Announced \cup Alerts -> {"absent", "writing", "stored", "gone"}]
  /\ queue \in [Announced -> SUBSET Nat]
  /\ copies \in [Announced -> Nat]
  /\ work \in [Executors -> [on : Announced \cup Alerts \cup {None}, tried : Nat,
                             at : {"idle", "read", "get", "insert", "inserted", "reget", "broken"}]]
  /\ \A t \in tasks : t.subject \in Announced \cup Alerts /\ t.status \in {"pending", "done"}
  /\ handled \subseteq Announced \cup Alerts

-----------------------------------------------------------------------------
(* The rows.  Two rows of one key differ in no.                             *)

Task(s, source, user) == [subject |-> s, source |-> source, for |-> user, status |-> "pending", no |-> 0]

ReserveOpened(r)         == Task(r, <<"reserve_opened">>, Builder[r])
MissionAssigned(m)       == Task(m, <<"mission_assigned">>, Inspector[m])
DevisAjustementRefuse(d, admin)    == Task(d, <<"devis_ajustement_refuse">>, admin)
LotLedgerMarginNegative(l, admin)  == Task(l, <<"lot_ledger_margin_negative">>, admin)
ProgramRequestDecided(p) == Task(p, <<"program_request_decided">>, Requester[p])

TaskBy(e, s) ==
  IF s \in Reserves THEN ReserveOpened(s)
  ELSE IF s \in Missions THEN MissionAssigned(s)
  ELSE IF s \in Devis THEN DevisAjustementRefuse(s, e)
  ELSE IF s \in Ledgers THEN LotLedgerMarginNegative(s, e)
  ELSE ProgramRequestDecided(s)

Same(t, u) == t.subject = u.subject /\ t.source = u.source
Rows(s)    == {t \in tasks : t.subject = s}
Inserting(s) == {e \in Executors : work[e].on = s /\ work[e].at = "inserted"}

Init ==
  /\ subject = [s \in Announced \cup Alerts |-> IF s \in Alerts THEN "stored" ELSE "absent"]
  /\ queue   = [s \in Announced |-> {}]
  /\ copies  = [s \in Announced |-> 0]
  /\ work    = [e \in Executors |-> Idle]
  /\ tasks   = {}
  /\ handled = {}

-----------------------------------------------------------------------------
(* The requests that announce a subject (_open_new_reserve, create_mission, *)
(* create_document), and the broker.                                        *)

Announce(s) ==
  /\ subject[s] = "absent"
  /\ subject' = [subject EXCEPT ![s] = "writing"]
  /\ queue' = [queue EXCEPT ![s] = {0}]
  /\ UNCHANGED <<copies, work, tasks, handled>>

\* The transaction of the request ends after its view has returned.
Conclude(s) ==
  /\ subject[s] = "writing"
  /\ \E end \in {"stored", "gone"} : subject' = [subject EXCEPT ![s] = end]
  /\ UNCHANGED <<queue, copies, work, tasks, handled>>

SendAgain(s) ==
  /\ subject[s] # "absent" /\ copies[s] < Copies /\ 0 \notin queue[s]
  /\ queue' = [queue EXCEPT ![s] = @ \cup {0}]
  /\ copies' = [copies EXCEPT ![s] = @ + 1]
  /\ UNCHANGED <<subject, work, tasks, handled>>

-----------------------------------------------------------------------------
(* The workers.                                                             *)

Goes(e, step) == work' = [work EXCEPT ![e].at = step]
Ends(e) ==
  /\ work' = [work EXCEPT ![e] = Idle]
  /\ handled' = handled \cup {work[e].on}

Take(w, s) ==
  /\ work[w] = Idle
  /\ \E n \in queue[s] :
       /\ work' = [work EXCEPT ![w] = [on |-> s, at |-> "read", tried |-> n]]
       /\ queue' = [queue EXCEPT ![s] = @ \ {n}]
  /\ UNCHANGED <<subject, copies, tasks, handled>>

\* Reserve.objects.get, InspectionMission.objects.get: no retry.
ReadSubject(w) ==
  /\ work[w].at = "read" /\ work[w].on \in Reserves \cup Missions
  /\ IF subject[work[w].on] = "stored" THEN Goes(w, "get") ELSE work' = [work EXCEPT ![w] = Idle]
  /\ UNCHANGED <<subject, queue, copies, tasks, handled>>

\* Mutant of ProcessDocument: without autoretry_for.
ProcessDocumentOnce(w) ==
  LET s == work[w].on IN
  /\ work[w].at = "read" /\ s \in Documents
  /\ IF subject[s] = "stored" THEN Ends(w) ELSE work' = [work EXCEPT ![w] = Idle] /\ UNCHANGED handled
  /\ UNCHANGED <<subject, queue, copies, tasks>>

\* process_document_media: a document that is not there yet is tried again
\* MaxRetries times; one that is gets its compressed file and its thumbnail.
ProcessDocument(w) ==
  LET s == work[w].on
      again == work[w].tried + 1 IN
  /\ work[w].at = "read" /\ s \in Documents
  /\ IF subject[s] = "stored"
     THEN Ends(w) /\ UNCHANGED queue
     ELSE /\ work' = [work EXCEPT ![w] = Idle]
          /\ queue' = IF again <= MaxRetries THEN [queue EXCEPT ![s] = @ \cup {again}] ELSE queue
          /\ UNCHANGED handled
  /\ UNCHANGED <<subject, copies, tasks>>

\* A worker that stops loses what it had taken.
Crash(w) ==
  /\ work[w] # Idle
  /\ work' = [work EXCEPT ![w] = Idle]
  /\ UNCHANGED <<subject, queue, copies, tasks, handled>>

-----------------------------------------------------------------------------
(* _get_or_create_task.                                                     *)

\* A refused adjustment, a margin below zero, a decision: the request files it.
\* Two decisions of one request for a programme wait for each other on its row.
Alert(u, s) ==
  /\ work[u] = Idle /\ "admin_keyimmo" \in Roles[u]
  /\ s \in Asked => \A e \in Executors : work[e].on # s
  /\ work' = [work EXCEPT ![u] = [on |-> s, at |-> "get", tried |-> 0]]
  /\ UNCHANGED <<subject, queue, copies, tasks, handled>>

Get(e) ==
  LET s == work[e].on IN
  /\ work[e].at = "get"
  /\ IF Rows(s) # {} \/ TaskBy(e, s).for = None
     THEN Ends(e) ELSE Goes(e, "insert") /\ UNCHANGED handled
  /\ UNCHANGED <<subject, queue, copies, tasks>>

\* Mutant of Insert: the row another transaction is writing counts as filed.
InsertUnlessBusy(e) ==
  LET s == work[e].on IN
  /\ work[e].at = "insert"
  /\ IF Inserting(s) # {} \/ Rows(s) # {} THEN Ends(e) ELSE Goes(e, "inserted") /\ UNCHANGED handled
  /\ UNCHANGED <<subject, queue, copies, tasks>>

\* The unique constraint: waits for a row not committed, refuses a second one.
Insert(e) ==
  LET s == work[e].on IN
  /\ work[e].at = "insert" /\ Inserting(s) = {}
  /\ Goes(e, IF Rows(s) # {} THEN "reget" ELSE "inserted")
  /\ UNCHANGED <<subject, queue, copies, tasks, handled>>

SecondGet(e) ==
  /\ work[e].at = "reget"
  /\ IF Rows(work[e].on) # {} THEN Ends(e) ELSE Goes(e, "broken") /\ UNCHANGED handled
  /\ UNCHANGED <<subject, queue, copies, tasks>>

Commit(e) ==
  LET row == TaskBy(e, work[e].on) IN
  /\ work[e].at = "inserted"
  /\ tasks' = tasks \cup {[row EXCEPT !.no = Cardinality({t \in tasks : Same(t, row)})]}
  /\ Ends(e)
  /\ UNCHANGED <<subject, queue, copies>>

\* The rest of the request fails, and its transaction is rolled back.
Abort(u) ==
  /\ work[u] # Idle
  /\ work' = [work EXCEPT ![u] = Idle]
  /\ UNCHANGED <<subject, queue, copies, tasks, handled>>

-----------------------------------------------------------------------------
(* The inboxes, and the tasks completed in them.                            *)

MyTasks(u)           == {t \in tasks : t.for = u /\ Organization[t.subject] = Active[u]}
OrganizationTasks(u) == {t \in tasks : Organization[t.subject] = Active[u]}
MyTasksAcrossOrganizations(u) == {t \in tasks : t.for = u}
AdminInbox(u)     == IF "admin_keyimmo" \in Roles[u] THEN MyTasksAcrossOrganizations(u) ELSE {}
InspectorInbox(u) == IF "inspecteur" \in Roles[u] THEN MyTasksAcrossOrganizations(u) ELSE {}
MyInbox(u)        == MyTasks(u) \cup MyTasksAcrossOrganizations(u)

CompleteTask(t) ==
  /\ t.status = "pending"
  /\ tasks' = (tasks \ {t}) \cup {[t EXCEPT !.status = "done"]}
  /\ UNCHANGED <<subject, queue, copies, work, handled>>

\* Any member of the organisation of the task.
Complete(u) == \E t \in OrganizationTasks(u) : CompleteTask(t)
\* Two roles see their own tasks, and may name any task of any organisation.
CompleteAcrossOrganizations(t) == CompleteTask(t)
AdminComplete(u) ==
  "admin_keyimmo" \in Roles[u] /\ \E t \in AdminInbox(u) \cup tasks : CompleteAcrossOrganizations(t)
InspectorComplete(u) ==
  "inspecteur" \in Roles[u] /\ \E t \in InspectorInbox(u) \cup tasks : CompleteAcrossOrganizations(t)
\* My own only.
MyInboxComplete(u) == \E t \in MyInbox(u) : t.for = u /\ CompleteTask(t)

-----------------------------------------------------------------------------
Filing(e) == Get(e) \/ Insert(e) \/ SecondGet(e) \/ Commit(e)
Working(w) ==
  \/ \E s \in Announced : Take(w, s)
  \/ ReadSubject(w) \/ ProcessDocument(w) \/ Filing(w)
Requesting(u) == Abort(u) \/ Filing(u) \/ \E s \in Alerts : Alert(u, s)
Completing(u) == Complete(u) \/ AdminComplete(u) \/ InspectorComplete(u) \/ MyInboxComplete(u)

Steady ==
  \/ \E s \in Announced : Announce(s) \/ Conclude(s) \/ SendAgain(s)
  \/ \E w \in Workers : Working(w)
  \/ \E u \in Users : Requesting(u) \/ Completing(u)
InboxNext == Steady \/ \E w \in Workers : Crash(w)

\* Requests end and workers go on: what they started, and the messages.
InboxFairness ==
  /\ \A s \in Announced : WF_vars(Conclude(s))
  /\ \A w \in Workers : WF_vars(Working(w))
  /\ \A u \in Users : WF_vars(Filing(u))

InboxSpec == Init /\ [][InboxNext]_vars /\ InboxFairness

-----------------------------------------------------------------------------
\* Whoever has finished filing an alert or handling a message leaves exactly
\* one task, whatever ran at the same time, was redelivered or rolled back; and
\* nobody fails on the row of another (_get_or_create_task, ticket 017).
FiledExactlyOnce ==
  /\ \A t, u \in tasks : Same(t, u) => t = u
  /\ \A s \in handled \ Documents : Rows(s) # {} \/ (s \in Reserves /\ Builder[s] = None)
  /\ \A e \in Executors : work[e].at # "broken"
=============================================================================
