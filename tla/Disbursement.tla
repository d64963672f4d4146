---------------------------- MODULE Disbursement ----------------------------
(***************************************************************************)
(* The disbursements of one programme account to the company that builds   *)
(* its lot (backend/apps/sales/services.py, B-052).                        *)
(*                                                                         *)
(* Every operation that consumes funds runs under the lock of the          *)
(* programme row, account; the readings of the account, which release the  *)
(* lapsed requests, take the rows only.  The field (inspections, evidence) *)
(* and the administrators know nothing of that lock: they run between the  *)
(* steps of a finance request.                                             *)
(***************************************************************************)
EXTENDS Integers, FiniteSets, Functions

CONSTANTS
  Workers,        \* the server processes
  Requests,       \* the disbursement rows that may be created (bounds the run)
  Milestones,     \* the milestones of the lot
  Organizations,  \* the companies the lot may be assigned to
  References,     \* the bank references Finance may type
  Amounts,        \* the amounts Finance may ask for
  MaxReceived,    \* bounds what the clients pay
  None

ASSUME AmountsArePositive == Amounts \subseteq Nat \ {0} /\ MaxReceived \in Nat
ASSUME NoneIsNobody ==
  /\ None \notin Workers \cup Requests \cup Milestones
  /\ None \notin Organizations \cup References
ASSUME RowsAreFinite == IsFiniteSet(Requests)

VARIABLES
  status,     \* Disbursement.status, "none" before the row exists
  terms,      \* the columns that never change: milestone, amount, beneficiary
  flow,       \* Disbursement.flow_status, the proof of the movement
  reference,  \* bank_reference, None until executed
  confirmed,  \* beneficiary_confirmed_at is set
  excused,    \* reconciliation_reason says the confirmation never came
  received,   \* the reconciled receipts of the programme
  blocked,    \* the milestones with a disbursement blocker
  assigned,   \* beneficiary_organization_id_for(lot)
  account,    \* the worker that holds the programme row FOR UPDATE
  task        \* what each worker is doing, and what it has read

requests == <<status, terms, flow, reference, confirmed, excused>>
site     == <<received, blocked, assigned>>
vars     == <<requests, site, account, task>>

Open      == {"draft", "eligible"}
Statuses  == Open \cup {"none", "executed", "cancelled"}
Flows     == {"planned", "executed", "confirmed", "reconciled"}
Rank(f)   == IF f = "planned" THEN 0 ELSE IF f = "executed" THEN 1
             ELSE IF f = "confirmed" THEN 2 ELSE 3
Terms     == [milestone : Milestones, amount : Amounts, beneficiary : Organizations]
Ops       == {"idle", "prepare", "check", "grant", "execute", "pay"}
Tasks     == [op : Ops, row : Requests \cup {None}, terms : Terms \cup {None},
              reference : References \cup {None}]
Task(o, d, t, ref) == [op |-> o, row |-> d, terms |-> t, reference |-> ref]
Resting   == Task("idle", None, None, None)

TypeOK ==
  /\ status    \in [Requests -> Statuses]
  /\ terms     \in [Requests -> Terms \cup {None}]
  /\ flow      \in [Requests -> Flows]
  /\ reference \in [Requests -> References \cup {None}]
  /\ confirmed \in [Requests -> BOOLEAN]
  /\ excused   \in [Requests -> BOOLEAN]
  /\ received  \in Nat
  /\ blocked   \in SUBSET Milestones
  /\ assigned  \in Organizations
  /\ account   \in Workers \cup {None}
  /\ task      \in [Workers -> Tasks]

Init ==
  /\ status    = [d \in Requests |-> "none"]
  /\ terms     = [d \in Requests |-> None]
  /\ flow      = [d \in Requests |-> "planned"]
  /\ reference = [d \in Requests |-> None]
  /\ confirmed = [d \in Requests |-> FALSE]
  /\ excused   = [d \in Requests |-> FALSE]
  /\ received  = 0
  /\ blocked   = Milestones
  /\ assigned  \in Organizations
  /\ account   = None
  /\ task      = [w \in Workers |-> Resting]

-----------------------------------------------------------------------------
Idle(w)      == task[w].op = "idle"
Doing(w, o)  == task[w].op = o
Become(w, t) == task' = [task EXCEPT ![w] = t]
Step(w, o)   == Become(w, [task[w] EXCEPT !.op = o])
Rest(w)      == Become(w, Resting)
AccountFree  == account = None

Total(s) == SumFunction([d \in Requests |-> IF status[d] = s THEN terms[d].amount ELSE 0])
\* account_balance
Available == received - (Total("executed") + Total("eligible"))

Lapsed(d) == status[d] = "eligible" /\ terms[d].milestone \in blocked
\* Faulty: nothing is released before a control.
NothingReleased == status
\* _release_lapsed_eligibility
Released == [d \in Requests |-> IF Lapsed(d) THEN "draft" ELSE status[d]]
\* _beneficiary_anomaly
RightBeneficiary(d) == terms[d].beneficiary = assigned

-----------------------------------------------------------------------------
(* prepare_disbursement reads the milestone and its lot before it waits    *)
(* for the account.                                                        *)

PrepareRead(w, m, a) ==
  /\ Idle(w)
  /\ Become(w, Task("prepare", None,
                    [milestone |-> m, amount |-> a, beneficiary |-> assigned], None))
  /\ UNCHANGED <<requests, site, account>>

\* Faulty: only a draft counts as an open request.
OpenRequestIsDraft(m) == \E d \in Requests : status[d] = "draft" /\ terms[d].milestone = m
OpenRequest(m) == \E d \in Requests : status[d] \in Open /\ terms[d].milestone = m

\* The open request is returned, or conflicts with another amount: no change.
PrepareReplay(w) ==
  /\ Doing(w, "prepare") /\ AccountFree
  /\ OpenRequest(task[w].terms.milestone) \/ \A d \in Requests : status[d] # "none"
  /\ Rest(w)
  /\ UNCHANGED <<requests, site, account>>

Prepare(w) ==
  /\ Doing(w, "prepare") /\ AccountFree
  /\ ~OpenRequest(task[w].terms.milestone)
  /\ \E d \in Requests :
       /\ status[d] = "none"
       /\ status' = [status EXCEPT ![d] = "draft"]
       /\ terms'  = [terms EXCEPT ![d] = task[w].terms]
  /\ Rest(w)
  /\ UNCHANGED <<flow, reference, confirmed, excused, site, account>>

-----------------------------------------------------------------------------
(* check_disbursement_eligibility: lock and release, decide, write.        *)

CheckLock(w, d) ==
  /\ Idle(w) /\ AccountFree /\ status[d] # "none"
  /\ status' = Released
  /\ account' = w
  /\ Become(w, Task("check", d, None, None))
  /\ UNCHANGED <<terms, flow, reference, confirmed, excused, site>>

Grantable(d) ==
  /\ status[d] = "draft"
  /\ terms[d].milestone \notin blocked
  /\ RightBeneficiary(d)
  /\ terms[d].amount <= Available

CheckRefuse(w) ==
  /\ Doing(w, "check") /\ ~Grantable(task[w].row)
  /\ account' = None
  /\ Rest(w)
  /\ UNCHANGED <<requests, site>>

CheckAccept(w) ==
  /\ Doing(w, "check") /\ Grantable(task[w].row)
  /\ Step(w, "grant")
  /\ UNCHANGED <<requests, site, account>>

Grant(w) ==
  /\ Doing(w, "grant")
  /\ status' = [status EXCEPT ![task[w].row] = "eligible"]
  /\ account' = None
  /\ Rest(w)
  /\ UNCHANGED <<terms, flow, reference, confirmed, excused, site>>

-----------------------------------------------------------------------------
(* execute_disbursement.  A reference already known is a replay or a       *)
(* conflict: nothing is written, not even the release.                     *)

Known(ref, d) == \E e \in Requests : reference[e] = ref

ExecuteLock(w, d, ref) ==
  /\ Idle(w) /\ AccountFree /\ status[d] # "none"
  /\ ~Known(ref, d)
  /\ status' = Released
  /\ account' = w
  /\ Become(w, Task("execute", d, None, ref))
  /\ UNCHANGED <<terms, flow, reference, confirmed, excused, site>>

Payable(d) ==
  /\ status[d] = "eligible"
  /\ RightBeneficiary(d)
  /\ Available >= 0

ExecuteRefuse(w) ==
  /\ Doing(w, "execute") /\ ~Payable(task[w].row)
  /\ account' = None
  /\ Rest(w)
  /\ UNCHANGED <<requests, site>>

ExecuteAccept(w) ==
  /\ Doing(w, "execute") /\ Payable(task[w].row)
  /\ Step(w, "pay")
  /\ UNCHANGED <<requests, site, account>>

Pay(w) ==
  /\ Doing(w, "pay")
  /\ LET d == task[w].row IN
     /\ status'    = [status EXCEPT ![d] = "executed"]
     /\ flow'      = [flow EXCEPT ![d] = "executed"]
     /\ reference' = [reference EXCEPT ![d] = task[w].reference]
  /\ account' = None
  /\ Rest(w)
  /\ UNCHANGED <<terms, confirmed, excused, site>>

-----------------------------------------------------------------------------
(* The other operations, each atomic under the row or the account lock.    *)

\* Faulty: an executed request is not refused.
CancelExecuted(w, d) ==
  /\ Idle(w) /\ AccountFree /\ status[d] \in Open \cup {"executed"}
  /\ status' = [status EXCEPT ![d] = "cancelled"]
  /\ UNCHANGED <<terms, flow, reference, confirmed, excused, site, account, task>>

\* cancel_disbursement
Cancel(w, d) ==
  /\ Idle(w) /\ AccountFree /\ status[d] \in Open
  /\ status' = [status EXCEPT ![d] = "cancelled"]
  /\ UNCHANGED <<terms, flow, reference, confirmed, excused, site, account, task>>

\* list_program_accounts, get_program_account: a control in progress holds
\* every eligible row.
ReadAccount(w, d) ==
  /\ Idle(w) /\ AccountFree /\ Lapsed(d)
  /\ status' = [status EXCEPT ![d] = "draft"]
  /\ UNCHANGED <<terms, flow, reference, confirmed, excused, site, account, task>>

\* reconcile_disbursement: without a confirmation, the reason is demanded.
Reconcile(w, d) ==
  /\ Idle(w) /\ status[d] = "executed" /\ flow[d] # "reconciled" /\ RightBeneficiary(d)
  /\ flow'    = [flow EXCEPT ![d] = "reconciled"]
  /\ excused' = [excused EXCEPT ![d] = flow[d] # "confirmed"]
  /\ UNCHANGED <<status, terms, reference, confirmed, site, account, task>>

\* Faulty: a late confirmation rewrites the reconciliation.
ConfirmRewrites(w, d) ==
  /\ Idle(w) /\ status[d] = "executed" /\ ~confirmed[d]
  /\ confirmed' = [confirmed EXCEPT ![d] = TRUE]
  /\ flow'      = [flow EXCEPT ![d] = IF @ = "executed" THEN "confirmed" ELSE @]
  /\ excused'   = [excused EXCEPT ![d] = FALSE]
  /\ UNCHANGED <<status, terms, reference, site, account, task>>

\* confirm_disbursement_as_beneficiary
Confirm(w, d) ==
  /\ Idle(w) /\ status[d] = "executed" /\ ~confirmed[d]
  /\ confirmed' = [confirmed EXCEPT ![d] = TRUE]
  /\ flow' = [flow EXCEPT ![d] = IF @ = "executed" THEN "confirmed" ELSE @]
  /\ UNCHANGED <<status, terms, reference, excused, site, account, task>>

-----------------------------------------------------------------------------
(* What the rest of the platform does to the account.                      *)

\* reconcile_receipt, of a receipt of any reservation of the programme.
ReceiptReconciled(w, a) ==
  /\ Idle(w) /\ received + a <= MaxReceived
  /\ received' = received + a
  /\ UNCHANGED <<requests, blocked, assigned, account, task>>

\* milestone_disbursement_blockers: an inspection, a piece of evidence or a
\* reserve makes the milestone payable or not.
FieldReport(w, m) ==
  /\ Idle(w)
  /\ blocked' = IF m \in blocked THEN blocked \ {m} ELSE blocked \cup {m}
  /\ UNCHANGED <<requests, received, assigned, account, task>>

\* LotViewSet.assign_organization
AssignLot(w, o) ==
  /\ Idle(w) /\ o # assigned
  /\ assigned' = o
  /\ UNCHANGED <<requests, received, blocked, account, task>>

-----------------------------------------------------------------------------
ControlStep(w) ==
  \/ PrepareReplay(w) \/ Prepare(w)
  \/ CheckRefuse(w) \/ CheckAccept(w) \/ Grant(w)
  \/ ExecuteRefuse(w) \/ ExecuteAccept(w) \/ Pay(w)
FinanceStep(w) ==
  \/ \E m \in Milestones, a \in Amounts : PrepareRead(w, m, a)
  \/ \E d \in Requests, ref \in References : ExecuteLock(w, d, ref)
  \/ \E d \in Requests :
       CheckLock(w, d) \/ Cancel(w, d) \/ ReadAccount(w, d) \/ Reconcile(w, d) \/ Confirm(w, d)
SiteStep(w) ==
  \/ \E a \in Amounts : ReceiptReconciled(w, a)
  \/ \E m \in Milestones : FieldReport(w, m)
  \/ \E o \in Organizations : AssignLot(w, o)

Next == \E w \in Workers : ControlStep(w) \/ FinanceStep(w) \/ SiteStep(w)

Spec == Init /\ [][Next]_vars

-----------------------------------------------------------------------------
(* What holds however the workers interleave.                              *)

\* Two requests never consume the same available balance (T10): the account
\* is never overdrawn, reservations included (check_disbursement_eligibility).
NeverOverdrawn == Total("executed") + Total("eligible") <= received

\* At most one open request per milestone (prepare_disbursement): the unique
\* index sales_disbursement_one_open_per_milestone is never what refuses.
OneOpenPerMilestone ==
  \A d, e \in Requests :
    status[d] \in Open /\ status[e] \in Open /\ terms[d].milestone = terms[e].milestone => d = e

\* A bank reference names one movement (execute_disbursement), and an
\* executed request has one.
OneMovementPerReference ==
  \A d \in Requests :
    /\ reference[d] # None <=> status[d] = "executed"
    /\ \A e \in Requests : reference[d] = reference[e] /\ reference[d] # None => d = e

\* An executed or cancelled request never moves again (cancel_disbursement,
\* _release_lapsed_eligibility), whatever was decided before.
EndedStaysEnded ==
  [][\A d \in Requests :
       status[d] \in {"executed", "cancelled"} => status'[d] = status[d]]_vars

\* The proof of a movement only advances, and neither a confirmation nor the
\* reason of a reconciliation without one is ever erased, not by the beneficiary
\* who confirms after it (confirm_disbursement_as_beneficiary, T11).
ProofOnlyAdvances ==
  [][\A d \in Requests :
       /\ Rank(flow[d]) <= Rank(flow'[d])
       /\ confirmed[d] => confirmed'[d]
       /\ excused[d] => excused'[d]]_vars

\* The absence of a confirmation stays visible: a reconciled movement was
\* confirmed, or carries the reason (reconcile_disbursement, T11).
AbsenceStaysVisible ==
  \A d \in Requests : flow[d] = "reconciled" => confirmed[d] \/ excused[d]

\* Money is reserved out of the available balance, spent only out of what was
\* reserved, and never lost.
Ledger == INSTANCE Account WITH free <- Available, reserved <- Total("eligible"),
            spent <- Total("executed")
ImplementsAccount == Ledger!Spec

-----------------------------------------------------------------------------
\* A payment goes out only for a milestone that is payable at that time, to the
\* company the lot is assigned to (execute_disbursement rechecks everything).
PaidWhenDue ==
  \A d \in Requests :
    status[d] # "executed" /\ status'[d] = "executed"
      => terms[d].milestone \notin blocked /\ terms[d].beneficiary = assigned
=============================================================================
