------------------------- MODULE DisbursementProofs -------------------------
(***************************************************************************)
(* Theorems about module Disbursement, for every set of workers, requests, *)
(* milestones, companies, references and amounts.                          *)
(*                                                                         *)
(* The last part shows that the account implements the ledger Account.     *)
(* Its balances are sums over the requests: the lemmas about sums of       *)
(* integers over finite sets are those of PaymentFileProofs, repeated so   *)
(* that each module is checked alone.                                      *)
(***************************************************************************)
EXTENDS MCDisbursement, FiniteSetTheorems, TLAPS

\* Between its lock and its last write, a control owns the account; what it
\* has decided on its own row and reference stays true until it writes.
Controls == {"check", "grant", "execute", "pay"}
ControlDiscipline ==
  \A w \in Workers :
    /\ task[w].op \in Controls => account = w /\ task[w].row \in Requests
    /\ task[w].op = "grant" => status[task[w].row] = "draft"
    /\ task[w].op = "pay" => status[task[w].row] = "eligible"
    /\ task[w].op \in {"execute", "pay"} =>
         /\ task[w].reference \in References
         /\ \A e \in Requests : reference[e] # task[w].reference

\* The columns of the proof follow the execution.
FlowFollowsExecution ==
  \A d \in Requests :
    /\ flow[d] = "planned" <=> status[d] # "executed"
    /\ confirmed[d] \/ excused[d] => status[d] = "executed"
    /\ flow[d] = "confirmed" => confirmed[d]
    /\ excused[d] => flow[d] = "reconciled"

IInv ==
  /\ TypeOK
  /\ ControlDiscipline
  /\ OneOpenPerMilestone
  /\ OneMovementPerReference
  /\ FlowFollowsExecution
  /\ AbsenceStaysVisible

-----------------------------------------------------------------------------
(* Types.                                                                   *)

LEMMA ControlTypes ==
  ASSUME TypeOK, NEW w \in Workers, ControlStep(w)
  PROVE  TypeOK'
<1> USE DEF TypeOK, Tasks, Become, Step, Rest, Resting, Task, requests, site
<1>1. CASE PrepareReplay(w)
  BY <1>1 DEF PrepareReplay, Ops
<1>2. CASE Prepare(w)
  BY <1>2 DEF Prepare, Ops, Statuses, Open
<1>3. CASE CheckRefuse(w)
  BY <1>3 DEF CheckRefuse, Ops
<1>4. CASE CheckAccept(w)
  BY <1>4 DEF CheckAccept, Ops
<1>5. CASE Grant(w)
  BY <1>5 DEF Grant, Ops, Statuses, Open
<1>6. CASE ExecuteRefuse(w)
  BY <1>6 DEF ExecuteRefuse, Ops
<1>7. CASE ExecuteAccept(w)
  BY <1>7 DEF ExecuteAccept, Ops
<1>8. CASE Pay(w)
  BY <1>8 DEF Pay, Ops, Statuses, Flows
<1> QED BY <1>1, <1>2, <1>3, <1>4, <1>5, <1>6, <1>7, <1>8 DEF ControlStep

LEMMA ReleaseTypes ==
  ASSUME TypeOK
  PROVE  Released \in [Requests -> Statuses]
BY DEF TypeOK, Released, Statuses, Open

LEMMA FinanceTypes ==
  ASSUME TypeOK, NEW w \in Workers, FinanceStep(w)
  PROVE  TypeOK'
<1> USE DEF TypeOK, Become, Resting, Task, requests, site
<1>1. CASE \E m \in Milestones, a \in Amounts : PrepareRead(w, m, a)
  BY <1>1 DEF PrepareRead, Tasks, Ops, Terms
<1>2. CASE \E d \in Requests, ref \in References : ExecuteLock(w, d, ref)
  BY <1>2, ReleaseTypes DEF ExecuteLock, Tasks, Ops
<1>3. CASE \E d \in Requests : CheckLock(w, d)
  BY <1>3, ReleaseTypes DEF CheckLock, Tasks, Ops
<1>4. CASE \E d \in Requests : Cancel(w, d)
  BY <1>4 DEF Cancel, Statuses, Open
<1>5. CASE \E d \in Requests : ReadAccount(w, d)
  BY <1>5 DEF ReadAccount, Statuses, Open
<1>6. CASE \E d \in Requests : Reconcile(w, d)
  BY <1>6 DEF Reconcile, Flows
<1>7. CASE \E d \in Requests : Confirm(w, d)
  BY <1>7 DEF Confirm, Flows
<1> QED BY <1>1, <1>2, <1>3, <1>4, <1>5, <1>6, <1>7 DEF FinanceStep

LEMMA TypesPreserved == TypeOK /\ [Next]_vars => TypeOK'
<1> SUFFICES ASSUME TypeOK, [Next]_vars PROVE TypeOK'
  OBVIOUS
<1>1. CASE \E w \in Workers : ControlStep(w) \/ FinanceStep(w)
  BY <1>1, ControlTypes, FinanceTypes
<1>2. CASE \E w \in Workers : SiteStep(w)
  <2>1. ASSUME NEW w \in Workers, NEW a \in Amounts, ReceiptReconciled(w, a) PROVE TypeOK'
    BY <2>1, AmountsArePositive DEF TypeOK, ReceiptReconciled, requests
  <2>2. ASSUME NEW w \in Workers, NEW m \in Milestones, FieldReport(w, m) PROVE TypeOK'
    BY <2>2 DEF TypeOK, FieldReport, requests
  <2>3. ASSUME NEW w \in Workers, NEW o \in Organizations, AssignLot(w, o) PROVE TypeOK'
    BY <2>3 DEF TypeOK, AssignLot, requests
  <2> QED BY <1>2, <2>1, <2>2, <2>3 DEF SiteStep
<1>3. CASE UNCHANGED vars
  BY <1>3 DEF TypeOK, vars, requests, site
<1> QED BY <1>1, <1>2, <1>3 DEF Next

LEMMA InitTypes == Init => TypeOK
BY DEF Init, TypeOK, Statuses, Flows, Tasks, Ops, Resting, Task

\* Every reachable state is well typed.
THEOREM TypeCorrect == Spec => []TypeOK
BY InitTypes, TypesPreserved, PTL DEF Spec

-----------------------------------------------------------------------------
(* A control keeps the account to itself.                                   *)

LEMMA ControlDisciplineByControl ==
  ASSUME TypeOK, ControlDiscipline, NEW w \in Workers, ControlStep(w)
  PROVE  ControlDiscipline'
<1> SUFFICES ASSUME NEW v \in Workers
             PROVE  /\ task'[v].op \in Controls => account' = v /\ task'[v].row \in Requests
                    /\ task'[v].op = "grant" => status'[task'[v].row] = "draft"
                    /\ task'[v].op = "pay" => status'[task'[v].row] = "eligible"
                    /\ task'[v].op \in {"execute", "pay"} =>
                         /\ task'[v].reference \in References
                         /\ \A e \in Requests : reference'[e] # task'[v].reference
  BY DEF ControlDiscipline
<1> USE NoneIsNobody DEF TypeOK, ControlDiscipline, Controls, Tasks, Become, Step, Rest,
                         Resting, Task, requests, Doing
<1>1. CASE PrepareReplay(w)
  BY <1>1 DEF PrepareReplay
<1>2. CASE Prepare(w)
  <2>1. task[v].op \notin Controls
    BY <1>2 DEF Prepare, AccountFree
  <2> QED BY <1>2, <2>1 DEF Prepare
<1>3. CASE CheckRefuse(w)
  BY <1>3 DEF CheckRefuse
<1>4. CASE CheckAccept(w)
  BY <1>4 DEF CheckAccept, Grantable
<1>5. CASE Grant(w)
  <2>1. v # w => task[v].op \notin Controls
    BY <1>5 DEF Grant
  <2> QED BY <1>5, <2>1 DEF Grant
<1>6. CASE ExecuteRefuse(w)
  BY <1>6 DEF ExecuteRefuse
<1>7. CASE ExecuteAccept(w)
  BY <1>7 DEF ExecuteAccept, Payable
<1>8. CASE Pay(w)
  <2>1. v # w => task[v].op \notin Controls
    BY <1>8 DEF Pay
  <2> QED BY <1>8, <2>1 DEF Pay
<1> QED BY <1>1, <1>2, <1>3, <1>4, <1>5, <1>6, <1>7, <1>8 DEF ControlStep

LEMMA ControlDisciplineByFinance ==
  ASSUME TypeOK, ControlDiscipline, NEW w \in Workers, FinanceStep(w)
  PROVE  ControlDiscipline'
<1> SUFFICES ASSUME NEW v \in Workers
             PROVE  /\ task'[v].op \in Controls => account' = v /\ task'[v].row \in Requests
                    /\ task'[v].op = "grant" => status'[task'[v].row] = "draft"
                    /\ task'[v].op = "pay" => status'[task'[v].row] = "eligible"
                    /\ task'[v].op \in {"execute", "pay"} =>
                         /\ task'[v].reference \in References
                         /\ \A e \in Requests : reference'[e] # task'[v].reference
  BY DEF ControlDiscipline
<1> USE NoneIsNobody DEF TypeOK, ControlDiscipline, Controls, Tasks, Become,
                         Task, requests, AccountFree
<1>1. CASE \E m \in Milestones, a \in Amounts : PrepareRead(w, m, a)
  BY <1>1 DEF PrepareRead
<1>2. ASSUME NEW d \in Requests, NEW ref \in References, ExecuteLock(w, d, ref)
      PROVE  task'[v].op \in Controls => v = w
  BY <1>2 DEF ExecuteLock
<1>3. CASE \E d \in Requests, ref \in References : ExecuteLock(w, d, ref)
  BY <1>2, <1>3 DEF ExecuteLock, Known
<1>4. CASE \E d \in Requests : CheckLock(w, d)
  BY <1>4 DEF CheckLock
<1>5. CASE \E d \in Requests : Cancel(w, d) \/ ReadAccount(w, d)
  <2>1. task[v].op \notin Controls
    BY <1>5 DEF Cancel, ReadAccount
  <2> QED BY <1>5, <2>1 DEF Cancel, ReadAccount
<1>6. CASE \E d \in Requests : Reconcile(w, d) \/ Confirm(w, d)
  BY <1>6 DEF Reconcile, Confirm
<1> QED BY <1>1, <1>3, <1>4, <1>5, <1>6 DEF FinanceStep

LEMMA ControlDisciplineKept ==
  TypeOK /\ ControlDiscipline /\ [Next]_vars => ControlDiscipline'
<1> SUFFICES ASSUME TypeOK, ControlDiscipline, [Next]_vars PROVE ControlDiscipline'
  OBVIOUS
<1>1. CASE \E w \in Workers : ControlStep(w) \/ FinanceStep(w)
  BY <1>1, ControlDisciplineByControl, ControlDisciplineByFinance
<1>2. CASE \E w \in Workers : SiteStep(w)
  BY <1>2 DEF SiteStep, ReceiptReconciled, FieldReport, AssignLot, ControlDiscipline, requests
<1>3. CASE UNCHANGED vars
  BY <1>3 DEF vars, requests, ControlDiscipline
<1> QED BY <1>1, <1>2, <1>3 DEF Next

-----------------------------------------------------------------------------
(* How one step moves a request.                                            *)

LEMMA ReleaseIsHarmless ==
  ASSUME TypeOK, NEW d \in Requests
  PROVE  Released[d] = status[d] \/ (status[d] = "eligible" /\ Released[d] = "draft")
BY DEF Released, Lapsed

\* Nothing but Prepare opens a request or writes its terms.
LEMMA RequestMoves ==
  ASSUME IInv, [Next]_vars, ~\E w \in Workers : Prepare(w), NEW d \in Requests
  PROVE  /\ terms'[d] = terms[d]
         /\ status'[d] # status[d] =>
              \/ status[d] = "draft" /\ status'[d] \in {"eligible", "cancelled"}
              \/ status[d] = "eligible" /\ status'[d] \in {"draft", "executed", "cancelled"}
<1> USE DEF IInv, TypeOK, requests
<1>1. ASSUME NEW w \in Workers, ControlStep(w)
      PROVE  /\ terms' = terms
             /\ status' = status \/ Grant(w) \/ Pay(w)
  BY <1>1 DEF ControlStep, PrepareReplay, CheckRefuse, CheckAccept, Grant,
                  ExecuteRefuse, ExecuteAccept, Pay
<1>2. ASSUME NEW w \in Workers, Grant(w) \/ Pay(w)
      PROVE  status'[d] # status[d] =>
               \/ status[d] = "draft" /\ status'[d] = "eligible"
               \/ status[d] = "eligible" /\ status'[d] = "executed"
  BY <1>2 DEF Grant, Pay, Doing, ControlDiscipline
<1>3. ASSUME NEW w \in Workers, FinanceStep(w)
      PROVE  /\ terms' = terms
             /\ \/ status' = status
                \/ status' = Released
                \/ \E e \in Requests : Cancel(w, e) \/ ReadAccount(w, e)
  BY <1>3 DEF FinanceStep, PrepareRead, CheckLock, ExecuteLock, Cancel, ReadAccount,
              Reconcile, Confirm
<1>4. ASSUME NEW w \in Workers, NEW e \in Requests, Cancel(w, e) \/ ReadAccount(w, e)
      PROVE  status'[d] # status[d] =>
               \/ status[d] = "draft" /\ status'[d] = "cancelled"
               \/ status[d] = "eligible" /\ status'[d] \in {"draft", "cancelled"}
  BY <1>4 DEF Cancel, ReadAccount, Lapsed, Open
<1>5. CASE \E w \in Workers : ControlStep(w)
  BY <1>1, <1>2, <1>5
<1>6. CASE \E w \in Workers : FinanceStep(w)
  BY <1>3, <1>4, <1>6, ReleaseIsHarmless
<1>7. CASE \E w \in Workers : SiteStep(w)
  BY <1>7 DEF SiteStep, ReceiptReconciled, FieldReport, AssignLot
<1>8. CASE UNCHANGED vars
  BY <1>8 DEF vars
<1> QED BY <1>5, <1>6, <1>7, <1>8 DEF Next

LEMMA OneOpenKept == IInv /\ [Next]_vars => OneOpenPerMilestone'
<1> SUFFICES ASSUME IInv, [Next]_vars PROVE OneOpenPerMilestone'
  OBVIOUS
<1>1. CASE \E w \in Workers : Prepare(w)
  <2> PICK w \in Workers : Prepare(w)
    BY <1>1
  <2> PICK d \in Requests : /\ status' = [status EXCEPT ![d] = "draft"]
                            /\ terms'  = [terms EXCEPT ![d] = task[w].terms]
    BY DEF Prepare
  <2>1. \A e \in Requests : status[e] \in Open => terms[e].milestone # task[w].terms.milestone
    BY DEF Prepare, OpenRequest
  <2> QED BY <2>1 DEF IInv, TypeOK, OneOpenPerMilestone
<1>2. CASE ~\E w \in Workers : Prepare(w)
  <2>1. \A d \in Requests : terms'[d] = terms[d] /\ (status'[d] \in Open => status[d] \in Open)
    BY <1>2, RequestMoves DEF Open
  <2> QED BY <2>1 DEF IInv, OneOpenPerMilestone
<1> QED BY <1>1, <1>2

-----------------------------------------------------------------------------
(* How one step moves the proof of a movement.                              *)

ProofUnchanged(d) ==
  /\ flow'[d] = flow[d] /\ reference'[d] = reference[d]
  /\ confirmed'[d] = confirmed[d] /\ excused'[d] = excused[d]

LEMMA ProofMoves ==
  ASSUME IInv, [Next]_vars, NEW d \in Requests
  PROVE  \/ ProofUnchanged(d) /\ (status'[d] = "executed" <=> status[d] = "executed")
         \/ \E w \in Workers : Pay(w) /\ task[w].row = d
         \/ \E w \in Workers : Reconcile(w, d)
         \/ \E w \in Workers : Confirm(w, d)
<1> USE DEF IInv, TypeOK, requests, ProofUnchanged
<1>1. CASE \E w \in Workers : Prepare(w)
  BY <1>1 DEF Prepare
<1>2. CASE \E w \in Workers : Pay(w)
  BY <1>2 DEF Pay, ControlDiscipline, Controls, Doing
<1>3. ASSUME NEW w \in Workers, NEW e \in Requests, Reconcile(w, e) \/ Confirm(w, e), e # d
      PROVE  ProofUnchanged(d) /\ status' = status
  BY <1>3 DEF Reconcile, Confirm
<1>4. CASE \E w \in Workers, e \in Requests : Reconcile(w, e) \/ Confirm(w, e)
  BY <1>3, <1>4
<1>5. CASE /\ ~\E w \in Workers : Prepare(w) \/ Pay(w)
           /\ ~\E w \in Workers, e \in Requests : Reconcile(w, e) \/ Confirm(w, e)
  <2>1. ProofUnchanged(d)
    BY <1>5 DEF Next, ControlStep, FinanceStep, SiteStep, PrepareReplay, CheckRefuse, CheckAccept,
         Grant, ExecuteRefuse, ExecuteAccept, PrepareRead, CheckLock, ExecuteLock, Cancel,
         ReadAccount, ReceiptReconciled, FieldReport, AssignLot, vars
  <2>2. status[d] = "executed" => status'[d] = "executed"
    BY <1>5, RequestMoves
  <2>3. status'[d] = "executed" => status[d] = "executed"
    BY <1>5, ReleaseIsHarmless DEF Next, ControlStep, FinanceStep, SiteStep, PrepareReplay,
         CheckRefuse, CheckAccept, Grant, ExecuteRefuse, ExecuteAccept, PrepareRead, CheckLock,
         ExecuteLock, Cancel, ReadAccount, ReceiptReconciled, FieldReport, AssignLot, vars
  <2> QED BY <2>1, <2>2, <2>3
<1> QED BY <1>1, <1>2, <1>4, <1>5

LEMMA PayWrites ==
  ASSUME IInv, NEW w \in Workers, Pay(w)
  PROVE  /\ task[w].row \in Requests /\ status[task[w].row] = "eligible"
         /\ task[w].reference \in References
         /\ \A e \in Requests : reference[e] # task[w].reference
         /\ status'    = [status EXCEPT ![task[w].row] = "executed"]
         /\ flow'      = [flow EXCEPT ![task[w].row] = "executed"]
         /\ reference' = [reference EXCEPT ![task[w].row] = task[w].reference]
         /\ confirmed' = confirmed /\ excused' = excused
BY DEF IInv, ControlDiscipline, Controls, Pay, Doing

LEMMA MovementsKept ==
  IInv /\ [Next]_vars => (OneMovementPerReference /\ FlowFollowsExecution /\ AbsenceStaysVisible)'
<1> SUFFICES ASSUME IInv, [Next]_vars
             PROVE  (OneMovementPerReference /\ FlowFollowsExecution /\ AbsenceStaysVisible)'
  OBVIOUS
<1> USE DEF IInv, TypeOK, OneMovementPerReference, FlowFollowsExecution, AbsenceStaysVisible
<1>1. CASE \E w \in Workers : Pay(w)
  <2> PICK w \in Workers : Pay(w)
    BY <1>1
  <2> DEFINE r == task[w].row
  <2>1. /\ r \in Requests /\ task[w].reference \in References /\ status[r] = "eligible"
        /\ \A e \in Requests : reference[e] # task[w].reference
        /\ confirmed' = confirmed /\ excused' = excused
    BY PayWrites
  <2>2. /\ status'[r] = "executed" /\ flow'[r] = "executed" /\ reference'[r] = task[w].reference
        /\ \A e \in Requests \ {r} : /\ status'[e] = status[e] /\ flow'[e] = flow[e]
                                     /\ reference'[e] = reference[e]
    BY PayWrites
  <2> HIDE DEF r
  <2>3. OneMovementPerReference'
    BY <2>1, <2>2, NoneIsNobody
  <2>4. ~confirmed[r] /\ ~excused[r]
    BY <2>1
  <2>5. FlowFollowsExecution'
    <3> SUFFICES ASSUME NEW d \in Requests
                 PROVE  /\ flow'[d] = "planned" <=> status'[d] # "executed"
                        /\ confirmed'[d] \/ excused'[d] => status'[d] = "executed"
                        /\ flow'[d] = "confirmed" => confirmed'[d]
                        /\ excused'[d] => flow'[d] = "reconciled"
      OBVIOUS
    <3>1. CASE d = r
      BY <3>1, <2>1, <2>2, <2>4
    <3>2. CASE d # r
      BY <3>2, <2>1, <2>2
    <3> QED BY <3>1, <3>2
  <2>6. AbsenceStaysVisible'
    BY <2>1, <2>2
  <2> QED BY <2>3, <2>5, <2>6
<1>2. CASE \E w \in Workers, d \in Requests : Reconcile(w, d)
  <2> PICK w \in Workers, r \in Requests : Reconcile(w, r)
    BY <1>2
  <2>1. /\ status[r] = "executed" /\ status' = status /\ reference' = reference
        /\ flow' = [flow EXCEPT ![r] = "reconciled"]
        /\ confirmed' = confirmed /\ excused' = [excused EXCEPT ![r] = flow[r] # "confirmed"]
        /\ flow[r] # "reconciled"
    BY DEF Reconcile
  <2>2. OneMovementPerReference'
    BY <2>1
  <2>3. FlowFollowsExecution' /\ AbsenceStaysVisible'
    BY <2>1 DEF Flows
  <2> QED BY <2>2, <2>3
<1>3. CASE \E w \in Workers, d \in Requests : Confirm(w, d)
  <2> PICK w \in Workers, r \in Requests : Confirm(w, r)
    BY <1>3
  <2>1. /\ status[r] = "executed" /\ status' = status /\ reference' = reference
        /\ flow' = [flow EXCEPT ![r] = IF @ = "executed" THEN "confirmed" ELSE @]
        /\ confirmed' = [confirmed EXCEPT ![r] = TRUE] /\ excused' = excused
    BY DEF Confirm
  <2>2. OneMovementPerReference'
    BY <2>1
  <2>3. FlowFollowsExecution' /\ AbsenceStaysVisible'
    BY <2>1 DEF Flows
  <2> QED BY <2>2, <2>3
<1>4. CASE /\ ~\E w \in Workers : Pay(w)
           /\ ~\E w \in Workers, d \in Requests : Reconcile(w, d) \/ Confirm(w, d)
  <2>1. \A d \in Requests : ProofUnchanged(d) /\ (status'[d] = "executed" <=> status[d] = "executed")
    BY <1>4, ProofMoves
  <2> QED BY <2>1 DEF ProofUnchanged
<1> QED BY <1>1, <1>2, <1>3, <1>4

-----------------------------------------------------------------------------
(* The theorems.                                                            *)

LEMMA InitInv == Init => IInv
<1> SUFFICES ASSUME Init PROVE IInv
  OBVIOUS
<1>1. TypeOK
  BY InitTypes
<1> QED BY <1>1 DEF Init, IInv, ControlDiscipline, Controls, Resting, Task, OneOpenPerMilestone,
              OneMovementPerReference, FlowFollowsExecution, AbsenceStaysVisible, Open

LEMMA InvKept == IInv /\ [Next]_vars => IInv'
BY TypesPreserved, ControlDisciplineKept, OneOpenKept, MovementsKept DEF IInv

LEMMA Invariant == Spec => []IInv
BY InitInv, InvKept, PTL DEF Spec

\* At most one request is open per milestone, however many workers there are.
THEOREM OneOpenCorrect == Spec => []OneOpenPerMilestone
<1>1. IInv => OneOpenPerMilestone
  BY DEF IInv
<1> QED BY <1>1, Invariant, PTL

\* A bank reference names one movement, and every executed request has one.
THEOREM OneMovementCorrect == Spec => []OneMovementPerReference
<1>1. IInv => OneMovementPerReference
  BY DEF IInv
<1> QED BY <1>1, Invariant, PTL

\* A reconciled movement was confirmed or says that it was not.
THEOREM AbsenceStaysVisibleCorrect == Spec => []AbsenceStaysVisible
<1>1. IInv => AbsenceStaysVisible
  BY DEF IInv
<1> QED BY <1>1, Invariant, PTL

\* An executed or cancelled request never moves again.
THEOREM EndedStaysEndedCorrect == Spec => EndedStaysEnded
<1>1. IInv /\ [Next]_vars =>
        [\A d \in Requests : status[d] \in {"executed", "cancelled"} => status'[d] = status[d]]_vars
  <2> SUFFICES ASSUME IInv, [Next]_vars, NEW d \in Requests, status[d] \in {"executed", "cancelled"}
               PROVE  status'[d] = status[d]
    OBVIOUS
  <2>1. CASE \E w \in Workers : Prepare(w)
    BY <2>1 DEF IInv, TypeOK, Prepare
  <2>2. CASE ~\E w \in Workers : Prepare(w)
    BY <2>2, RequestMoves
  <2> QED BY <2>1, <2>2
<1> QED BY <1>1, Invariant, PTL DEF EndedStaysEnded, Spec

\* The proof of a movement only advances, and keeps what it has recorded.
THEOREM ProofOnlyAdvancesCorrect == Spec => ProofOnlyAdvances
<1>1. IInv /\ [Next]_vars =>
        [\A d \in Requests : /\ Rank(flow[d]) <= Rank(flow'[d])
                             /\ confirmed[d] => confirmed'[d]
                             /\ excused[d] => excused'[d]]_vars
  <2> SUFFICES ASSUME IInv, [Next]_vars, NEW d \in Requests
               PROVE  /\ Rank(flow[d]) <= Rank(flow'[d])
                      /\ confirmed[d] => confirmed'[d]
                      /\ excused[d] => excused'[d]
    OBVIOUS
  <2>1. CASE ProofUnchanged(d)
    BY <2>1 DEF ProofUnchanged, Rank
  <2>2. CASE \E w \in Workers : Pay(w) /\ task[w].row = d
    BY <2>2, PayWrites DEF IInv, TypeOK, FlowFollowsExecution, Rank
  <2>3. CASE \E w \in Workers : Reconcile(w, d)
    BY <2>3 DEF IInv, TypeOK, Reconcile, Flows, FlowFollowsExecution, Rank
  <2>4. CASE \E w \in Workers : Confirm(w, d)
    BY <2>4 DEF IInv, TypeOK, Confirm, Flows, Rank
  <2> QED BY <2>1, <2>2, <2>3, <2>4, ProofMoves
<1> QED BY <1>1, Invariant, PTL DEF ProofOnlyAdvances, Spec

-----------------------------------------------------------------------------
(* Sums of integers over finite sets.                                       *)

\* If a set is good as soon as its proper subsets are, every subset is.
LEMMA SubsetInduction ==
  ASSUME NEW S, IsFiniteSet(S), NEW Good,
         \A s \in SUBSET S : (\A t \in SUBSET s : t # s => t \in Good) => s \in Good
  PROVE  SUBSET S \subseteq Good
<1>1. IsWellFoundedOn(StrictSubsetOrdering(S), SUBSET S)
  BY FS_StrictSubsetOrderingWellFounded, FS_FiniteSubsetsOfFinite
<1>2. ASSUME NEW Bad, Bad = (SUBSET S) \ Good, Bad # {} PROVE FALSE
  <2>1. PICK s \in Bad : \A t \in Bad : <<t, s>> \notin StrictSubsetOrdering(S)
    BY <1>1, <1>2, WFMin
  <2> QED BY <1>2, <2>1 DEF StrictSubsetOrdering
<1>3. (SUBSET S) \ Good = {}
  BY <1>2
<1> QED BY <1>3

-----------------------------------------------------------------------------
(* The recursion behind a sum is well defined.                              *)

Pick(S) == CHOOSE x \in S : TRUE
Left(S) == S \ {Pick(S)}

\* g sums f over every subset of S, one element after the other.
Sums(f, S, g)  == g = [s \in SUBSET S |-> IF s = {} THEN 0 ELSE f[Pick(s)] + g[Left(s)]]
SumsOver(f, S) == CHOOSE g : Sums(f, S, g)

LEMMA SumUnfolds ==
  ASSUME NEW f, NEW S
  PROVE  SumFunctionOnSet(f, S) = SumsOver(f, S)[S]
BY DEF SumFunctionOnSet, FoldFunctionOnSet, MapThenFoldSet, Sums, Pick, SumsOver, Left

LEMMA PickIn ==
  ASSUME NEW S, S # {}
  PROVE  Pick(S) \in S /\ Left(S) \in SUBSET S /\ Left(S) # S
BY DEF Pick, Left

LEMMA SumsAgree ==
  ASSUME NEW f, NEW S, IsFiniteSet(S), NEW s \in SUBSET S, NEW g, Sums(f, S, g), NEW h, Sums(f, s, h)
  PROVE  g[s] = h[s]
<1> DEFINE Good == {u \in SUBSET s : g[u] = h[u]}
<1>1. ASSUME NEW u \in SUBSET s, \A v \in SUBSET u : v # u => v \in Good PROVE u \in Good
  <2>1. CASE u = {}
    BY <2>1 DEF Sums
  <2>2. CASE u # {}
    <3>1. Left(u) \in Good
      BY <1>1, <2>2, PickIn
    <3> QED BY <2>2, <3>1 DEF Sums
  <2> QED BY <2>1, <2>2
<1>2. SUBSET s \subseteq Good
  <2>1. IsFiniteSet(s)
    BY FS_Subset
  <2> HIDE DEF Good
  <2> QED BY <1>1, <2>1, SubsetInduction
<1> QED BY <1>2

LEMMA SumsExist ==
  ASSUME NEW f, NEW S, IsFiniteSet(S)
  PROVE  \A s \in SUBSET S : Sums(f, s, SumsOver(f, s))
<1> DEFINE Good == {s \in SUBSET S : Sums(f, s, SumsOver(f, s))}
<1>1. ASSUME NEW s \in SUBSET S, \A t \in SUBSET s : t # s => t \in Good PROVE s \in Good
  <2> DEFINE V(t) == SumsOver(f, t)[t]
             h == [t \in SUBSET s |-> IF t = {} THEN 0 ELSE f[Pick(t)] + V(Left(t))]
  <2>1. ASSUME NEW t \in SUBSET s, t # s PROVE V(t) = h[t]
    <3>1. CASE t = {}
      BY <1>1, <2>1, <3>1 DEF Sums
    <3>2. CASE t # {}
      <4>1. Left(t) \in SUBSET t /\ Left(t) \in SUBSET s /\ Left(t) # s
        BY <2>1, <3>2, PickIn
      <4>2. Sums(f, t, SumsOver(f, t)) /\ Sums(f, Left(t), SumsOver(f, Left(t)))
        BY <1>1, <2>1, <4>1
      <4>3. SumsOver(f, t)[Left(t)] = V(Left(t))
        BY <4>1, <4>2, SumsAgree, FS_Subset
      <4>4. SumsOver(f, t)[t] = f[Pick(t)] + SumsOver(f, t)[Left(t)]
        BY <3>2, <4>2 DEF Sums
      <4> QED BY <3>2, <4>3, <4>4
    <3> QED BY <3>1, <3>2
  <2>2. ASSUME NEW t \in SUBSET s, t # {} PROVE h[Left(t)] = V(Left(t))
    <3>1. Left(t) \in SUBSET s /\ Left(t) # s
      BY <2>2, PickIn
    <3> QED BY <2>1, <3>1
  <2> HIDE DEF V
  <2>3. Sums(f, s, h)
    BY <2>2 DEF Sums
  <2> QED BY <2>3 DEF SumsOver
<1>2. SUBSET S \subseteq Good
  <2> HIDE DEF Good
  <2> QED BY <1>1, SubsetInduction
<1> QED BY <1>2

LEMMA SumStep ==
  ASSUME NEW f, NEW S, IsFiniteSet(S)
  PROVE  SumFunctionOnSet(f, S) = IF S = {} THEN 0 ELSE f[Pick(S)] + SumFunctionOnSet(f, Left(S))
<1>1. Sums(f, S, SumsOver(f, S))
  BY SumsExist
<1>2. CASE S = {}
  BY <1>1, <1>2, SumUnfolds DEF Sums
<1>3. CASE S # {}
  <2>1. Left(S) \in SUBSET S
    BY <1>3, PickIn
  <2>2. SumsOver(f, S)[Left(S)] = SumsOver(f, Left(S))[Left(S)]
    BY <1>1, <2>1, SumsExist, SumsAgree
  <2>3. SumsOver(f, S)[S] = f[Pick(S)] + SumsOver(f, S)[Left(S)]
    BY <1>1, <1>3 DEF Sums
  <2> QED BY <1>3, <2>2, <2>3, SumUnfolds
<1> QED BY <1>2, <1>3

-----------------------------------------------------------------------------
(* What the proofs use.                                                     *)

LEMMA SumOfNone ==
  ASSUME NEW f
  PROVE  SumFunctionOnSet(f, {}) = 0
BY SumStep, FS_EmptySet

\* Any element may be taken out first.
LEMMA SumRemove ==
  ASSUME NEW S, IsFiniteSet(S), NEW f, \A x \in S : f[x] \in Int
  PROVE  /\ SumFunctionOnSet(f, S) \in Int
         /\ \A x \in S : SumFunctionOnSet(f, S) = f[x] + SumFunctionOnSet(f, S \ {x})
<1> DEFINE Sum(s) == SumFunctionOnSet(f, s)
           Good == {s \in SUBSET S : Sum(s) \in Int /\ \A x \in s : Sum(s) = f[x] + Sum(s \ {x})}
<1>1. ASSUME NEW s \in SUBSET S, \A t \in SUBSET s : t # s => t \in Good PROVE s \in Good
  <2>1. CASE s = {}
    <3>1. Sum({}) = 0
      BY SumOfNone
    <3> QED BY <2>1, <3>1
  <2>2. CASE s # {}
    <3> DEFINE p == Pick(s)
    <3>1. p \in s /\ s \ {p} \in Good
      BY <1>1, <2>2, PickIn
    <3>2. Sum(s) = f[p] + Sum(s \ {p})
      BY <2>2, SumStep, FS_Subset DEF Left
    <3>3. ASSUME NEW x \in s, x # p PROVE Sum(s) = f[x] + Sum(s \ {x})
      <4> DEFINE r == (s \ {p}) \ {x}
      <4>1. r = (s \ {x}) \ {p} /\ x \in s \ {p} /\ p \in s \ {x}
        BY <3>1, <3>3
      <4>2. s \ {x} \in Good /\ r \in Good
        BY <1>1, <3>1, <3>3
      <4>3. Sum(s \ {p}) = f[x] + Sum(r)
        BY <3>1, <4>1
      <4>4. Sum(s \ {x}) = f[p] + Sum(r)
        BY <4>1, <4>2
      <4>5. f[x] \in Int /\ f[p] \in Int /\ Sum(r) \in Int
        BY <3>1, <4>2
      <4> QED BY <3>2, <4>3, <4>4, <4>5
    <3>4. Sum(s) \in Int
      BY <3>1, <3>2
    <3> QED BY <3>2, <3>3, <3>4
  <2> QED BY <2>1, <2>2
<1>2. SUBSET S \subseteq Good
  <2> HIDE DEF Good
  <2> QED BY <1>1, SubsetInduction
<1> QED BY <1>2

LEMMA SumOfZeros ==
  ASSUME NEW S, IsFiniteSet(S), NEW f, \A x \in S : f[x] = 0
  PROVE  SumFunctionOnSet(f, S) = 0
<1> DEFINE Good == {s \in SUBSET S : SumFunctionOnSet(f, s) = 0}
<1>1. ASSUME NEW s \in SUBSET S, \A u \in SUBSET s : u # s => u \in Good
      PROVE  s \in Good
  <2>1. CASE s = {}
    BY <2>1, SumOfNone
  <2>2. CASE s # {}
    <3>1. PICK x \in s : TRUE
      BY <2>2
    <3>2. IsFiniteSet(s) /\ \A y \in s : f[y] \in Int
      BY FS_Subset
    <3>3. SumFunctionOnSet(f, s) = f[x] + SumFunctionOnSet(f, s \ {x})
      BY <3>1, <3>2, SumRemove
    <3>4. s \ {x} \in Good
      BY <1>1, <3>1
    <3> QED BY <3>1, <3>3, <3>4
  <2> QED BY <2>1, <2>2
<1>2. SUBSET S \subseteq Good
  <2> HIDE DEF Good
  <2> QED BY <1>1, SubsetInduction
<1> QED BY <1>2

\* Only the values on the set count.
LEMMA SumSame ==
  ASSUME NEW S, IsFiniteSet(S), NEW f, NEW g, \A x \in S : f[x] = g[x]
  PROVE  SumFunctionOnSet(f, S) = SumFunctionOnSet(g, S)
<1> DEFINE Good == {s \in SUBSET S : SumFunctionOnSet(f, s) = SumFunctionOnSet(g, s)}
<1>1. ASSUME NEW s \in SUBSET S, \A t \in SUBSET s : t # s => t \in Good PROVE s \in Good
  <2>1. CASE s = {}
    BY <2>1, SumOfNone
  <2>2. CASE s # {}
    <3>1. Left(s) \in Good /\ f[Pick(s)] = g[Pick(s)]
      BY <1>1, <2>2, PickIn
    <3> QED BY <2>2, <3>1, SumStep, FS_Subset
  <2> QED BY <2>1, <2>2
<1>2. SUBSET S \subseteq Good
  <2> HIDE DEF Good
  <2> QED BY <1>1, SubsetInduction
<1> QED BY <1>2

\* A sum of naturals grows with its terms, and with the set.
LEMMA SumGrows ==
  ASSUME NEW S, IsFiniteSet(S), NEW T \in SUBSET S, NEW f, NEW g,
         \A x \in S : g[x] \in Nat, \A x \in T : f[x] \in Nat /\ f[x] <= g[x]
  PROVE  /\ SumFunctionOnSet(f, T) \in Nat /\ SumFunctionOnSet(g, S) \in Nat
         /\ SumFunctionOnSet(f, T) <= SumFunctionOnSet(g, S)
<1> DEFINE F(t) == SumFunctionOnSet(f, t)
           G(s) == SumFunctionOnSet(g, s)
           Good == {s \in SUBSET S : /\ F(s \cap T) \in Nat /\ G(s) \in Nat
                                     /\ F(s \cap T) <= G(s)}
<1>1. ASSUME NEW s \in SUBSET S, \A t \in SUBSET s : t # s => t \in Good PROVE s \in Good
  <2>1. CASE s = {}
    <3>1. F({}) = 0 /\ G({}) = 0
      BY SumOfNone
    <3> QED BY <2>1, <3>1
  <2>2. CASE s # {}
    <3>1. PICK x \in s : TRUE
      BY <2>2
    <3>2. s \ {x} \in Good
      BY <1>1
    <3>3. G(s) = g[x] + G(s \ {x})
      BY FS_Subset, SumRemove
    <3>4. CASE x \notin T
      <4>1. s \cap T = (s \ {x}) \cap T
        BY <3>4
      <4>2. F(s \cap T) \in Nat /\ G(s \ {x}) \in Nat /\ F(s \cap T) <= G(s \ {x}) /\ g[x] \in Nat
        BY <3>1, <3>2, <4>1
      <4> HIDE DEF F, G
      <4> QED BY <3>3, <4>2
    <3>5. CASE x \in T
      <4>1. (s \cap T) \ {x} = (s \ {x}) \cap T
        OBVIOUS
      <4>2. IsFiniteSet(s \cap T) /\ \A y \in s \cap T : f[y] \in Int
        BY FS_Subset
      <4>3. F(s \cap T) = f[x] + F((s \cap T) \ {x})
        BY <3>1, <3>5, <4>2, SumRemove
      <4> QED BY <3>2, <3>3, <3>5, <4>1, <4>3
    <3> QED BY <3>4, <3>5
  <2> QED BY <2>1, <2>2
<1>2. SUBSET S \subseteq Good
  <2> HIDE DEF Good
  <2> QED BY <1>1, SubsetInduction
<1>3. S \in Good /\ S \cap T = T
  BY <1>2
<1> QED BY <1>3

\* One term changes.
LEMMA SumUpdate ==
  ASSUME NEW S, IsFiniteSet(S), NEW f, NEW g, NEW x \in S,
         \A y \in S : f[y] \in Int /\ g[y] \in Int, \A y \in S \ {x} : g[y] = f[y]
  PROVE  SumFunctionOnSet(g, S) = SumFunctionOnSet(f, S) - f[x] + g[x]
<1>1. SumFunctionOnSet(g, S \ {x}) = SumFunctionOnSet(f, S \ {x})
  BY SumSame, FS_Subset
<1>2. SumFunctionOnSet(f, S) = f[x] + SumFunctionOnSet(f, S \ {x})
  BY SumRemove
<1>3. SumFunctionOnSet(g, S) = g[x] + SumFunctionOnSet(g, S \ {x}) /\ SumFunctionOnSet(g, S) \in Int
  BY SumRemove
<1>4. SumFunctionOnSet(f, S \ {x}) \in Int
  BY SumRemove, FS_Subset
<1> QED BY <1>1, <1>2, <1>3, <1>4

-----------------------------------------------------------------------------
(* The account.                                                             *)

\* What the request d counts for in the total of status s.
Counts(d, s) == IF status[d] = s THEN terms[d].amount ELSE 0

\* A row has its terms, and so has a preparation that waits for the account.
RowsHaveTerms ==
  /\ \A d \in Requests : status[d] # "none" => terms[d] \in Terms
  /\ \A w \in Workers : task[w].op = "prepare" => task[w].terms \in Terms

LEMMA CountsAreNat ==
  ASSUME TypeOK, RowsHaveTerms, NEW d \in Requests, NEW s \in Statuses \ {"none"}
  PROVE  /\ Counts(d, s) \in Nat
         /\ status[d] = s => Counts(d, s) > 0 /\ Counts(d, s) = terms[d].amount
<1>1. ASSUME status[d] = s PROVE terms[d].amount \in Nat \ {0}
  <2>1. terms[d] \in Terms
    BY <1>1 DEF TypeOK, RowsHaveTerms
  <2> QED BY <2>1, AmountsArePositive DEF Terms
<1> QED BY <1>1 DEF Counts

\* The total of the counts c, a function of the requests.
LEMMA TotalIsSum ==
  ASSUME NEW s
  PROVE  Total(s) = SumFunctionOnSet([d \in Requests |-> Counts(d, s)], Requests)
BY DEF Total, SumFunction, Counts

LEMMA TotalIsNat ==
  ASSUME TypeOK, RowsHaveTerms, NEW s \in Statuses \ {"none"}
  PROVE  Total(s) \in Nat
<1> DEFINE f == [d \in Requests |-> Counts(d, s)]
<1>1. \A d \in Requests : f[d] \in Nat /\ f[d] <= f[d]
  BY CountsAreNat
<1>2. SumFunctionOnSet(f, Requests) \in Nat
  <2> HIDE DEF f
  <2> QED BY <1>1, RowsAreFinite, SumGrows
<1> QED BY <1>2, TotalIsSum

LEMMA TotalsAreNat ==
  TypeOK /\ RowsHaveTerms => Total("executed") \in Nat /\ Total("eligible") \in Nat
BY TotalIsNat DEF Statuses, Open

\* Nothing moves, or no request counts for more.
LEMMA TotalMoves ==
  ASSUME TypeOK, RowsHaveTerms, TypeOK', RowsHaveTerms', NEW s \in Statuses \ {"none"}
  PROVE  /\ (\A d \in Requests : Counts(d, s)' = Counts(d, s)) => Total(s)' = Total(s)
         /\ (\A d \in Requests : Counts(d, s)' <= Counts(d, s)) => Total(s)' <= Total(s)
         /\ \A e \in Requests :
              (\A d \in Requests \ {e} : Counts(d, s)' = Counts(d, s))
                => Total(s)' = Total(s) - Counts(e, s) + Counts(e, s)'
<1> DEFINE f == [d \in Requests |-> Counts(d, s)]
           g == [d \in Requests |-> Counts(d, s)']
<1>1. \A d \in Requests : /\ f[d] \in Nat /\ g[d] \in Nat
                          /\ f[d] = Counts(d, s) /\ g[d] = Counts(d, s)'
  <2>1. \A d \in Requests : Counts(d, s) \in Nat
    BY CountsAreNat
  <2>2. \A d \in Requests : Counts(d, s)' \in Nat
    BY AmountsArePositive DEF TypeOK, RowsHaveTerms, Counts, Terms
  <2> QED BY <2>1, <2>2
<1>2. Total(s) = SumFunctionOnSet(f, Requests) /\ Total(s)' = SumFunctionOnSet(g, Requests)
  BY DEF Total, SumFunction, Counts
<1> HIDE DEF f, g
<1>3. (\A d \in Requests : g[d] = f[d]) => SumFunctionOnSet(g, Requests) = SumFunctionOnSet(f, Requests)
  BY RowsAreFinite, SumSame
<1>4. (\A d \in Requests : g[d] <= f[d]) => SumFunctionOnSet(g, Requests) <= SumFunctionOnSet(f, Requests)
  BY <1>1, RowsAreFinite, SumGrows
<1>5. ASSUME NEW e \in Requests, \A d \in Requests \ {e} : g[d] = f[d]
      PROVE  SumFunctionOnSet(g, Requests) = SumFunctionOnSet(f, Requests) - f[e] + g[e]
  <2>1. \A d \in Requests : f[d] \in Int /\ g[d] \in Int
    BY <1>1
  <2> QED BY <1>5, <2>1, RowsAreFinite, SumUpdate
<1> QED BY <1>1, <1>2, <1>3, <1>4, <1>5

\* A control that is about to grant has found the funds, and they stay.
GrantIsCovered ==
  \A w \in Workers : task[w].op = "grant" => terms[task[w].row].amount <= Available

MoneyInv == IInv /\ RowsHaveTerms /\ GrantIsCovered /\ NeverOverdrawn

LEMMA RowsKeepTerms == IInv /\ RowsHaveTerms /\ [Next]_vars => RowsHaveTerms'
<1> SUFFICES ASSUME IInv, RowsHaveTerms, [Next]_vars PROVE RowsHaveTerms'
  OBVIOUS
<1> USE DEF IInv, TypeOK, RowsHaveTerms
<1>1. ASSUME NEW w \in Workers, Prepare(w) PROVE RowsHaveTerms'
  BY <1>1 DEF Prepare, Doing, Rest, Become, Resting, Task
<1>2. CASE ~\E w \in Workers : Prepare(w)
  <2>1. \A d \in Requests : status'[d] # "none" => terms'[d] \in Terms
    BY <1>2, RequestMoves
  <2>2. ASSUME NEW v \in Workers, task'[v].op = "prepare" PROVE task'[v].terms \in Terms
    <3>1. ASSUME NEW w \in Workers, ControlStep(w) PROVE task'[v].terms \in Terms
      BY <1>2, <2>2, <3>1 DEF ControlStep, PrepareReplay, CheckRefuse, CheckAccept, Grant, ExecuteRefuse,
           ExecuteAccept, Pay, Rest, Become, Step, Resting, Task, Tasks, Doing
    <3>2. ASSUME NEW w \in Workers, FinanceStep(w) PROVE task'[v].terms \in Terms
      BY <2>2, <3>2 DEF FinanceStep, PrepareRead, ExecuteLock, CheckLock, Cancel, ReadAccount, Reconcile,
           Confirm, Become, Task, Terms
    <3>3. CASE \E w \in Workers : SiteStep(w)
      BY <2>2, <3>3 DEF SiteStep, ReceiptReconciled, FieldReport, AssignLot
    <3>4. CASE UNCHANGED vars
      BY <2>2, <3>4 DEF vars
    <3> QED BY <3>1, <3>2, <3>3, <3>4 DEF Next
  <2> QED BY <2>1, <2>2
<1> QED BY <1>1, <1>2

-----------------------------------------------------------------------------
(* How one step moves the balances.                                         *)

Settles ==
  /\ received' = received /\ Total("executed")' = Total("executed")
  /\ Total("eligible")' <= Total("eligible")
Reserves ==
  /\ received' = received /\ Total("executed")' = Total("executed")
  /\ Total("eligible")' > Total("eligible")
  /\ Total("eligible")' - Total("eligible") <= Available
Spends ==
  /\ received' = received /\ Total("eligible")' < Total("eligible")
  /\ Total("executed")' = Total("executed") + (Total("eligible") - Total("eligible")')
Receives ==
  /\ received' > received /\ Total("executed")' = Total("executed")
  /\ Total("eligible")' = Total("eligible")

LEMMA GrantReserves ==
  ASSUME MoneyInv, TypeOK', RowsHaveTerms', NEW w \in Workers, Grant(w)
  PROVE  Reserves
<1>0. PICK r \in Requests : r = task[w].row
  BY DEF MoneyInv, IInv, ControlDiscipline, Controls, Grant, Doing
<1>1. /\ TypeOK /\ RowsHaveTerms /\ r \in Requests /\ status[r] = "draft" /\ terms' = terms
      /\ status' = [status EXCEPT ![r] = "eligible"] /\ received' = received
      /\ terms[r].amount <= Available
  BY <1>0 DEF MoneyInv, IInv, ControlDiscipline, Controls, GrantIsCovered, Grant, Doing, site
<1>2. terms[r].amount \in Nat \ {0}
  BY <1>1, AmountsArePositive DEF RowsHaveTerms, Terms
<1>3. Total("executed")' = Total("executed")
  <2>1. \A d \in Requests : Counts(d, "executed")' = Counts(d, "executed")
    BY <1>1 DEF TypeOK, Counts
  <2> QED BY <1>1, <2>1, TotalMoves DEF Statuses
<1>4. Total("eligible")' = Total("eligible") + terms[r].amount /\ Total("eligible") \in Nat
  <2>1. /\ \A d \in Requests \ {r} : Counts(d, "eligible")' = Counts(d, "eligible")
        /\ Counts(r, "eligible") = 0 /\ Counts(r, "eligible")' = terms[r].amount
    BY <1>1 DEF TypeOK, Counts
  <2>2. Total("eligible")' = Total("eligible") - Counts(r, "eligible") + Counts(r, "eligible")'
    BY <1>1, <2>1, TotalMoves DEF Statuses, Open
  <2>3. Total("eligible") \in Nat
    BY <1>1, TotalIsNat DEF Statuses, Open
  <2> QED BY <1>2, <2>1, <2>2, <2>3
<1>5. terms[r].amount <= Available /\ received' = received
  BY <1>1
<1> HIDE DEF Available
<1> QED BY <1>2, <1>3, <1>4, <1>5 DEF Reserves

LEMMA PaySpends ==
  ASSUME MoneyInv, TypeOK', RowsHaveTerms', NEW w \in Workers, Pay(w)
  PROVE  Spends
<1>0. PICK r \in Requests : r = task[w].row
  BY PayWrites DEF MoneyInv
<1>1. /\ TypeOK /\ RowsHaveTerms /\ r \in Requests /\ status[r] = "eligible" /\ terms' = terms
      /\ status' = [status EXCEPT ![r] = "executed"] /\ received' = received
  BY <1>0, PayWrites DEF MoneyInv, IInv, Pay, site
<1>2. terms[r].amount \in Nat \ {0}
  BY <1>1, AmountsArePositive DEF RowsHaveTerms, Terms
<1>3. Total("executed")' = Total("executed") + terms[r].amount /\ Total("executed") \in Nat
  <2>1. /\ \A d \in Requests \ {r} : Counts(d, "executed")' = Counts(d, "executed")
        /\ Counts(r, "executed") = 0 /\ Counts(r, "executed")' = terms[r].amount
    BY <1>1 DEF TypeOK, Counts
  <2>2. Total("executed")' = Total("executed") - Counts(r, "executed") + Counts(r, "executed")'
    BY <1>1, <2>1, TotalMoves DEF Statuses
  <2>3. Total("executed") \in Nat
    BY <1>1, TotalIsNat DEF Statuses
  <2> QED BY <1>2, <2>1, <2>2, <2>3
<1>4. Total("eligible")' = Total("eligible") - terms[r].amount /\ Total("eligible") \in Nat
  <2>1. /\ \A d \in Requests \ {r} : Counts(d, "eligible")' = Counts(d, "eligible")
        /\ Counts(r, "eligible") = terms[r].amount /\ Counts(r, "eligible")' = 0
    BY <1>1 DEF TypeOK, Counts
  <2>2. Total("eligible")' = Total("eligible") - Counts(r, "eligible") + Counts(r, "eligible")'
    BY <1>1, <2>1, TotalMoves DEF Statuses, Open
  <2>3. Total("eligible") \in Nat
    BY <1>1, TotalIsNat DEF Statuses, Open
  <2> QED BY <1>2, <2>1, <2>2, <2>3
<1> QED BY <1>1, <1>2, <1>3, <1>4 DEF Spends

\* Every other step leaves the money reserved where it is, or releases some.
LEMMA OthersSettle ==
  ASSUME MoneyInv, TypeOK', RowsHaveTerms', [Next]_vars,
         ~\E w \in Workers : Grant(w) \/ Pay(w) \/ \E a \in Amounts : ReceiptReconciled(w, a)
  PROVE  Settles
<1>1. TypeOK /\ RowsHaveTerms /\ IInv
  BY DEF MoneyInv, IInv
<1>2. received' = received
  BY DEF Next, ControlStep, FinanceStep, SiteStep, PrepareReplay, Prepare, CheckRefuse, CheckAccept,
         ExecuteRefuse, ExecuteAccept, PrepareRead, CheckLock, ExecuteLock, Cancel, ReadAccount,
         Reconcile, Confirm, FieldReport, AssignLot, vars, site
<1>3. \A d \in Requests :
        /\ status'[d] = "executed" <=> status[d] = "executed"
        /\ status'[d] = "eligible" => status[d] = "eligible"
        /\ status[d] # "none" => terms'[d] = terms[d]
  <2>1. CASE \E w \in Workers : Prepare(w)
    BY <1>1, <2>1 DEF Prepare, TypeOK
  <2>2. CASE ~\E w \in Workers : Prepare(w)
    <3> SUFFICES ASSUME NEW d \in Requests
                 PROVE  /\ status'[d] = "executed" <=> status[d] = "executed"
                        /\ status'[d] = "eligible" => status[d] = "eligible"
                        /\ terms'[d] = terms[d]
      OBVIOUS
    <3>1. terms'[d] = terms[d] /\ (status[d] = "executed" => status'[d] = "executed")
      BY <1>1, <2>2, RequestMoves
    <3>2. /\ status'[d] = "executed" => status[d] = "executed"
          /\ status'[d] = "eligible" => status[d] = "eligible"
      BY <1>1, <2>2, ReleaseIsHarmless DEF Next, ControlStep, FinanceStep, SiteStep, PrepareReplay,
         CheckRefuse, CheckAccept, ExecuteRefuse, ExecuteAccept, PrepareRead, CheckLock, ExecuteLock, Cancel,
         ReadAccount, Reconcile, Confirm, FieldReport, AssignLot, vars, requests, TypeOK
    <3> QED BY <3>1, <3>2
  <2> QED BY <2>1, <2>2
<1>4. Total("executed")' = Total("executed")
  <2>1. ASSUME NEW d \in Requests PROVE Counts(d, "executed")' = Counts(d, "executed")
    <3>1. CASE status[d] = "executed"
      BY <1>3, <3>1 DEF Counts
    <3>2. CASE status[d] # "executed"
      BY <1>3, <3>2 DEF Counts
    <3> QED BY <3>1, <3>2
  <2> QED BY <1>1, <2>1, TotalMoves DEF Statuses
<1>5. Total("eligible")' <= Total("eligible")
  <2>1. ASSUME NEW d \in Requests PROVE Counts(d, "eligible")' <= Counts(d, "eligible")
    <3>1. Counts(d, "eligible") \in Nat
      BY <1>1, CountsAreNat DEF Statuses, Open
    <3>2. CASE status'[d] = "eligible"
      BY <1>3, <3>1, <3>2 DEF Counts
    <3>3. CASE status'[d] # "eligible"
      BY <3>1, <3>3 DEF Counts
    <3> QED BY <3>2, <3>3
  <2> QED BY <1>1, <2>1, TotalMoves DEF Statuses, Open
<1> QED BY <1>2, <1>4, <1>5 DEF Settles

LEMMA ReceiptReceives ==
  ASSUME MoneyInv, NEW w \in Workers, NEW a \in Amounts, ReceiptReconciled(w, a)
  PROVE  Receives
<1>1. received' > received
  BY AmountsArePositive DEF MoneyInv, IInv, TypeOK, ReceiptReconciled
<1>2. Total("executed")' = Total("executed") /\ Total("eligible")' = Total("eligible")
  BY DEF ReceiptReconciled, requests, Total
<1> QED BY <1>1, <1>2 DEF Receives

LEMMA MoneyMoves ==
  ASSUME MoneyInv, [Next]_vars
  PROVE  /\ IInv' /\ RowsHaveTerms' /\ received \in Nat /\ received' \in Nat
         /\ Total("executed") \in Nat /\ Total("eligible") \in Nat
         /\ Total("executed")' \in Nat /\ Total("eligible")' \in Nat
         /\ \/ Settles
            \/ Reserves /\ \E w \in Workers : Grant(w)
            \/ Spends /\ \E w \in Workers : Pay(w)
            \/ Receives
<1>1. IInv' /\ RowsHaveTerms' /\ TypeOK /\ TypeOK' /\ RowsHaveTerms
  BY InvKept, RowsKeepTerms DEF MoneyInv, IInv
<1>2. Total("executed") \in Nat /\ Total("eligible") \in Nat
  BY <1>1, TotalIsNat DEF Statuses, Open
<1>3. Total("executed")' \in Nat /\ Total("eligible")' \in Nat
  <2>1. (TypeOK /\ RowsHaveTerms => Total("executed") \in Nat /\ Total("eligible") \in Nat)'
    BY TotalsAreNat, PTL
  <2> QED BY <1>1, <2>1
<1> QED BY <1>1, <1>2, <1>3, GrantReserves, PaySpends, ReceiptReceives, OthersSettle DEF TypeOK

LEMMA MoneyInit == Init => MoneyInv /\ Total("executed") = 0 /\ Total("eligible") = 0
<1> SUFFICES ASSUME Init PROVE MoneyInv /\ Total("executed") = 0 /\ Total("eligible") = 0
  OBVIOUS
<1>1. ASSUME NEW s \in {"executed", "eligible"} PROVE Total(s) = 0
  <2> DEFINE f == [d \in Requests |-> Counts(d, s)]
  <2>1. \A d \in Requests : f[d] = 0
    BY DEF Init, Counts
  <2>2. SumFunctionOnSet(f, Requests) = 0
    <3> HIDE DEF f
    <3> QED BY <2>1, RowsAreFinite, SumOfZeros
  <2> QED BY <2>2, TotalIsSum
<1>2. RowsHaveTerms /\ GrantIsCovered
  BY DEF Init, RowsHaveTerms, GrantIsCovered, Resting, Task
<1>3. NeverOverdrawn
  BY <1>1 DEF Init, NeverOverdrawn
<1> QED BY <1>1, <1>2, <1>3, InitInv DEF MoneyInv

LEMMA MoneyKept == MoneyInv /\ [Next]_vars => MoneyInv'
<1> SUFFICES ASSUME MoneyInv, [Next]_vars PROVE MoneyInv'
  OBVIOUS
<1> DEFINE E == Total("eligible")
           X == Total("executed")
<1>1. /\ IInv' /\ RowsHaveTerms' /\ received \in Nat /\ received' \in Nat
      /\ E \in Nat /\ X \in Nat /\ E' \in Nat /\ X' \in Nat
      /\ \/ Settles
         \/ Reserves /\ \E w \in Workers : Grant(w)
         \/ Spends /\ \E w \in Workers : Pay(w)
         \/ Receives
  BY MoneyMoves
<1>2. NeverOverdrawn'
  <2>1. X + E <= received
    BY DEF MoneyInv, NeverOverdrawn
  <2> HIDE DEF E, X
  <2>2. X' + E' <= received'
    BY <1>1, <2>1 DEF Settles, Reserves, Spends, Receives, Available, E, X
  <2> QED BY <2>2 DEF NeverOverdrawn, E, X
<1>3. GrantIsCovered'
  <2> SUFFICES ASSUME NEW v \in Workers, task'[v].op = "grant"
               PROVE  terms'[task'[v].row].amount <= Available'
    BY DEF GrantIsCovered
  <2>1. CASE task[v].op = "grant"
    <3>1. task[v].row \in Requests /\ account = v /\ status[task[v].row] = "draft"
      BY <2>1 DEF MoneyInv, IInv, ControlDiscipline, Controls
    <3>2. ~\E w \in Workers : Grant(w) \/ Pay(w)
      BY <2>1, <3>1 DEF MoneyInv, IInv, TypeOK, ControlDiscipline, Controls, Grant, Pay, Doing, Rest, Become,
                        Resting, Task
    <3>3. task'[v] = task[v]
      BY <2>1, <3>1, <3>2, NoneIsNobody DEF Next, ControlStep, FinanceStep, SiteStep, PrepareReplay,
         Prepare, CheckRefuse, CheckAccept, ExecuteRefuse, ExecuteAccept, PrepareRead, CheckLock,
         ExecuteLock, Cancel, ReadAccount, Reconcile, Confirm, ReceiptReconciled, FieldReport, AssignLot,
         vars, MoneyInv, IInv, TypeOK, Doing, Idle, Rest, Become, Step
    <3>4. terms'[task[v].row] = terms[task[v].row]
      <4>1. CASE \E w \in Workers : Prepare(w)
        BY <3>1, <4>1 DEF Prepare, MoneyInv, IInv, TypeOK
      <4>2. CASE ~\E w \in Workers : Prepare(w)
        BY <3>1, <4>2, RequestMoves DEF MoneyInv
      <4> QED BY <4>1, <4>2
    <3>5. Available <= Available' /\ Available \in Int /\ Available' \in Int
      BY <1>1, <3>2 DEF Settles, Receives, Available
    <3>6. terms[task[v].row].amount \in Nat /\ terms[task[v].row].amount <= Available
      BY <2>1, <3>1, AmountsArePositive DEF MoneyInv, RowsHaveTerms, GrantIsCovered, Terms
    <3> HIDE DEF Available
    <3> QED BY <3>3, <3>4, <3>5, <3>6
  <2>2. CASE task[v].op # "grant"
    <3>1. PICK w \in Workers : CheckAccept(w)
      BY <2>2 DEF Next, ControlStep, FinanceStep, SiteStep, PrepareReplay, Prepare, CheckRefuse,
         Grant, ExecuteRefuse, ExecuteAccept, Pay, PrepareRead, CheckLock, ExecuteLock, Cancel, ReadAccount,
         Reconcile, Confirm, ReceiptReconciled, FieldReport, AssignLot, vars, MoneyInv, IInv, TypeOK,
         Rest, Become, Step, Resting, Task, Tasks
    <3>2. /\ task'[v].row = task[v].row /\ terms[task[v].row].amount <= Available
          /\ UNCHANGED <<terms, status, received>>
      BY <2>2, <3>1 DEF CheckAccept, Grantable, Step, Become, MoneyInv, IInv, TypeOK, Tasks, requests, site
    <3> QED BY <3>2 DEF Available, Total
  <2> QED BY <2>1, <2>2
<1> QED BY <1>1, <1>2, <1>3 DEF MoneyInv

LEMMA MoneyInvariant == Spec => []MoneyInv
BY MoneyInit, MoneyKept, PTL DEF Spec

\* Whatever overlaps, the money reserved and spent never exceeds what was
\* received (T10, check_disbursement_eligibility).
THEOREM NeverOverdrawnCorrect == Spec => []NeverOverdrawn
<1>1. MoneyInv => NeverOverdrawn
  BY DEF MoneyInv
<1> QED BY <1>1, MoneyInvariant, PTL

\* Whatever overlaps, the account does nothing but what Account promises: it
\* receives, reserves what is available, releases, and spends what it reserved.
THEOREM ImplementsAccountCorrect == Spec => ImplementsAccount
<1>1. Init => Ledger!Init
  BY MoneyInit DEF Init, Ledger!Init, Available
<1>2. MoneyInv /\ [Next]_vars => [Ledger!Next]_(Ledger!vars)
  <2> SUFFICES ASSUME MoneyInv, [Next]_vars PROVE [Ledger!Next]_(Ledger!vars)
    OBVIOUS
  <2> DEFINE E == Total("eligible")
             X == Total("executed")
  <2>1. /\ received \in Nat /\ received' \in Nat
        /\ E \in Nat /\ X \in Nat /\ E' \in Nat /\ X' \in Nat
        /\ Settles \/ Reserves \/ Spends \/ Receives
    BY MoneyMoves
  <2>2. /\ Available = received - (X + E) /\ Available' = received' - (X' + E')
    BY DEF Available
  <2>3. CASE Settles
    <3>1. CASE E' = E
      BY <2>2, <2>3, <3>1 DEF Settles, Ledger!vars
    <3>2. CASE E' # E
      <4>1. received' = received /\ X' = X /\ E' <= E
        BY <2>3 DEF Settles
      <4>2. E' < E /\ Available' = Available + (E - E')
        <5> HIDE DEF E, X
        <5> QED BY <2>1, <2>2, <3>2, <4>1
      <4> QED BY <4>1, <4>2 DEF Ledger!Next, Ledger!Release
    <3> QED BY <3>1, <3>2
  <2>4. CASE Reserves
    BY <2>1, <2>2, <2>4 DEF Reserves, Ledger!Next, Ledger!Reserve
  <2>5. CASE Spends
    BY <2>1, <2>2, <2>5 DEF Spends, Ledger!Next, Ledger!Spend
  <2>6. CASE Receives
    BY <2>1, <2>2, <2>6 DEF Receives, Ledger!Next, Ledger!Receive
  <2> QED BY <2>1, <2>3, <2>4, <2>5, <2>6
<1> QED BY <1>1, <1>2, MoneyInvariant, PTL DEF Spec, ImplementsAccount, Ledger!Spec

-----------------------------------------------------------------------------
(* Requests that take turns.                                                *)

\* What an execution in progress has found out about its milestone and its
\* company is still so.
FoundDue(w, d) ==
  /\ task[w].op = "execute" /\ status[d] = "eligible" => terms[d].milestone \notin blocked
  /\ task[w].op = "pay" => terms[d].milestone \notin blocked /\ terms[d].beneficiary = assigned
DueInTurn == ~overlapped => \A w \in Workers : FoundDue(w, task[w].row)

TurnInv == IInv /\ DueInTurn

\* Unless requests have overlapped, whoever has begun makes the next step.
LEMMA TurnsAreTaken ==
  ASSUME MCNext, ~overlapped'
  PROVE  Next /\ ~overlapped /\ \A w \in Workers : Idle(w) \/ task'[w] # task[w]
BY DEF MCNext

LEMMA TurnKept == TurnInv /\ [MCNext]_<<vars, overlapped>> => TurnInv'
<1> SUFFICES ASSUME TurnInv, [MCNext]_<<vars, overlapped>> PROVE TurnInv'
  OBVIOUS
<1>1. IInv' /\ TypeOK /\ TypeOK'
  BY InvKept DEF TurnInv, MCNext, IInv
<1>2. CASE UNCHANGED <<vars, overlapped>>
  BY <1>1, <1>2 DEF TurnInv, DueInTurn, FoundDue, vars, requests, site
<1>3. CASE MCNext
  <2> SUFFICES ASSUME ~overlapped', NEW v \in Workers, task'[v].op \in {"execute", "pay"}
               PROVE  FoundDue(v, task[v].row)'
    BY <1>1 DEF TurnInv, DueInTurn, FoundDue
  <2>1. Next /\ ~overlapped /\ \A w \in Workers : Idle(w) \/ task'[w] # task[w]
    BY <1>3, TurnsAreTaken
  <2>2. task'[v] # task[v]
    BY <2>1 DEF Idle
  <2>3. \/ \E d \in Requests, ref \in References : ExecuteLock(v, d, ref)
        \/ ExecuteAccept(v)
    <3>1. ASSUME NEW w \in Workers, ControlStep(w) PROVE ExecuteAccept(v)
      BY <1>1, <2>2, <3>1 DEF TypeOK, Tasks, ControlStep, PrepareReplay, Prepare, CheckRefuse, CheckAccept, Grant,
           ExecuteRefuse, ExecuteAccept, Pay, Rest, Become, Step, Resting, Task
    <3>2. ASSUME NEW w \in Workers, FinanceStep(w)
          PROVE  \E d \in Requests, ref \in References : ExecuteLock(v, d, ref)
      BY <1>1, <2>2, <3>2 DEF TypeOK, Tasks, FinanceStep, PrepareRead, CheckLock, ExecuteLock, Cancel, ReadAccount,
           Reconcile, Confirm, Become, Task
    <3>3. ~\E w \in Workers : SiteStep(w)
      BY <2>2 DEF SiteStep, ReceiptReconciled, FieldReport, AssignLot
    <3> QED BY <2>1, <3>1, <3>2, <3>3 DEF Next
  <2>4. ASSUME NEW d \in Requests, NEW ref \in References, ExecuteLock(v, d, ref)
        PROVE  /\ task'[v].op = "execute" /\ task'[v].row = d /\ terms' = terms /\ blocked' = blocked
               /\ status'[d] = "eligible" => terms[d].milestone \notin blocked
    BY <1>1, <2>4 DEF TypeOK, ExecuteLock, Become, Task, Released, Lapsed, site
  <2>5. ASSUME ExecuteAccept(v)
        PROVE  /\ task'[v].op = "pay" /\ task'[v].row = task[v].row /\ UNCHANGED <<requests, site>>
               /\ terms[task[v].row].milestone \notin blocked
               /\ terms[task[v].row].beneficiary = assigned
    BY <1>1, <2>1, <2>5 DEF TypeOK, Tasks, ExecuteAccept, Payable, RightBeneficiary, Step, Become, Doing,
                            TurnInv, DueInTurn, FoundDue
  <2>6. CASE ExecuteAccept(v)
    BY <2>5, <2>6 DEF FoundDue, requests, site
  <2>7. ASSUME NEW d \in Requests, NEW ref \in References, ExecuteLock(v, d, ref)
        PROVE  FoundDue(v, task[v].row)'
    BY <2>4, <2>7 DEF FoundDue
  <2> QED BY <2>3, <2>6, <2>7
<1> QED BY <1>2, <1>3

LEMMA TurnInit == MCInit => TurnInv
<1> SUFFICES ASSUME MCInit PROVE TurnInv
  OBVIOUS
<1>1. IInv
  BY InitInv DEF MCInit
<1>2. DueInTurn
  BY DEF MCInit, Init, DueInTurn, FoundDue, Resting, Task
<1> QED BY <1>1, <1>2 DEF TurnInv

\* As long as requests take turns, every payment is due when it is made: the
\* milestone is payable and the company is the one the lot is assigned to
\* (execute_disbursement).
THEOREM PaidWhenDueCorrect == MCSpec => PaidWhenDueInTurn
<1>1. TurnInv /\ [MCNext]_<<vars, overlapped>> => [~overlapped' => PaidWhenDue]_<<vars, overlapped>>
  <2> SUFFICES ASSUME TurnInv, MCNext, ~overlapped',
                      NEW d \in Requests, status[d] # "executed", status'[d] = "executed"
               PROVE  terms[d].milestone \notin blocked /\ terms[d].beneficiary = assigned
    BY DEF PaidWhenDue
  <2>1. Next /\ ~overlapped /\ IInv
    BY TurnsAreTaken DEF TurnInv
  <2>2. ~ProofUnchanged(d) \/ ~(status'[d] = "executed" <=> status[d] = "executed")
    OBVIOUS
  <2>3. ~\E w \in Workers : Reconcile(w, d) \/ Confirm(w, d)
    BY DEF Reconcile, Confirm
  <2>4. PICK w \in Workers : Pay(w) /\ task[w].row = d
    BY <2>1, <2>2, <2>3, ProofMoves
  <2> QED BY <2>1, <2>4 DEF TurnInv, DueInTurn, FoundDue, Pay, Doing
<1> QED BY <1>1, TurnInit, TurnKept, PTL DEF MCSpec, PaidWhenDueInTurn
=============================================================================
