------------------------- MODULE ReservationProofs -------------------------
(***************************************************************************)
(* Theorems about module Reservation, for every set of workers and of      *)
(* reservation rows.  The second part shows that while requests take       *)
(* turns, the cycle implements the sale that LotSale promises.             *)
(***************************************************************************)
EXTENDS Reservation, TLAPS

\* The inductive invariant behind OneBlockingReservation: the worker that
\* handles a request owns the lot row, and between its test and its insertion
\* only rows it is about to expire may block the lot.
LockDiscipline ==
  /\ \A w \in Workers : task[w].op \in {"request", "insert"} => lotLock = w
  /\ \A w \in Workers : task[w].op = "insert" =>
       \A r \in Reservations : status[r] \in Blocking => r \in task[w].stale

IInv == TypeOK /\ OneBlockingReservation /\ LockDiscipline

-----------------------------------------------------------------------------
(* Lemmas about the values the handlers write.                              *)

LEMMA EvaluationKeepsBlocking ==
  ASSUME TypeOK, NEW r \in Reservations, NEW f, NEW s
  PROVE  /\ AfterEvaluation(r, f, s) \in Statuses
         /\ AfterEvaluation(r, f, s) \in Blocking <=> status[r] \in Blocking
         /\ status[r] \in Closed => AfterEvaluation(r, f, s) \in Closed
BY DEF TypeOK, AfterEvaluation, AfterFees, Statuses, Blocking, Closed

LEMMA LotWritesAreTyped ==
  ASSUME TypeOK, NEW cached \in LotStatuses, NEW target \in LotStatuses
  PROVE  LotAfter(cached, target) \in LotStatuses
BY DEF TypeOK, LotAfter

-----------------------------------------------------------------------------
(* Types.                                                                   *)

LEMMA RequestTypes ==
  ASSUME TypeOK, NEW w \in Workers, RequestStep(w)
  PROVE  TypeOK'
<1> USE NoneIsNobody DEF TypeOK, Tasks, Become, Step, Rest, Resting, rows
<1>1. CASE RequestLock(w)
  BY <1>1 DEF RequestLock, Ops, LotStatuses
<1>2. CASE RequestRefuse(w)
  <2>1. lotStatus' \in LotStatuses
    BY <1>2 DEF RequestRefuse, LotAfter, LotStatuses
  <2>2. status' \in [Reservations -> Statuses]
    BY <1>2 DEF RequestRefuse, Statuses, Closed
  <2> QED BY <1>2, <2>1, <2>2 DEF RequestRefuse, Ops, LotStatuses
<1>3. CASE RequestAccept(w)
  BY <1>3 DEF RequestAccept, Ops
<1>4. CASE RequestInsert(w)
  <2>1. lotStatus' \in LotStatuses
    BY <1>4 DEF RequestInsert, LotAfter, LotStatuses
  <2>2. status' \in [Reservations -> Statuses]
    BY <1>4 DEF RequestInsert, Statuses, Closed, Blocking
  <2> QED BY <1>4, <2>1, <2>2 DEF RequestInsert, Ops, LotStatuses
<1> QED BY <1>1, <1>2, <1>3, <1>4 DEF RequestStep

LEMMA UnlockedTypes ==
  ASSUME TypeOK, NEW w \in Workers, UnlockedStep(w)
  PROVE  TypeOK'
<1> USE DEF TypeOK, Tasks, Become, Step, Rest, Resting, rows
<1>1. CASE SweepCheck(w)
  BY <1>1 DEF SweepCheck, Ops, LotStatuses
<1>2. ASSUME NEW c \in Closed, CloseRow(w, c) PROVE TypeOK'
  <2>1. lotStatus' \in LotStatuses
    BY <1>2 DEF CloseRow, LotAfter, LotStatuses
  <2>2. status' \in [Reservations -> Statuses]
    BY <1>2 DEF CloseRow, Statuses
  <2> QED BY <1>2, <2>1, <2>2 DEF CloseRow, Ops, LotStatuses
<1>3. CASE ExpireWrite(w) \/ CancelWrite(w)
  BY <1>2, <1>3 DEF ExpireWrite, CancelWrite, Closed
<1>4. CASE CancelCheck(w)
  BY <1>4 DEF CancelCheck, Ops, LotStatuses
<1>5. CASE LotUpdateWrite(w)
  BY <1>5 DEF LotUpdateWrite, Ops, LotStatuses
<1>6. CASE \E r \in Reservations : SweepRead(w, r) \/ CancelRead(w, r)
  BY <1>6 DEF SweepRead, CancelRead, Ops
<1>7. CASE \E target \in LotStatuses : LotUpdateRead(w, target)
  BY <1>7 DEF LotUpdateRead, Ops
<1> QED BY <1>1, <1>3, <1>4, <1>5, <1>6, <1>7 DEF UnlockedStep

LEMMA EvaluateTypes ==
  ASSUME TypeOK, NEW r \in Reservations, NEW f, NEW s, Evaluate(r, f, s)
  PROVE  /\ status' \in [Reservations -> Statuses]
         /\ lotStatus' \in LotStatuses
         /\ buyers' \in SUBSET Reservations
<1>1. AfterEvaluation(r, f, s) \in Statuses
  BY EvaluationKeepsBlocking
<1> QED BY <1>1 DEF TypeOK, Evaluate, LotStatuses

LEMMA LockedTypes ==
  ASSUME TypeOK, NEW w \in Workers, NEW r \in Reservations, LockedStep(w, r)
  PROVE  TypeOK'
<1>1. CASE ExpireUnderLock(w, r)
  BY <1>1 DEF TypeOK, ExpireUnderLock, Statuses, Closed, LotStatuses
<1>2. CASE Validate(w, r)
  BY <1>2 DEF TypeOK, Validate
<1>3. CASE RecordReceipt(w, r)
  BY <1>3 DEF TypeOK, RecordReceipt, Funds
<1>4. CASE DeclarePayment(w, r)
  BY <1>4 DEF TypeOK, DeclarePayment
<1>5. CASE RejectNotice(w, r)
  BY <1>5 DEF TypeOK, RejectNotice
<1>6. CASE ConfirmNotice(w, r)
  <2> DEFINE f == IF FeesPaid(funds[r]) /\ declared[r] = "fees" THEN funds[r] ELSE declared[r]
  <2>1. f \in Funds /\ Evaluate(r, f, signed[r])
    BY <1>6 DEF TypeOK, ConfirmNotice, Funds
  <2>2. /\ status' \in [Reservations -> Statuses] /\ lotStatus' \in LotStatuses
        /\ buyers' \in SUBSET Reservations
    BY <2>1, EvaluateTypes
  <2> QED BY <1>6, <2>1, <2>2 DEF TypeOK, ConfirmNotice
<1>7. CASE SettleCall(w, r)
  <2>1. Covered(r) \in Funds
    BY DEF TypeOK, Covered, Funds
  <2>2. /\ status' \in [Reservations -> Statuses] /\ lotStatus' \in LotStatuses
        /\ buyers' \in SUBSET Reservations
    BY <1>7, EvaluateTypes DEF SettleCall
  <2> QED BY <1>7, <2>1, <2>2 DEF TypeOK, SettleCall
<1>8. CASE SignContract(w, r)
  <2>1. /\ status' \in [Reservations -> Statuses] /\ lotStatus' \in LotStatuses
        /\ buyers' \in SUBSET Reservations
    BY <1>8, EvaluateTypes DEF SignContract
  <2> QED BY <1>8, <2>1 DEF TypeOK, SignContract
<1>9. CASE NewContractVersion(w, r)
  BY <1>9 DEF TypeOK, NewContractVersion
<1> QED BY <1>1, <1>2, <1>3, <1>4, <1>5, <1>6, <1>7, <1>8, <1>9 DEF LockedStep

LEMMA TypesPreserved == TypeOK /\ [Next]_vars => TypeOK'
<1> SUFFICES ASSUME TypeOK, [Next]_vars PROVE TypeOK'
  OBVIOUS
<1>1. CASE \E w \in Workers : RequestStep(w) \/ UnlockedStep(w)
  BY <1>1, RequestTypes, UnlockedTypes
<1>2. CASE \E w \in Workers, r \in Reservations : LockedStep(w, r)
  BY <1>2, LockedTypes
<1>3. CASE \E r \in Reservations : HoldLapses(r)
  BY <1>3 DEF TypeOK, HoldLapses
<1>4. CASE UNCHANGED vars
  BY <1>4 DEF TypeOK, vars, rows
<1> QED BY <1>1, <1>2, <1>3, <1>4 DEF Next

\* The rows always hold values of their columns' vocabularies.
THEOREM TypeCorrect == Spec => []TypeOK
<1>1. Init => TypeOK
  BY DEF Init, TypeOK, Statuses, Funds, LotStatuses, Tasks, Ops, Resting
<1> QED BY <1>1, TypesPreserved, PTL DEF Spec

-----------------------------------------------------------------------------
(* One blocking reservation.                                                *)

\* A step that adds no blocking row and leaves the lot lock and the requests
\* under it alone keeps the lock discipline.
LEMMA NoNewBlocker ==
  ASSUME IInv, TypeOK', UNCHANGED lotLock,
         \A r \in Reservations : status'[r] \in Blocking => status[r] \in Blocking,
         \A w \in Workers : task'[w].op \in {"request", "insert"} => task'[w] = task[w]
  PROVE  OneBlockingReservation' /\ LockDiscipline'
BY DEF IInv, OneBlockingReservation, LockDiscipline

LEMMA RequestDiscipline ==
  ASSUME IInv, TypeOK', NEW w \in Workers, RequestStep(w)
  PROVE  OneBlockingReservation' /\ LockDiscipline'
<1> USE NoneIsNobody DEF IInv, TypeOK, OneBlockingReservation, LockDiscipline, Become, rows
<1>1. CASE RequestLock(w)
  BY <1>1 DEF RequestLock, LotFree
<1>2. CASE RequestRefuse(w)
  <2>1. \A r \in Reservations : status'[r] \in Blocking => status[r] \in Blocking
    BY <1>2 DEF RequestRefuse, Blocking
  <2>2. \A v \in Workers : task'[v].op \in {"request", "insert"} => task'[v] = task[v] /\ v # w
    BY <1>2 DEF RequestRefuse, Rest, Resting
  <2>3. lotLock = w
    BY <1>2 DEF RequestRefuse, Doing
  <2> QED BY <2>1, <2>2, <2>3
<1>3. CASE RequestAccept(w)
  <2>1. /\ lotLock = w /\ UNCHANGED <<rows, lotLock>>
        /\ task' = [task EXCEPT ![w] = [task[w] EXCEPT !.op = "insert"]]
    BY <1>3 DEF RequestAccept, Doing, Step
  <2>2. task'[w].stale = task[w].stale
    BY <2>1 DEF Tasks
  <2>3. \A r \in Reservations : status[r] \in Blocking => r \in task[w].stale
    BY <1>3 DEF RequestAccept, RequestFails
  <2> QED BY <2>1, <2>2, <2>3
<1>4. CASE RequestInsert(w)
  <2>1. /\ lotLock = w
        /\ \A r \in Reservations : status[r] \in Blocking => r \in task[w].stale
    BY <1>4 DEF RequestInsert, Doing
  <2>2. PICK new \in Reservations :
          status' = [r \in Reservations |->
                       IF r = new THEN "held"
                       ELSE IF r \in task[w].stale THEN "expired" ELSE status[r]]
    BY <1>4 DEF RequestInsert
  <2>3. \A r \in Reservations : status'[r] \in Blocking => r = new
    BY <2>1, <2>2 DEF Blocking
  <2>4. \A v \in Workers : task'[v].op \notin {"request", "insert"}
    BY <1>4, <2>1 DEF RequestInsert, Rest, Resting
  <2> QED BY <2>3, <2>4
<1> QED BY <1>1, <1>2, <1>3, <1>4 DEF RequestStep

LEMMA UnlockedDiscipline ==
  ASSUME IInv, TypeOK', NEW w \in Workers, UnlockedStep(w)
  PROVE  OneBlockingReservation' /\ LockDiscipline'
<1>1. UNCHANGED lotLock
  BY DEF UnlockedStep, SweepCheck, ExpireWrite, CancelWrite, CloseRow, CancelCheck,
         LotUpdateWrite, SweepRead, CancelRead, LotUpdateRead
<1>2. \A r \in Reservations : status'[r] \in Blocking => status[r] \in Blocking
  BY DEF IInv, TypeOK, Blocking, UnlockedStep, SweepCheck, ExpireWrite, CancelWrite, CloseRow,
         CancelCheck, LotUpdateWrite, SweepRead, CancelRead, LotUpdateRead, rows
<1>3. \E t : task' = [task EXCEPT ![w] = t] /\ t.op \notin {"request", "insert"}
  BY DEF IInv, TypeOK, Tasks, UnlockedStep, SweepCheck, ExpireWrite, CancelWrite, CloseRow,
         CancelCheck, LotUpdateWrite, SweepRead, CancelRead, LotUpdateRead, Become, Step, Rest, Resting
<1>4. \A v \in Workers : task'[v].op \in {"request", "insert"} => task'[v] = task[v]
  BY <1>3 DEF IInv, TypeOK
<1> QED BY <1>1, <1>2, <1>4, NoNewBlocker

LEMMA LockedDiscipline ==
  ASSUME IInv, TypeOK', NEW w \in Workers, NEW r \in Reservations, LockedStep(w, r)
  PROVE  OneBlockingReservation' /\ LockDiscipline'
<1>1. UNCHANGED <<lotLock, task>>
  BY DEF LockedStep, ExpireUnderLock, Validate, RecordReceipt, DeclarePayment, RejectNotice,
         ConfirmNotice, SettleCall, SignContract, NewContractVersion
<1>2. ASSUME NEW f, NEW s, Evaluate(r, f, s)
      PROVE  \A x \in Reservations : status'[x] \in Blocking => status[x] \in Blocking
  BY <1>2, EvaluationKeepsBlocking DEF IInv, TypeOK, Evaluate
<1>3. \A x \in Reservations : status'[x] \in Blocking => status[x] \in Blocking
  <2>1. CASE ConfirmNotice(w, r)
    BY <1>2, <2>1 DEF ConfirmNotice
  <2>2. CASE SettleCall(w, r) \/ SignContract(w, r)
    BY <1>2, <2>2 DEF SettleCall, SignContract
  <2>3. CASE ExpireUnderLock(w, r)
    BY <2>3 DEF ExpireUnderLock, IInv, TypeOK, Blocking
  <2>4. CASE Validate(w, r) \/ RecordReceipt(w, r) \/ DeclarePayment(w, r) \/ RejectNotice(w, r)
             \/ NewContractVersion(w, r)
    BY <2>4 DEF Validate, RecordReceipt, DeclarePayment, RejectNotice, NewContractVersion
  <2> QED BY <2>1, <2>2, <2>3, <2>4 DEF LockedStep
<1> QED BY <1>1, <1>3, NoNewBlocker

\* At most one reservation blocks the lot, whatever the number of overlapping
\* requests: the lot lock alone serialises the test and the insertion.
THEOREM OneBlockingCorrect == Spec => []OneBlockingReservation
<1>1. Init => IInv
  <2>1. Init => TypeOK
    BY DEF Init, TypeOK, Statuses, Funds, LotStatuses, Tasks, Ops, Resting
  <2> QED BY <2>1 DEF Init, IInv, OneBlockingReservation, LockDiscipline, Blocking, Resting
<1>2. IInv /\ [Next]_vars => IInv'
  <2> SUFFICES ASSUME IInv, [Next]_vars PROVE IInv'
    OBVIOUS
  <2>1. TypeOK'
    BY TypesPreserved DEF IInv
  <2>2. CASE \E w \in Workers : RequestStep(w) \/ UnlockedStep(w)
    BY <2>1, <2>2, RequestDiscipline, UnlockedDiscipline DEF IInv
  <2>3. CASE \E w \in Workers, r \in Reservations : LockedStep(w, r)
    BY <2>1, <2>3, LockedDiscipline DEF IInv
  <2>4. CASE (\E r \in Reservations : HoldLapses(r)) \/ UNCHANGED vars
    <3>1. UNCHANGED <<status, lotLock, task>>
      BY <2>4 DEF HoldLapses, vars, rows
    <3> QED BY <2>1, <3>1, NoNewBlocker DEF IInv
  <2> QED BY <2>2, <2>3, <2>4 DEF Next
<1>3. IInv => OneBlockingReservation
  BY DEF IInv
<1> QED BY <1>1, <1>2, <1>3, PTL DEF Spec

-----------------------------------------------------------------------------
(* Closed reservations.                                                     *)

LEMMA StepKeepsClosed ==
  ASSUME TypeOK, [Next]_vars, NEW x \in Reservations, status[x] \in Closed
  PROVE  status'[x] \in Closed
<1>1. ASSUME NEW w \in Workers, RequestStep(w) PROVE status'[x] \in Closed
  BY <1>1 DEF TypeOK, Closed, RequestStep, RequestLock, RequestRefuse, RequestAccept, RequestInsert, rows
<1>2. ASSUME NEW w \in Workers, UnlockedStep(w) PROVE status'[x] \in Closed
  BY <1>2 DEF TypeOK, Closed, UnlockedStep, SweepCheck, ExpireWrite, CancelWrite, CloseRow, CancelCheck,
              LotUpdateWrite, SweepRead, CancelRead, LotUpdateRead, rows
<1>3. ASSUME NEW r \in Reservations, NEW f, NEW s, Evaluate(r, f, s) PROVE status'[x] \in Closed
  BY <1>3, EvaluationKeepsBlocking DEF TypeOK, Evaluate
<1>4. ASSUME NEW w \in Workers, NEW r \in Reservations, LockedStep(w, r) PROVE status'[x] \in Closed
  <2>1. CASE ConfirmNotice(w, r)
    BY <1>3, <2>1 DEF ConfirmNotice
  <2>2. CASE SettleCall(w, r) \/ SignContract(w, r)
    BY <1>3, <2>2 DEF SettleCall, SignContract
  <2>3. CASE ExpireUnderLock(w, r) \/ Validate(w, r) \/ RecordReceipt(w, r) \/ DeclarePayment(w, r)
             \/ RejectNotice(w, r) \/ NewContractVersion(w, r)
    BY <2>3 DEF ExpireUnderLock, Validate, RecordReceipt, DeclarePayment, RejectNotice,
                NewContractVersion, TypeOK, Closed
  <2> QED BY <1>4, <2>1, <2>2, <2>3 DEF LockedStep
<1> QED BY <1>1, <1>2, <1>4 DEF Next, HoldLapses, vars, rows

\* A released reservation never blocks the lot again.
THEOREM ClosedStaysClosedCorrect == Spec => ClosedStaysClosed
<1>1. TypeOK /\ [Next]_vars =>
        [\A r \in Reservations : status[r] \in Closed => status'[r] \in Closed]_vars
  BY StepKeepsClosed
<1> QED BY <1>1, TypeCorrect, PTL DEF Spec, ClosedStaysClosed

-----------------------------------------------------------------------------
(* Progress is paid for.                                                    *)

LEMMA EvaluationIsPaid ==
  ASSUME TypeOK, ProgressIsPaid, NEW r \in Reservations, NEW f \in Funds, NEW s,
         Evaluate(r, f, s), funds' = [funds EXCEPT ![r] = f],
         FeesPaid(funds[r]) => FeesPaid(f), funds[r] = "deposit" => f = "deposit"
  PROVE  ProgressIsPaid'
<1>1. \A x \in Reservations \ {r} : status'[x] = status[x] /\ funds'[x] = funds[x]
  BY DEF TypeOK, Evaluate
<1>2. status'[r] = AfterEvaluation(r, f, s) /\ funds'[r] = f /\ buyers \subseteq buyers'
  BY DEF TypeOK, Evaluate
<1>3. status'[r] = "committed" /\ status[r] # "committed" => r \in buyers'
  BY <1>2 DEF Evaluate
<1>4. status'[r] \in {"reserved", "committed"} => FeesPaid(f)
  BY <1>2 DEF AfterEvaluation, AfterFees, ProgressIsPaid, TypeOK, FeesPaid
<1>5. status'[r] = "committed" => f = "deposit"
  BY <1>2 DEF AfterEvaluation, AfterFees, ProgressIsPaid, TypeOK
<1> QED BY <1>1, <1>2, <1>3, <1>4, <1>5 DEF ProgressIsPaid

\* Nobody is reserved without paid fees, nobody buys without the deposit,
\* stale writes included.
THEOREM ProgressIsPaidCorrect == Spec => []ProgressIsPaid
<1>1. Init => ProgressIsPaid
  BY DEF Init, ProgressIsPaid
<1>2. TypeOK /\ ProgressIsPaid /\ [Next]_vars => ProgressIsPaid'
  <2> SUFFICES ASSUME TypeOK, ProgressIsPaid, [Next]_vars PROVE ProgressIsPaid'
    OBVIOUS
  <2>1. ASSUME UNCHANGED <<funds, buyers>>,
               \A r \in Reservations : status'[r] \in {"reserved", "committed"} => status'[r] = status[r]
        PROVE  ProgressIsPaid'
    BY <2>1 DEF ProgressIsPaid
  <2>2. ASSUME NEW w \in Workers, RequestStep(w) PROVE ProgressIsPaid'
    BY <2>1, <2>2 DEF TypeOK, RequestStep, RequestLock, RequestRefuse, RequestAccept, RequestInsert, rows
  <2>3. ASSUME NEW w \in Workers, UnlockedStep(w) PROVE ProgressIsPaid'
    BY <2>1, <2>3 DEF TypeOK, UnlockedStep, SweepCheck, ExpireWrite, CancelWrite, CloseRow, CancelCheck,
                      LotUpdateWrite, SweepRead, CancelRead, LotUpdateRead, rows
  <2>4. ASSUME NEW w \in Workers, NEW r \in Reservations, LockedStep(w, r) PROVE ProgressIsPaid'
    <3>1. CASE ConfirmNotice(w, r)
      <4> DEFINE f == IF FeesPaid(funds[r]) /\ declared[r] = "fees" THEN funds[r] ELSE declared[r]
      <4>1. f \in Funds /\ Evaluate(r, f, signed[r]) /\ funds' = [funds EXCEPT ![r] = f]
        BY <3>1 DEF TypeOK, ConfirmNotice, Funds
      <4>2. (FeesPaid(funds[r]) => FeesPaid(f)) /\ (funds[r] = "deposit" => f = "deposit")
        BY <3>1 DEF TypeOK, ConfirmNotice, FeesPaid
      <4> QED BY <4>1, <4>2, EvaluationIsPaid
    <3>2. CASE SettleCall(w, r)
      <4>1. Covered(r) \in Funds
        BY DEF TypeOK, Covered, Funds
      <4>2. (FeesPaid(funds[r]) => FeesPaid(Covered(r))) /\ (funds[r] = "deposit" => Covered(r) = "deposit")
        BY DEF TypeOK, Covered, FeesPaid
      <4> QED BY <3>2, <4>1, <4>2, EvaluationIsPaid DEF SettleCall
    <3>3. CASE SignContract(w, r)
      <4>1. funds[r] \in Funds /\ funds' = [funds EXCEPT ![r] = funds[r]]
        BY <3>3 DEF TypeOK, SignContract
      <4> QED BY <3>3, <4>1, EvaluationIsPaid DEF SignContract
    <3>4. CASE RecordReceipt(w, r)
      BY <3>4 DEF RecordReceipt, ProgressIsPaid, TypeOK, NoReceipt, FeesPaid
    <3>5. CASE ExpireUnderLock(w, r) \/ Validate(w, r) \/ DeclarePayment(w, r) \/ RejectNotice(w, r)
               \/ NewContractVersion(w, r)
      BY <2>1, <3>5 DEF ExpireUnderLock, Validate, DeclarePayment, RejectNotice, NewContractVersion, TypeOK
    <3> QED BY <2>4, <3>1, <3>2, <3>3, <3>4, <3>5 DEF LockedStep
  <2> QED BY <2>1, <2>2, <2>3, <2>4 DEF Next, HoldLapses, vars, rows
<1> QED BY <1>1, <1>2, TypeCorrect, PTL DEF Spec

-----------------------------------------------------------------------------
(* With a single worker, what a handler has read is still true when it     *)
(* writes (Remembers): that is all the locks would have to provide.        *)

\* One request at a time.
Alone == \E w : Workers = {w}

\* What the worker has read is still so.
Remembers(w) ==
  /\ task[w].op \in {"request", "insert"} =>
       task[w].lot = lotStatus /\ \A r \in task[w].stale : Expirable(r)
  /\ task[w].op = "insert" => task[w].lot = "disponible"
  /\ task[w].op \in {"sweep", "cancel", "expiring", "cancelling"} =>
       task[w].row \in Reservations /\ status[task[w].row] = "held" /\ task[w].lot = lotStatus
  /\ task[w].op = "sweep" => due[task[w].row]
  /\ task[w].op = "cancel" /\ task[w].stale # {} => due[task[w].row]
  /\ task[w].op = "expiring" => Expirable(task[w].row)
  /\ task[w].op = "cancelling" => NoReceipt(task[w].row)
  /\ task[w].op = "lotUpdate" /\ task[w].lot # lotStatus =>
       \A r \in Reservations : status[r] \notin Blocking

\* Money comes to a row that exists, and moves it on at once; an instalment is
\* declared on a reserved file only.
FilesInOrder ==
  \A r \in Reservations :
    /\ status[r] = "none" => NoReceipt(r)
    /\ status[r] = "held" => funds[r] \in {"none", "received"}
    /\ declared[r] = "deposit" => status[r] \in {"reserved", "committed"}

LoneInv ==
  /\ PaidIsNeverReleased /\ LotFollowsReservation /\ FilesInOrder
  /\ \A w \in Workers : Remembers(w)

\* What every interleaving keeps.
Common == TypeOK /\ OneBlockingReservation /\ ProgressIsPaid

-----------------------------------------------------------------------------
(* What a step may do to the sale.                                          *)

Stays == UNCHANGED status /\ \A r \in Reservations : NoReceipt(r)' <=> NoReceipt(r)
Opens(r) ==
  /\ \A x \in Reservations : status[x] \notin Blocking
  /\ status[r] = "none" /\ NoReceipt(r)
  /\ status' = [status EXCEPT ![r] = "held"]
  /\ UNCHANGED funds
Releases(r) ==
  /\ status[r] = "held" /\ NoReceipt(r)
  /\ \E c \in Closed : status' = [status EXCEPT ![r] = c]
  /\ status'[r] = "expired" => Expirable(r)
  /\ UNCHANGED funds
Advances(r) ==
  /\ status[r] \in Blocking /\ status'[r] \in Blocking
  /\ StageOf(r)' \in Sale!Ahead(StageOf(r))
  /\ \A x \in Reservations \ {r} : status'[x] = status[x]
Moves == Stays \/ \E r \in Reservations : Opens(r) \/ Releases(r) \/ Advances(r)

-----------------------------------------------------------------------------
LEMMA RestingForgets ==
  ASSUME NEW w, Workers = {w}, TypeOK, Rest(w)
  PROVE  \A v \in Workers : Remembers(v)'
BY DEF TypeOK, Rest, Become, Resting, Remembers

LEMMA IdleForgets ==
  ASSUME NEW w, Workers = {w}, Idle(w), UNCHANGED task
  PROVE  \A v \in Workers : Remembers(v)'
BY DEF Idle, Remembers

\* The only hold that a request may have found overdue.
LEMMA StaleIsTheHold ==
  ASSUME Common, LoneInv, NEW w \in Workers, task[w].op \in {"request", "insert"},
         NEW r \in task[w].stale
  PROVE  /\ r \in Reservations /\ Expirable(r) /\ status[r] = "held" /\ lotStatus = "reserve"
         /\ task[w].stale = {r}
         /\ \A x \in Reservations : status[x] \in Blocking => x = r
<1>1. task[w].stale \subseteq Reservations
  BY DEF Common, TypeOK, Tasks
<1>2. \A x \in task[w].stale : Expirable(x)
  BY DEF LoneInv, Remembers
<1>3. r \in Reservations /\ Expirable(r) /\ status[r] = "held" /\ lotStatus = "reserve"
  BY <1>1, <1>2 DEF Expirable, LoneInv, LotFollowsReservation
<1>4. \A x \in Reservations : status[x] \in Blocking => x = r
  BY <1>3 DEF Common, OneBlockingReservation, Blocking
<1> QED BY <1>1, <1>2, <1>3, <1>4 DEF Expirable, Blocking

\* Closing the hold of the lot, whoever does it.
LEMMA ReleaseKeeps ==
  ASSUME Common, LoneInv, NEW r \in Reservations, NEW c \in Closed,
         status[r] = "held", NoReceipt(r), c = "expired" => Expirable(r),
         status' = [status EXCEPT ![r] = c], UNCHANGED <<funds, declared>>
  PROVE  /\ PaidIsNeverReleased' /\ LotFollowsReservation' /\ FilesInOrder'
         /\ Releases(r)
<1>1. \A x \in Reservations : status'[x] = IF x = r THEN c ELSE status[x]
  BY DEF Common, TypeOK
<1>2. \A x \in Reservations : status'[x] \notin Blocking
  BY <1>1 DEF Common, OneBlockingReservation, Blocking, Closed
<1>3. PaidIsNeverReleased'
  BY <1>1 DEF LoneInv, PaidIsNeverReleased, NoReceipt
<1>4. LotFollowsReservation'
  BY <1>2 DEF LotFollowsReservation, Blocking
<1>5. FilesInOrder'
  BY <1>1 DEF LoneInv, FilesInOrder, NoReceipt, Closed
<1>6. Releases(r)
  <2>1. \E d \in Closed : status' = [status EXCEPT ![r] = d]
    OBVIOUS
  <2>2. status'[r] = "expired" => Expirable(r)
    BY <1>1
  <2> QED BY <2>1, <2>2 DEF Releases
<1> QED BY <1>3, <1>4, <1>5, <1>6

\* Nothing but the tasks, or a deadline.
LEMMA NothingMoves ==
  ASSUME LoneInv, UNCHANGED <<status, funds, declared, lotStatus>>
  PROVE  /\ PaidIsNeverReleased' /\ LotFollowsReservation' /\ FilesInOrder'
         /\ Stays
<1>1. PaidIsNeverReleased'
  BY DEF LoneInv, PaidIsNeverReleased, NoReceipt
<1>2. LotFollowsReservation'
  BY DEF LoneInv, LotFollowsReservation
<1>3. FilesInOrder'
  BY DEF LoneInv, FilesInOrder, NoReceipt
<1>4. Stays
  BY DEF NoReceipt, Stays
<1> QED BY <1>1, <1>2, <1>3, <1>4

-----------------------------------------------------------------------------
LEMMA LoneRequest ==
  ASSUME Common, LoneInv, NEW w, Workers = {w}, RequestStep(w)
  PROVE  LoneInv' /\ Moves
<1> w \in Workers
  OBVIOUS
<1>1. CASE RequestLock(w)
  <2>1. UNCHANGED <<status, due, funds, declared, lotStatus>>
    BY <1>1 DEF RequestLock, rows
  <2>2. task'[w] = [op |-> "request", row |-> None, lot |-> lotStatus,
                    stale |-> {r \in Reservations : Expirable(r)}]
    BY <1>1 DEF RequestLock, Become, Common, TypeOK
  <2>3. Remembers(w)'
    BY <2>1, <2>2 DEF Remembers, Expirable, NoReceipt
  <2> QED BY <2>1, <2>3, NothingMoves DEF LoneInv, Moves
<1>2. CASE RequestRefuse(w)
  <2>1. \A v \in Workers : Remembers(v)'
    BY <1>2, RestingForgets DEF RequestRefuse, Common
  <2>2. task[w].op = "request"
    BY <1>2 DEF RequestRefuse, Doing
  <2>3. CASE task[w].stale = {}
    <3>1. UNCHANGED <<funds, declared, lotStatus>> /\ status' = [r \in Reservations |-> status[r]]
      BY <1>2, <2>3 DEF RequestRefuse
    <3>2. status' = status
      BY <3>1 DEF Common, TypeOK
    <3> QED BY <2>1, <3>1, <3>2, NothingMoves DEF LoneInv, Moves
  <2>4. CASE task[w].stale # {}
    <3>1. PICK r \in task[w].stale : TRUE
      BY <2>4
    <3>2. /\ r \in Reservations /\ Expirable(r) /\ status[r] = "held"
          /\ task[w].stale = {r}
      BY <2>2, <3>1, StaleIsTheHold
    <3>3. status' = [status EXCEPT ![r] = "expired"]
      BY <1>2, <3>2 DEF RequestRefuse, Common, TypeOK
    <3>4. UNCHANGED <<funds, declared>>
      BY <1>2 DEF RequestRefuse
    <3>5. "expired" \in Closed /\ NoReceipt(r)
      BY <3>2 DEF Closed, Expirable
    <3> QED BY <2>1, <3>2, <3>3, <3>4, <3>5, ReleaseKeeps DEF LoneInv, Moves
  <2> QED BY <2>3, <2>4
<1>3. CASE RequestAccept(w)
  <2>1. UNCHANGED <<status, due, funds, declared, lotStatus>>
    BY <1>3 DEF RequestAccept, rows
  <2>2. task[w] \in Tasks /\ task' = [task EXCEPT ![w] = [task[w] EXCEPT !.op = "insert"]]
    BY <1>3 DEF RequestAccept, Step, Become, Common, TypeOK
  <2>3. /\ task'[w].op = "insert" /\ task'[w].lot = task[w].lot /\ task'[w].stale = task[w].stale
    BY <2>2 DEF Tasks, Common, TypeOK
  <2>4. task[w].op = "request" /\ task[w].lot = "disponible"
    BY <1>3 DEF RequestAccept, RequestFails, Doing
  <2>5. Remembers(w)'
    BY <2>1, <2>3, <2>4 DEF LoneInv, Remembers, Expirable, NoReceipt
  <2> QED BY <2>1, <2>5, NothingMoves DEF LoneInv, Moves
<1>4. CASE RequestInsert(w)
  <2>1. \A v \in Workers : Remembers(v)'
    BY <1>4, RestingForgets DEF RequestInsert, Common
  <2>2. task[w].op = "insert" /\ task[w].lot = "disponible" /\ lotStatus = "disponible"
    BY <1>4 DEF RequestInsert, Doing, LoneInv, Remembers
  <2>3. task[w].stale = {}
    <3>1. SUFFICES ASSUME NEW r \in task[w].stale PROVE FALSE
      OBVIOUS
    <3> QED BY <2>2, StaleIsTheHold
  <2>4. \A x \in Reservations : status[x] \notin Blocking
    <3>1. LotFollowsReservation
      BY DEF LoneInv
    <3> QED BY <2>2, <3>1 DEF LotFollowsReservation, Blocking
  <2>5. PICK new \in Reservations :
          /\ status[new] = "none"
          /\ status' = [r \in Reservations |->
                          IF r = new THEN "held" ELSE IF r \in task[w].stale THEN "expired" ELSE status[r]]
    BY <1>4 DEF RequestInsert
  <2>6. status' = [status EXCEPT ![new] = "held"]
    BY <2>3, <2>5 DEF Common, TypeOK
  <2>7. UNCHANGED <<funds, declared>> /\ lotStatus' = "reserve"
    BY <1>4, <2>2 DEF RequestInsert, LotAfter
  <2>8. NoReceipt(new) /\ declared[new] # "deposit"
    BY <2>5 DEF LoneInv, FilesInOrder
  <2>9. \A x \in Reservations : status'[x] = IF x = new THEN "held" ELSE status[x]
    BY <2>6 DEF Common, TypeOK
  <2>10. PaidIsNeverReleased'
    BY <2>7, <2>9 DEF LoneInv, PaidIsNeverReleased, NoReceipt, Closed
  <2>11. LotFollowsReservation'
    BY <2>4, <2>7, <2>9 DEF LotFollowsReservation, Blocking
  <2>12. FilesInOrder'
    BY <2>7, <2>8, <2>9 DEF LoneInv, FilesInOrder, NoReceipt
  <2>13. Opens(new)
    BY <2>4, <2>5, <2>6, <2>7, <2>8 DEF Opens
  <2> QED BY <2>1, <2>10, <2>11, <2>12, <2>13 DEF LoneInv, Moves
<1> QED BY <1>1, <1>2, <1>3, <1>4 DEF RequestStep

LEMMA LoneUnlocked ==
  ASSUME Common, LoneInv, NEW w, Workers = {w}, UnlockedStep(w)
  PROVE  LoneInv' /\ Moves
<1> w \in Workers /\ task[w] \in Tasks /\ task \in [Workers -> Tasks]
  BY DEF Common, TypeOK
<1>1. ASSUME UNCHANGED rows, Remembers(w)' PROVE LoneInv' /\ Moves
  BY <1>1, NothingMoves DEF rows, LoneInv, Moves
<1>2. ASSUME UNCHANGED rows, Rest(w) PROVE LoneInv' /\ Moves
  BY <1>1, <1>2, RestingForgets DEF Common
<1>3. ASSUME NEW c \in Closed, CloseRow(w, c), task[w].op \in {"expiring", "cancelling"},
             c = "expired" => task[w].op = "expiring"
      PROVE  LoneInv' /\ Moves
  <2>1. \A v \in Workers : Remembers(v)'
    BY <1>3, RestingForgets DEF CloseRow, Common
  <2>2. PICK r \in Reservations : r = task[w].row
    BY <1>3 DEF LoneInv, Remembers
  <2>3. status[r] = "held" /\ NoReceipt(r) /\ (c = "expired" => Expirable(r))
    BY <1>3, <2>2 DEF LoneInv, Remembers, Expirable
  <2>4. status' = [status EXCEPT ![r] = c] /\ UNCHANGED <<funds, declared>>
    BY <1>3, <2>2 DEF CloseRow
  <2> QED BY <2>1, <2>3, <2>4, ReleaseKeeps DEF LoneInv, Moves
<1>4. CASE SweepCheck(w)
  <2>1. CASE Rest(w)
    BY <1>2, <1>4, <2>1 DEF SweepCheck
  <2>2. CASE /\ Step(w, "expiring")
             /\ NoReceipt(task[w].row) /\ declared[task[w].row] = "no"
    <3>1. task[w].op = "sweep" /\ UNCHANGED rows
      BY <1>4 DEF SweepCheck, Doing
    <3>2. task'[w].op = "expiring" /\ task'[w].row = task[w].row /\ task'[w].lot = task[w].lot
      BY <2>2 DEF Step, Become, Tasks
    <3>3. Remembers(w)'
      BY <2>2, <3>1, <3>2 DEF rows, LoneInv, Remembers, Expirable, NoReceipt
    <3> QED BY <1>1, <3>1, <3>3
  <2> QED BY <1>4, <2>1, <2>2 DEF SweepCheck
<1>5. CASE ExpireWrite(w)
  BY <1>3, <1>5 DEF ExpireWrite, Doing, Closed
<1>6. CASE CancelCheck(w)
  <2>1. task[w].op = "cancel" /\ UNCHANGED rows
    BY <1>6 DEF CancelCheck, Doing
  <2>2. CASE Rest(w)
    BY <1>2, <2>1, <2>2
  <2>3. CASE /\ Step(w, "expiring")
             /\ task[w].stale # {} /\ NoReceipt(task[w].row) /\ declared[task[w].row] = "no"
    <3>1. task'[w].op = "expiring" /\ task'[w].row = task[w].row /\ task'[w].lot = task[w].lot
      BY <2>3 DEF Step, Become, Tasks
    <3>2. Remembers(w)'
      BY <2>1, <2>3, <3>1 DEF rows, LoneInv, Remembers, Expirable, NoReceipt
    <3> QED BY <1>1, <2>1, <3>2
  <2>4. CASE Step(w, "cancelling") /\ NoReceipt(task[w].row)
    <3>1. task'[w].op = "cancelling" /\ task'[w].row = task[w].row /\ task'[w].lot = task[w].lot
      BY <2>4 DEF Step, Become, Tasks
    <3>2. Remembers(w)'
      BY <2>1, <2>4, <3>1 DEF rows, LoneInv, Remembers, NoReceipt
    <3> QED BY <1>1, <2>1, <3>2
  <2> QED BY <1>6, <2>2, <2>3, <2>4 DEF CancelCheck
<1>7. CASE CancelWrite(w)
  BY <1>3, <1>7 DEF CancelWrite, Doing, Closed
<1>8. CASE LotUpdateWrite(w)
  <2>1. \A v \in Workers : Remembers(v)'
    BY <1>8, RestingForgets DEF LotUpdateWrite, Common
  <2>2. UNCHANGED <<status, funds, declared>> /\ lotStatus' = task[w].lot /\ task[w].op = "lotUpdate"
    BY <1>8 DEF LotUpdateWrite, Doing
  <2>3. LotFollowsReservation'
    BY <2>2 DEF LoneInv, Remembers, LotFollowsReservation, Blocking
  <2>4. PaidIsNeverReleased' /\ FilesInOrder' /\ Stays
    BY <2>2 DEF LoneInv, PaidIsNeverReleased, FilesInOrder, NoReceipt, Stays
  <2> QED BY <2>1, <2>3, <2>4 DEF LoneInv, Moves
<1>9. ASSUME NEW r \in Reservations, SweepRead(w, r) PROVE LoneInv' /\ Moves
  <2>1. task'[w] = [op |-> "sweep", row |-> r, lot |-> lotStatus, stale |-> {r}]
    BY <1>9 DEF SweepRead, Become
  <2>2. Remembers(w)'
    BY <1>9, <2>1 DEF SweepRead, rows, Remembers
  <2> QED BY <1>1, <1>9, <2>2 DEF SweepRead
<1>10. ASSUME NEW r \in Reservations, CancelRead(w, r) PROVE LoneInv' /\ Moves
  <2>1. task'[w] = [op |-> "cancel", row |-> r, lot |-> lotStatus, stale |-> IF due[r] THEN {r} ELSE {}]
    BY <1>10 DEF CancelRead, Become
  <2>2. Remembers(w)'
    BY <1>10, <2>1 DEF CancelRead, rows, Remembers
  <2> QED BY <1>1, <1>10, <2>2 DEF CancelRead
<1>11. ASSUME NEW target \in LotStatuses, LotUpdateRead(w, target) PROVE LoneInv' /\ Moves
  <2>1. task'[w] = [op |-> "lotUpdate", row |-> None, lot |-> target, stale |-> {}]
    BY <1>11 DEF LotUpdateRead, Become
  <2>2. Remembers(w)'
    BY <1>11, <2>1 DEF LotUpdateRead, rows, Remembers
  <2> QED BY <1>1, <1>11, <2>2 DEF LotUpdateRead
<1> QED BY <1>4, <1>5, <1>6, <1>7, <1>8, <1>9, <1>10, <1>11 DEF UnlockedStep
-----------------------------------------------------------------------------
(* Under the lock of the row.                                               *)

\* The evaluation moves a file that blocks the lot by one stage at most: its
\* money has either not moved, or has just covered one more call.
LEMMA LoneEvaluate ==
  ASSUME Common, LoneInv, NEW r \in Reservations, NEW f \in Funds, NEW s \in BOOLEAN,
         Evaluate(r, f, s), funds' = [funds EXCEPT ![r] = f], status[r] \in Blocking,
         f = funds[r] \/ FeesPaid(f), status[r] = "held" => f # "deposit",
         \A x \in Reservations : declared'[x] = declared[x] \/ declared'[x] = "no"
  PROVE  /\ PaidIsNeverReleased' /\ LotFollowsReservation' /\ FilesInOrder'
         /\ Moves
<1> DEFINE a == AfterEvaluation(r, f, s)
<1>1. \A x \in Reservations : /\ status'[x] = IF x = r THEN a ELSE status[x]
                              /\ funds'[x] = IF x = r THEN f ELSE funds[x]
  BY DEF Common, TypeOK, Evaluate
<1>2. /\ status[r] = "held" => a = IF FeesPaid(f) THEN "reserved" ELSE "held"
      /\ status[r] = "reserved" => a \in {"reserved", "committed"}
      /\ status[r] = "committed" => a = "committed"
  BY DEF AfterEvaluation, AfterFees, FeesPaid, Common, TypeOK, Funds
<1>3. a \in Blocking /\ \A x \in Reservations : status'[x] \in Blocking <=> x = r
  BY <1>1, <1>2 DEF Blocking, Common, OneBlockingReservation
<1>4. status[r] # "held" => FeesPaid(funds[r]) /\ FeesPaid(f)
  BY DEF Common, ProgressIsPaid, Blocking
<1>5. lotStatus' = IF a = "committed" /\ status[r] # "committed" THEN "vendu" ELSE lotStatus
  BY DEF Evaluate
<1> HIDE DEF a
<1>6. PaidIsNeverReleased'
  BY <1>1, <1>3 DEF LoneInv, PaidIsNeverReleased, NoReceipt, Closed, Blocking
<1>7. LotFollowsReservation'
  BY <1>1, <1>2, <1>3, <1>5 DEF LoneInv, LotFollowsReservation, Blocking
<1>8. FilesInOrder'
  <2>1. \A x \in Reservations \ {r} :
          /\ status'[x] = "none" => NoReceipt(x)'
          /\ status'[x] = "held" => funds'[x] \in {"none", "received"}
          /\ declared'[x] = "deposit" => status'[x] \in {"reserved", "committed"}
    BY <1>1 DEF LoneInv, FilesInOrder, NoReceipt
  <2>2. status'[r] # "none"
    BY <1>1, <1>3 DEF Blocking
  <2>3. status'[r] = "held" => funds'[r] \in {"none", "received"}
    BY <1>1, <1>2 DEF LoneInv, FilesInOrder, Blocking
  <2>4. declared'[r] = "deposit" => status'[r] \in {"reserved", "committed"}
    BY <1>1, <1>2 DEF LoneInv, FilesInOrder
  <2> QED BY <2>1, <2>2, <2>3, <2>4 DEF FilesInOrder
<1>9. Moves
  <2>1. \A x \in Reservations \ {r} : NoReceipt(x)' <=> NoReceipt(x)
    BY <1>1 DEF NoReceipt
  <2>2. CASE a = status[r]
    <3>1. status' = status
      BY <2>2 DEF a, Evaluate, Common, TypeOK
    <3>2. NoReceipt(r)' <=> NoReceipt(r)
      BY <1>1, <1>2, <1>4, <2>2 DEF NoReceipt, FeesPaid
    <3> QED BY <2>1, <3>1, <3>2 DEF Stays, Moves
  <2>3. CASE a # status[r]
    <3>1. StageOf(r)' \in Sale!Ahead(StageOf(r))
      BY <1>1, <1>2, <2>3 DEF StageOf, Sale!Ahead, Blocking
    <3> QED BY <1>1, <1>3, <3>1 DEF Advances, Moves
  <2> QED BY <2>2, <2>3
<1> QED BY <1>6, <1>7, <1>8, <1>9

LEMMA LoneLocked ==
  ASSUME Common, LoneInv, NEW w, Workers = {w}, NEW r \in Reservations, LockedStep(w, r)
  PROVE  LoneInv' /\ Moves
<1>1. \A v \in Workers : Remembers(v)'
  BY IdleForgets DEF LockedStep, ExpireUnderLock, Validate, RecordReceipt, DeclarePayment,
     RejectNotice, ConfirmNotice, SettleCall, SignContract, NewContractVersion
<1>2. ASSUME UNCHANGED <<status, funds, declared, lotStatus>> PROVE LoneInv' /\ Moves
  BY <1>1, <1>2, NothingMoves DEF LoneInv, Moves
<1>3. ASSUME NEW f \in Funds, NEW s \in BOOLEAN, Evaluate(r, f, s),
             funds' = [funds EXCEPT ![r] = f], status[r] \in Blocking,
             f = funds[r] \/ FeesPaid(f), status[r] = "held" => f # "deposit",
             \A x \in Reservations : declared'[x] = declared[x] \/ declared'[x] = "no"
      PROVE  LoneInv' /\ Moves
  BY <1>1, <1>3, LoneEvaluate DEF LoneInv
<1>4. CASE ExpireUnderLock(w, r)
  <2>1. /\ "expired" \in Closed /\ status[r] = "held" /\ NoReceipt(r) /\ Expirable(r)
        /\ status' = [status EXCEPT ![r] = "expired"] /\ UNCHANGED <<funds, declared>>
    BY <1>4 DEF ExpireUnderLock, Closed, Expirable
  <2> QED BY <1>1, <2>1, ReleaseKeeps DEF LoneInv, Moves
<1>5. CASE Validate(w, r) \/ NewContractVersion(w, r)
  BY <1>2, <1>5 DEF Validate, NewContractVersion
<1>6. CASE RecordReceipt(w, r)
  <2>1. /\ status[r] \in Blocking /\ NoReceipt(r) /\ UNCHANGED <<status, declared, lotStatus>>
        /\ \A x \in Reservations : funds'[x] = IF x = r THEN "received" ELSE funds[x]
    BY <1>6 DEF RecordReceipt, Common, TypeOK
  <2>2. status[r] = "held"
    BY <2>1 DEF Common, ProgressIsPaid, NoReceipt, FeesPaid, Blocking
  <2>3. PaidIsNeverReleased' /\ LotFollowsReservation' /\ FilesInOrder'
    BY <2>1, <2>2 DEF LoneInv, PaidIsNeverReleased, LotFollowsReservation, FilesInOrder, NoReceipt, Closed
  <2>4. Advances(r)
    BY <2>1, <2>2 DEF Advances, StageOf, Sale!Ahead, NoReceipt, Blocking
  <2> QED BY <1>1, <2>3, <2>4 DEF LoneInv, Moves
<1>7. CASE DeclarePayment(w, r) \/ RejectNotice(w, r)
  <2>1. UNCHANGED <<status, funds, lotStatus>>
    BY <1>7 DEF DeclarePayment, RejectNotice
  <2>2. \A x \in Reservations : declared'[x] = "deposit" => status[x] \in {"reserved", "committed"}
    <3>1. CASE DeclarePayment(w, r)
      BY <3>1 DEF DeclarePayment, LoneInv, FilesInOrder, Common, TypeOK
    <3>2. CASE RejectNotice(w, r)
      BY <3>2 DEF RejectNotice, LoneInv, FilesInOrder, Common, TypeOK
    <3> QED BY <1>7, <3>1, <3>2
  <2>3. PaidIsNeverReleased' /\ LotFollowsReservation' /\ FilesInOrder' /\ Stays
    BY <2>1, <2>2 DEF LoneInv, PaidIsNeverReleased, LotFollowsReservation, FilesInOrder, NoReceipt, Stays
  <2> QED BY <1>1, <2>3 DEF LoneInv, Moves
<1>8. CASE ConfirmNotice(w, r)
  <2> DEFINE f == IF FeesPaid(funds[r]) /\ declared[r] = "fees" THEN funds[r] ELSE declared[r]
  <2>1. /\ f \in Funds /\ signed[r] \in BOOLEAN /\ Evaluate(r, f, signed[r])
        /\ funds' = [funds EXCEPT ![r] = f] /\ status[r] \in Blocking /\ FeesPaid(f)
    BY <1>8 DEF ConfirmNotice, Common, TypeOK, Funds, FeesPaid
  <2>2. status[r] = "held" => f # "deposit"
    BY DEF LoneInv, FilesInOrder, FeesPaid
  <2>3. \A x \in Reservations : declared'[x] = declared[x] \/ declared'[x] = "no"
    BY <1>8 DEF ConfirmNotice, Common, TypeOK
  <2> HIDE DEF f
  <2> QED BY <1>3, <2>1, <2>2, <2>3
<1>9. CASE SettleCall(w, r)
  <2>1. /\ Covered(r) \in Funds /\ FeesPaid(Covered(r)) /\ funds[r] # "none"
    BY <1>9 DEF SettleCall, Covered, FeesPaid, Funds
  <2>2. status[r] \in Blocking
    BY <2>1 DEF LoneInv, PaidIsNeverReleased, FilesInOrder, NoReceipt, Common, TypeOK, Statuses
  <2>3. status[r] = "held" => Covered(r) # "deposit"
    BY DEF LoneInv, FilesInOrder, Covered
  <2>4. /\ signed[r] \in BOOLEAN /\ Evaluate(r, Covered(r), signed[r])
        /\ funds' = [funds EXCEPT ![r] = Covered(r)] /\ UNCHANGED declared
    BY <1>9 DEF SettleCall, Common, TypeOK
  <2> QED BY <1>3, <2>1, <2>2, <2>3, <2>4
<1>10. CASE SignContract(w, r)
  <2>1. /\ funds[r] \in Funds /\ funds' = [funds EXCEPT ![r] = funds[r]] /\ UNCHANGED declared
        /\ Evaluate(r, funds[r], TRUE) /\ status[r] \in Blocking
    BY <1>10 DEF SignContract, Common, TypeOK
  <2>2. status[r] = "held" => funds[r] # "deposit"
    BY DEF LoneInv, FilesInOrder
  <2> QED BY <1>3, <2>1, <2>2
<1> QED BY <1>4, <1>5, <1>6, <1>7, <1>8, <1>9, <1>10 DEF LockedStep

LEMMA LoneNext ==
  ASSUME Alone, Common, LoneInv, [Next]_vars
  PROVE  LoneInv' /\ Moves
<1> PICK w : Workers = {w}
  BY DEF Alone
<1>1. CASE \E v \in Workers : RequestStep(v) \/ UnlockedStep(v)
  BY <1>1, LoneRequest, LoneUnlocked
<1>2. CASE \E v \in Workers, r \in Reservations : LockedStep(v, r)
  BY <1>2, LoneLocked
<1>3. CASE \E r \in Reservations : HoldLapses(r)
  <2>1. /\ UNCHANGED <<status, funds, declared, lotStatus, task>>
        /\ \A x \in Reservations : due[x] => due'[x]
    BY <1>3 DEF HoldLapses, Common, TypeOK
  <2>2. \A v \in Workers : task[v] \in Tasks
    BY DEF Common, TypeOK
  <2>3. \A v \in Workers : Remembers(v)'
    BY <2>1, <2>2 DEF LoneInv, Remembers, Expirable, NoReceipt, Tasks
  <2> QED BY <2>1, <2>3, NothingMoves DEF LoneInv, Moves
<1>4. CASE UNCHANGED vars
  <2>1. UNCHANGED <<status, due, funds, declared, lotStatus, task>>
    BY <1>4 DEF vars, rows
  <2>2. \A v \in Workers : Remembers(v)'
    BY <2>1 DEF LoneInv, Remembers, Expirable, NoReceipt
  <2> QED BY <2>1, <2>2, NothingMoves DEF LoneInv, Moves
<1> QED BY <1>1, <1>2, <1>3, <1>4 DEF Next
-----------------------------------------------------------------------------
(* The reservation cycle seen as the sale.                                  *)

LEMMA HolderOf ==
  ASSUME OneBlockingReservation, NEW r \in Reservations, status[r] \in Blocking
  PROVE  Holder = r /\ Stage = StageOf(r)
<1>1. Holders = {r}
  BY DEF Holders, OneBlockingReservation
<1> QED BY <1>1, NoneIsNobody DEF Holder, Stage

LEMMA NoHolder ==
  ASSUME \A r \in Reservations : status[r] \notin Blocking
  PROVE  Holder = None /\ Stage = "free"
BY DEF Holders, Holder, Stage

\* The same two facts of the state a step leads to.
LEMMA HolderNext ==
  ASSUME OneBlockingReservation', NEW r \in Reservations, status'[r] \in Blocking
  PROVE  Holder' = r /\ Stage' = StageOf(r)'
<1>1. Holders' = {r}
  BY DEF Holders, OneBlockingReservation
<1>2. Holder' = r
  BY <1>1 DEF Holder
<1> QED BY <1>2, NoneIsNobody DEF Stage, StageOf, NoReceipt

LEMMA NoHolderNext ==
  ASSUME \A r \in Reservations : status'[r] \notin Blocking
  PROVE  Holder' = None /\ Stage' = "free"
<1>1. Holder' = None
  BY DEF Holders, Holder
<1> QED BY <1>1 DEF Stage

LEMMA StaysInSale ==
  ASSUME TypeOK, OneBlockingReservation, Stays
  PROVE  UNCHANGED Sale!vars
<1>1. OneBlockingReservation'
  BY DEF Stays, OneBlockingReservation
<1>2. UNCHANGED <<Holder, Stage>>
  <2>1. CASE \A r \in Reservations : status[r] \notin Blocking
    <3>1. \A r \in Reservations : status'[r] \notin Blocking
      BY <2>1 DEF Stays
    <3> QED BY <2>1, <3>1, NoHolder, NoHolderNext
  <2>2. CASE \E r \in Reservations : status[r] \in Blocking
    <3>1. PICK r \in Reservations : status[r] \in Blocking
      BY <2>2
    <3>2. Holder = r /\ Stage = StageOf(r)
      BY <3>1, HolderOf
    <3>3. status'[r] \in Blocking
      BY <3>1 DEF Stays
    <3>4. Holder' = r /\ Stage' = StageOf(r)'
      BY <1>1, <3>3, HolderNext
    <3>5. StageOf(r)' = StageOf(r)
      BY DEF Stays, StageOf
    <3> QED BY <3>2, <3>4, <3>5
  <2> QED BY <2>1, <2>2
<1>3. UNCHANGED {r \in Reservations : status[r] \in Closed}
  BY DEF Stays
<1> QED BY <1>2, <1>3 DEF Sale!vars

LEMMA OpensInSale ==
  ASSUME TypeOK, OneBlockingReservation', NEW r \in Reservations, Opens(r)
  PROVE  Sale!Hold(r)
<1>1. \A x \in Reservations : status'[x] = IF x = r THEN "held" ELSE status[x]
  BY DEF TypeOK, Opens
<1>2. Stage = "free"
  BY NoHolder DEF Opens
<1>3. status'[r] \in Blocking
  BY <1>1 DEF Blocking
<1>4. Holder' = r /\ Stage' = StageOf(r)'
  BY <1>3, HolderNext
<1>5. StageOf(r)' = "held"
  BY <1>1 DEF Opens, StageOf, NoReceipt
<1>6. /\ r \notin {x \in Reservations : status[x] \in Closed}
      /\ UNCHANGED {x \in Reservations : status[x] \in Closed}
  BY <1>1 DEF Opens, Closed
<1> QED BY <1>2, <1>4, <1>5, <1>6 DEF Sale!Hold

LEMMA ReleasesInSale ==
  ASSUME TypeOK, OneBlockingReservation, NEW r \in Reservations, Releases(r)
  PROVE  Sale!Release
<1>1. PICK c \in Closed : \A x \in Reservations : status'[x] = IF x = r THEN c ELSE status[x]
  BY DEF TypeOK, Releases
<1>2. Holder = r /\ Stage = "held"
  BY HolderOf DEF Releases, StageOf, Blocking
<1>3. \A x \in Reservations : status'[x] \notin Blocking
  BY <1>1 DEF Releases, OneBlockingReservation, Blocking, Closed
<1>4. Holder' = None /\ Stage' = "free"
  BY <1>3, NoHolderNext
<1>5. {x \in Reservations : status[x] \in Closed}' =
        {x \in Reservations : status[x] \in Closed} \cup {r}
  BY <1>1
<1> QED BY <1>2, <1>4, <1>5 DEF Sale!Release

LEMMA AdvancesInSale ==
  ASSUME TypeOK, OneBlockingReservation, OneBlockingReservation',
         NEW r \in Reservations, Advances(r)
  PROVE  Sale!Advance
<1>1. Holder = r /\ Stage = StageOf(r)
  BY HolderOf DEF Advances
<1>2. Holder' = r /\ Stage' = StageOf(r)'
  BY HolderNext DEF Advances
<1>3. UNCHANGED {x \in Reservations : status[x] \in Closed}
  BY DEF Advances, Blocking, Closed
<1> QED BY <1>1, <1>2, <1>3 DEF Advances, Sale!Advance

LEMMA MovesInSale ==
  ASSUME Common, Common', Moves
  PROVE  [Sale!Next]_(Sale!vars)
<1> TypeOK /\ OneBlockingReservation /\ OneBlockingReservation'
  BY DEF Common
<1>1. CASE Stays
  BY <1>1, StaysInSale
<1>2. CASE \E r \in Reservations : Opens(r)
  BY <1>2, OpensInSale DEF Sale!Next
<1>3. CASE \E r \in Reservations : Releases(r)
  BY <1>3, ReleasesInSale DEF Sale!Next
<1>4. CASE \E r \in Reservations : Advances(r)
  BY <1>4, AdvancesInSale DEF Sale!Next
<1> QED BY <1>1, <1>2, <1>3, <1>4 DEF Moves

-----------------------------------------------------------------------------
(* The theorems, for one worker and any number of reservations.             *)

LEMMA LoneInit == Init => LoneInv
BY DEF Init, LoneInv, PaidIsNeverReleased, LotFollowsReservation, FilesInOrder, Remembers,
       Resting, NoReceipt, Closed

LEMMA LoneCorrect == Alone => (Spec => [](Common /\ LoneInv))
<1> SUFFICES ASSUME Alone PROVE Spec => [](Common /\ LoneInv)
  OBVIOUS
<1>1. Common /\ LoneInv /\ [Next]_vars => LoneInv'
  BY LoneNext
<1>2. TypeOK /\ OneBlockingReservation /\ ProgressIsPaid <=> Common
  BY DEF Common
<1> QED BY <1>1, <1>2, LoneInit, TypeCorrect, OneBlockingCorrect, ProgressIsPaidCorrect, PTL DEF Spec

\* While requests take turns, a reservation with a receipt is neither expired
\* nor cancelled (_expire_if_overdue, _cancel).
THEOREM PaidIsNeverReleasedAlone == Alone => (Spec => []PaidIsNeverReleased)
<1> SUFFICES ASSUME Alone PROVE Spec => []PaidIsNeverReleased
  OBVIOUS
<1>1. LoneInv => PaidIsNeverReleased
  BY DEF LoneInv
<1> QED BY <1>1, LoneCorrect, PTL

\* While requests take turns, the status of the lot is the one its reservation
\* gives it, although every handler writes it through a copy of its own.
THEOREM LotFollowsReservationAlone == Alone => (Spec => []LotFollowsReservation)
<1> SUFFICES ASSUME Alone PROVE Spec => []LotFollowsReservation
  OBVIOUS
<1>1. LoneInv => LotFollowsReservation
  BY DEF LoneInv
<1> QED BY <1>1, LoneCorrect, PTL

\* While requests take turns, what a sweep has checked is still so when it
\* writes: the hold it expires is overdue, unpaid and undeclared.
THEOREM OnlyLapsedHoldsExpireAlone == Alone => (Spec => OnlyLapsedHoldsExpire)
<1> SUFFICES ASSUME Alone PROVE Spec => OnlyLapsedHoldsExpire
  OBVIOUS
<1>1. ASSUME Common, LoneInv, [Next]_vars, NEW r \in Reservations,
             status[r] = "held", status'[r] = "expired"
      PROVE  due[r] /\ NoReceipt(r) /\ declared[r] = "no"
  <2>1. CASE Stays
    BY <1>1, <2>1 DEF Stays
  <2>2. ASSUME NEW x \in Reservations, Opens(x) PROVE FALSE
    BY <1>1, <2>2 DEF Opens, Common, TypeOK, Blocking
  <2>3. ASSUME NEW x \in Reservations, Releases(x) PROVE Expirable(r)
    <3>1. x = r
      BY <1>1, <2>3 DEF Releases, Common, TypeOK
    <3> QED BY <1>1, <2>3, <3>1 DEF Releases
  <2>4. ASSUME NEW x \in Reservations, Advances(x) PROVE FALSE
    BY <1>1, <2>4 DEF Advances, Blocking
  <2>5. Moves
    BY <1>1, LoneNext
  <2> QED BY <2>1, <2>2, <2>3, <2>4, <2>5 DEF Moves, Expirable
<1>2. Common /\ LoneInv /\ [Next]_vars =>
        [\A r \in Reservations : status[r] = "held" /\ status'[r] = "expired" =>
           due[r] /\ NoReceipt(r) /\ declared[r] = "no"]_vars
  BY <1>1
<1> QED BY <1>2, LoneCorrect, PTL DEF Spec, OnlyLapsedHoldsExpire

\* While requests take turns, every step of the reservation cycle is a step of
\* the promised sale, or leaves it alone: one holder at a time, released only
\* before any money is received, and then forward until the lot is sold.
THEOREM ImplementsSaleAlone == Alone => (Spec => ImplementsSale)
<1> SUFFICES ASSUME Alone PROVE Spec => ImplementsSale
  OBVIOUS
<1>1. Init => Sale!Init
  <2> SUFFICES ASSUME Init PROVE Sale!Init
    OBVIOUS
  <2>1. \A r \in Reservations : status[r] = "none"
    BY DEF Init
  <2>2. Holder = None /\ Stage = "free"
    BY <2>1, NoHolder DEF Blocking
  <2>3. {r \in Reservations : status[r] \in Closed} = {}
    BY <2>1 DEF Closed
  <2> QED BY <2>2, <2>3 DEF Sale!Init
<1>2. Common /\ Common' /\ LoneInv /\ [Next]_vars => [Sale!Next]_(Sale!vars)
  BY LoneNext, MovesInSale
<1> QED BY <1>1, <1>2, LoneCorrect, PTL DEF Spec, ImplementsSale, Sale!Spec
=============================================================================
