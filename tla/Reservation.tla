---------------------------- MODULE Reservation ----------------------------
(***************************************************************************)
(* The reservation cycle of one lot (backend/apps/sales/services.py).      *)
(*                                                                         *)
(* Every HTTP request is one READ COMMITTED transaction, run by a worker.  *)
(* A handler that takes the reservation row FOR UPDATE re-reads the row    *)
(* once it owns it and nobody writes the row before it commits: it is one  *)
(* atomic action here.  A handler that reads without a lock (the expiry    *)
(* sweeps, the two cancellations, the administrator's change of the lot)   *)
(* decides on what it read and overwrites the row later: it is split into  *)
(* its read, its check and its write, other workers running in between.    *)
(* request_reservation owns the lot row, lotLock, from its first step on.  *)
(*                                                                         *)
(* One lot: no handler relates the rows of two lots, the sweeps visit them *)
(* one by one.  Money is kept as the level reached (module PaymentFile     *)
(* has the amounts), time as "the hold is overdue".                        *)
(***************************************************************************)

CONSTANTS
  Workers,       \* the server processes and the sweep command
  Reservations,  \* the reservation rows that may be created (bounds the run)
  None           \* no worker, no reservation

ASSUME NoneIsNobody == None \notin Workers /\ None \notin Reservations

VARIABLES
  status,     \* Reservation.status, "none" before the row exists
  due,        \* held_until <= now
  validated,  \* validated_at is set; the FRAIS call exists from then on
  funds,      \* what the receipts of the file have reached so far
  declared,   \* the call a DECLARED payment notice is pending on, or "no"
  signed,     \* the latest contract version is SIGNED_SIMULATED
  lotStatus,  \* Lot.commercial_status (the lot has a price)
  buyers,     \* the LotClient rows, by the reservation that created them
  lotLock,    \* the worker that holds the lot row FOR UPDATE
  task        \* what each worker is doing, and what it has read

rows == <<status, due, validated, funds, declared, signed, lotStatus, buyers>>
vars == <<rows, lotLock, task>>

Blocking    == {"held", "reserved", "committed"}
Closed      == {"expired", "cancelled"}
Statuses    == {"none"} \cup Blocking \cup Closed
LotStatuses == {"disponible", "reserve", "vendu"}
Funds       == {"none", "received", "fees", "deposit"}
Ops         == {"idle", "request", "insert", "sweep", "cancel",
                "expiring", "cancelling", "lotUpdate"}

\* row: the reservation at hand; lot: the lot status the worker has cached
\* (or is about to write); stale: the rows it has found overdue.
Tasks == [op : Ops, row : Reservations \cup {None}, lot : LotStatuses,
          stale : SUBSET Reservations]

Resting == [op |-> "idle", row |-> None, lot |-> "disponible", stale |-> {}]

TypeOK ==
  /\ status    \in [Reservations -> Statuses]
  /\ due       \in [Reservations -> BOOLEAN]
  /\ validated \in [Reservations -> BOOLEAN]
  /\ funds     \in [Reservations -> Funds]
  /\ declared  \in [Reservations -> {"no", "fees", "deposit"}]
  /\ signed    \in [Reservations -> BOOLEAN]
  /\ lotStatus \in LotStatuses
  /\ buyers    \in SUBSET Reservations
  /\ lotLock   \in Workers \cup {None}
  /\ task      \in [Workers -> Tasks]

Init ==
  /\ status    = [r \in Reservations |-> "none"]
  /\ due       = [r \in Reservations |-> FALSE]
  /\ validated = [r \in Reservations |-> FALSE]
  /\ funds     = [r \in Reservations |-> "none"]
  /\ declared  = [r \in Reservations |-> "no"]
  /\ signed    = [r \in Reservations |-> FALSE]
  /\ lotStatus = "disponible"
  /\ buyers    = {}
  /\ lotLock   = None
  /\ task      = [w \in Workers |-> Resting]

-----------------------------------------------------------------------------
Idle(w)    == task[w].op = "idle"
Doing(w,o) == task[w].op = o
Become(w, t) == task' = [task EXCEPT ![w] = t]
Step(w, o) == Become(w, [task[w] EXCEPT !.op = o])
Rest(w)    == Become(w, Resting)

NoReceipt(r)  == funds[r] = "none"
\* Faulty: a declared transfer does not suspend the expiry.
ExpirableThoughDeclared(r) == status[r] = "held" /\ due[r] /\ NoReceipt(r)
Expirable(r)  == status[r] = "held" /\ due[r] /\ NoReceipt(r) /\ declared[r] = "no"

\* Faulty: the test of _set_lot_status is inverted.
LotAfterInverted(cached, target) == IF cached = target THEN target ELSE lotStatus
\* _set_lot_status: the write is skipped when the CACHED status is the target.
LotAfter(cached, target) == IF cached # target THEN target ELSE lotStatus
\* The lot row can be written only when no request holds it.
LotFree == lotLock = None

-----------------------------------------------------------------------------
(* request_reservation                                                     *)

RequestLock(w) ==
  /\ Idle(w) /\ LotFree
  /\ \E r \in Reservations : status[r] = "none"
  /\ lotLock' = w
  /\ Become(w, [op |-> "request", row |-> None, lot |-> lotStatus,
                stale |-> {r \in Reservations : Expirable(r)}])
  /\ UNCHANGED rows

\* Faulty: only the lot's own status is tested.
RequestFailsOnLotOnly(w) == task[w].lot # "disponible"
\* The availability test reads the lot object loaded with the lock: the
\* overdue rows are expired through another copy of the lot.
RequestFails(w) ==
  \/ \E r \in Reservations \ task[w].stale : status[r] \in Blocking
  \/ task[w].lot # "disponible"

\* The refusal is a 409 response: the transaction still commits its expiries.
RequestRefuse(w) ==
  /\ Doing(w, "request") /\ RequestFails(w)
  /\ status' = [r \in Reservations |->
                  IF r \in task[w].stale THEN "expired" ELSE status[r]]
  /\ lotStatus' = IF task[w].stale = {} THEN lotStatus
                  ELSE LotAfter(task[w].lot, "disponible")
  /\ lotLock' = None
  /\ Rest(w)
  /\ UNCHANGED <<due, validated, funds, declared, signed, buyers>>

RequestAccept(w) ==
  /\ Doing(w, "request") /\ ~RequestFails(w)
  /\ Step(w, "insert")
  /\ UNCHANGED <<rows, lotLock>>

RequestInsert(w) ==
  /\ Doing(w, "insert")
  /\ \E new \in Reservations :
       /\ status[new] = "none"
       /\ status' = [r \in Reservations |->
                       IF r = new THEN "held"
                       ELSE IF r \in task[w].stale THEN "expired" ELSE status[r]]
  /\ lotStatus' = LotAfter(task[w].lot, "reserve")
  /\ lotLock' = None
  /\ Rest(w)
  /\ UNCHANGED <<due, validated, funds, declared, signed, buyers>>

-----------------------------------------------------------------------------
(* The unlocked expiry: catalogue, reservation lists, contract and payment  *)
(* pages, expire_reservations command.                                      *)

\* The queryset of overdue holds, with the lot each row was joined to.
SweepRead(w, r) ==
  /\ Idle(w) /\ status[r] = "held" /\ due[r]
  /\ Become(w, [op |-> "sweep", row |-> r, lot |-> lotStatus, stale |-> {r}])
  /\ UNCHANGED <<rows, lotLock>>

\* Faulty: the sweep only considers validated files.
SweepCheckValidated(w) ==
  /\ Doing(w, "sweep")
  /\ \/ validated[task[w].row] /\ Step(w, "expiring")
     \/ ~validated[task[w].row] /\ Rest(w)
  /\ UNCHANGED <<rows, lotLock>>

\* receipts.exists(), payment_notices.filter(...).exists(): fresh queries.
SweepCheck(w) ==
  /\ Doing(w, "sweep")
  /\ \/ /\ NoReceipt(task[w].row) /\ declared[task[w].row] = "no"
        /\ Step(w, "expiring")
     \/ /\ ~(NoReceipt(task[w].row) /\ declared[task[w].row] = "no")
        /\ Rest(w)
  /\ UNCHANGED <<rows, lotLock>>

\* UPDATE ... WHERE id = r: whatever the row has become.
CloseRow(w, closed) ==
  /\ task[w].lot # "disponible" => LotFree
  /\ status' = [status EXCEPT ![task[w].row] = closed]
  /\ lotStatus' = LotAfter(task[w].lot, "disponible")
  /\ Rest(w)
  /\ UNCHANGED <<due, validated, funds, declared, signed, buyers, lotLock>>

ExpireWrite(w) == Doing(w, "expiring") /\ CloseRow(w, "expired")

-----------------------------------------------------------------------------
(* cancel_reservation_as_client, cancel_reservation_as_admin: _cancel       *)

CancelRead(w, r) ==
  /\ Idle(w) /\ status[r] = "held"
  /\ Become(w, [op |-> "cancel", row |-> r, lot |-> lotStatus,
                stale |-> IF due[r] THEN {r} ELSE {}])
  /\ UNCHANGED <<rows, lotLock>>

\* Faulty: the receipts are forgotten.
CancelCheckNoReceipt(w) ==
  /\ Doing(w, "cancel")
  /\ Step(w, "cancelling")
  /\ UNCHANGED <<rows, lotLock>>

\* An overdue hold expires (and the caller gets a 409 that commits it), a
\* hold with a receipt is refused, any other hold will be cancelled.
CancelCheck(w) ==
  /\ Doing(w, "cancel")
  /\ LET r == task[w].row IN
     \/ /\ task[w].stale # {} /\ NoReceipt(r) /\ declared[r] = "no"
        /\ Step(w, "expiring")
     \/ /\ ~NoReceipt(r)
        /\ Rest(w)
     \/ /\ NoReceipt(r) /\ (task[w].stale = {} \/ declared[r] # "no")
        /\ Step(w, "cancelling")
  /\ UNCHANGED <<rows, lotLock>>

CancelWrite(w) == Doing(w, "cancelling") /\ CloseRow(w, "cancelled")

-----------------------------------------------------------------------------
(* Handlers that own the reservation row.  Each begins by expiring it.      *)

ExpireUnderLock(w, r) ==
  /\ Idle(w) /\ LotFree /\ Expirable(r)
  /\ status' = [status EXCEPT ![r] = "expired"]
  /\ lotStatus' = "disponible"
  /\ UNCHANGED <<due, validated, funds, declared, signed, buyers, lotLock, task>>

\* validate_reservation: the delay restarts, the FRAIS call is issued.
Validate(w, r) ==
  /\ Idle(w) /\ ~Expirable(r)
  /\ status[r] = "held" /\ ~validated[r]
  /\ validated' = [validated EXCEPT ![r] = TRUE]
  /\ due' = [due EXCEPT ![r] = FALSE]
  /\ UNCHANGED <<status, funds, declared, signed, lotStatus, buyers, lotLock, task>>

\* record_receipt
RecordReceipt(w, r) ==
  /\ Idle(w) /\ ~Expirable(r)
  /\ status[r] \in Blocking /\ NoReceipt(r)
  /\ funds' = [funds EXCEPT ![r] = "received"]
  /\ UNCHANGED <<status, due, validated, declared, signed, lotStatus, buyers, lotLock, task>>

\* declare_payment: on FRAIS once issued, on PREMIER_VERSEMENT once reserved.
DeclarePayment(w, r) ==
  /\ Idle(w) /\ ~Expirable(r)
  /\ status[r] \in Blocking /\ declared[r] = "no"
  /\ \/ /\ validated[r] /\ funds[r] \in {"none", "received"}
        /\ declared' = [declared EXCEPT ![r] = "fees"]
     \/ /\ status[r] = "reserved" /\ funds[r] = "fees"
        /\ declared' = [declared EXCEPT ![r] = "deposit"]
  /\ UNCHANGED <<status, due, validated, funds, signed, lotStatus, buyers, lotLock, task>>

RejectNotice(w, r) ==
  /\ Idle(w) /\ declared[r] # "no"
  /\ declared' = [declared EXCEPT ![r] = "no"]
  /\ UNCHANGED <<status, due, validated, funds, signed, lotStatus, buyers, lotLock, task>>

\* evaluate_reservation_transitions, for a file whose funds are f and whose
\* latest contract is signed or not: the two transitions may follow in one call.
FeesPaid(f) == f \in {"fees", "deposit"}
\* Faulty: any receipt reserves the lot.
AfterFeesOnReceipt(r, f) == IF status[r] = "held" /\ f # "none" THEN "reserved" ELSE status[r]
\* Faulty: the current status is not tested.
AfterFeesAnyStatus(r, f) ==
  IF status[r] # "committed" /\ FeesPaid(f) THEN "reserved" ELSE status[r]
AfterFees(r, f) == IF status[r] = "held" /\ FeesPaid(f) THEN "reserved" ELSE status[r]
AfterEvaluation(r, f, s) ==
  IF AfterFees(r, f) = "reserved" /\ s /\ f = "deposit" THEN "committed" ELSE AfterFees(r, f)

Evaluate(r, f, s) ==
  /\ status' = [status EXCEPT ![r] = AfterEvaluation(r, f, s)]
  /\ IF AfterEvaluation(r, f, s) = "committed" /\ status[r] # "committed"
     THEN LotFree /\ lotStatus' = "vendu" /\ buyers' = buyers \cup {r}
     ELSE UNCHANGED <<lotStatus, buyers>>

\* The level the file reaches when one more of its calls is covered.
\* PREMIER_VERSEMENT exists only on a reserved file.
Covered(r) ==
  IF funds[r] = "received" /\ validated[r] THEN "fees"
  ELSE IF funds[r] = "fees" /\ status[r] = "reserved" THEN "deposit" ELSE funds[r]

\* allocate_receipt and reconcile_receipt of a recorded receipt: neither
\* looks at the status of the file before it evaluates the transitions.
SettleCall(w, r) ==
  /\ Idle(w) /\ Covered(r) # funds[r]
  /\ funds' = [funds EXCEPT ![r] = Covered(r)]
  /\ Evaluate(r, Covered(r), signed[r])
  /\ UNCHANGED <<due, validated, declared, signed, lotLock, task>>

\* confirm_payment_notice: receipt, allocation and reconciliation in one
\* transaction; record_receipt refuses a closed file.
ConfirmNotice(w, r) ==
  /\ Idle(w) /\ declared[r] # "no" /\ status[r] \in Blocking
  /\ LET f == IF FeesPaid(funds[r]) /\ declared[r] = "fees" THEN funds[r] ELSE declared[r] IN
     /\ funds' = [funds EXCEPT ![r] = f]
     /\ Evaluate(r, f, signed[r])
  /\ declared' = [declared EXCEPT ![r] = "no"]
  /\ UNCHANGED <<due, validated, signed, lotLock, task>>

\* sign_contract_as_client, whose evaluation runs under the reservation lock
\* (module Contract has the versions).
SignContract(w, r) ==
  /\ Idle(w) /\ ~Expirable(r)
  /\ status[r] \in Blocking /\ ~signed[r]
  /\ signed' = [signed EXCEPT ![r] = TRUE]
  /\ Evaluate(r, funds[r], TRUE)
  /\ UNCHANGED <<due, validated, funds, declared, lotLock, task>>

\* create_contract_version after a signature: the latest version is a draft.
NewContractVersion(w, r) ==
  /\ Idle(w) /\ ~Expirable(r)
  /\ status[r] \in Blocking /\ signed[r]
  /\ signed' = [signed EXCEPT ![r] = FALSE]
  /\ UNCHANGED <<status, due, validated, funds, declared, lotStatus, buyers, lotLock, task>>

-----------------------------------------------------------------------------
(* programs.update_lot: has_blocking_reservation, then the write.           *)

LotUpdateRead(w, target) ==
  /\ Idle(w)
  /\ target # lotStatus => \A r \in Reservations : status[r] \notin Blocking
  /\ Become(w, [op |-> "lotUpdate", row |-> None, lot |-> target, stale |-> {}])
  /\ UNCHANGED <<rows, lotLock>>

LotUpdateWrite(w) ==
  /\ Doing(w, "lotUpdate") /\ LotFree
  /\ lotStatus' = task[w].lot
  /\ Rest(w)
  /\ UNCHANGED <<status, due, validated, funds, declared, signed, buyers, lotLock>>

\* Time passes held_until.
HoldLapses(r) ==
  /\ status[r] = "held" /\ ~due[r]
  /\ due' = [due EXCEPT ![r] = TRUE]
  /\ UNCHANGED <<status, validated, funds, declared, signed, lotStatus, buyers, lotLock, task>>

-----------------------------------------------------------------------------
RequestStep(w) ==
  RequestLock(w) \/ RequestRefuse(w) \/ RequestAccept(w) \/ RequestInsert(w)
UnlockedStep(w) ==
  \/ SweepCheck(w) \/ ExpireWrite(w) \/ CancelCheck(w) \/ CancelWrite(w) \/ LotUpdateWrite(w)
  \/ \E r \in Reservations : SweepRead(w, r) \/ CancelRead(w, r)
  \/ \E target \in LotStatuses : LotUpdateRead(w, target)
LockedStep(w, r) ==
  \/ ExpireUnderLock(w, r) \/ Validate(w, r) \/ RecordReceipt(w, r)
  \/ DeclarePayment(w, r) \/ RejectNotice(w, r) \/ ConfirmNotice(w, r)
  \/ SettleCall(w, r) \/ SignContract(w, r) \/ NewContractVersion(w, r)

Next ==
  \/ \E w \in Workers : RequestStep(w) \/ UnlockedStep(w)
  \/ \E w \in Workers, r \in Reservations : LockedStep(w, r)
  \/ \E r \in Reservations : HoldLapses(r)

Spec == Init /\ [][Next]_vars

(* A worker finishes the request it runs; a row lock is granted in queue    *)
(* order (strong fairness); the sweep comes back for every hold.            *)
FairSpec ==
  /\ Spec
  /\ \A w \in Workers :
       /\ WF_vars(RequestRefuse(w)) /\ WF_vars(RequestAccept(w)) /\ WF_vars(RequestInsert(w))
       /\ WF_vars(SweepCheck(w)) /\ WF_vars(CancelCheck(w))
       /\ SF_vars(ExpireWrite(w)) /\ SF_vars(CancelWrite(w)) /\ SF_vars(LotUpdateWrite(w))
  /\ \A r \in Reservations : SF_vars(\E w \in Workers : SweepRead(w, r))

-----------------------------------------------------------------------------
(* What holds however the workers interleave.                              *)

\* At most one reservation blocks the lot (BLOCKING_STATUSES,
\* sales_one_blocking_reservation_per_lot): the lot lock is enough, the unique
\* index behind it is never what refuses an insertion.
OneBlockingReservation ==
  \A r, s \in Reservations : status[r] \in Blocking /\ status[s] \in Blocking => r = s

\* An expired or cancelled reservation never blocks the lot again, although
\* the handlers that move a file forward run while a stale write is pending.
ClosedStaysClosed ==
  [][\A r \in Reservations : status[r] \in Closed => status'[r] \in Closed]_vars

\* A file is reserved only once its fees are covered, and sold only once the
\* first instalment is too (CDC 6.1, evaluate_reservation_transitions).
ProgressIsPaid ==
  \A r \in Reservations :
    /\ status[r] \in {"reserved", "committed"} => FeesPaid(funds[r])
    /\ status[r] = "committed" => funds[r] = "deposit" /\ r \in buyers

-----------------------------------------------------------------------------
(* What holds as long as the requests do not overlap (one worker).          *)

\* A reservation with a receipt is never released: neither expired nor
\* cancelled (_expire_if_overdue, _cancel).
PaidIsNeverReleased ==
  \A r \in Reservations : status[r] \in Closed => NoReceipt(r)

\* The lot follows its reservation: "reserve" under a hold, "vendu" once
\* committed; so a lot in the catalogue is really free.
LotFollowsReservation ==
  \A r \in Reservations :
    /\ status[r] \in {"held", "reserved"} => lotStatus = "reserve"
    /\ status[r] = "committed" => lotStatus = "vendu"

\* When a hold expires, its deadline is past (the one validation restarted),
\* nothing has been received and no declared transfer is pending, although the
\* deadline was read one step, and the rest another step, before the write.
OnlyLapsedHoldsExpire ==
  [][\A r \in Reservations : status[r] = "held" /\ status'[r] = "expired" =>
       due[r] /\ NoReceipt(r) /\ declared[r] = "no"]_vars

\* A lapsed hold is eventually released, or kept by a receipt, a declared
\* transfer or a validation.
LapsedHoldIsReleased ==
  \A r \in Reservations : Expirable(r) ~> ~Expirable(r)

-----------------------------------------------------------------------------
(* The sale as LotSale states it: the blocking reservation is the holder.   *)

Holders == {r \in Reservations : status[r] \in Blocking}
Holder == IF Holders = {} THEN None ELSE CHOOSE r \in Holders : TRUE
StageOf(r) ==
  IF status[r] = "held" THEN IF NoReceipt(r) THEN "held" ELSE "engaged"
  ELSE IF status[r] = "reserved" THEN "reserved" ELSE "sold"
Stage == IF Holder = None THEN "free" ELSE StageOf(Holder)

Sale == INSTANCE LotSale WITH holder <- Holder, stage <- Stage,
          past <- {r \in Reservations : status[r] \in Closed}

\* Without overlap, the reservation cycle implements the promised sale.
ImplementsSale == Sale!Spec
=============================================================================
