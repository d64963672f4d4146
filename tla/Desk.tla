-------------------------------- MODULE Desk --------------------------------
(***************************************************************************)
(* The requests of the sale as their callers see them (apps/sales/views):  *)
(* what each one answers and what it leaves in the file, reads included,   *)
(* since some of them write.  An answer may be lost and the request sent   *)
(* again; a refusal (409) commits what was written before it; and steps    *)
(* file and close tasks in the inboxes (apps/sales/notifications).         *)
(*                                                                         *)
(* The file is one client's reservation of one lot, with the disbursements *)
(* of one milestone of it.  Requests are served one at a time here: the    *)
(* modules Reservation, Contract, PaymentFile and Disbursement interleave  *)
(* them.  A call asks for Due units, and the tiers are called like the     *)
(* first instalment; a movement is dated by its reference.                 *)
(***************************************************************************)
EXTENDS Inbox, Integers, Sequences, FiniteSetsExt, Functions

CONSTANTS
  Client, FinanceStaff, Sellers, Admins, \* users, and sets of users
  References, \* bank references
  Companies,  \* the organisations the lot may be assigned to
  Due,        \* the amount of a call
  Amounts,    \* the amounts Finance may type
  Versions    \* the rows of a kind that a request may name (bounds)

ASSUME FewReferences == IsFiniteSet(References) /\ None \notin References
ASSUME AmountsArePositive == Due \in Nat \ {0} /\ Amounts \subseteq Nat \ {0}
ASSUME SomeCompany == Companies # {}

VARIABLE file

Kinds    == {"frais", "premier"}
Blocking == {"held", "reserved", "committed"}
Reply(f, code) == [file |-> f, code |-> code]
Done(f)     == Reply(f, 200)
Created(f)  == Reply(f, 201)
NotFound(f) == Reply(f, 404)
Conflict(f) == Reply(f, 409)

-----------------------------------------------------------------------------
(* The tasks of the sale, one for each person told.                         *)

Reservation  == <<"reservation">>
Call(k)      == <<"call", k>>
Notice(n)    == <<"notice", n>>

\* notify_user: again for the same subject, reason and person files nothing.
Notify(f, s, why, users) ==
  [f EXCEPT !.tasks = @ \cup
    {Task(s, <<why, u>>, u) : u \in {v \in users : ~\E t \in @ : t.subject = s /\ t.source = <<why, v>>}}]
\* close_tasks: those still pending, whoever they are for.
Close(f, s, why) ==
  [f EXCEPT !.tasks = {IF t.subject = s /\ t.source[1] = why /\ t.status = "pending"
                       THEN [t EXCEPT !.status = "done"] ELSE t : t \in @}]
SalesTeam == IF Sellers # {} THEN Sellers ELSE Admins

ReservationRequested(f) == Notify(f, Reservation, "reservation_to_validate", SalesTeam)
ReservationValidated(f) == Close(f, Reservation, "reservation_to_validate")
PaymentCallIssued(f, k) == Notify(f, Call(k), "payment_call_to_pay", {Client})
PaymentDeclared(f, n)   == Notify(f, Notice(n), "payment_notice_to_confirm", FinanceStaff)
\* Mutant of PaymentConfirmed: the call counts as paid with any confirmation.
PaymentConfirmedPaid(f, n, settled) ==
  LET g == Close(f, Notice(n), "payment_notice_to_confirm")
      h == Close(g, Call(f.notices[n].call), "payment_call_to_pay")
  IN Notify(h, Notice(n), "payment_received", SalesTeam \cup {Client})
PaymentConfirmed(f, n, settled) ==
  LET g == Close(f, Notice(n), "payment_notice_to_confirm")
      h == IF settled THEN Close(g, Call(f.notices[n].call), "payment_call_to_pay") ELSE g
  IN Notify(h, Notice(n), "payment_received", SalesTeam \cup {Client})
PaymentRejected(f, n) ==
  Notify(Close(f, Notice(n), "payment_notice_to_confirm"), Notice(n), "payment_notice_rejected", {Client})

-----------------------------------------------------------------------------
(* The file.                                                                *)

Imputed(f, k)        == [r \in References |-> f.alloc[r][k]]
AllocatedTo(f, k)    == SumFunction(Imputed(f, k))
SettledOf(f, k)      == SumFunctionOnSet(Imputed(f, k), f.reconciled)
UnallocatedOf(f, r)  == f.amount[r] - SumFunction(f.alloc[r])
IsSettled(f, k)      == k \in f.calls /\ SettledOf(f, k) >= Due
IsSigned(f)          == f.contracts # <<>> /\ f.contracts[Len(f.contracts)] = "signed"
Pending(f)           == {n \in DOMAIN f.notices : f.notices[n].status = "declared"}

Expire(f) ==
  IF f.res = "held" /\ f.late /\ (\A r \in References : f.amount[r] = 0) /\ Pending(f) = {}
  THEN [f EXCEPT !.res = "expired"] ELSE f

Evaluate(f) ==
  LET reserved == f.res = "reserved" \/ (f.res = "held" /\ IsSettled(f, "frais"))
      committed == reserved /\ IsSigned(f) /\ IsSettled(f, "frais") /\ IsSettled(f, "premier")
  IN [f EXCEPT !.res = IF committed THEN "committed" ELSE IF reserved THEN "reserved" ELSE @]

-----------------------------------------------------------------------------
(* The lot and its reservation.                                             *)

Empty ==
  [res |-> "none", late |-> FALSE, valid |-> FALSE, contracts |-> <<>>, calls |-> {},
   amount |-> [r \in References |-> 0], reconciled |-> {},
   alloc |-> [r \in References |-> [k \in Kinds |-> 0]], notices |-> <<>>,
   accepted |-> FALSE, assigned |-> CHOOSE c \in Companies : TRUE, out |-> <<>>, tasks |-> {}]

\* The status of the lot follows its reservation.
Published(f) == f.res \in {"none", "expired", "cancelled"}
ListPublishedLots(f) == Expire(f)
CatalogLotList(f) == Done(ListPublishedLots(f))
\* Nothing is released for an anonymous visitor.
PublicOffer(f) == Done(f)

\* The lot was read before a hold that had lapsed was released.  A new
\* reservation is a new file: the closed one is not followed any further.
ReservationCreate(f) ==
  IF Published(f)
  THEN Created(ReservationRequested([Empty EXCEPT !.res = "held", !.accepted = f.accepted,
                                                  !.assigned = f.assigned, !.out = f.out]))
  ELSE Conflict(Expire(f))

ListClientReservations(f)  == Expire(f)
ListReservationsAsAdmin(f) == Expire(f)
MyReservationList(f)    == Done(ListClientReservations(f))
AdminReservationList(f) == Done(ListReservationsAsAdmin(f))

CancelReservation(f) ==
  IF f.res = "none" THEN NotFound(f)
  ELSE IF Expire(f) # f \/ f.res # "held" \/ \E r \in References : f.amount[r] > 0 THEN Conflict(Expire(f))
  ELSE Done([f EXCEPT !.res = "cancelled"])
MyReservationCancel(f)    == CancelReservation(f)
AdminReservationCancel(f) == CancelReservation(f)

IssueCall(f, k) == PaymentCallIssued([f EXCEPT !.calls = @ \cup {k}], k)
ReservationValidate(f) ==
  IF f.res = "none" THEN NotFound(f)
  ELSE IF Expire(f).res # "held" \/ f.valid THEN Conflict(Expire(f))
  ELSE Done(IssueCall(ReservationValidated([f EXCEPT !.valid = TRUE, !.late = FALSE]), "frais"))

-----------------------------------------------------------------------------
(* The contract: the versions in their order.                               *)

Contractable(f) == Expire(f).res \in Blocking
InProgress(f)   == \E v \in DOMAIN f.contracts : f.contracts[v] \in {"draft", "review"}

AdminContractList(f) == IF f.res = "none" THEN NotFound(f) ELSE Done(f)
MyContractList(f)    == IF f.res = "none" THEN NotFound(f) ELSE Done(f)

AdminContractCreate(f) ==
  IF f.res = "none" THEN NotFound(f)
  ELSE IF ~Contractable(f) \/ InProgress(f) THEN Conflict(Expire(f))
  ELSE Created([f EXCEPT !.contracts = Append(@, "draft")])

\* From one status to another, unless the reservation is no longer one.
ContractStep(f, v, from, to) ==
  IF v \notin DOMAIN f.contracts THEN NotFound(f)
  ELSE IF f.contracts[v] # from THEN Conflict(f)
  ELSE IF ~Contractable(f) THEN Conflict(Expire(f))
  ELSE Done([f EXCEPT !.contracts[v] = to])
AdminContractUpdate(f, v) == ContractStep(f, v, "draft", "draft")
Transitions == [submit |-> [from |-> "draft", to |-> "review"],
                back_to_draft |-> [from |-> "review", to |-> "draft"],
                approve |-> [from |-> "review", to |-> "approved"]]
AdminContractTransition(f, v, action) == ContractStep(f, v, Transitions[action].from, Transitions[action].to)
MyContractSign(f, v) ==
  LET signed == ContractStep(f, v, "approved", "signed") IN
  IF v \in DOMAIN f.contracts /\ f.contracts[v] = "approved" /\ v # Len(f.contracts) THEN Conflict(f)
  ELSE Reply(IF signed.code = 200 THEN Evaluate(signed.file) ELSE signed.file, signed.code)

-----------------------------------------------------------------------------
(* Calls, receipts and allocations.                                         *)

TeamPaymentCallList(f) == IF f.res = "none" THEN NotFound(f) ELSE Done(Expire(f))
MyPaymentCallList(f)   == IF f.res = "none" THEN NotFound(f) ELSE Done(f)
FinanceFile(f)         == IF f.res = "none" THEN NotFound(f) ELSE Done(f)

Candidate(f, k) ==
  /\ k \notin f.calls
  /\ IF k = "frais" THEN f.res = "held" /\ f.valid ELSE f.res = "reserved"
TeamPaymentCallIssue(f, k) ==
  IF f.res = "none" THEN NotFound(f)
  ELSE IF ~Candidate(Expire(f), k) THEN Conflict(Expire(f))
  ELSE Created(IssueCall(f, k))

ReceiptCreate(f, r, a) ==
  IF f.res = "none" THEN NotFound(f)
  ELSE IF f.amount[r] # 0 THEN IF f.amount[r] = a THEN Done(f) ELSE Conflict(f)
  ELSE IF Expire(f).res \notin Blocking THEN Conflict(Expire(f))
  ELSE Created([f EXCEPT !.amount[r] = a])

AllocationCreate(f, r, k, a) ==
  IF f.amount[r] = 0 THEN NotFound(f)
  ELSE IF k \notin f.calls \/ a > UnallocatedOf(f, r) \/ a > Due - AllocatedTo(f, k) THEN Conflict(f)
  ELSE Created(Evaluate([f EXCEPT !.alloc[r][k] = @ + a]))

ReceiptReconcile(f, r) ==
  IF f.amount[r] = 0 THEN NotFound(f)
  ELSE IF r \in f.reconciled THEN Conflict(f)
  ELSE Done(Evaluate([f EXCEPT !.reconciled = @ \cup {r}]))

-----------------------------------------------------------------------------
(* Payment notices.                                                         *)

MyPaymentNoticeCreate(f, k, r) ==
  LET waiting == {n \in Pending(f) : f.notices[n].call = k}
      left == Due - AllocatedTo(f, k) IN
  IF k \notin f.calls THEN NotFound(f)
  ELSE IF waiting # {} THEN IF \E n \in waiting : f.notices[n].ref = r THEN Done(f) ELSE Conflict(f)
  ELSE IF Expire(f).res \notin Blocking \/ left <= 0 THEN Conflict(Expire(f))
  ELSE Created(PaymentDeclared(
         [f EXCEPT !.notices = Append(@, [call |-> k, amount |-> left, ref |-> r, status |-> "declared"])],
         Len(f.notices) + 1))

PaymentNoticeList(f) == Done(f)

\* The receipt, its allocation and its reconciliation are the requests above.
PaymentNoticeConfirm(f, n, r) ==
  IF n \notin DOMAIN f.notices THEN NotFound(f)
  ELSE IF n \notin Pending(f) THEN Conflict(f)
  ELSE
    LET k == f.notices[n].call
        recorded == ReceiptCreate(f, r, f.notices[n].amount)
        g == recorded.file
        least == Min({UnallocatedOf(g, r), Due - AllocatedTo(g, k)})
        h == IF least > 0 THEN AllocationCreate(g, r, k, least).file ELSE g
        i == IF r \in h.reconciled THEN h ELSE ReceiptReconcile(h, r).file
    IN IF recorded.code = 409 THEN Conflict(g)
       ELSE Done(PaymentConfirmed([i EXCEPT !.notices[n].status = "confirmed"], n, IsSettled(i, k)))

PaymentNoticeReject(f, n) ==
  IF n \notin DOMAIN f.notices THEN NotFound(f)
  ELSE IF n \notin Pending(f) THEN Conflict(f)
  ELSE Done(PaymentRejected([f EXCEPT !.notices[n].status = "rejected"], n))

-----------------------------------------------------------------------------
(* Disbursements of the milestone.                                          *)

Paid(f, status) == SumFunction([d \in DOMAIN f.out |-> IF f.out[d].status = status THEN f.out[d].amount ELSE 0])
Available(f) ==
  SumFunctionOnSet(f.amount, f.reconciled) - Paid(f, "executed") - Paid(f, "eligible")
Released(f) ==
  [f EXCEPT !.out = [d \in DOMAIN @ |->
     IF @[d].status = "eligible" /\ ~f.accepted THEN [@[d] EXCEPT !.status = "draft"] ELSE @[d]]]
Misdirected(f, d) == f.out[d].to # f.assigned

ProgramAccountList(f) == Done(Released(f))
ProgramAccount(f)     == Done(Released(f))
BeneficiaryDisbursementList(f) == Done(f)

DisbursementCreate(f, a) ==
  LET open == {d \in DOMAIN f.out : f.out[d].status \in {"draft", "eligible"}} IN
  IF open # {} THEN IF \E d \in open : f.out[d].amount = a THEN Done(f) ELSE Conflict(f)
  ELSE Created([f EXCEPT !.out = Append(@, [amount |-> a, to |-> f.assigned, status |-> "draft",
                                             flow |-> "none", ref |-> None, confirmed |-> FALSE])])

DisbursementEligibility(f, d) ==
  LET g == Released(f) IN
  IF d \notin DOMAIN f.out THEN NotFound(f)
  ELSE IF g.out[d].status = "eligible" THEN Done(g)
  ELSE IF g.out[d].status # "draft" \/ ~g.accepted \/ Misdirected(g, d) \/ g.out[d].amount > Available(g)
  THEN Conflict(g)
  ELSE Done([g EXCEPT !.out[d].status = "eligible"])

\* Mutant of DisbursementExecute: the state is looked at before the reference.
DisbursementExecuteIfEligible(f, d, r) ==
  LET g == Released(f)
      used == {e \in DOMAIN f.out : f.out[e].ref = r} IN
  IF d \notin DOMAIN f.out THEN NotFound(f)
  ELSE IF g.out[d].status # "eligible" \/ Misdirected(g, d) \/ Available(g) < 0 THEN Conflict(g)
  ELSE IF used # {} THEN Conflict(f)
  ELSE Created([g EXCEPT !.out[d].status = "executed", !.out[d].flow = "bank_executed", !.out[d].ref = r])
DisbursementExecute(f, d, r) ==
  LET g == Released(f)
      used == {e \in DOMAIN f.out : f.out[e].ref = r} IN
  IF d \notin DOMAIN f.out THEN NotFound(f)
  ELSE IF used # {} THEN IF d \in used THEN Done(f) ELSE Conflict(f)
  ELSE IF g.out[d].status # "eligible" \/ Misdirected(g, d) \/ Available(g) < 0 THEN Conflict(g)
  ELSE Created([g EXCEPT !.out[d].status = "executed", !.out[d].flow = "bank_executed", !.out[d].ref = r])

DisbursementCancel(f, d) ==
  IF d \notin DOMAIN f.out THEN NotFound(f)
  ELSE IF f.out[d].status = "cancelled" THEN Done(f)
  ELSE IF f.out[d].status = "executed" THEN Conflict(f)
  ELSE Done([f EXCEPT !.out[d].status = "cancelled"])

\* reason: « Confirmation bénéficiaire non reçue » was given.
DisbursementReconcile(f, d, reason) ==
  IF d \notin DOMAIN f.out THEN NotFound(f)
  ELSE IF f.out[d].status # "executed" \/ f.out[d].flow = "reconciled" \/ Misdirected(f, d)
          \/ (f.out[d].flow # "beneficiary_confirmed" /\ ~reason)
  THEN Conflict(f)
  ELSE Done([f EXCEPT !.out[d].flow = "reconciled"])

BeneficiaryDisbursementConfirm(f, d, company) ==
  IF d \notin DOMAIN f.out \/ f.out[d].to # company THEN NotFound(f)
  ELSE IF f.out[d].status # "executed" THEN Conflict(f)
  ELSE IF f.out[d].confirmed THEN Done(f)
  ELSE Done([f EXCEPT !.out[d].confirmed = TRUE,
                      !.out[d].flow = IF @ = "bank_executed" THEN "beneficiary_confirmed" ELSE @])

-----------------------------------------------------------------------------
(* The requests.                                                            *)

Views == {"CatalogLotList", "PublicOffer", "ReservationCreate", "MyReservationList", "AdminReservationList",
          "MyReservationCancel", "AdminReservationCancel", "ReservationValidate", "AdminContractList",
          "MyContractList", "AdminContractCreate", "TeamPaymentCallList", "MyPaymentCallList", "FinanceFile",
          "PaymentNoticeList"}
Ask(view, args) == [view |-> view, args |-> args]

\* What the sale may be asked, and what the account may: the identifiers of
\* rows that do not exist yet are answered 404.
ContractRequests ==
  {Ask(v, <<n>>) : v \in {"AdminContractUpdate", "MyContractSign"}, n \in Versions}
  \cup {Ask("AdminContractTransition", <<n, a>>) : n \in Versions, a \in DOMAIN Transitions}
PaymentRequests ==
  {Ask("TeamPaymentCallIssue", <<k>>) : k \in Kinds}
  \cup {Ask("ReceiptCreate", <<r, a>>) : r \in References, a \in Amounts}
  \cup {Ask("AllocationCreate", <<r, k, a>>) : r \in References, k \in Kinds, a \in Amounts}
  \cup {Ask("ReceiptReconcile", <<r>>) : r \in References}
NoticeRequests ==
  {Ask("MyPaymentNoticeCreate", <<k, r>>) : k \in Kinds, r \in References}
  \cup {Ask("PaymentNoticeConfirm", <<n, r>>) : n \in Versions, r \in References}
  \cup {Ask("PaymentNoticeReject", <<n>>) : n \in Versions}
SaleRequests == {Ask(v, <<>>) : v \in Views} \cup ContractRequests \cup PaymentRequests \cup NoticeRequests
AccountRequests ==
  {Ask(v, <<>>) : v \in {"ProgramAccountList", "ProgramAccount", "BeneficiaryDisbursementList"}}
  \cup {Ask("DisbursementCreate", <<a>>) : a \in Amounts}
  \cup {Ask(v, <<d>>) : v \in {"DisbursementEligibility", "DisbursementCancel"}, d \in Versions}
  \cup {Ask("DisbursementExecute", <<d, r>>) : d \in Versions, r \in References}
  \cup {Ask("DisbursementReconcile", <<d, b>>) : d \in Versions, b \in BOOLEAN}
  \cup {Ask("BeneficiaryDisbursementConfirm", <<d, c>>) : d \in Versions, c \in Companies}

Handle(q, f) ==
  LET v == q.view
      x == q.args IN
  CASE v = "CatalogLotList"          -> CatalogLotList(f)
    [] v = "PublicOffer"             -> PublicOffer(f)
    [] v = "ReservationCreate"       -> ReservationCreate(f)
    [] v = "MyReservationList"       -> MyReservationList(f)
    [] v = "AdminReservationList"    -> AdminReservationList(f)
    [] v = "MyReservationCancel"     -> MyReservationCancel(f)
    [] v = "AdminReservationCancel"  -> AdminReservationCancel(f)
    [] v = "ReservationValidate"     -> ReservationValidate(f)
    [] v = "AdminContractList"       -> AdminContractList(f)
    [] v = "MyContractList"          -> MyContractList(f)
    [] v = "AdminContractCreate"     -> AdminContractCreate(f)
    [] v = "AdminContractUpdate"     -> AdminContractUpdate(f, x[1])
    [] v = "AdminContractTransition" -> AdminContractTransition(f, x[1], x[2])
    [] v = "MyContractSign"          -> MyContractSign(f, x[1])
    [] v = "TeamPaymentCallList"     -> TeamPaymentCallList(f)
    [] v = "TeamPaymentCallIssue"    -> TeamPaymentCallIssue(f, x[1])
    [] v = "MyPaymentCallList"       -> MyPaymentCallList(f)
    [] v = "FinanceFile"             -> FinanceFile(f)
    [] v = "ReceiptCreate"           -> ReceiptCreate(f, x[1], x[2])
    [] v = "AllocationCreate"        -> AllocationCreate(f, x[1], x[2], x[3])
    [] v = "ReceiptReconcile"        -> ReceiptReconcile(f, x[1])
    [] v = "MyPaymentNoticeCreate"   -> MyPaymentNoticeCreate(f, x[1], x[2])
    [] v = "PaymentNoticeList"       -> PaymentNoticeList(f)
    [] v = "PaymentNoticeConfirm"    -> PaymentNoticeConfirm(f, x[1], x[2])
    [] v = "PaymentNoticeReject"     -> PaymentNoticeReject(f, x[1])
    [] v = "ProgramAccountList"      -> ProgramAccountList(f)
    [] v = "ProgramAccount"          -> ProgramAccount(f)
    [] v = "BeneficiaryDisbursementList" -> BeneficiaryDisbursementList(f)
    [] v = "DisbursementCreate"      -> DisbursementCreate(f, x[1])
    [] v = "DisbursementEligibility" -> DisbursementEligibility(f, x[1])
    [] v = "DisbursementExecute"     -> DisbursementExecute(f, x[1], x[2])
    [] v = "DisbursementCancel"      -> DisbursementCancel(f, x[1])
    [] v = "DisbursementReconcile"   -> DisbursementReconcile(f, x[1], x[2])
    [] v = "BeneficiaryDisbursementConfirm" -> BeneficiaryDisbursementConfirm(f, x[1], x[2])

\* One request, and the state it leaves, whether or not its answer arrives.
Serve(q) == file' = Handle(q, file).file

-----------------------------------------------------------------------------
(* The rest of the world, on the same file.                                 *)

\* The hold runs out; the milestone is accepted or no longer; the lot changes hands.
Passes == /\ file.res = "held" /\ ~file.late
          /\ file' = [file EXCEPT !.late = TRUE]
FieldReports == file' = [file EXCEPT !.accepted = ~@]
Reassigned   == \E c \in Companies : file' = [file EXCEPT !.assigned = c]
\* Somebody completes one of his tasks, whether or not he has done it: the same
\* status as a closed one ("done"), told apart here by who set it.
Ticks == \E t \in file.tasks :
  /\ t.status = "pending"
  /\ file' = [file EXCEPT !.tasks = (@ \ {t}) \cup {[t EXCEPT !.status = "ticked"]}]

FileNext ==
  \/ \E q \in SaleRequests \cup AccountRequests : Serve(q)
  \/ Passes \/ FieldReports \/ Reassigned \/ Ticks
FileSpec == file = Empty /\ [][FileNext]_file

-----------------------------------------------------------------------------
\* An answer settles the matter.  A refusal leaves nothing but a hold or an
\* eligibility that had lapsed anyway; what was accepted and is sent again,
\* because its answer was lost, changes nothing and is not announced as new
\* (but for an allocation, which is not protected); a lot the catalogue shows is
\* granted to who asks for it next; and a bank movement can be sent again at any
\* later time, whatever has become of the file (T10).
AnswersAreFinal ==
  /\ \A q \in SaleRequests \cup AccountRequests :
       LET once  == Handle(q, file)
           twice == Handle(q, once.file) IN
       /\ once.code \in {404, 409} => once.file \in {file, Expire(file), Released(file)}
       /\ once.code \in {200, 201} /\ q.view # "AllocationCreate" =>
            twice.file = once.file /\ twice.code # 201
  /\ LET seen == CatalogLotList(file).file IN Published(seen) => ReservationCreate(seen).code = 201
  /\ \A r \in References : file.amount[r] # 0 => ReceiptCreate(file, r, file.amount[r]) = Done(file)
  /\ \A d \in DOMAIN file.out : file.out[d].ref # None => DisbursementExecute(file, d, file.out[d].ref) = Done(file)

\* What the inboxes say is so.  A reservation to validate is not validated, a
\* payment to confirm waits; a call to pay is closed for the client only once it
\* is settled; a client is told that his payment came, or that it did not, as
\* Finance has decided, and never both (B-056).
InboxFollowsFile ==
  \A t \in file.tasks :
    /\ t.source[1] = "reservation_to_validate" =>
         /\ t.status = "pending" => ~file.valid
         /\ t.status = "done" => file.valid
    /\ t.source[1] = "payment_notice_to_confirm" =>
         /\ t.status = "pending" => t.subject[2] \in Pending(file)
         /\ t.status = "done" => t.subject[2] \notin Pending(file)
    /\ t.source[1] = "payment_call_to_pay" /\ t.status = "done" => IsSettled(file, t.subject[2])
    /\ t.source[1] = "payment_received" => file.notices[t.subject[2]].status = "confirmed"
    /\ t.source[1] = "payment_notice_rejected" => file.notices[t.subject[2]].status = "rejected"
=============================================================================
