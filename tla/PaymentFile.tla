---------------------------- MODULE PaymentFile ----------------------------
(***************************************************************************)
(* The payment file of one reservation: its calls for funds, its receipts, *)
(* their allocations, the client's payment notices and the transitions     *)
(* they trigger (backend/apps/sales/services.py, B-050, B-051, B-056).     *)
(*                                                                         *)
(* Every operation below owns the reservation row FOR UPDATE before it     *)
(* reads what it decides on, and commits when it returns: each is one      *)
(* step.  Module Reservation has what happens around that lock.            *)
(*                                                                         *)
(* Amounts are counted in hundredths of a franc and rates in hundredths of *)
(* a percent, the smallest units of their columns: nothing is whole but    *)
(* what the code rounds.  Everything is dated the same day, so a bank      *)
(* reference is replayed identically when the amount is the same.          *)
(***************************************************************************)
EXTENDS Integers, Sequences, FiniteSets, Functions

CONSTANTS
  Price,       \* Reservation.price_amount, frozen
  Fee,         \* RESERVATION_FEE_AMOUNT
  Schedules,   \* the legal payment tier templates: sequences of [code, cap]
  References,  \* bank references, also the receipts they name
  Amounts,     \* the amounts Finance may type
  Notices,     \* the payment notices that may be declared (bounds the run)
  None

ASSUME AmountsAreCounted == Price \in Nat /\ Fee \in Nat \ {0} /\ Amounts \subseteq Nat \ {0}

Franc == 100    \* in hundredths of a franc
Whole == 10000  \* 100 %, in hundredths of a percent

Codes == UNION {{s[i].code : i \in 2 .. Len(s)} : s \in Schedules}
Kinds == {"frais", "premier"} \cup Codes

\* A template has tiers; the last is capped at exactly 100 %, the others below it
\* and above -1 %.  No tier is named like the other two kinds.
ASSUME SchedulesAreLegal ==
  /\ \A s \in Schedules : /\ Len(s) \in Nat \ {0} /\ s[Len(s)].cap = Whole
                          /\ \A i \in 1 .. Len(s) - 1 : s[i].cap \in -99 .. Whole - 1
  /\ {"frais", "premier"} \cap Codes = {}
ASSUME FileIsFinite == IsFiniteSet(References) /\ IsFiniteSet(Codes)

VARIABLES
  status,      \* Reservation.status; "closed" stands for expired and cancelled
  validated,   \* validated_at is set
  signed,      \* the latest contract version is signed
  schedule,    \* the active template of the country pack
  accepted,    \* the milestones technically accepted in their current version
  called,      \* PaymentCall.amount by kind or tier, 0 until issued
  cap,         \* the cumulative cap frozen on the latest call
  receipt,     \* CustomerReceipt.amount by reference, 0 until recorded
  reconciled,  \* the receipts that are RECONCILED_SIM
  alloc,       \* the sum of the allocations of a receipt to a call
  notice       \* PaymentNotice rows, None until declared

money == <<called, cap, receipt, reconciled, alloc, notice>>
world == <<signed, schedule, accepted>>
vars  == <<status, validated, world, money>>

Blocking == {"held", "reserved", "committed"}
NoticeRows == [call : Kinds, amount : Nat \ {0}, reference : References,
               state : {"declared", "confirmed", "rejected"}, receipt : References \cup {None}]

TypeOK ==
  /\ status     \in Blocking \cup {"closed"}
  /\ validated  \in BOOLEAN
  /\ signed     \in BOOLEAN
  /\ schedule   \in Schedules
  /\ accepted   \in SUBSET Codes
  /\ called     \in [Kinds -> Nat]
  /\ cap        \in -99 .. Whole
  /\ receipt    \in [References -> Nat]
  /\ reconciled \in SUBSET References
  /\ alloc      \in [References -> [Kinds -> Nat]]
  /\ notice     \in [Notices -> NoticeRows \cup {None}]

Init ==
  /\ status     = "held"
  /\ validated  = FALSE
  /\ signed     = FALSE
  /\ schedule   \in Schedules
  /\ accepted   = {}
  /\ called     = [k \in Kinds |-> 0]
  /\ cap        = 0
  /\ receipt    = [r \in References |-> 0]
  /\ reconciled = {}
  /\ alloc      = [r \in References |-> [k \in Kinds |-> 0]]
  /\ notice     = [n \in Notices |-> None]

-----------------------------------------------------------------------------
(* Sums over the rows of the file.                                          *)

Issued(k)       == called[k] > 0
CalledTotal     == SumFunction(called)
\* What the receipts of a set give to a call, by the allocations al.
Cover(k, al, receipts) == SumFunction([r \in receipts |-> al[r][k]])
Allocated(k)    == Cover(k, alloc, References)
Remaining(k)    == called[k] - Allocated(k)
Unallocated(r)  == receipt[r] - SumFunction(alloc[r])
\* settled_amount, of allocations al and reconciled receipts rec.
\* Faulty: every allocation counts, reconciled or not.
SettledByAny(k, al, rec) == Issued(k) /\ Cover(k, al, References) >= called[k]
Settled(k, al, rec) == Issued(k) /\ Cover(k, al, rec) >= called[k]

\* evaluate_reservation_transitions: the two transitions may follow in one call.
AfterFees(al, rec) == IF status = "held" /\ Settled("frais", al, rec) THEN "reserved" ELSE status
Evaluated(al, rec, sig) ==
  IF AfterFees(al, rec) = "reserved" /\ sig
     /\ Settled("frais", al, rec) /\ Settled("premier", al, rec)
  THEN "committed" ELSE AfterFees(al, rec)

-----------------------------------------------------------------------------
(* Calls for funds (compute_payment_call_candidates, issue_payment_call).   *)

\* _amount(Price * percent / 100): to a whole franc, half a franc rounds up.
Share(percent) == Franc * ((2 * Price * percent + Franc * Whole) \div (2 * Franc * Whole))

\* The call to kind k for amount a: a unique index and amount > 0 refuse the rest.
Issue(k, a, percent) ==
  /\ ~Issued(k) /\ a > 0
  /\ called' = [called EXCEPT ![k] = a]
  /\ cap' = percent
  /\ UNCHANGED <<receipt, reconciled, alloc, notice>>

\* validate_reservation issues the FRAIS call in the same transaction.
Validate ==
  /\ status = "held" /\ ~validated
  /\ validated' = TRUE
  /\ Issue("frais", Fee, 0)
  /\ UNCHANGED <<status, world>>

IssueFirst ==
  /\ status = "reserved"
  /\ Issue("premier", Share(schedule[1].cap) - Fee, schedule[1].cap)
  /\ UNCHANGED <<status, validated, world>>

\* The next tier: the first of the active template not yet called.
NextTier(i) ==
  /\ i \in 2 .. Len(schedule) /\ ~Issued(schedule[i].code)
  /\ \A j \in 2 .. i - 1 : Issued(schedule[j].code)
\* Faulty: the last tier is rounded like the others.
TierRounded(i) == Share(schedule[i].cap) - CalledTotal
\* The last tier calls the exact balance, every other its rounded share.
TierAmount(i) ==
  IF i = Len(schedule) THEN Price - CalledTotal ELSE Share(schedule[i].cap) - CalledTotal
IssueTier ==
  /\ status = "committed" /\ Issued("premier")
  /\ \E i \in 2 .. Len(schedule) :
       /\ NextTier(i) /\ schedule[i].code \in accepted
       /\ Issue(schedule[i].code, TierAmount(i), schedule[i].cap)
  /\ UNCHANGED <<status, validated, world>>

-----------------------------------------------------------------------------
(* Receipts.                                                                *)

\* record_receipt; a replay or a conflict writes nothing.
Record(r, a) ==
  /\ status \in Blocking /\ receipt[r] = 0
  /\ receipt' = [receipt EXCEPT ![r] = a]
  /\ UNCHANGED <<status, validated, world, called, cap, reconciled, alloc, notice>>

\* Faulty: only the balance of the receipt bounds an allocation.
AllocableOfReceipt(r, k) ==
  {a \in Amounts : Issued(k) /\ a <= Unallocated(r)}
Allocable(r, k) ==
  {a \in Amounts : Issued(k) /\ a <= Unallocated(r) /\ a <= Remaining(k)}

\* allocate_receipt
Allocate(r, k) ==
  /\ \E a \in Allocable(r, k) : alloc' = [alloc EXCEPT ![r][k] = @ + a]
  /\ status' = Evaluated(alloc', reconciled, signed)
  /\ UNCHANGED <<validated, world, called, cap, receipt, reconciled, notice>>

\* Faulty: the transitions are left to the next allocation.
ReconcileOnly(r) ==
  /\ receipt[r] > 0 /\ r \notin reconciled
  /\ reconciled' = reconciled \cup {r}
  /\ UNCHANGED <<status, validated, world, called, cap, receipt, alloc, notice>>

\* reconcile_receipt
Reconcile(r) ==
  /\ receipt[r] > 0 /\ r \notin reconciled
  /\ reconciled' = reconciled \cup {r}
  /\ status' = Evaluated(alloc, reconciled', signed)
  /\ UNCHANGED <<validated, world, called, cap, receipt, alloc, notice>>

-----------------------------------------------------------------------------
(* Payment notices.                                                         *)

Declared(n) == notice[n] # None /\ notice[n].state = "declared"

\* declare_payment: one pending notice per call, for what is left to allocate.
Declare(n, k, r) ==
  /\ status \in Blocking /\ notice[n] = None
  /\ Issued(k) /\ Remaining(k) > 0
  /\ \A m \in Notices : Declared(m) => notice[m].call # k
  /\ notice' = [notice EXCEPT ![n] = [call |-> k, amount |-> Remaining(k), reference |-> r,
                                      state |-> "declared", receipt |-> None]]
  /\ UNCHANGED <<status, validated, world, called, cap, receipt, reconciled, alloc>>

\* The receipt a confirmation names: a new one, or the identical one.
Names(r, n) == (receipt[r] = 0 /\ status \in Blocking) \/ receipt[r] = notice[n].amount
Least(a, b) == IF a < b THEN a ELSE b
\* Faulty: a receipt found again is taken for imputed already.
OwedOfNew(r, n) ==
  IF receipt[r] = 0 THEN Least(notice[n].amount, Remaining(notice[n].call)) ELSE 0
\* What the receipt still has for the call, and the call still waits for.
Owed(r, n) ==
  LET free == IF receipt[r] = 0 THEN notice[n].amount ELSE Unallocated(r)
  IN Least(free, Remaining(notice[n].call))

AllocConfirmed(r, n) == [alloc EXCEPT ![r][notice[n].call] = @ + Owed(r, n)]

\* confirm_payment_notice: record, allocate, reconcile, each as above, in one
\* transaction; a receipt reused with nothing left is not evaluated again.
Confirm(n, r) ==
  /\ Declared(n) /\ Names(r, n)
  /\ receipt'    = [receipt EXCEPT ![r] = notice[n].amount]
  /\ alloc'      = AllocConfirmed(r, n)
  /\ reconciled' = reconciled \cup {r}
  /\ status'     = IF Owed(r, n) > 0 \/ r \notin reconciled
                   THEN Evaluated(alloc', reconciled', signed) ELSE status
  /\ notice'     = [notice EXCEPT ![n].state = "confirmed", ![n].receipt = r]
  /\ UNCHANGED <<validated, world, called, cap>>

\* reject_payment_notice
Reject(n) ==
  /\ Declared(n)
  /\ notice' = [notice EXCEPT ![n].state = "rejected"]
  /\ UNCHANGED <<status, validated, world, called, cap, receipt, reconciled, alloc>>

-----------------------------------------------------------------------------
(* The rest of the platform.                                                *)

\* _cancel, which a declared notice does not stop (_expire_if_overdue closes
\* fewer files).
Cancel ==
  /\ status = "held" /\ \A r \in References : receipt[r] = 0
  /\ status' = "closed"
  /\ UNCHANGED <<validated, world, money>>

\* sign_contract_as_client
Sign ==
  /\ status \in Blocking /\ ~signed
  /\ signed' = TRUE
  /\ status' = Evaluated(alloc, reconciled, TRUE)
  /\ UNCHANGED <<validated, schedule, accepted, money>>

\* create_contract_version after a signature
NewVersion ==
  /\ status \in Blocking /\ signed
  /\ signed' = FALSE
  /\ UNCHANGED <<status, validated, schedule, accepted, money>>

\* activate_legal_payment_tier_template
ActivateTemplate(s) ==
  /\ s # schedule
  /\ schedule' = s
  /\ UNCHANGED <<status, validated, signed, accepted, money>>

\* is_milestone_technically_accepted becomes true or, with a new piece, false.
FieldReport(c) ==
  /\ accepted' = IF c \in accepted THEN accepted \ {c} ELSE accepted \cup {c}
  /\ UNCHANGED <<status, validated, signed, schedule, money>>

-----------------------------------------------------------------------------
CallStep == Validate \/ IssueFirst \/ IssueTier
ReceiptStep(r) ==
  \/ \E a \in Amounts : Record(r, a)
  \/ \E k \in Kinds : Allocate(r, k)
  \/ Reconcile(r)
NoticeStep(n) ==
  \/ \E k \in Kinds, r \in References : Declare(n, k, r)
  \/ \E r \in References : Confirm(n, r)
  \/ Reject(n)
OtherStep ==
  \/ Cancel \/ Sign \/ NewVersion
  \/ \E s \in Schedules : ActivateTemplate(s)
  \/ \E c \in Codes : FieldReport(c)

Next ==
  \/ CallStep \/ OtherStep
  \/ \E r \in References : ReceiptStep(r)
  \/ \E n \in Notices : NoticeStep(n)

Spec == Init /\ [][Next]_vars

-----------------------------------------------------------------------------
\* No double imputation (T10, T12): whatever mixture of allocations and
\* confirmations, a receipt never gives more than it has and a call never
\* takes more than it asks (allocate_receipt, confirm_payment_notice).
NoDoubleImputation ==
  /\ \A r \in References : Unallocated(r) >= 0
  /\ \A k \in Kinds : Remaining(k) >= 0

\* No transition is ever missed, in whatever order fees, first instalment and
\* signature are completed: the file is always as far as its rows justify
\* (evaluate_reservation_transitions, "jamais un bouton").
NoMissedTransition == status \in Blocking => Evaluated(alloc, reconciled, signed) = status

\* A file advances on reconciled money only: neither a declaration nor a
\* receipt nor an allocation is enough (B-051, B-056), and it stays covered.
StageIsPaid ==
  /\ status \in {"reserved", "committed"} =>
       Issued("frais") /\ Cover("frais", alloc, reconciled) >= Fee
  /\ status = "committed" =>
       /\ Issued("premier")
       /\ Cover("premier", alloc, reconciled) >= called["premier"]

\* The total called is the legal share of the last tier called to within half a
\* franc, the fees being deducted once, even if the template changes on the way;
\* and exactly the price once a last tier has been called, whatever was rounded
\* before (B-050, "aucun reliquat d'arrondi").
CalledIsLegal ==
  Issued("premier") =>
    /\ LET gap == 2 * (Whole * CalledTotal - Price * cap)
       IN -(Franc * Whole) <= gap /\ gap <= Franc * Whole
    /\ cap = Whole /\ (\E k \in Codes : Issued(k)) => CalledTotal = Price

\* A confirmed notice is a transfer the bank has executed, of the amount the
\* client declared, and all of it that its call could take is imputed: the
\* receipt has nothing left or the call waits for nothing, also when the
\* reference was already recorded and partly spent (confirm_payment_notice).
ConfirmedIsImputed ==
  \A n \in Notices : notice[n] # None /\ notice[n].state = "confirmed" =>
    LET r == notice[n].receipt
    IN /\ r \in reconciled /\ receipt[r] = notice[n].amount
       /\ Unallocated(r) = 0 \/ Remaining(notice[n].call) = 0

\* What covers a call is never taken back, nor its notice reopened.
CoverStays ==
  [][/\ \A k \in Kinds : Settled(k, alloc, reconciled) => Settled(k, alloc', reconciled')
     /\ \A n \in Notices : notice[n] # None /\ ~Declared(n) => notice'[n] = notice[n]]_vars

=============================================================================
