---------------------------- MODULE Procurement ----------------------------
(***************************************************************************)
(* The bids received for one lot, the selection of one of them, the cost   *)
(* adjustments it then takes out of its margin, the ledger of the lot and  *)
(* the charges of its control missions                                     *)
(* (backend/apps/procurement/services.py, tickets 022, 023, B-035, B-036). *)
(*                                                                         *)
(* Nothing here takes a lock: every handler reads, decides, and writes in  *)
(* a later step; what it read may no longer be true.  Amounts are in       *)
(* cents.  An alert of the inbox is one row per subject and reason, raised *)
(* once, whatever becomes of it (_get_or_create_task).                     *)
(***************************************************************************)
EXTENDS Repartition

CONSTANTS
  Workers,   \* the server processes
  Bids,      \* the bids that may be recorded (bounds the run)
  Missions,  \* the control missions that may be assigned (bounds the run)
  Codes,     \* the milestones a mission may be about
  Lots, Lot, \* the lots of the programme, and the one put out to tender
  Amounts, Prices, Gaps,  \* the bids, the sale price, the signed cost gaps
  MaxGain,   \* bounds how much a bid may save altogether
  Rates,     \* the margin rates, in hundredths of a percent
  Fees,      \* the fixed fees of a milestone
  GlobalRates, \* the control office's global rates, likewise, 0 for an entry in the wrong mode
  Costs,     \* the revisions of the programme's cost
  Surface0,  \* the surface each lot was created with, 0 for none
  Surfaces,  \* the surfaces an administrator may type for each lot
  None

ASSUME LotIsOfTheProgramme == Lot \in Lots /\ IsFiniteSet(Lots)
ASSUME AmountsAreIntegers ==
  /\ Amounts \subseteq Nat /\ Prices \subseteq Nat /\ Gaps \subseteq Int /\ MaxGain \in Nat
  /\ Rates \subseteq Nat \ {0} /\ Fees \subseteq Nat \ {0} /\ GlobalRates \subseteq Nat
ASSUME MissionsAreFinite == IsFiniteSet(Missions)
ASSUME CostsAreIntegers ==
  /\ Costs \subseteq [land : Int, study : Int, method : {"equal", "surface"}]
  /\ Surface0 \in [Lots -> Int] /\ Surfaces \in [Lots -> SUBSET Int]
ASSUME NoneIsNoRow == None \notin Bids \cup Missions

VARIABLES
  rate,      \* the active channel 1 rate of the country, 0 if none
  fee,       \* fee[c]: the active fixed fee of a milestone, 0 if none
  globalRate,\* the active global rate of the control office, 0 if none applies
  cost,      \* the current ProgramCost
  surface,   \* the surface of each lot
  bid,       \* the Devis rows
  locked,    \* the bids whose last event is devis_verrouille
  spent,     \* the signed sum of the adjustments of each bid
  refused,   \* the bids with the alert of a refused adjustment
  assigned,  \* the missions that exist
  charge,    \* the LotBcCharge row of each mission
  ledger,    \* the LotLedger row
  warned,    \* the ledger has its negative margin alert
  task       \* what each worker is doing, and what it is about to write

tariffs  == <<rate, fee, globalRate, cost, surface>>
tender   == <<bid, locked, spent, refused>>
works    == <<assigned, charge, warned>>
vars     == <<tariffs, tender, works, ledger, task>>

Ops     == {"idle", "bid", "lock", "adjust", "mission", "weighed", "ledger"}
Offers  == [amount : Nat, margin : Nat]
Charges == [amount : Int, global : BOOLEAN]
Ledgers == [price : Nat, land : Int, study : Int]
Task(o, r, e, n) == [op |-> o, row |-> r, entry |-> e, number |-> n]
Resting == Task("idle", None, None, 0)

Init ==
  /\ rate = 0 /\ globalRate = 0 /\ cost = None
  /\ fee     = [c \in Codes |-> 0]
  /\ surface = Surface0
  /\ bid     = [b \in Bids |-> None]
  /\ locked = {} /\ refused = {}
  /\ spent   = [b \in Bids |-> 0]
  /\ assigned = {}
  /\ charge  = [m \in Missions |-> None]
  /\ ledger = None /\ warned = FALSE
  /\ task    = [w \in Workers |-> Resting]

TypeOK ==
  /\ rate \in Nat /\ globalRate \in Nat /\ fee \in [Codes -> Nat]
  /\ cost \in Costs \cup {None} /\ surface \in [Lots -> Int] /\ ledger \in Ledgers \cup {None}
  /\ bid    \in [Bids -> Offers \cup {None}]
  /\ locked \subseteq Bids /\ refused \subseteq Bids
  /\ spent  \in [Bids -> Int]
  /\ assigned \subseteq Missions
  /\ charge \in [Missions -> Charges \cup {None}]
  /\ warned \in BOOLEAN
  /\ DOMAIN task = Workers
  /\ \A w \in Workers :
       LET t == task[w] IN
         /\ t.op \in Ops
         /\ t.op = "bid" => t.entry \in Offers
         /\ t.op \in {"lock", "adjust"} => t.row \in Bids
         /\ t.op = "adjust" => t.number \in Int
         /\ t.op = "ledger" => t.entry \in Ledgers
         /\ t.op \in {"mission", "weighed"} => t.entry \in Charges \cup {None}

-----------------------------------------------------------------------------
Idle(w)      == task[w].op = "idle"
Doing(w, o)  == task[w].op = o
Become(w, t) == task' = [task EXCEPT ![w] = t]
Rest(w)      == Become(w, Resting)

\* is_lot_locked
LotLocked == locked # {}
\* available_margin, get_construction_amount
AvailableMargin(b) == bid[b].margin - spent[b]
Construction(b)    == bid[b].amount + spent[b]
\* get_lot_ledger_margin, with the charge that is being inserted.
Charged == SumFunction([m \in Missions |-> IF charge[m] = None THEN 0 ELSE charge[m].amount])
Margin(b, extra) ==
  ledger.price - ledger.land - ledger.study - Construction(b) - Charged - extra

-----------------------------------------------------------------------------
(* The tariffs of the country and the costs of the programme: one          *)
(* insertion each, the last one counts.                                    *)

SetRate(r)       == rate' = r /\ UNCHANGED <<fee, globalRate, cost, surface>>
SetFee(c, f)     == fee' = [fee EXCEPT ![c] = f] /\ UNCHANGED <<rate, globalRate, cost, surface>>
SetGlobalRate(p) == globalRate' = p /\ UNCHANGED <<rate, fee, cost, surface>>
ReviseCost(c)    == cost' = c /\ UNCHANGED <<rate, fee, globalRate, surface>>
MeasureLot(l, s) == surface' = [surface EXCEPT ![l] = s] /\ UNCHANGED <<rate, fee, globalRate, cost>>

TariffStep ==
  /\ \/ \E r \in Rates : SetRate(r)
     \/ \E c \in Codes, f \in Fees : SetFee(c, f)
     \/ \E p \in GlobalRates : SetGlobalRate(p)
     \/ \E c \in Costs : ReviseCost(c)
     \/ \E l \in Lots : \E s \in Surfaces[l] : MeasureLot(l, s)
  /\ UNCHANGED <<tender, works, ledger, task>>

-----------------------------------------------------------------------------
(* create_devis and lock_devis.                                            *)

BidRead(w, a) ==
  /\ Idle(w) /\ ~LotLocked /\ rate # 0
  /\ Become(w, Task("bid", None, [amount |-> a, margin |-> Percent(a, rate)], 0))
  /\ UNCHANGED <<tariffs, tender, works, ledger>>

BidWrite(w) ==
  /\ Doing(w, "bid")
  /\ \E b \in Bids :
       /\ bid[b] = None
       /\ bid' = [bid EXCEPT ![b] = task[w].entry]
  /\ Rest(w)
  /\ UNCHANGED <<tariffs, locked, spent, refused, works, ledger>>

\* Faulty: only the bid itself must not be locked.
LockableTwice(b) == bid[b] # None /\ b \notin locked
Lockable(b) == bid[b] # None /\ ~LotLocked

LockRead(w, b) ==
  /\ Idle(w) /\ Lockable(b)
  /\ Become(w, Task("lock", b, None, 0))
  /\ UNCHANGED <<tariffs, tender, works, ledger>>

LockWrite(w) ==
  /\ Doing(w, "lock")
  /\ locked' = locked \cup {task[w].row}
  /\ Rest(w)
  /\ UNCHANGED <<tariffs, bid, spent, refused, works, ledger>>

-----------------------------------------------------------------------------
(* create_ajustement: a refusal leaves its alert and no adjustment.        *)

\* Faulty: the gap is compared with the margin of the bid, spent or not.
FitsOriginalMargin(b, e) == e <= bid[b].margin
Fits(b, e) == e <= AvailableMargin(b)

AdjustRead(w, b, e) ==
  /\ Idle(w) /\ b \in locked /\ Fits(b, e)
  /\ spent[b] + e >= -MaxGain
  /\ Become(w, Task("adjust", b, None, e))
  /\ UNCHANGED <<tariffs, tender, works, ledger>>

AdjustRefuse(w, b, e) ==
  /\ Idle(w) /\ b \in locked /\ ~Fits(b, e)
  /\ refused' = refused \cup {b}
  /\ UNCHANGED <<tariffs, bid, locked, spent, works, ledger, task>>

AdjustWrite(w) ==
  /\ Doing(w, "adjust")
  /\ spent' = [spent EXCEPT ![task[w].row] = @ + task[w].number]
  /\ Rest(w)
  /\ UNCHANGED <<tariffs, bid, locked, refused, works, ledger>>

-----------------------------------------------------------------------------
(* create_mission with record_bc_charge_for_mission: the charge is chosen, *)
(* then the margin is weighed with it, then both are committed.            *)

GlobalConsumed == \E m \in Missions : charge[m] # None /\ charge[m].global
\* Faulty: the global charge is available to each mission.
GlobalNeverConsumed == FALSE
Consumed == GlobalConsumed

FixedCharge(c)  == [amount |-> fee[c], global |-> FALSE]
GlobalCharge(b) == [amount |-> Percent(Construction(b), globalRate), global |-> TRUE]
GlobalApplies   == ~Consumed /\ globalRate # 0 /\ LotLocked

\* The charges a mission on milestone c may get: any locked bid gives the amount.
ChargesFor(c) ==
  IF fee[c] # 0 THEN {FixedCharge(c)}
  ELSE IF GlobalApplies THEN {GlobalCharge(b) : b \in locked}
  ELSE {None}

MissionRead(w, c) ==
  /\ Idle(w)
  /\ \E e \in ChargesFor(c) : Become(w, Task("mission", None, e, 0))
  /\ UNCHANGED <<tariffs, tender, works, ledger>>

\* _maybe_alert_negative_margin: 1 when the alert is to be raised.
WeighsDown(b, e) == ledger # None /\ Margin(b, e.amount) < 0
\* Faulty: the margin is weighed without the charge that is being inserted.
WeighsWithout(b, e) == ledger # None /\ Margin(b, 0) < 0
Alerts(b, e) == WeighsDown(b, e)

MissionWeigh(w) ==
  /\ Doing(w, "mission")
  /\ LET e == task[w].entry
         weigh(n) == Become(w, Task("weighed", None, e, n)) IN
       \/ (e = None \/ ledger = None) /\ weigh(0)
       \/ e # None /\ ledger # None
            /\ \E b \in locked : weigh(IF Alerts(b, e) THEN 1 ELSE 0)
  /\ UNCHANGED <<tariffs, tender, works, ledger>>

MissionWrite(w) ==
  /\ Doing(w, "weighed")
  /\ \E m \in Missions :
       /\ m \notin assigned
       /\ assigned' = assigned \cup {m}
       /\ charge'   = [charge EXCEPT ![m] = task[w].entry]
  /\ warned'   = (warned \/ task[w].number = 1)
  /\ Rest(w)
  /\ UNCHANGED <<tariffs, tender, ledger>>

-----------------------------------------------------------------------------
(* create_lot_ledger: the shares of the lot are read with the checks; the  *)
(* unique constraint on the lot refuses the second row.                    *)

Shares(p) ==
  [price |-> p,
   land  |-> LotShare(cost.land, cost.method, surface, Lot),
   study |-> LotShare(cost.study, cost.method, surface, Lot)]

LedgerRead(w, p) ==
  /\ Idle(w) /\ ledger = None /\ LotLocked
  /\ cost # None /\ Divisible(cost.method, surface)
  /\ Become(w, Task("ledger", None, Shares(p), 0))
  /\ UNCHANGED <<tariffs, tender, works, ledger>>

LedgerFree == ledger = None

LedgerWrite(w) ==
  /\ Doing(w, "ledger") /\ LedgerFree
  /\ ledger' = task[w].entry
  /\ Rest(w)
  /\ UNCHANGED <<tariffs, tender, works>>

LedgerConflict(w) ==
  /\ Doing(w, "ledger") /\ ~LedgerFree
  /\ Rest(w)
  /\ UNCHANGED <<tariffs, tender, works, ledger>>

-----------------------------------------------------------------------------
TenderStep(w) ==
  \/ \E a \in Amounts : BidRead(w, a)
  \/ BidWrite(w)
  \/ \E b \in Bids : LockRead(w, b)
  \/ LockWrite(w)
  \/ \E b \in Bids, e \in Gaps : AdjustRead(w, b, e) \/ AdjustRefuse(w, b, e)
  \/ AdjustWrite(w)

LedgerStep(w) ==
  \/ \E c \in Codes : MissionRead(w, c)
  \/ MissionWeigh(w) \/ MissionWrite(w)
  \/ \E p \in Prices : LedgerRead(w, p)
  \/ LedgerWrite(w) \/ LedgerConflict(w)

Next == TariffStep \/ \E w \in Workers : TenderStep(w) \/ LedgerStep(w)

Spec == Init /\ [][Next]_vars

-----------------------------------------------------------------------------
(* Properties.                                                             *)

\* One bid is selected per lot (ticket 022, lock_devis).
OneLocked == \A b, c \in locked : b = c

\* The accepted adjustments of a bid never exceed its estimated margin
\* (ticket 023, create_ajustement).
MarginKept == \A b \in Bids : bid[b] # None => spent[b] <= bid[b].margin

\* The global rate of the control office is charged once per lot (B-036,
\* _record_global_bc_charge_if_available).
GlobalChargedOnce ==
  \A m, n \in Missions :
    /\ charge[m] # None /\ charge[n] # None
    /\ charge[m].global /\ charge[n].global
    => m = n

\* A ledger has a selected bid, without which its margin is not defined
\* (_compute_lot_ledger_margin_breakdown reads it unchecked).
LedgerHasBid == ledger # None => LotLocked

\* The ledger of a lot is never rewritten, neither by a second creation nor by
\* a revision of the costs (B-035, create_lot_ledger).
LedgerIsFrozen == [][ledger # None => ledger' = ledger]_vars

\* A charge that leaves the ledger with a negative margin leaves an alert
\* (B-036, _maybe_alert_negative_margin).
ChargeIsWeighed ==
  (charge' # charge /\ ledger # None /\ \E b \in locked : Margin(b, 0)' < 0) => warned'

\* The rounded shares of the lots miss the total by half a cent per lot at most,
\* by either method (B-033, compute_lot_repartition).
DriftIsBounded ==
  cost # None =>
    \A total \in {cost.land, cost.study}, method \in {"equal", "surface"} :
      Divisible(method, surface) =>
        LET d == Drift(total, method, surface) IN
          2 * d <= Cardinality(Lots) /\ -2 * d <= Cardinality(Lots)
=============================================================================
