-------------------------------- MODULE Site --------------------------------
(***************************************************************************)
(* The control of one lot: declarations and their documents, missions,     *)
(* inspections, reserves and corrections, and every status that the code   *)
(* derives from them without storing it (apps/evidence, apps/inspections,  *)
(* apps/trust, and the readers apps/control, apps/home, apps/build).       *)
(*                                                                         *)
(* The append-only tables are one history, in the order of created_at and  *)
(* sequence: a row is named by its position, a reserve by the inspection   *)
(* that opened it.  An inspector works from a cached list of missions, and *)
(* a submission reads (Check) before it writes (Write).                    *)
(***************************************************************************)
EXTENDS Naturals, Sequences, FiniteSets, Functions

CONSTANTS
  Milestones,
  Inspectors, \* members of no organisation of the programme
  Budget      \* how many rows of each kind a history may hold (bounds)

ASSUME LotIsFinite == IsFiniteSet(Milestones)

VARIABLES
  history,    \* the rows of all the tables
  device,     \* device[i]: the mission rows cached by the inspector i
  sent        \* the submissions that have passed the comparison

vars == <<history, device, sent>>

Outcomes == {"conforme", "avec_reserve"}
Rows  == DOMAIN history
Count(kind) == Cardinality({k \in Rows : history[k].kind = kind})
Of(kind) == {k \in Rows : history[k].kind = kind}

\* WorkDeclaration, Evidence, InspectionMission, Inspection, ReserveCorrection.
Declaration(m) == [kind |-> "declaration", milestone |-> m]
Piece(d)       == [kind |-> "piece", of |-> d]
Mission(d, i)  == [kind |-> "mission", of |-> d, to |-> i]
Correction(r)  == [kind |-> "correction", of |-> r]
Inspection(d, onPiece, i, o, r) ==
  [kind |-> "inspection", of |-> d, onPiece |-> onPiece, by |-> i, outcome |-> o, reserve |-> r]

Row == [kind : {"declaration"}, milestone : Milestones]
  \cup [kind : {"piece", "correction"}, of : Nat \ {0}]
  \cup [kind : {"mission"}, of : Nat \ {0}, to : Inspectors]
  \cup [kind : {"inspection"}, of : Nat \ {0}, onPiece : BOOLEAN, by : Inspectors,
        outcome : Outcomes, reserve : Nat]
Cached     == [mission : Nat \ {0}, reserve : Nat, event : Nat]
Submission == [of : Nat \ {0}, by : Inspectors, outcome : Outcomes, reserve : Nat]

TypeOK ==
  /\ history \in Seq(Row)
  /\ device \in [Inspectors -> SUBSET Cached]
  /\ sent \subseteq Submission

-----------------------------------------------------------------------------
(* What is derived.  0 stands for no row.                                  *)

Newest(rows) == IF rows = {} THEN 0 ELSE CHOOSE k \in rows : \A j \in rows : j <= k

Declared(m)     == Newest({d \in Of("declaration") : history[d].milestone = m})
PiecesOf(d)     == {k \in Of("piece") : history[k].of = d}
InspectionsOf(d) == {k \in Of("inspection") : history[k].of = d}
Direct(d)       == {k \in InspectionsOf(d) : ~history[k].onPiece}

\* An inspection with reserve that follows none up opens one.
Opens(k) == history[k].outcome = "avec_reserve" /\ history[k].reserve = 0
Reserves == {k \in Of("inspection") : Opens(k)}

\* The rows that wrote an event of the reserve r, the last of which is its status.
Touching(r) == {r} \cup {k \in Of("inspection") : history[k].reserve = r}
                   \cup {k \in Of("correction") : history[k].of = r}
LastEvent(r) == Newest(Touching(r))
Status(r) ==
  LET e == LastEvent(r) IN
  IF e = r THEN "ouverte"
  ELSE IF history[e].kind = "correction" THEN "correction_proposee"
  ELSE IF history[e].outcome = "conforme" THEN "levee" ELSE "rejetee"

\* nouvelle_inspection is never the last: the outcome is written after it.
IsOpen(r) == Status(r) \in {"ouverte", "correction_proposee"}
OpenReserves == {r \in Reserves : IsOpen(r)}
\* Mutant of LotReserve: only the newest reserve can be open (its docstring).
LotReserveNewest == IF Newest(Reserves) \in OpenReserves THEN Newest(Reserves) ELSE 0
LotReserve == Newest(OpenReserves)

\* Mutant of Accepted: a document added after the inspection is not looked at.
AcceptedWhatever(m) ==
  LET d == Declared(m)
      last == Newest(InspectionsOf(d)) IN
  /\ d # 0 /\ last # 0
  /\ history[last].outcome = "conforme"
  /\ \A r \in InspectionsOf(d) : Opens(r) => ~IsOpen(r)
Accepted(m) ==
  LET d == Declared(m)
      last == Newest(InspectionsOf(d)) IN
  /\ d # 0 /\ last # 0
  /\ history[last].outcome = "conforme"
  /\ \A r \in InspectionsOf(d) : Opens(r) => ~IsOpen(r)
  /\ \A p \in PiecesOf(d) : p < last

\* Done for the list of CONTROL; still expected for BUILD and the back office.
Completed(k) == \E j \in Direct(history[k].of) : history[j].by = history[k].to /\ j > k
FollowUp(k)  == \E j \in Direct(history[k].of) : j < k
PendingMission(d) ==
  Newest({k \in Of("mission") : history[k].of = d
            /\ ~\E j \in InspectionsOf(d) : history[j].by = history[k].to /\ j > k})

\* The row of a mission: the lot's open reserve, if it was there already.
MissionRow(k) ==
  LET r == IF LotReserve < k THEN LotReserve ELSE 0 IN
  [mission |-> k, reserve |-> r, event |-> IF r = 0 THEN 0 ELSE LastEvent(r)]

ControlState(m) ==
  LET d == Declared(m) IN
  IF d = 0 THEN "not_declared"
  ELSE IF PiecesOf(d) = {} THEN "awaiting_documents"
  ELSE IF Accepted(m) THEN "accepted"
  ELSE IF LotReserve \in InspectionsOf(d) THEN "under_reserve"
  ELSE "awaiting_control"
MilestoneRows == [m \in Milestones |-> [status |-> ControlState(m), reserve |-> LotReserve \in InspectionsOf(Declared(m)),
                                        scheduled |-> Declared(m) # 0 /\ PendingMission(Declared(m)) # 0]]
ControlsToAssign == {m \in Milestones : ControlState(m) \in {"awaiting_control", "under_reserve"}}

-----------------------------------------------------------------------------
(* What HOME shows the client, and BUILD the builder.                      *)

Level(k) ==
  IF history[k].kind = "declaration" THEN "declare"
  ELSE IF history[k].kind = "piece" THEN "documente"
  ELSE IF history[k].outcome = "conforme" THEN "verifie" ELSE "controle"
Fraction == [declare |-> 20, documente |-> 40, controle |-> 60, verifie |-> 80, valide |-> 100]

DeclarationsOf(m) == {d \in Of("declaration") : history[d].milestone = m}
EventsOf(m) == DeclarationsOf(m) \cup UNION {PiecesOf(d) \cup InspectionsOf(d) : d \in DeclarationsOf(m)}

\* compute_milestone_status: the last event of any declaration of the milestone,
\* never those of its reserves.
HomeEvent(m) == Newest(EventsOf(m))
HomeShare(m) == IF HomeEvent(m) = 0 THEN 0 ELSE Fraction[Level(HomeEvent(m))]
\* round(x / n), to the nearest and to even in between; 0 for a lot without milestones.
Rounded(x, n) ==
  LET q    == x \div n
      rest == 2 * (x - n * q) IN
  IF n = 0 THEN 0 ELSE IF rest > n \/ (rest = n /\ q % 2 = 1) THEN q + 1 ELSE q
HomeProgress == Rounded(SumFunction([m \in Milestones |-> HomeShare(m)]), Cardinality(Milestones))
Notable == Newest(Rows \ Of("mission"))
Overview == [progress |-> HomeProgress, notable |-> Notable, reserve |-> LotReserve]
Feed == {[piece |-> k, milestone |-> history[history[k].of].milestone] : k \in Of("piece")}

BuildDeclared == {m \in Milestones : DeclarationsOf(m) # {}}
BuildProgress == Rounded(Cardinality(BuildDeclared) * Fraction["declare"], Cardinality(Milestones))
LotRow == [declared |-> Cardinality(BuildDeclared), progress |-> BuildProgress,
           reserves |-> Cardinality(OpenReserves)]
\* get_exceptions, of every declaration of a milestone; the fortnight without a
\* declaration that makes a lot late is left out.
Exceptions ==
  [unfinished |-> BuildDeclared # Milestones,
   to_plan    |-> {d \in Of("declaration") : InspectionsOf(d) = {}},
   reserves   |-> OpenReserves,
   no_piece   |-> {d \in Of("declaration") : PiecesOf(d) = {}}]

-----------------------------------------------------------------------------
(* The operations.                                                         *)

Room(kind) == Count(kind) + (IF kind = "inspection" THEN Cardinality(sent) ELSE 0) < Budget[kind]
Record(row) == Room(row.kind) /\ history' = Append(history, row)

Declare(m) == Record(Declaration(m)) /\ UNCHANGED <<device, sent>>

\* A document of the builder, or the photos of an inspector that the device
\* sends on their own: before the inspection, after it or without one.
AddPiece(d) ==
  /\ d \in Of("declaration")
  /\ Record(Piece(d))
  /\ UNCHANGED <<device, sent>>

\* create_mission, on any declaration; the inspector is never of the lot's
\* organisation (IndependenceRuleViolation).
Assign(d, i) ==
  /\ d \in Of("declaration")
  /\ Record(Mission(d, i))
  /\ UNCHANGED <<device, sent>>

\* create_reserve_correction, whatever the status of the reserve.
Correct(r) ==
  /\ r \in Reserves
  /\ Record(Correction(r))
  /\ UNCHANGED <<device, sent>>

\* list_missions_for_inspector, cached by the device.
Refresh(i) ==
  LET mine == {k \in Of("mission") : history[k].to = i} IN
  /\ device' = [device EXCEPT ![i] = {MissionRow(k) : k \in {k \in mine : ~Completed(k)}}]
  /\ UNCHANGED <<history, sent>>

\* Mutant of Target: a follow-up is compared with the inspections as well.
TargetIsInspection(d, r) == Newest(Direct(d))
\* The row whose event the submission is compared with: the last event of the
\* reserve, else that of the last inspection of the declaration itself.
Target(d, r) == IF r # 0 THEN LastEvent(r) ELSE Newest(Direct(d))

\* sync_inspection on a cached mission: the first inspection sends no event.
\* A refused one waits for its inspector.
Check(i, row, o) ==
  LET d == history[row.mission].of IN
  /\ row \in device[i]
  /\ Room("inspection")
  /\ device' = [device EXCEPT ![i] = @ \ {row}]
  /\ IF row.event = Target(d, row.reserve)
     THEN sent' = sent \cup {[of |-> d, by |-> i, outcome |-> o, reserve |-> row.reserve]}
     ELSE UNCHANGED sent
  /\ UNCHANGED history

Write(s) ==
  /\ history' = Append(history, Inspection(s.of, FALSE, s.by, s.outcome, s.reserve))
  /\ sent' = sent \ {s}
  /\ UNCHANGED device

\* InspectionViewSet.create: any declaration or document, any reserve, no
\* comparison.
Inspect(i, d, onPiece, o, r) ==
  /\ d \in Of("declaration")
  /\ onPiece => PiecesOf(d) # {}
  /\ r = 0 \/ r \in Reserves
  /\ Record(Inspection(d, onPiece, i, o, r))
  /\ UNCHANGED <<device, sent>>

Init == history = <<>> /\ device = [i \in Inspectors |-> {}] /\ sent = {}

Builder ==
  \/ \E m \in Milestones : Declare(m)
  \/ \E k \in Rows : AddPiece(k) \/ Correct(k)
BackOffice == \E d \in Rows, i \in Inspectors : Assign(d, i)
Control(i) ==
  \/ Refresh(i)
  \/ \E o \in Outcomes, row \in device[i] : Check(i, row, o)
  \/ \E o \in Outcomes, d \in Rows, onPiece \in BOOLEAN, r \in Rows \cup {0} : Inspect(i, d, onPiece, o, r)

Next ==
  \/ /\ Len(history) + Cardinality(sent) < Budget.all
     /\ Builder \/ BackOffice \/ \E i \in Inspectors : Control(i)
  \/ \E s \in sent : Write(s)

Spec == Init /\ [][Next]_vars
=============================================================================
