------------------------------- MODULE MCSite -------------------------------
(* Site with few rows of each kind, and one memory: whether something was  *)
(* ever written between the comparison of a submission and its rows.       *)
EXTENDS Site, TLC

VARIABLE met

\* How many rows of each kind.
Rehearsal == [declaration |-> 2, piece |-> 2, mission |-> 2, inspection |-> 3,
              correction |-> 1, all |-> 6]

MCInit == Init /\ met = FALSE
MCNext ==
  /\ Next
  /\ met' = (met \/ (history' # history /\ sent # {} /\ (sent' = sent \/ sent' # {})))
MCSpec == MCInit /\ [][MCNext]_<<vars, met>>
Same == Permutations(Inspectors) \cup Permutations(Milestones)

\* The last declaration of m gets a new one after it, a document, or an
\* inspection with reserve.
Voids(row, m) ==
  IF row.kind = "declaration" THEN row.milestone = m
  ELSE (row.kind = "piece" \/ (row.kind = "inspection" /\ row.outcome = "avec_reserve"))
       /\ row.of = Declared(m)

\* A milestone stops being accepted when its last declaration gets a successor,
\* a document or an inspection with reserve, and then only, or when a reserve
\* of it is corrected again; it starts with an inspection that conforms, or
\* with one that settles a reserve of it (is_milestone_technically_accepted, T07).
AcceptanceMoves ==
  [][history' # history =>
     LET row == history'[Len(history')] IN
     \A m \in Milestones :
       LET before == Accepted(m)
           after  == Accepted(m)' IN
       /\ Voids(row, m) => ~after
       /\ before /\ ~after =>
            \/ Voids(row, m)
            \/ row.kind = "correction" /\ row.of \in InspectionsOf(Declared(m))
       /\ ~before /\ after =>
            /\ row.kind = "inspection"
            /\ \/ row.outcome = "conforme" /\ row.of = Declared(m)
               \/ row.reserve \in InspectionsOf(Declared(m))
    ]_<<vars, met>>

\* HOME, BUILD and the back office tell one story.  HOME shows a milestone as
\* verified exactly when it is accepted, as long as nothing came on an older
\* declaration of it and none of its reserves is open; BUILD never shows more
\* progress than HOME, and counts a reserve whenever HOME shows one; a milestone
\* accepted on documents is in none of BUILD's exceptions, and the client reads
\* its documents; a control BUILD calls scheduled is still on the list of its
\* inspector (build_lot_overview, build_lot_rows, get_exceptions,
\* lot_milestone_rows, build_lot_evidence_feed, list_missions_for_inspector).
ReadersAgree ==
  /\ LotRow.progress <= Overview.progress
  /\ LotRow.reserves > 0 <=> Overview.reserve # 0
  /\ \A m \in Milestones :
       LET d == Declared(m)
           row == MilestoneRows[m] IN
       /\ HomeEvent(m) \in {d} \cup PiecesOf(d) \cup InspectionsOf(d) =>
            (Accepted(m) <=> HomeShare(m) = Fraction["verifie"] /\ OpenReserves \cap InspectionsOf(d) = {})
       /\ row.status = "accepted" =>
            /\ d \notin Exceptions.to_plan \cup Exceptions.no_piece
            /\ Exceptions.reserves \cap InspectionsOf(d) = {}
            /\ \E f \in Feed : f.milestone = m
       /\ row.scheduled => ~Completed(PendingMission(d))

\* As long as nothing is written between the comparison of a submission and its
\* rows, what comes from a device either follows up a reserve that is still open
\* or is the first inspection of its declaration (create_inspection, ticket 010).
SyncedIsExpectedInTurn ==
  ~met => \A s \in sent : IF s.reserve # 0 THEN IsOpen(s.reserve) ELSE Direct(s.of) = {}

\* The only open reserve of a lot is shown on the milestone it was opened for,
\* and named by every mission assigned since (milestone_control_state,
\* list_missions_for_inspector), whatever other reserves the lot has known.
LoneReserveIsShown ==
  \A r \in Reserves :
    /\ OpenReserves = {r}
    /\ Declared(history[history[r].of].milestone) = history[r].of
    =>
    /\ PiecesOf(history[r].of) # {} => ControlState(history[history[r].of].milestone) = "under_reserve"
    /\ \A k \in Of("mission") : k > r => MissionRow(k).reserve = r

\* "Un premier envoi réussit donc toujours tant que personne d'autre n'a déjà
\* écrit sur la même cible depuis" (sync_inspection): an inspector who has just
\* received a mission, the only one at work, is not refused.
FreshMissionIsAccepted ==
  \A k \in Of("mission") :
    /\ k = Len(history) /\ sent = {}
    /\ history[history[k].of].milestone \in ControlsToAssign
    /\ history[k].of = Declared(history[history[k].of].milestone)
    => MissionRow(k).event = Target(history[k].of, MissionRow(k).reserve)
=============================================================================
