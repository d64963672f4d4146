----------------------------- MODULE SiteProofs -----------------------------
(***************************************************************************)
(* Theorems about modules Site and MCSite, for every lot, every set of     *)
(* inspectors and histories of any length.                                 *)
(***************************************************************************)
EXTENDS MCSite, FiniteSetTheorems, TLAPS

-----------------------------------------------------------------------------
(* The last row of a set of rows.                                          *)

\* The rows at a smaller distance from the last one.
Closer == {d \in Nat \X Nat : d[1] < d[2]}

\* A non-empty set of rows has a newest one (LATEST_FIRST_ORDERING).
LEMMA NewestIsLast ==
  ASSUME NEW n \in Nat, NEW S, S \subseteq 1..n, S # {}
  PROVE  Newest(S) \in S /\ \A j \in S : j <= Newest(S)
<1> DEFINE Left == {d \in Nat : \E k \in S : d = n - k}
<1>1. \A k \in S : n - k \in Left
  OBVIOUS
<1>2. PICK x \in Left : \A y \in Left : ~(<<y, x>> \in Closer)
  <2>1. IsWellFoundedOn(Closer, Nat)
    BY NatLessThanWellFounded DEF OpToRel, Closer
  <2>2. Left \subseteq Nat /\ Left # {}
    BY <1>1
  <2> HIDE DEF Left
  <2> QED BY <2>1, <2>2, WFMin
<1>3. PICK k \in S : x = n - k
  OBVIOUS
<1>4. \A j \in S : j <= k
  <2> SUFFICES ASSUME NEW j \in S PROVE j <= k
    OBVIOUS
  <2>1. n - j \in Left /\ n - j \in Nat /\ x \in Nat
    BY <1>1
  <2>2. ~(n - j < x)
    BY <1>2, <2>1 DEF Closer
  <2>3. j \in Int /\ k \in Int
    OBVIOUS
  <2> QED BY <2>2, <2>3, <1>3
<1> QED BY <1>3, <1>4 DEF Newest

LEMMA NewestIsRowOrNone ==
  ASSUME NEW n \in Nat, NEW S, S \subseteq 1..n
  PROVE  /\ Newest(S) \in Nat
         /\ Newest(S) # 0 => Newest(S) \in S
         /\ Newest(S) = 0 => S = {}
<1>1. CASE S = {}
  BY <1>1 DEF Newest
<1>2. CASE S # {}
  <2>1. Newest(S) \in S
    BY <1>2, NewestIsLast
  <2>2. \A x \in S : x \in Nat /\ x # 0
    OBVIOUS
  <2> QED BY <1>2, <2>1, <2>2
<1> QED BY <1>1, <1>2

-----------------------------------------------------------------------------
(* The invariant.                                                          *)

\* A row refers to an earlier row of the right table (the foreign keys), even
\* when it was written from a cached mission.
RowsReferBack ==
  \A k \in Rows :
    /\ history[k].kind \in {"piece", "mission", "inspection"} =>
         history[k].of \in Of("declaration") /\ history[k].of < k
    /\ history[k].kind = "correction" => history[k].of \in Reserves /\ history[k].of < k
    /\ history[k].kind = "inspection" /\ history[k].reserve # 0 =>
         history[k].reserve \in Reserves /\ history[k].reserve < k

\* What a device holds was true: a mission of its inspector, and an event that
\* left its reserve open.
Remembered(row) ==
  /\ row.mission \in Of("mission")
  /\ row.reserve = 0 => row.event = 0
  /\ row.reserve # 0 =>
       /\ row.reserve \in Reserves
       /\ row.event \in Rows
       /\ row.event = row.reserve \/ history[row.event].kind = "correction"
DeviceRemembers == \A i \in Inspectors : \A row \in device[i] : Remembered(row)

SentIsKnown ==
  \A s \in sent : s.of \in Of("declaration") /\ (s.reserve = 0 \/ s.reserve \in Reserves)

Inv == TypeOK /\ RowsReferBack /\ DeviceRemembers /\ SentIsKnown
IInv == Inv /\ SyncedIsExpectedInTurn

LEMMA RowsAreNumbers ==
  ASSUME TypeOK
  PROVE  /\ Len(history) \in Nat
         /\ Rows = 1..Len(history)
         /\ \A k \in Rows : history[k] \in Row
BY DEF TypeOK, Rows

LEMMA TouchingAreRows ==
  ASSUME TypeOK, NEW r \in Reserves
  PROVE  Touching(r) \subseteq Rows /\ r \in Touching(r)
BY DEF Touching, Reserves, Of

LEMMA LastEventOfReserve ==
  ASSUME TypeOK, NEW r \in Reserves
  PROVE  LastEvent(r) \in Touching(r) /\ LastEvent(r) \in Rows
BY RowsAreNumbers, TouchingAreRows, NewestIsLast DEF LastEvent

\* The reserve a mission shows is open, by its last event.
LEMMA LotReserveIsOpen ==
  ASSUME TypeOK
  PROVE  /\ LotReserve \in Nat
         /\ LotReserve # 0 =>
              /\ LotReserve \in Reserves
              /\ LastEvent(LotReserve) \in Rows
              /\ LastEvent(LotReserve) = LotReserve \/ history[LastEvent(LotReserve)].kind = "correction"
<1>1. OpenReserves \subseteq 1..Len(history) /\ OpenReserves \subseteq Reserves
  BY RowsAreNumbers DEF OpenReserves, Reserves, Of
<1>2. LotReserve \in Nat /\ (LotReserve # 0 => LotReserve \in OpenReserves)
  BY <1>1, RowsAreNumbers, NewestIsRowOrNone DEF LotReserve
<1>3. ASSUME LotReserve # 0
      PROVE  LastEvent(LotReserve) = LotReserve \/ history[LastEvent(LotReserve)].kind = "correction"
  <2>1. Status(LotReserve) \in {"ouverte", "correction_proposee"}
    BY <1>2, <1>3 DEF OpenReserves, IsOpen
  <2> QED BY <2>1 DEF Status
<1> QED BY <1>1, <1>2, <1>3, LastEventOfReserve

-----------------------------------------------------------------------------
(* A row more.                                                             *)

\* Every step that writes adds a row of one of these kinds.
Wired(row) ==
  /\ row \in Row
  /\ row.kind \in {"piece", "mission", "inspection"} => row.of \in Of("declaration")
  /\ row.kind = "correction" => row.of \in Reserves
  /\ row.kind = "inspection" /\ row.reserve # 0 => row.reserve \in Reserves

LEMMA Appended ==
  ASSUME TypeOK, NEW row \in Row, history' = Append(history, row)
  PROVE  /\ history' \in Seq(Row)
         /\ Rows' = Rows \cup {Len(history) + 1}
         /\ \A k \in Rows : history'[k] = history[k] /\ k < Len(history) + 1
         /\ history'[Len(history) + 1] = row
         /\ history' # history
<1>1. history \in Seq(Row)
  BY DEF TypeOK
<1>2. Len(history') = Len(history) + 1 /\ Len(history) \in Nat
  BY <1>1
<1> QED BY <1>1, <1>2 DEF Rows

LEMMA RowsStay ==
  ASSUME TypeOK, NEW row \in Row, history' = Append(history, row)
  PROVE  /\ \A kind : Of(kind) \subseteq Of(kind)'
         /\ Reserves \subseteq Reserves'
         /\ \A c : Remembered(c) => Remembered(c)'
<1>1. \A kind : Of(kind) \subseteq Of(kind)'
  BY Appended DEF Of
<1>2. Reserves \subseteq Reserves'
  BY <1>1, Appended DEF Reserves, Of, Opens
<1>3. ASSUME NEW c, Remembered(c) PROVE Remembered(c)'
  BY <1>1, <1>2, <1>3, Appended DEF Remembered
<1> QED BY <1>1, <1>2, <1>3

LEMMA AppendKeeps ==
  ASSUME Inv, NEW row, Wired(row), history' = Append(history, row)
  PROVE  RowsReferBack'
<1> DEFINE n == Len(history) + 1
<1>0. TypeOK /\ row \in Row
  BY DEF Inv, Wired
<1>1. /\ Rows' = Rows \cup {n}
      /\ \A k \in Rows : history'[k] = history[k] /\ k < n
      /\ history'[n] = row
  BY <1>0, Appended
<1>2. Of("declaration") \subseteq Of("declaration")' /\ Reserves \subseteq Reserves'
  BY <1>0, RowsStay
<1>3. Of("declaration") \subseteq Rows /\ Reserves \subseteq Rows
  BY DEF Of, Reserves
<1> SUFFICES ASSUME NEW k \in Rows'
             PROVE /\ history'[k].kind \in {"piece", "mission", "inspection"} =>
                        history'[k].of \in Of("declaration")' /\ history'[k].of < k
                   /\ history'[k].kind = "correction" => history'[k].of \in Reserves' /\ history'[k].of < k
                   /\ history'[k].kind = "inspection" /\ history'[k].reserve # 0 =>
                        history'[k].reserve \in Reserves' /\ history'[k].reserve < k
  BY DEF RowsReferBack
<1>4. CASE k \in Rows
  BY <1>1, <1>2, <1>4 DEF Inv, RowsReferBack
<1>5. CASE k = n
  BY <1>1, <1>2, <1>3, <1>5 DEF Wired
<1> QED BY <1>1, <1>4, <1>5

-----------------------------------------------------------------------------
(* The steps.                                                              *)

LEMMA InitIsInv ==
  ASSUME MCInit
  PROVE  IInv
<1>1. history = <<>> /\ sent = {} /\ device = [i \in Inspectors |-> {}]
  BY DEF MCInit, Init
<1>2. TypeOK
  BY <1>1 DEF TypeOK
<1>3. RowsReferBack /\ DeviceRemembers /\ SentIsKnown
  BY <1>1 DEF RowsReferBack, DeviceRemembers, SentIsKnown, Rows
<1>4. SyncedIsExpectedInTurn
  BY <1>1 DEF SyncedIsExpectedInTurn
<1> QED BY <1>2, <1>3, <1>4 DEF IInv, Inv

\* A row is added by somebody who holds no submission back.
LEMMA RecordKeeps ==
  ASSUME Inv, NEW row, Wired(row), Record(row), UNCHANGED <<device, sent>>
  PROVE  Inv' /\ history' # history
<1>1. TypeOK /\ row \in Row /\ history' = Append(history, row)
  BY DEF Inv, Wired, Record
<1>2. TypeOK'
  BY <1>1, Appended DEF TypeOK
<1>3. RowsReferBack'
  BY <1>1, AppendKeeps
<1>4. DeviceRemembers'
  BY <1>1, RowsStay DEF Inv, DeviceRemembers
<1>5. SentIsKnown'
  BY <1>1, RowsStay DEF Inv, SentIsKnown
<1> QED BY <1>1, <1>2, <1>3, <1>4, <1>5, Appended DEF Inv

LEMMA WrittenRows ==
  ASSUME Inv
  PROVE  /\ \A m \in Milestones : Wired(Declaration(m))
         /\ \A d \in Of("declaration") : Wired(Piece(d))
         /\ \A d \in Of("declaration"), i \in Inspectors : Wired(Mission(d, i))
         /\ \A r \in Reserves : Wired(Correction(r))
         /\ \A d \in Of("declaration"), onPiece \in BOOLEAN, i \in Inspectors, o \in Outcomes, r \in Reserves \cup {0} :
              Wired(Inspection(d, onPiece, i, o, r))
<1>1. Of("declaration") \subseteq Nat \ {0} /\ Reserves \subseteq Nat \ {0}
  BY RowsAreNumbers DEF Inv, Of, Reserves
<1>2. \A m \in Milestones : Wired(Declaration(m))
  BY DEF Wired, Declaration, Row
<1>3. \A d \in Of("declaration") : Wired(Piece(d))
  BY <1>1 DEF Wired, Piece, Row
<1>4. \A d \in Of("declaration"), i \in Inspectors : Wired(Mission(d, i))
  BY <1>1 DEF Wired, Mission, Row
<1>5. \A r \in Reserves : Wired(Correction(r))
  BY <1>1 DEF Wired, Correction, Row
<1>6. \A d \in Of("declaration"), onPiece \in BOOLEAN, i \in Inspectors, o \in Outcomes, r \in Reserves \cup {0} :
        Wired(Inspection(d, onPiece, i, o, r))
  <2> SUFFICES ASSUME NEW d \in Of("declaration"), NEW onPiece \in BOOLEAN, NEW i \in Inspectors,
                      NEW o \in Outcomes, NEW r \in Reserves \cup {0}
               PROVE  Wired(Inspection(d, onPiece, i, o, r))
    OBVIOUS
  <2>0. d \in Nat \ {0} /\ r \in Nat
    BY <1>1
  <2>1. Inspection(d, onPiece, i, o, r) \in
          [kind : {"inspection"}, of : Nat \ {0}, onPiece : BOOLEAN, by : Inspectors,
           outcome : Outcomes, reserve : Nat]
    BY <2>0 DEF Inspection
  <2>2. Inspection(d, onPiece, i, o, r) \in Row
    BY <2>1 DEF Row
  <2> QED BY <2>2 DEF Wired, Inspection
<1> QED BY <1>2, <1>3, <1>4, <1>5, <1>6

\* The list of missions a device gets.
LEMMA RefreshKeeps ==
  ASSUME Inv, NEW i \in Inspectors, Refresh(i)
  PROVE  Inv'
<1> DEFINE mine == {k \in Of("mission") : history[k].to = i}
<1>1. TypeOK /\ UNCHANGED <<history, sent>>
  BY DEF Inv, Refresh
<1>2. ASSUME NEW k \in mine PROVE MissionRow(k) \in Cached /\ Remembered(MissionRow(k))
  <2>1. k \in Nat \ {0} /\ k \in Of("mission")
    BY <1>1, RowsAreNumbers DEF Of
  <2>2. CASE LotReserve < k /\ LotReserve # 0
    <3>1. LastEvent(LotReserve) \in Nat
      BY <1>1, <2>2, LotReserveIsOpen, RowsAreNumbers
    <3>2. MissionRow(k) = [mission |-> k, reserve |-> LotReserve, event |-> LastEvent(LotReserve)]
      BY <2>2 DEF MissionRow
    <3> QED BY <1>1, <2>1, <2>2, <3>1, <3>2, LotReserveIsOpen DEF Cached, Remembered
  <2>3. CASE ~(LotReserve < k /\ LotReserve # 0)
    <3>1. MissionRow(k) = [mission |-> k, reserve |-> 0, event |-> 0]
      BY <2>3 DEF MissionRow
    <3> QED BY <2>1, <3>1 DEF Cached, Remembered
  <2> QED BY <2>2, <2>3
<1>3. \A j \in Inspectors : device'[j] \subseteq device[j] \cup {MissionRow(k) : k \in mine}
  BY <1>1 DEF Refresh, TypeOK
<1>4. device' \in [Inspectors -> SUBSET Cached]
  BY <1>1, <1>2 DEF Refresh, TypeOK
<1>5. TypeOK'
  BY <1>1, <1>4 DEF TypeOK
<1>6. \A row : Remembered(row)' <=> Remembered(row)
  BY <1>1 DEF Remembered, Of, Rows, Reserves, Opens
<1>7. DeviceRemembers'
  BY <1>2, <1>3, <1>6 DEF Inv, DeviceRemembers
<1>8. RowsReferBack' /\ SentIsKnown'
  BY <1>1 DEF Inv, RowsReferBack, SentIsKnown, Rows, Of, Reserves, Opens
<1> QED BY <1>5, <1>7, <1>8 DEF Inv

\* A submission that passes the comparison was compared with a row that is still
\* the last of its target.
LEMMA CheckKeeps ==
  ASSUME Inv, NEW i \in Inspectors, NEW row \in device[i], NEW o \in Outcomes, Check(i, row, o)
  PROVE  /\ Inv'
         /\ \A s \in sent' \ sent : IF s.reserve # 0 THEN IsOpen(s.reserve) ELSE Direct(s.of) = {}
<1> DEFINE d == history[row.mission].of
           new == [of |-> d, by |-> i, outcome |-> o, reserve |-> row.reserve]
<1>1. TypeOK /\ UNCHANGED history /\ Remembered(row) /\ row \in Cached
  BY DEF Inv, Check, DeviceRemembers, TypeOK
<1>2. d \in Of("declaration")
  BY <1>1 DEF Inv, Remembered, RowsReferBack, Of
<1>3. new \in Submission
  <2>1. d \in Nat \ {0} /\ row.reserve \in Nat
    BY <1>1, <1>2, RowsAreNumbers DEF Of, Cached
  <2> QED BY <2>1 DEF Submission
<1>4. \A s \in sent' \ sent : s = new /\ row.event = Target(d, row.reserve)
  BY DEF Check
<1>5. sent' \subseteq sent \cup {new}
  BY DEF Check
<1>6. \A j \in Inspectors : device'[j] \subseteq device[j]
  BY <1>1 DEF Check, TypeOK
<1>7. device' \in [Inspectors -> SUBSET Cached]
  BY <1>1 DEF Check, TypeOK
<1>8. TypeOK'
  BY <1>1, <1>3, <1>5, <1>7 DEF TypeOK
<1>9. RowsReferBack' /\ DeviceRemembers'
  BY <1>1, <1>6 DEF Inv, RowsReferBack, DeviceRemembers, Remembered, Rows, Of, Reserves, Opens
<1>10. SentIsKnown'
  <2>1. Of("declaration")' = Of("declaration") /\ Reserves' = Reserves
    BY <1>1 DEF Of, Rows, Reserves, Opens
  <2>2. new.of = d /\ new.reserve = row.reserve /\ (row.reserve = 0 \/ row.reserve \in Reserves)
    BY <1>1 DEF Remembered
  <2> HIDE DEF new, d
  <2> QED BY <1>2, <1>5, <2>1, <2>2 DEF Inv, SentIsKnown
<1>11. ASSUME row.event = Target(d, row.reserve), row.reserve # 0
       PROVE  IsOpen(row.reserve)
  <2>1. row.event = LastEvent(row.reserve)
    BY <1>11 DEF Target
  <2>2. Status(row.reserve) \in {"ouverte", "correction_proposee"}
    BY <1>1, <1>11, <2>1 DEF Remembered, Status
  <2> QED BY <2>2 DEF IsOpen
<1>12. ASSUME row.event = Target(d, row.reserve), row.reserve = 0
       PROVE  Direct(d) = {}
  <2>1. Newest(Direct(d)) = 0
    BY <1>1, <1>12 DEF Remembered, Target
  <2>2. Direct(d) \subseteq 1..Len(history)
    BY <1>1, RowsAreNumbers DEF Direct, InspectionsOf, Of
  <2> QED BY <1>1, <2>1, <2>2, RowsAreNumbers, NewestIsRowOrNone
<1>13. \A s \in sent' \ sent : IF s.reserve # 0 THEN IsOpen(s.reserve) ELSE Direct(s.of) = {}
  <2>1. new.of = d /\ new.reserve = row.reserve
    OBVIOUS
  <2> HIDE DEF new, d
  <2> QED BY <1>4, <1>11, <1>12, <2>1
<1> QED BY <1>8, <1>9, <1>10, <1>13 DEF Inv

LEMMA WriteKeeps ==
  ASSUME Inv, NEW s \in sent, Write(s)
  PROVE  Inv' /\ history' # history /\ sent' = sent \ {s}
<1> DEFINE row == Inspection(s.of, FALSE, s.by, s.outcome, s.reserve)
<1>1. TypeOK /\ history' = Append(history, row) /\ sent' = sent \ {s} /\ device' = device
  BY DEF Inv, Write
<1>2. s \in Submission /\ s.of \in Of("declaration") /\ s.reserve \in Reserves \cup {0}
  BY <1>1 DEF Inv, SentIsKnown, TypeOK
<1>3. Wired(row)
  BY <1>2, WrittenRows DEF Submission
<1> HIDE DEF row
<1>4. row \in Row
  BY <1>3 DEF Wired
<1>5. TypeOK'
  BY <1>1, <1>4, Appended DEF TypeOK
<1>6. RowsReferBack'
  BY <1>1, <1>3, AppendKeeps
<1>7. DeviceRemembers' /\ SentIsKnown'
  BY <1>1, <1>4, RowsStay DEF Inv, DeviceRemembers, SentIsKnown
<1> QED BY <1>1, <1>4, <1>5, <1>6, <1>7, Appended DEF Inv

\* What a step writes, other than the outcome of a submission, leaves the
\* submissions alone or adds one that is compared.
LEMMA StepKeeps ==
  ASSUME Inv, Next
  PROVE  /\ Inv'
         /\ \/ history' # history /\ sent' = sent
            \/ /\ history' = history
               /\ \A s \in sent' \ sent : IF s.reserve # 0 THEN IsOpen(s.reserve) ELSE Direct(s.of) = {}
            \/ history' # history /\ \E s \in sent : sent' = sent \ {s}
<1> DEFINE Outcome ==
      \/ history' # history /\ sent' = sent
      \/ /\ history' = history
         /\ \A s \in sent' \ sent : IF s.reserve # 0 THEN IsOpen(s.reserve) ELSE Direct(s.of) = {}
      \/ history' # history /\ \E s \in sent : sent' = sent \ {s}
<1>1. ASSUME NEW m \in Milestones, Declare(m) PROVE Inv' /\ Outcome
  BY <1>1, WrittenRows, RecordKeeps DEF Declare
<1>2. ASSUME NEW k \in Rows, AddPiece(k) PROVE Inv' /\ Outcome
  BY <1>2, WrittenRows, RecordKeeps DEF AddPiece
<1>3. ASSUME NEW k \in Rows, Correct(k) PROVE Inv' /\ Outcome
  BY <1>3, WrittenRows, RecordKeeps DEF Correct
<1>4. ASSUME NEW d \in Rows, NEW i \in Inspectors, Assign(d, i) PROVE Inv' /\ Outcome
  BY <1>4, WrittenRows, RecordKeeps DEF Assign
<1>5. ASSUME NEW i \in Inspectors, Refresh(i) PROVE Inv' /\ Outcome
  BY <1>5, RefreshKeeps DEF Refresh
<1>6. ASSUME NEW i \in Inspectors, NEW o \in Outcomes, NEW row \in device[i], Check(i, row, o)
      PROVE  Inv' /\ Outcome
  BY <1>6, CheckKeeps DEF Check
<1>7. ASSUME NEW i \in Inspectors, NEW o \in Outcomes, NEW d \in Rows, NEW onPiece \in BOOLEAN,
             NEW r \in Rows \cup {0}, Inspect(i, d, onPiece, o, r)
      PROVE  Inv' /\ Outcome
  <2>1. Wired(Inspection(d, onPiece, i, o, r))
    BY <1>7, WrittenRows DEF Inspect
  <2> QED BY <1>7, <2>1, RecordKeeps DEF Inspect
<1>8. ASSUME NEW s \in sent, Write(s) PROVE Inv' /\ Outcome
  BY <1>8, WriteKeeps
<1>9. CASE Builder
  BY <1>9, <1>1, <1>2, <1>3 DEF Builder
<1>10. CASE BackOffice
  BY <1>10, <1>4 DEF BackOffice
<1>11. ASSUME NEW i \in Inspectors, Control(i) PROVE Inv' /\ Outcome
  BY <1>11, <1>5, <1>6, <1>7 DEF Control
<1> QED BY <1>8, <1>9, <1>10, <1>11 DEF Next

LEMMA NextKeeps ==
  ASSUME IInv, [MCNext]_<<vars, met>>
  PROVE  IInv'
<1>1. CASE UNCHANGED <<vars, met>>
  <2>1. Inv'
    BY <1>1 DEF IInv, Inv, vars, TypeOK, RowsReferBack, DeviceRemembers, SentIsKnown, Remembered,
                Rows, Of, Reserves, Opens
  <2>2. SyncedIsExpectedInTurn'
    BY <1>1 DEF IInv, vars, SyncedIsExpectedInTurn, IsOpen, Status, LastEvent, Touching, Direct,
                InspectionsOf, Of, Rows
  <2> QED BY <2>1, <2>2 DEF IInv
<1>2. CASE MCNext
  <2>1. Next /\ Inv
    BY <1>2 DEF MCNext, IInv
  <2>2. Inv'
    BY <2>1, StepKeeps
  <2>3. SyncedIsExpectedInTurn'
    <3> SUFFICES ASSUME ~met', NEW s \in sent'
                 PROVE  (IF s.reserve # 0 THEN IsOpen(s.reserve) ELSE Direct(s.of) = {})'
      BY DEF SyncedIsExpectedInTurn
    <3>1. ~met /\ ~(history' # history /\ sent # {} /\ (sent' = sent \/ sent' # {}))
      BY <1>2 DEF MCNext
    <3>2. history' = history
      BY <2>1, <3>1, StepKeeps
    <3>3. s \in sent \/ s \in sent' \ sent
      OBVIOUS
    <3>4. IF s.reserve # 0 THEN IsOpen(s.reserve) ELSE Direct(s.of) = {}
      BY <2>1, <3>1, <3>2, <3>3, StepKeeps DEF IInv, SyncedIsExpectedInTurn
    <3> QED BY <3>2, <3>4 DEF IsOpen, Status, LastEvent, Touching, Direct, InspectionsOf, Of, Rows
  <2> QED BY <2>2, <2>3 DEF IInv
<1> QED BY <1>1, <1>2

-----------------------------------------------------------------------------
(* What a row more changes.                                                *)

LEMMA NewestOfOneMore ==
  ASSUME NEW n \in Nat, NEW S, S \subseteq 1..n
  PROVE  Newest(S \cup {n + 1}) = n + 1
<1> DEFINE T == S \cup {n + 1}
<1>1. T \subseteq 1..(n + 1) /\ T # {} /\ n + 1 \in T /\ n + 1 \in Nat
  OBVIOUS
<1>2. Newest(T) \in T /\ n + 1 <= Newest(T)
  <2> HIDE DEF T
  <2> QED BY <1>1, NewestIsLast
<1>3. \A x \in T : x \in Nat /\ (n + 1 <= x => x = n + 1)
  OBVIOUS
<1> HIDE DEF T
<1>4. Newest(T) = n + 1
  BY <1>2, <1>3
<1> QED BY <1>4 DEF T

\* The tables after a row more.
LEMMA TablesAfter ==
  ASSUME Inv, NEW row, Wired(row), history' = Append(history, row)
  PROVE  LET n == Len(history) + 1 IN
         /\ \A kind : Of(kind)' = Of(kind) \cup (IF row.kind = kind THEN {n} ELSE {})
         /\ \A d : InspectionsOf(d)' =
                     InspectionsOf(d) \cup (IF row.kind = "inspection" /\ row.of = d THEN {n} ELSE {})
         /\ \A d : PiecesOf(d)' =
                     PiecesOf(d) \cup (IF row.kind = "piece" /\ row.of = d THEN {n} ELSE {})
         /\ \A k \in Rows : Opens(k)' <=> Opens(k)
<1> DEFINE n == Len(history) + 1
<1>1. /\ Rows' = Rows \cup {n}
      /\ \A k \in Rows : history'[k] = history[k] /\ k < n
      /\ history'[n] = row
  BY Appended DEF Inv, Wired
<1>2. \A kind : Of(kind)' = Of(kind) \cup (IF row.kind = kind THEN {n} ELSE {})
  BY <1>1 DEF Of
<1>3. \A kind : Of(kind) \subseteq Rows
  BY DEF Of
<1> HIDE DEF n
<1>4. \A d : InspectionsOf(d)' =
               InspectionsOf(d) \cup (IF row.kind = "inspection" /\ row.of = d THEN {n} ELSE {})
  BY <1>1, <1>2, <1>3 DEF InspectionsOf
<1>5. \A d : PiecesOf(d)' = PiecesOf(d) \cup (IF row.kind = "piece" /\ row.of = d THEN {n} ELSE {})
  BY <1>1, <1>2, <1>3 DEF PiecesOf
<1>6. \A k \in Rows : Opens(k)' <=> Opens(k)
  BY <1>1 DEF Opens
<1> QED BY <1>2, <1>4, <1>5, <1>6 DEF n

\* Only an inspection that follows the reserve up, or a correction, moves it:
\* the first closes it and the second opens it.
LEMMA ReserveAfter ==
  ASSUME Inv, NEW row, Wired(row), history' = Append(history, row), NEW r \in Reserves
  PROVE  /\ row.kind = "inspection" /\ row.reserve = r => ~IsOpen(r)'
         /\ row.kind = "correction" /\ row.of = r => IsOpen(r)'
         /\ ~(row.kind = "inspection" /\ row.reserve = r) /\ ~(row.kind = "correction" /\ row.of = r) =>
              (IsOpen(r)' <=> IsOpen(r))
<1> DEFINE n == Len(history) + 1
           Touches == (row.kind = "inspection" /\ row.reserve = r) \/ (row.kind = "correction" /\ row.of = r)
<1>0. TypeOK /\ Len(history) \in Nat /\ Rows = 1..Len(history) /\ row \in Row
  BY RowsAreNumbers DEF Inv, Wired
<1>1. /\ \A k \in Rows : history'[k] = history[k] /\ k < n
      /\ history'[n] = row
  BY <1>0, Appended
<1>2. \A kind : Of(kind)' = Of(kind) \cup (IF row.kind = kind THEN {n} ELSE {})
  BY TablesAfter
<1>3. \A kind : Of(kind) \subseteq Rows
  BY DEF Of
<1>4. Touching(r)' = Touching(r) \cup (IF Touches THEN {n} ELSE {})
  <2> HIDE DEF n
  <2>1. {k \in Of("inspection") : history[k].reserve = r}' =
          {k \in Of("inspection") : history[k].reserve = r}
          \cup (IF row.kind = "inspection" /\ row.reserve = r THEN {n} ELSE {})
    BY <1>1, <1>2, <1>3
  <2>2. {k \in Of("correction") : history[k].of = r}' =
          {k \in Of("correction") : history[k].of = r}
          \cup (IF row.kind = "correction" /\ row.of = r THEN {n} ELSE {})
    BY <1>1, <1>2, <1>3
  <2> QED BY <2>1, <2>2 DEF Touching
<1>5. Touching(r) \subseteq 1..Len(history) /\ r \in Rows
  BY <1>0, TouchingAreRows
<1>6. CASE Touches
  <2>1. LastEvent(r)' = n
    BY <1>0, <1>4, <1>5, <1>6, NewestOfOneMore DEF LastEvent
  <2>2. n # r
    BY <1>1, <1>5
  <2>3. CASE row.kind = "correction" /\ row.of = r
    BY <1>1, <2>1, <2>2, <2>3 DEF IsOpen, Status
  <2>4. CASE row.kind = "inspection" /\ row.reserve = r
    BY <1>1, <2>1, <2>2, <2>4 DEF IsOpen, Status
  <2> QED BY <1>6, <2>3, <2>4
<1>7. CASE ~Touches
  <2>1. LastEvent(r)' = LastEvent(r)
    BY <1>4, <1>7 DEF LastEvent
  <2>2. LastEvent(r) \in Rows
    BY <1>0, LastEventOfReserve
  <2>3. IsOpen(r)' <=> IsOpen(r)
    BY <1>1, <2>1, <2>2 DEF IsOpen, Status
  <2> QED BY <1>7, <2>3
<1> QED BY <1>6, <1>7

\* The last declaration of a milestone.
LEMMA DeclaredAfter ==
  ASSUME Inv, NEW row, Wired(row), history' = Append(history, row), NEW m
  PROVE  Declared(m)' = IF row.kind = "declaration" /\ row.milestone = m
                        THEN Len(history) + 1 ELSE Declared(m)
<1> DEFINE n == Len(history) + 1
           S == {d \in Of("declaration") : history[d].milestone = m}
<1>0. Len(history) \in Nat /\ Rows = 1..Len(history)
  BY RowsAreNumbers DEF Inv
<1>1. /\ \A k \in Rows : history'[k] = history[k] /\ k < n
      /\ history'[n] = row
  BY Appended DEF Inv, Wired
<1>2. Of("declaration")' = Of("declaration") \cup (IF row.kind = "declaration" THEN {n} ELSE {})
  BY TablesAfter
<1>3. Of("declaration") \subseteq Rows
  BY DEF Of
<1>4. S' = S \cup (IF row.kind = "declaration" /\ row.milestone = m THEN {n} ELSE {})
  <2> HIDE DEF n
  <2> QED BY <1>1, <1>2, <1>3
<1>5. S \subseteq 1..Len(history)
  BY <1>0, <1>3
<1> HIDE DEF S
<1>6. CASE row.kind = "declaration" /\ row.milestone = m
  <2>1. Newest(S') = n
    BY <1>0, <1>4, <1>5, <1>6, NewestOfOneMore
  <2> QED BY <1>6, <2>1 DEF Declared, S
<1>7. CASE ~(row.kind = "declaration" /\ row.milestone = m)
  BY <1>4, <1>7 DEF Declared, S
<1> QED BY <1>6, <1>7

\* Which rows may give or take the acceptance of a milestone.
LEMMA AcceptedAfter ==
  ASSUME Inv, NEW row, Wired(row), history' = Append(history, row), NEW m
  PROVE  /\ Voids(row, m) => ~Accepted(m)'
         /\ Accepted(m) /\ ~Accepted(m)' =>
              Voids(row, m) \/ (row.kind = "correction" /\ row.of \in InspectionsOf(Declared(m)))
         /\ ~Accepted(m) /\ Accepted(m)' =>
              /\ row.kind = "inspection"
              /\ \/ row.outcome = "conforme" /\ row.of = Declared(m)
                 \/ row.reserve \in InspectionsOf(Declared(m))
<1>n. PICK n : n = Len(history) + 1
  OBVIOUS
<1>d. PICK d : d = Declared(m)
  OBVIOUS
<1>l. PICK last : last = Newest(InspectionsOf(d))
  OBVIOUS
<1>0. /\ Len(history) \in Nat /\ Rows = 1..Len(history)
      /\ row \in Row
      /\ n = Len(history) + 1 /\ d = Declared(m) /\ last = Newest(InspectionsOf(d))
  BY <1>n, <1>d, <1>l, RowsAreNumbers DEF Inv, Wired
<1>1. /\ \A k \in Rows : history'[k] = history[k] /\ k < n
      /\ history'[n] = row
  BY <1>0, Appended DEF Inv, Wired
<1>2. /\ \A e : InspectionsOf(e)' =
                  InspectionsOf(e) \cup (IF row.kind = "inspection" /\ row.of = e THEN {n} ELSE {})
      /\ \A e : PiecesOf(e)' = PiecesOf(e) \cup (IF row.kind = "piece" /\ row.of = e THEN {n} ELSE {})
      /\ \A k \in Rows : Opens(k)' <=> Opens(k)
  BY <1>0, TablesAfter
<1>3. \A e : InspectionsOf(e) \subseteq 1..Len(history) /\ PiecesOf(e) \subseteq 1..Len(history)
  BY <1>0 DEF InspectionsOf, PiecesOf, Of
<1>4. last \in Nat /\ (last # 0 => last \in InspectionsOf(d)) /\ last < n
  BY <1>0, <1>3, NewestIsRowOrNone
<1>5. CASE row.kind = "declaration" /\ row.milestone = m
  <2>1. Declared(m)' = n
    BY <1>0, <1>5, DeclaredAfter
  <2>2. InspectionsOf(n) = {}
    BY <1>0, <1>1 DEF InspectionsOf, Of, Inv, RowsReferBack
  <2>3. InspectionsOf(n)' = {}
    BY <1>2, <1>5, <2>2
  <2>4. ~Accepted(m)'
    BY <2>1, <2>3 DEF Accepted, Newest
  <2> QED BY <1>5, <2>4 DEF Voids
<1>6. CASE ~(row.kind = "declaration" /\ row.milestone = m)
  <2>1. Declared(m)' = d
    BY <1>0, <1>6, DeclaredAfter
  <2>2. Voids(row, m) <=> (row.kind = "piece" \/ (row.kind = "inspection" /\ row.outcome = "avec_reserve")) /\ row.of = d
    BY <1>0, <1>6 DEF Voids, Row
  <2>3. CASE row.kind = "inspection" /\ row.of = d
    <3>1. Newest(InspectionsOf(d))' = n
      BY <1>0, <1>2, <1>3, <2>3, NewestOfOneMore
    <3>2. PiecesOf(d)' = PiecesOf(d)
      BY <1>2, <2>3
    <3>3. row.outcome \in Outcomes
      BY <1>0, <2>3 DEF Row
    <3>4. CASE row.outcome = "avec_reserve"
      <4>1. ~Accepted(m)'
        BY <1>1, <2>1, <3>1, <3>4 DEF Accepted
      <4> QED BY <1>0, <2>2, <2>3, <3>4, <4>1
    <3>5. CASE row.outcome = "conforme"
      <4>1. ASSUME Accepted(m) PROVE Accepted(m)'
        <5>1. d # 0 /\ n # 0 /\ history'[n].outcome = "conforme"
          BY <1>0, <1>1, <3>5, <4>1 DEF Accepted
        <5>2. \A p \in PiecesOf(d) : p < n
          BY <1>0, <1>3
        <5>3. ASSUME NEW r \in InspectionsOf(d)', Opens(r)' PROVE ~IsOpen(r)'
          <6>1. r \in InspectionsOf(d)
            BY <1>1, <1>2, <3>5, <5>3 DEF Opens
          <6>2. r \in Reserves /\ ~IsOpen(r)
            BY <1>0, <1>2, <1>3, <4>1, <5>3, <6>1 DEF Accepted, Reserves, InspectionsOf
          <6> QED BY <2>3, <6>2, ReserveAfter
        <5> QED BY <2>1, <3>1, <3>2, <5>1, <5>2, <5>3 DEF Accepted
      <4> QED BY <1>0, <2>2, <2>3, <3>5, <4>1
    <3> QED BY <3>3, <3>4, <3>5 DEF Outcomes
  <2>4. CASE row.kind = "piece" /\ row.of = d
    <3>1. InspectionsOf(d)' = InspectionsOf(d) /\ n \in PiecesOf(d)'
      BY <1>2, <2>4
    <3>2. ~Accepted(m)'
      BY <1>0, <1>4, <2>1, <3>1 DEF Accepted
    <3> QED BY <2>2, <2>4, <3>2
  <2>5. CASE ~(row.kind \in {"inspection", "piece"} /\ row.of = d)
    <3>1. InspectionsOf(d)' = InspectionsOf(d) /\ PiecesOf(d)' = PiecesOf(d)
      BY <1>2, <2>5
    <3>2. ~Voids(row, m)
      BY <2>2, <2>5
    <3>3. last # 0 => history'[last] = history[last]
      BY <1>0, <1>1, <1>3, <1>4
    <3>4. \A r \in InspectionsOf(d) : r \in Rows /\ (Opens(r)' <=> Opens(r)) /\ (Opens(r) => r \in Reserves)
      BY <1>0, <1>2, <1>3 DEF InspectionsOf, Reserves
    <3>5. ASSUME Accepted(m), ~(row.kind = "correction" /\ row.of \in InspectionsOf(d))
          PROVE  Accepted(m)'
      <4>1. \A r \in InspectionsOf(d) : Opens(r)' => ~IsOpen(r)'
        BY <1>0, <3>4, <3>5, ReserveAfter DEF Accepted
      <4> QED BY <1>0, <2>1, <3>1, <3>3, <3>5, <4>1 DEF Accepted
    <3>6. ASSUME Accepted(m)', ~(row.kind = "inspection" /\ row.reserve \in InspectionsOf(d))
          PROVE  Accepted(m)
      <4>1. \A r \in InspectionsOf(d) : Opens(r) => ~IsOpen(r)'
        BY <2>1, <3>1, <3>4, <3>6 DEF Accepted
      <4>2. \A r \in InspectionsOf(d) : Opens(r) => ~IsOpen(r)
        BY <3>4, <3>6, <4>1, ReserveAfter
      <4> QED BY <1>0, <2>1, <3>1, <3>3, <3>6, <4>2 DEF Accepted
    <3> QED BY <1>0, <3>2, <3>5, <3>6
  <2> QED BY <2>3, <2>4, <2>5
<1> QED BY <1>5, <1>6

\* A step that writes adds one row.
LEMMA StepAppends ==
  ASSUME Inv, Next, history' # history
  PROVE  \E row : Wired(row) /\ history' = Append(history, row)
<1>1. ASSUME NEW m \in Milestones, Declare(m) PROVE Wired(Declaration(m)) /\ history' = Append(history, Declaration(m))
  BY <1>1, WrittenRows DEF Declare, Record
<1>2. ASSUME NEW k \in Rows, AddPiece(k) PROVE Wired(Piece(k)) /\ history' = Append(history, Piece(k))
  BY <1>2, WrittenRows DEF AddPiece, Record
<1>3. ASSUME NEW k \in Rows, Correct(k) PROVE Wired(Correction(k)) /\ history' = Append(history, Correction(k))
  BY <1>3, WrittenRows DEF Correct, Record
<1>4. ASSUME NEW d \in Rows, NEW i \in Inspectors, Assign(d, i)
      PROVE  Wired(Mission(d, i)) /\ history' = Append(history, Mission(d, i))
  BY <1>4, WrittenRows DEF Assign, Record
<1>5. ASSUME NEW i \in Inspectors, NEW o \in Outcomes, NEW d \in Rows, NEW onPiece \in BOOLEAN,
             NEW r \in Rows \cup {0}, Inspect(i, d, onPiece, o, r)
      PROVE  /\ Wired(Inspection(d, onPiece, i, o, r))
             /\ history' = Append(history, Inspection(d, onPiece, i, o, r))
  BY <1>5, WrittenRows DEF Inspect, Record
<1>6. ASSUME NEW s \in sent, Write(s)
      PROVE  /\ Wired(Inspection(s.of, FALSE, s.by, s.outcome, s.reserve))
             /\ history' = Append(history, Inspection(s.of, FALSE, s.by, s.outcome, s.reserve))
  <2>1. s \in Submission /\ s.of \in Of("declaration") /\ s.reserve \in Reserves \cup {0}
    BY <1>6 DEF Inv, SentIsKnown, TypeOK
  <2> QED BY <1>6, <2>1, WrittenRows DEF Submission, Write
<1>7. CASE Builder
  BY <1>7, <1>1, <1>2, <1>3 DEF Builder
<1>8. CASE BackOffice
  BY <1>8, <1>4 DEF BackOffice
<1>9. ASSUME NEW i \in Inspectors, Control(i) PROVE \E row : Wired(row) /\ history' = Append(history, row)
  BY <1>9, <1>5 DEF Control, Refresh, Check
<1>10. CASE \E s \in sent : Write(s)
  BY <1>10, <1>6
<1> QED BY <1>7, <1>8, <1>9, <1>10 DEF Next

-----------------------------------------------------------------------------
\* Every reachable state is well typed (apps/evidence, apps/inspections).
THEOREM TypeCorrect == MCSpec => []TypeOK
<1>1. MCInit => IInv
  BY InitIsInv
<1>2. IInv /\ [MCNext]_<<vars, met>> => IInv'
  BY NextKeeps
<1>3. IInv => TypeOK
  BY DEF IInv, Inv
<1> QED BY <1>1, <1>2, <1>3, PTL DEF MCSpec

\* Whatever a device has cached and for how long, what is written refers to a
\* declaration, or to a reserve, that was there before (create_inspection).
THEOREM RowsReferBackCorrect == MCSpec => []RowsReferBack
<1>1. MCInit => IInv
  BY InitIsInv
<1>2. IInv /\ [MCNext]_<<vars, met>> => IInv'
  BY NextKeeps
<1>3. IInv => RowsReferBack
  BY DEF IInv, Inv
<1> QED BY <1>1, <1>2, <1>3, PTL DEF MCSpec

\* As long as nothing comes between its comparison and its rows, a submission
\* follows up a reserve that is open or is the first inspection of its
\* declaration: the last event of a reserve tells whether it is open, so a list
\* of missions of any age is good enough (create_inspection, ticket 010).
THEOREM SyncedIsExpectedCorrect == MCSpec => []SyncedIsExpectedInTurn
<1>1. MCInit => IInv
  BY InitIsInv
<1>2. IInv /\ [MCNext]_<<vars, met>> => IInv'
  BY NextKeeps
<1>3. IInv => SyncedIsExpectedInTurn
  BY DEF IInv
<1> QED BY <1>1, <1>2, <1>3, PTL DEF MCSpec

\* What gives and what takes the acceptance of a milestone, whatever the length
\* of its history, the number of its reserves and the order of the rows
\* (is_milestone_technically_accepted, T07).
THEOREM AcceptanceMovesCorrect == MCSpec => AcceptanceMoves
<1>1. MCInit => IInv
  BY InitIsInv
<1>2. IInv /\ [MCNext]_<<vars, met>> => IInv'
  BY NextKeeps
<1> DEFINE Moves ==
      history' # history =>
       LET row == history'[Len(history')] IN
       \A m \in Milestones :
         LET before == Accepted(m)
             after  == Accepted(m)' IN
         /\ Voids(row, m) => ~after
         /\ before /\ ~after =>
              \/ Voids(row, m)
              \/ row.kind = "correction" /\ row.of \in InspectionsOf(Declared(m))
         /\ ~before /\ after =>
              /\ row.kind = "inspection"
              /\ \/ row.outcome = "conforme" /\ row.of = Declared(m)
                 \/ row.reserve \in InspectionsOf(Declared(m))
<1>3. IInv /\ [MCNext]_<<vars, met>> => [Moves]_<<vars, met>>
  <2> SUFFICES ASSUME IInv, MCNext, history' # history PROVE Moves
    BY DEF vars
  <2>1. Inv /\ Next
    BY DEF IInv, MCNext
  <2>2. PICK row : Wired(row) /\ history' = Append(history, row)
    BY <2>1, StepAppends
  <2>3. history'[Len(history')] = row
    <3>1. history \in Seq(Row) /\ row \in Row
      BY <2>1, <2>2 DEF Inv, TypeOK, Wired
    <3> QED BY <2>2, <3>1
  <2> QED BY <2>1, <2>2, <2>3, AcceptedAfter
<1>4. IInv /\ [MCNext]_<<vars, met>> /\ IInv' => [Moves]_<<vars, met>>
  BY <1>3
<1> HIDE DEF Moves
<1>5. MCSpec => [][Moves]_<<vars, met>>
  BY <1>1, <1>2, <1>4, PTL DEF MCSpec
<1> QED BY <1>5 DEF Moves, AcceptanceMoves

\* The only open reserve of a lot is shown on its milestone and named by every
\* mission assigned since, among any number of reserves that the lot has known
\* (_find_open_reserve_for_lot, milestone_control_state).
THEOREM LoneReserveIsShownCorrect == MCSpec => []LoneReserveIsShown
<1>1. MCInit => IInv
  BY InitIsInv
<1>2. IInv /\ [MCNext]_<<vars, met>> => IInv'
  BY NextKeeps
<1>3. IInv => LoneReserveIsShown
  <2> SUFFICES ASSUME Inv, NEW r \in Reserves, OpenReserves = {r},
                      Declared(history[history[r].of].milestone) = history[r].of
               PROVE  /\ PiecesOf(history[r].of) # {} =>
                           ControlState(history[history[r].of].milestone) = "under_reserve"
                      /\ \A k \in Of("mission") : k > r => MissionRow(k).reserve = r
    BY DEF IInv, LoneReserveIsShown
  <2>1. r \in Of("inspection") /\ r \in 1..Len(history) /\ Len(history) \in Nat /\ Opens(r) /\ IsOpen(r)
    BY RowsAreNumbers DEF Inv, Reserves, Of, OpenReserves
  <2>2. LotReserve = r
    <3>1. OpenReserves \subseteq 1..Len(history) /\ OpenReserves # {}
      BY <2>1
    <3>2. Newest(OpenReserves) \in OpenReserves
      BY <2>1, <3>1, NewestIsLast
    <3> QED BY <3>2 DEF LotReserve
  <2>3. r \in InspectionsOf(history[r].of) /\ history[r].of \in Of("declaration")
    BY <2>1 DEF InspectionsOf, Inv, RowsReferBack, Of
  <2>4. history[r].of # 0
    BY <2>3, RowsAreNumbers DEF Of, Inv
  <2>5. ~Accepted(history[history[r].of].milestone)
    BY <2>1, <2>3 DEF Accepted
  <2>6. PiecesOf(history[r].of) # {} => ControlState(history[history[r].of].milestone) = "under_reserve"
    BY <2>2, <2>3, <2>4, <2>5 DEF ControlState
  <2>7. ASSUME NEW k \in Of("mission"), k > r PROVE MissionRow(k).reserve = r
    <3>1. LotReserve < k
      BY <2>1, <2>2, <2>7, RowsAreNumbers DEF Of, Inv
    <3> QED BY <2>2, <3>1 DEF MissionRow
  <2> QED BY <2>6, <2>7
<1> QED BY <1>1, <1>2, <1>3, PTL DEF MCSpec

-----------------------------------------------------------------------------
(* Sums over finite sets (SumFunction of the community modules).  The      *)
(* induction is stated with the set of the sets that are good, so that no  *)
(* lemma has an operator for a parameter.                                  *)

\* If a set is good as soon as its proper subsets are, every subset is.
LEMMA SubsetInduction ==
  ASSUME NEW S, IsFiniteSet(S), NEW Good,
         \A s \in SUBSET S : (\A t \in SUBSET s : t # s => t \in Good) => s \in Good
  PROVE  SUBSET S \subseteq Good
<1>1. IsWellFoundedOn(StrictSubsetOrdering(S), SUBSET S)
  BY FS_StrictSubsetOrderingWellFounded, FS_FiniteSubsetsOfFinite
<1>2. ASSUME NEW Bad, Bad = (SUBSET S) \ Good, Bad # {} PROVE FALSE
  <2>1. PICK s \in Bad : \A t \in Bad : <<t, s>> \notin StrictSubsetOrdering(S)
    BY <1>1, <1>2, WFMin
  <2> QED BY <1>2, <2>1 DEF StrictSubsetOrdering
<1>3. (SUBSET S) \ Good = {}
  BY <1>2
<1> QED BY <1>3

-----------------------------------------------------------------------------
(* The recursion behind a sum is well defined.                              *)

Pick(S) == CHOOSE x \in S : TRUE
Others(S) == S \ {Pick(S)}

\* g sums f over every subset of S, one element after the other.
Sums(f, S, g)  == g = [s \in SUBSET S |-> IF s = {} THEN 0 ELSE f[Pick(s)] + g[Others(s)]]
SumsOver(f, S) == CHOOSE g : Sums(f, S, g)

LEMMA SumUnfolds ==
  ASSUME NEW f, NEW S
  PROVE  SumFunctionOnSet(f, S) = SumsOver(f, S)[S]
BY DEF SumFunctionOnSet, FoldFunctionOnSet, MapThenFoldSet, Sums, Pick, SumsOver, Others

LEMMA PickIn ==
  ASSUME NEW S, S # {}
  PROVE  Pick(S) \in S /\ Others(S) \in SUBSET S /\ Others(S) # S
BY DEF Pick, Others

LEMMA SumsAgree ==
  ASSUME NEW f, NEW S, IsFiniteSet(S), NEW s \in SUBSET S, NEW g, Sums(f, S, g), NEW h, Sums(f, s, h)
  PROVE  g[s] = h[s]
<1> DEFINE Good == {u \in SUBSET s : g[u] = h[u]}
<1>1. ASSUME NEW u \in SUBSET s, \A v \in SUBSET u : v # u => v \in Good PROVE u \in Good
  <2>1. CASE u = {}
    BY <2>1 DEF Sums
  <2>2. CASE u # {}
    <3>1. Others(u) \in Good
      BY <1>1, <2>2, PickIn
    <3> QED BY <2>2, <3>1 DEF Sums
  <2> QED BY <2>1, <2>2
<1>2. SUBSET s \subseteq Good
  <2>1. IsFiniteSet(s)
    BY FS_Subset
  <2> HIDE DEF Good
  <2> QED BY <1>1, <2>1, SubsetInduction
<1> QED BY <1>2

LEMMA SumsExist ==
  ASSUME NEW f, NEW S, IsFiniteSet(S)
  PROVE  \A s \in SUBSET S : Sums(f, s, SumsOver(f, s))
<1> DEFINE Good == {s \in SUBSET S : Sums(f, s, SumsOver(f, s))}
<1>1. ASSUME NEW s \in SUBSET S, \A t \in SUBSET s : t # s => t \in Good PROVE s \in Good
  <2> DEFINE V(t) == SumsOver(f, t)[t]
             h == [t \in SUBSET s |-> IF t = {} THEN 0 ELSE f[Pick(t)] + V(Others(t))]
  <2>1. ASSUME NEW t \in SUBSET s, t # s PROVE V(t) = h[t]
    <3>1. CASE t = {}
      BY <1>1, <2>1, <3>1 DEF Sums
    <3>2. CASE t # {}
      <4>1. Others(t) \in SUBSET t /\ Others(t) \in SUBSET s /\ Others(t) # s
        BY <2>1, <3>2, PickIn
      <4>2. Sums(f, t, SumsOver(f, t)) /\ Sums(f, Others(t), SumsOver(f, Others(t)))
        BY <1>1, <2>1, <4>1
      <4>3. SumsOver(f, t)[Others(t)] = V(Others(t))
        BY <4>1, <4>2, SumsAgree, FS_Subset
      <4>4. SumsOver(f, t)[t] = f[Pick(t)] + SumsOver(f, t)[Others(t)]
        BY <3>2, <4>2 DEF Sums
      <4> QED BY <3>2, <4>3, <4>4
    <3> QED BY <3>1, <3>2
  <2>2. ASSUME NEW t \in SUBSET s, t # {} PROVE h[Others(t)] = V(Others(t))
    <3>1. Others(t) \in SUBSET s /\ Others(t) # s
      BY <2>2, PickIn
    <3> QED BY <2>1, <3>1
  <2> HIDE DEF V
  <2>3. Sums(f, s, h)
    BY <2>2 DEF Sums
  <2> QED BY <2>3 DEF SumsOver
<1>2. SUBSET S \subseteq Good
  <2> HIDE DEF Good
  <2> QED BY <1>1, SubsetInduction
<1> QED BY <1>2

LEMMA SumStep ==
  ASSUME NEW f, NEW S, IsFiniteSet(S)
  PROVE  SumFunctionOnSet(f, S) = IF S = {} THEN 0 ELSE f[Pick(S)] + SumFunctionOnSet(f, Others(S))
<1>1. Sums(f, S, SumsOver(f, S))
  BY SumsExist
<1>2. CASE S = {}
  BY <1>1, <1>2, SumUnfolds DEF Sums
<1>3. CASE S # {}
  <2>1. Others(S) \in SUBSET S
    BY <1>3, PickIn
  <2>2. SumsOver(f, S)[Others(S)] = SumsOver(f, Others(S))[Others(S)]
    BY <1>1, <2>1, SumsExist, SumsAgree
  <2>3. SumsOver(f, S)[S] = f[Pick(S)] + SumsOver(f, S)[Others(S)]
    BY <1>1, <1>3 DEF Sums
  <2> QED BY <1>3, <2>2, <2>3, SumUnfolds
<1> QED BY <1>2, <1>3

-----------------------------------------------------------------------------
(* HOME and BUILD.                                                         *)

\* Each milestone of B counts for 20 at least.
LEMMA SharesAddUp ==
  ASSUME NEW S, IsFiniteSet(S), NEW B, NEW f, \A x \in S : f[x] \in Nat /\ (x \in B => 20 <= f[x])
  PROVE  SumFunctionOnSet(f, S) \in Nat /\ Cardinality(S \cap B) * 20 <= SumFunctionOnSet(f, S)
<1> DEFINE F(s) == SumFunctionOnSet(f, s)
           N(s) == Cardinality(s \cap B)
           Good == {s \in SUBSET S : F(s) \in Nat /\ N(s) \in Nat /\ N(s) * 20 <= F(s)}
<1>1. ASSUME NEW s \in SUBSET S, \A t \in SUBSET s : t # s => t \in Good PROVE s \in Good
  <2>1. CASE s = {}
    <3>1. F({}) = 0
      BY SumStep, FS_EmptySet
    <3>2. s \cap B = {} /\ Cardinality({}) = 0
      BY <2>1, FS_EmptySet
    <3> QED BY <2>1, <3>1, <3>2
  <2>2. CASE s # {}
    <3>1. PICK x \in s : x = Pick(s) /\ Others(s) = s \ {x}
      BY <2>2, PickIn DEF Others
    <3>2. F(s) = f[x] + F(s \ {x})
      <4>1. IsFiniteSet(s)
        BY FS_Subset
      <4>2. F(s) = f[Pick(s)] + F(Others(s))
        BY <2>2, <4>1, SumStep
      <4> QED BY <3>1, <4>2
    <3>3. s \ {x} \in Good
      BY <1>1, <3>1
    <3>4. IsFiniteSet((s \ {x}) \cap B)
      BY FS_Subset
    <3>5. CASE x \in B
      <4>1. s \cap B = ((s \ {x}) \cap B) \cup {x}
        BY <3>1, <3>5
      <4>2. x \notin (s \ {x}) \cap B
        OBVIOUS
      <4>3. N(s) = N(s \ {x}) + 1
        BY <3>4, <4>1, <4>2, FS_AddElement
      <4> QED BY <3>1, <3>2, <3>3, <3>5, <4>3
    <3>6. CASE x \notin B
      <4>1. s \cap B = (s \ {x}) \cap B
        BY <3>6
      <4>2. N(s) = N(s \ {x})
        BY <4>1
      <4>3. f[x] \in Nat /\ F(s \ {x}) \in Nat /\ N(s \ {x}) \in Nat /\ N(s \ {x}) * 20 <= F(s \ {x})
        BY <3>1, <3>3
      <4> HIDE DEF F, N
      <4>4. F(s) \in Nat /\ N(s) \in Nat /\ N(s) * 20 <= F(s)
        BY <3>2, <4>2, <4>3
      <4> QED BY <4>4
    <3> QED BY <3>5, <3>6
  <2> QED BY <2>1, <2>2
<1>2. SUBSET S \subseteq Good
  <2> HIDE DEF Good
  <2> QED BY <1>1, SubsetInduction
<1> QED BY <1>2

\* Rounding keeps the order.
LEMMA RoundedGrows ==
  ASSUME NEW x \in Nat, NEW y \in Nat, NEW n \in Nat, x <= y
  PROVE  Rounded(x, n) <= Rounded(y, n)
<1>1. CASE n = 0
  BY <1>1 DEF Rounded
<1>2. CASE n # 0
  <2>1. PICK q \in Nat : q = x \div n
    BY <1>2
  <2>2. PICK p \in Nat : p = y \div n
    BY <1>2
  <2>3. n * q <= x /\ x < n * q + n /\ n * p <= y /\ y < n * p + n
    BY <1>2, <2>1, <2>2
  <2>4. n * q \in Nat /\ n * p \in Nat
    OBVIOUS
  <2>5. PICK up \in {0, 1} : Rounded(x, n) = q + up /\ (up = 1 => LET r == 2 * (x - n * q) IN r > n \/ (r = n /\ q % 2 = 1))
    <3>1. PICK up \in {0, 1} : up = IF LET r == 2 * (x - n * q) IN r > n \/ (r = n /\ q % 2 = 1) THEN 1 ELSE 0
      OBVIOUS
    <3> QED BY <1>2, <2>1, <3>1 DEF Rounded
  <2>6. PICK more \in {0, 1} : Rounded(y, n) = p + more /\ (more = 0 => ~LET r == 2 * (y - n * p) IN r > n \/ (r = n /\ p % 2 = 1))
    <3>1. PICK more \in {0, 1} : more = IF LET r == 2 * (y - n * p) IN r > n \/ (r = n /\ p % 2 = 1) THEN 1 ELSE 0
      OBVIOUS
    <3> QED BY <1>2, <2>2, <3>1 DEF Rounded
  <2>7. CASE p = q
    <3>1. 2 * (x - n * q) <= 2 * (y - n * p) /\ 2 * (x - n * q) \in Int /\ 2 * (y - n * p) \in Int
      BY <2>4, <2>7
    <3>2. up = 1 => more = 1
      BY <2>5, <2>6, <2>7, <3>1
    <3> QED BY <2>5, <2>6, <2>7, <3>2
  <2>8. CASE p # q
    <3>1. q < p
      <4>1. CASE p < q
        <5>1. p + 1 <= q
          BY <4>1
        <5>2. n * (p + 1) <= n * q
          BY <5>1
        <5>3. n * (p + 1) = n * p + n
          OBVIOUS
        <5> QED BY <2>3, <2>4, <5>2, <5>3
      <4> QED BY <2>8, <4>1
    <3> QED BY <2>5, <2>6, <3>1
  <2> QED BY <2>7, <2>8
<1> QED BY <1>1, <1>2

LEMMA EventsAreRows ==
  ASSUME Inv, NEW m
  PROVE  /\ Len(history) \in Nat /\ EventsOf(m) \subseteq 1..Len(history)
         /\ DeclarationsOf(m) \subseteq EventsOf(m)
         /\ \A k \in EventsOf(m) : history[k].kind \in {"declaration", "piece", "inspection"}
         /\ \A d \in DeclarationsOf(m) : PiecesOf(d) \cup InspectionsOf(d) \subseteq EventsOf(m)
BY RowsAreNumbers DEF Inv, EventsOf, DeclarationsOf, PiecesOf, InspectionsOf, Of

\* What HOME counts for a milestone.
LEMMA HomeShareCounts ==
  ASSUME Inv, NEW m
  PROVE  HomeShare(m) \in Nat /\ (DeclarationsOf(m) # {} => 20 <= HomeShare(m))
<1>1. CASE HomeEvent(m) = 0
  <2>1. EventsOf(m) = {}
    BY <1>1, EventsAreRows, NewestIsRowOrNone DEF HomeEvent
  <2> QED BY <1>1, <2>1, EventsAreRows DEF HomeShare
<1>2. CASE HomeEvent(m) # 0
  <2>1. HomeEvent(m) \in EventsOf(m)
    BY <1>2, EventsAreRows, NewestIsRowOrNone DEF HomeEvent
  <2>2. Level(HomeEvent(m)) \in {"declare", "documente", "verifie", "controle"}
    BY DEF Level
  <2> QED BY <1>2, <2>2 DEF HomeShare, Fraction
<1> QED BY <1>1, <1>2

LEMMA BuildBehindHome ==
  ASSUME Inv
  PROVE  BuildProgress <= HomeProgress
<1> DEFINE f == [m \in Milestones |-> HomeShare(m)]
<1>1. \A m \in Milestones : f[m] \in Nat /\ (m \in BuildDeclared => 20 <= f[m])
  BY HomeShareCounts DEF BuildDeclared
<1>2. IsFiniteSet(Milestones) /\ Milestones \cap BuildDeclared = BuildDeclared
  BY LotIsFinite DEF BuildDeclared
<1>3. Cardinality(BuildDeclared) \in Nat /\ Cardinality(Milestones) \in Nat
  BY <1>2, FS_Subset, FS_CardinalityType
<1>4. SumFunction(f) = SumFunctionOnSet(f, Milestones)
  BY DEF SumFunction
<1> HIDE DEF f
<1>5. SumFunction(f) \in Nat /\ Cardinality(BuildDeclared) * 20 <= SumFunction(f)
  BY <1>1, <1>2, <1>4, SharesAddUp
<1>6. Rounded(Cardinality(BuildDeclared) * 20, Cardinality(Milestones)) <= Rounded(SumFunction(f), Cardinality(Milestones))
  BY <1>3, <1>5, RoundedGrows
<1> QED BY <1>6 DEF BuildProgress, HomeProgress, Fraction, f

\* The status of a milestone in HOME and its acceptance.
LEMMA HomeShowsAcceptance ==
  ASSUME Inv, NEW m, NEW d, d = Declared(m), HomeEvent(m) \in {d} \cup PiecesOf(d) \cup InspectionsOf(d)
  PROVE  Accepted(m) <=> HomeShare(m) = Fraction["verifie"] /\ OpenReserves \cap InspectionsOf(d) = {}
<1>1. /\ Len(history) \in Nat /\ DeclarationsOf(m) \subseteq 1..Len(history)
      /\ d = Newest(DeclarationsOf(m))
  BY EventsAreRows DEF Declared, DeclarationsOf
<1>2. CASE d = 0
  <2>1. DeclarationsOf(m) = {}
    BY <1>1, <1>2, NewestIsRowOrNone
  <2>2. HomeEvent(m) = 0
    BY <2>1 DEF HomeEvent, EventsOf, Newest
  <2> QED BY <1>2, <2>2 DEF Accepted, HomeShare, Fraction
<1>3. CASE d # 0
  <2>1. d \in DeclarationsOf(m) /\ d \in Of("declaration")
    BY <1>1, <1>3, NewestIsRowOrNone DEF DeclarationsOf
  <2> DEFINE I == InspectionsOf(d)
             P == PiecesOf(d)
             h == HomeEvent(m)
             last == Newest(I)
  <2>2. /\ P \subseteq 1..Len(history) /\ I \subseteq 1..Len(history)
        /\ P \cup I \cup {d} \subseteq EventsOf(m)
    BY <2>1, EventsAreRows
  <2>3. h \in EventsOf(m) /\ \A k \in EventsOf(m) : k <= h
    BY <2>2, EventsAreRows, NewestIsLast DEF HomeEvent
  <2>4. h # 0 /\ h \in Nat /\ EventsOf(m) \subseteq Nat
    BY <2>3, EventsAreRows
  <2>5. /\ history[d].kind = "declaration" /\ \A k \in P : history[k].kind = "piece"
        /\ \A k \in I : history[k].kind = "inspection" /\ d < k
    BY <2>1 DEF PiecesOf, InspectionsOf, Of, Inv, RowsReferBack
  <2>6. HomeShare(m) = Fraction["verifie"] <=> h \in I /\ history[h].outcome = "conforme"
    <3>1. HomeShare(m) = Fraction[Level(h)]
      BY <2>4 DEF HomeShare
    <3>2. h \in {d} \cup P \cup I
      OBVIOUS
    <3>3. Level(h) = "verifie" <=> h \in I /\ history[h].outcome = "conforme"
      BY <2>5, <3>2 DEF Level
    <3>4. Level(h) \in {"declare", "documente", "verifie", "controle"}
      BY DEF Level
    <3>5. Fraction[Level(h)] = Fraction["verifie"] <=> Level(h) = "verifie"
      BY <3>4 DEF Fraction
    <3> QED BY <3>1, <3>3, <3>5
  <2>7. OpenReserves \cap I = {} <=> \A r \in I : Opens(r) => ~IsOpen(r)
    BY DEF OpenReserves, Reserves, InspectionsOf
  <2>8. I # {} => last \in I /\ \A k \in I : k <= last
    BY <1>1, <2>2, NewestIsLast
  <2>9. I = {} => last = 0
    BY DEF Newest
  <2>10. Accepted(m) <=> /\ last # 0 /\ history[last].outcome = "conforme"
                         /\ \A r \in I : Opens(r) => ~IsOpen(r)
                         /\ \A p \in P : p < last
    BY <1>3 DEF Accepted
  <2> HIDE DEF I, P, h, last
  <2>11. ASSUME Accepted(m) PROVE h \in I /\ history[h].outcome = "conforme"
    <3>1. last \in I /\ last \in Nat /\ d < last /\ last <= h
      BY <2>2, <2>3, <2>4, <2>5, <2>8, <2>9, <2>10, <2>11
    <3>2. h \notin P /\ h # d
      <4>1. \A p \in P : p < last /\ p \in Nat
        BY <2>2, <2>10, <2>11
      <4>2. d \in Nat
        BY <2>2, <2>4
      <4> QED BY <2>4, <3>1, <4>1, <4>2
    <3>3. h \in I
      BY <3>2 DEF I, P, h
    <3>4. h <= last
      BY <2>8, <3>3
    <3>5. h = last
      BY <2>4, <3>1, <3>4
    <3> QED BY <2>10, <2>11, <3>3, <3>5
  <2>12. ASSUME h \in I, history[h].outcome = "conforme", \A r \in I : Opens(r) => ~IsOpen(r)
         PROVE  Accepted(m)
    <3>1. last \in I /\ h <= last /\ last <= h /\ last \in Nat
      BY <2>2, <2>3, <2>4, <2>8, <2>12
    <3>2. last = h
      BY <2>4, <3>1
    <3>3. ASSUME NEW p \in P PROVE p < last
      <4>1. p \in Nat /\ p <= h /\ p # h
        BY <2>2, <2>3, <2>4, <2>5, <2>12
      <4> QED BY <2>4, <3>2, <4>1
    <3> QED BY <2>4, <2>10, <2>12, <3>2, <3>3
  <2> QED BY <2>6, <2>7, <2>10, <2>11, <2>12 DEF I
<1> QED BY <1>2, <1>3

\* The read models that each compute the status of a lot on their own agree, for
\* every lot and whatever rows come in whatever order: progress, open reserves,
\* accepted milestones, exceptions, documents and scheduled controls
\* (compute_lot_progress, build_lot_rows, get_exceptions, lot_milestone_rows,
\* build_lot_evidence_feed, list_missions_for_inspector).
THEOREM ReadersAgreeCorrect == MCSpec => []ReadersAgree
<1>1. MCInit => IInv
  BY InitIsInv
<1>2. IInv /\ [MCNext]_<<vars, met>> => IInv'
  BY NextKeeps
<1>3. IInv => ReadersAgree
  <2> SUFFICES ASSUME Inv PROVE ReadersAgree
    BY DEF IInv
  <2>1. LotRow.progress <= Overview.progress
    BY BuildBehindHome DEF LotRow, Overview
  <2>2. LotRow.reserves > 0 <=> Overview.reserve # 0
    <3>1. Len(history) \in Nat /\ OpenReserves \subseteq 1..Len(history)
      BY RowsAreNumbers DEF Inv, OpenReserves, Reserves, Of
    <3>2. IsFiniteSet(OpenReserves)
      <4>1. IsFiniteSet(1..Len(history))
        BY <3>1, FS_Interval
      <4> QED BY <3>1, <4>1, FS_Subset
    <3>3. LotReserve # 0 <=> OpenReserves # {}
      BY <3>1, NewestIsRowOrNone DEF LotReserve, Newest
    <3>4. Cardinality(OpenReserves) \in Nat /\ (Cardinality(OpenReserves) = 0 <=> OpenReserves = {})
      BY <3>2, FS_CardinalityType, FS_EmptySet
    <3>5. LotRow.reserves = Cardinality(OpenReserves) /\ Overview.reserve = LotReserve
      BY DEF LotRow, Overview
    <3> QED BY <3>3, <3>4, <3>5
  <2>3. ASSUME NEW m \in Milestones, ControlState(m) = "accepted"
        PROVE  LET d == Declared(m) IN
               /\ d \notin Exceptions.to_plan \cup Exceptions.no_piece
               /\ Exceptions.reserves \cap InspectionsOf(d) = {}
               /\ \E f \in Feed : f.milestone = m
    <3> DEFINE d == Declared(m)
    <3>1. d # 0 /\ PiecesOf(d) # {} /\ Accepted(m)
      BY <2>3 DEF ControlState
    <3>2. InspectionsOf(d) # {}
      BY <3>1 DEF Accepted, Newest
    <3>3. d \notin Exceptions.to_plan \cup Exceptions.no_piece
      BY <3>1, <3>2 DEF Exceptions
    <3>4. Exceptions.reserves \cap InspectionsOf(d) = {}
      BY <3>1 DEF Exceptions, OpenReserves, Reserves, Accepted
    <3>5. \E f \in Feed : f.milestone = m
      <4>1. PICK k \in Of("piece") : history[k].of = d
        BY <3>1 DEF PiecesOf
      <4>2. history[d].milestone = m
        <5>1. Len(history) \in Nat /\ DeclarationsOf(m) \subseteq 1..Len(history)
          BY EventsAreRows
        <5>2. d \in DeclarationsOf(m)
          BY <3>1, <5>1, NewestIsRowOrNone DEF Declared, DeclarationsOf
        <5> QED BY <5>2 DEF DeclarationsOf
      <4>3. [piece |-> k, milestone |-> history[history[k].of].milestone] \in Feed
        BY DEF Feed
      <4> QED BY <4>1, <4>2, <4>3
    <3> QED BY <3>3, <3>4, <3>5
  <2>4. ASSUME NEW m \in Milestones, Declared(m) # 0, PendingMission(Declared(m)) # 0
        PROVE  ~Completed(PendingMission(Declared(m)))
    <3> DEFINE waiting == {k \in Of("mission") : history[k].of = Declared(m)
                             /\ ~\E j \in InspectionsOf(Declared(m)) : history[j].by = history[k].to /\ j > k}
    <3>1. Len(history) \in Nat /\ waiting \subseteq 1..Len(history)
      BY RowsAreNumbers DEF Inv, Of
    <3>2. Newest(waiting) \in waiting
      BY <2>4, <3>1, NewestIsRowOrNone DEF PendingMission
    <3>3. PendingMission(Declared(m)) = Newest(waiting)
      BY DEF PendingMission
    <3> HIDE DEF waiting
    <3>4. PICK k \in waiting : k = PendingMission(Declared(m))
      BY <3>2, <3>3
    <3> QED BY <3>4 DEF waiting, Completed, Direct
  <2>5. ASSUME NEW m \in Milestones
        PROVE  /\ MilestoneRows[m].status = ControlState(m)
               /\ MilestoneRows[m].scheduled = (Declared(m) # 0 /\ PendingMission(Declared(m)) # 0)
    BY DEF MilestoneRows
  <2> QED BY <2>1, <2>2, <2>3, <2>4, <2>5, HomeShowsAcceptance DEF ReadersAgree
<1> QED BY <1>1, <1>2, <1>3, PTL DEF MCSpec
=============================================================================
