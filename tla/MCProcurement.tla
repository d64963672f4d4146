--------------------------- MODULE MCProcurement ---------------------------
(* Procurement of one lot of three, with few bids and missions, and the     *)
(* memory of whether a request was ever served during another one.         *)
EXTENDS Procurement, TLC

CONSTANT Unmeasured

VARIABLE overlapped  \* some worker has stepped while another had begun

MCInit == Init /\ overlapped = FALSE
MCNext ==
  /\ Next
  /\ overlapped' = (overlapped \/ \E w \in Workers : ~Idle(w) /\ task'[w] = task[w])
MCSpec == MCInit /\ [][MCNext]_<<vars, overlapped>>

MCCosts == {[land |-> 101, study |-> 10, method |-> "surface"]}
MCGaps == {-1, 2}
\* The third lot was created without its surface.
MCSurface0 == [l \in Lots |-> IF l = Unmeasured THEN 0 ELSE 2]
MCSurfaces == [l \in Lots |-> IF l = Unmeasured THEN {1} ELSE {}]

\* As long as requests are served one after the other: one selected bid
\* (lock_devis), adjustments within the margin (create_ajustement), one global
\* charge (record_bc_charge_for_mission), and no charge that leaves a negative
\* margin unreported (_maybe_alert_negative_margin).
OneLockedInTurn == ~overlapped => OneLocked
MarginKeptInTurn == ~overlapped => MarginKept
GlobalChargedOnceInTurn == ~overlapped => GlobalChargedOnce
ChargeIsWeighedInTurn == [][~overlapped' => ChargeIsWeighed]_<<vars, overlapped>>

Symmetry == Permutations(Workers) \cup Permutations(Bids) \cup Permutations(Missions)
=============================================================================
