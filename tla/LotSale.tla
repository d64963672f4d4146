------------------------------ MODULE LotSale ------------------------------
(***************************************************************************)
(* What the sale of a lot promises (CDC 6.1, docstrings of                 *)
(* backend/apps/sales/services.py): one holder at a time, a hold that may  *)
(* be released only while nothing has been received, and then a path that  *)
(* only goes forward until the lot is sold.                                *)
(***************************************************************************)
CONSTANTS Reservations, None

VARIABLES
  holder,  \* the reservation that blocks the lot, or None
  stage,   \* how far its file has gone
  past     \* the reservations that have been released

vars == <<holder, stage, past>>

Stages == {"free", "held", "engaged", "reserved", "sold"}
Ahead(s) == IF s = "held" THEN {"engaged", "reserved"}
            ELSE IF s = "engaged" THEN {"reserved"}
            ELSE IF s = "reserved" THEN {"sold"} ELSE {}

Init == holder = None /\ stage = "free" /\ past = {}

Hold(r) ==
  /\ stage = "free" /\ r \notin past
  /\ holder' = r /\ stage' = "held"
  /\ UNCHANGED past

Release ==
  /\ stage = "held"
  /\ past' = past \cup {holder}
  /\ holder' = None /\ stage' = "free"

Advance ==
  /\ stage' \in Ahead(stage)
  /\ UNCHANGED <<holder, past>>

Next == Release \/ Advance \/ \E r \in Reservations : Hold(r)

Spec == Init /\ [][Next]_vars
=============================================================================
