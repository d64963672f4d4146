------------------------------ MODULE Account ------------------------------
(***************************************************************************)
(* What the account of a programme promises (CDC 8.2, account_balance in   *)
(* backend/apps/sales/services.py): money is reserved out of the available *)
(* balance, spent only out of what was reserved, and never lost.           *)
(***************************************************************************)
EXTENDS Naturals

VARIABLES
  free,      \* the available balance
  reserved,  \* the eligible requests
  spent      \* the executed disbursements

vars == <<free, reserved, spent>>

Init == free = 0 /\ reserved = 0 /\ spent = 0

Receive ==
  /\ free' > free
  /\ UNCHANGED <<reserved, spent>>

Reserve ==
  /\ reserved' > reserved
  /\ free >= reserved' - reserved
  /\ free' = free - (reserved' - reserved)
  /\ UNCHANGED spent

Release ==
  /\ reserved' < reserved
  /\ free' = free + (reserved - reserved')
  /\ UNCHANGED spent

Spend ==
  /\ reserved' < reserved
  /\ spent' = spent + (reserved - reserved')
  /\ UNCHANGED free

Next == Receive \/ Reserve \/ Release \/ Spend

Spec == Init /\ [][Next]_vars
=============================================================================
