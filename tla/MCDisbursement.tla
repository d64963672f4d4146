--------------------------- MODULE MCDisbursement ---------------------------
(* Disbursement on small sets of workers, requests and milestones, with the *)
(* memory of whether a request was ever served during another one.         *)
EXTENDS Disbursement, TLC

VARIABLE overlapped  \* some worker has stepped while another had begun

MCInit == Init /\ overlapped = FALSE
MCNext ==
  /\ Next
  /\ overlapped' = (overlapped \/ \E w \in Workers : ~Idle(w) /\ task'[w] = task[w])
MCSpec == MCInit /\ [][MCNext]_<<vars, overlapped>>

\* As long as requests are served one after the other, the finance ones as
\* well as the field's, every payment is due when it is made
\* (execute_disbursement releases what has lapsed, then rechecks).
PaidWhenDueInTurn == [][~overlapped' => PaidWhenDue]_<<vars, overlapped>>

\* Rows, workers, milestones, companies and references are interchangeable.
Symmetry == Permutations(Workers) \cup Permutations(Requests) \cup Permutations(Milestones)
              \cup Permutations(Organizations) \cup Permutations(References)
=============================================================================
