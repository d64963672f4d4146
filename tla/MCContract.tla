----------------------------- MODULE MCContract -----------------------------
(* Contract with few versions and texts, with the memory of whether a       *)
(* request was ever served during another one.                             *)
EXTENDS Contract, TLC

VARIABLE overlapped  \* some worker has stepped while another had begun

MCInit == Init /\ overlapped = FALSE
MCNext ==
  /\ Next
  /\ overlapped' = (overlapped \/ \E w \in Workers : ~Idle(w) /\ task'[w] = task[w])
MCSpec == MCInit /\ [][MCNext]_<<vars, overlapped>>

\* As long as requests are served one after the other, an approved version is
\* frozen (transition_contract, update_contract_content).
ApprovedIsFrozenInTurn == [][~overlapped' => ApprovedKept]_<<vars, overlapped>>

\* As long as requests are served one after the other, the client signs the
\* latest version (sign_contract_as_client).
LatestIsSignedInTurn == [][~overlapped' => LatestIsSigned]_<<vars, overlapped>>

Symmetry == Permutations(Workers) \cup Permutations(Contents)
=============================================================================
