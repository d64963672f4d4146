------------------------------ MODULE Contract ------------------------------
(***************************************************************************)
(* The versions of the contract of one reservation (B-049,                 *)
(* backend/apps/sales/services.py and the trigger of migration 0004).      *)
(*                                                                         *)
(* No handler locks a contract row: it decides on the row it has read and  *)
(* writes later.  The database has the last word: an UPDATE applies to the *)
(* row as it has become, under the trigger and the unique indexes.         *)
(***************************************************************************)
EXTENDS Naturals

CONSTANTS
  Workers,     \* the server processes
  MaxVersion,  \* bounds the versions of the contract
  Contents,    \* the texts the manager may type
  None

Versions == 1 .. MaxVersion

ASSUME MaxVersionInNat == MaxVersion \in Nat
ASSUME NoneIsNothing == None \notin Contents

VARIABLES
  status,   \* ContractVersion.status, "none" before the row exists
  content,  \* ContractVersion.content
  file,     \* Reservation.status
  paid,     \* fees and first instalment are covered by reconciled receipts
  task      \* what each worker is doing, and what it has read

rows == <<status, content, file, paid>>
vars == <<rows, task>>

InProgress == {"draft", "review"}
Statuses   == InProgress \cup {"none", "approved", "signed"}
Files      == {"held", "reserved", "committed", "closed"}
Contractable == file \in {"held", "reserved", "committed"}
Actions    == {"submit", "back_to_draft", "approve"}
Ops        == {"idle", "create", "edit", "sign"} \cup Actions
Tasks      == [op : Ops, version : Versions \cup {0}, text : Contents \cup {None}]
Task(o, v, t) == [op |-> o, version |-> v, text |-> t]
Resting    == Task("idle", 0, None)

TypeOK ==
  /\ status  \in [Versions -> Statuses]
  /\ content \in [Versions -> Contents \cup {None}]
  /\ file    \in Files
  /\ paid    \in BOOLEAN
  /\ task    \in [Workers -> Tasks]

Init ==
  /\ status  = [v \in Versions |-> "none"]
  /\ content = [v \in Versions |-> None]
  /\ file    = "held"
  /\ paid    = FALSE
  /\ task    = [w \in Workers |-> Resting]

-----------------------------------------------------------------------------
Idle(w)      == task[w].op = "idle"
Doing(w, o)  == task[w].op = o
Become(w, t) == task' = [task EXCEPT ![w] = t]
Rest(w)      == Become(w, Resting)

IsLatest(v) == status[v] # "none" /\ \A u \in Versions : u > v => status[u] = "none"
IsNext(v)   == status[v] = "none" /\ \A u \in Versions : u < v => status[u] # "none"

\* The trigger sales_contract_version_guard, on an UPDATE that sets text t.
\* Faulty: any version that is not signed may be rewritten.
WritableUntilSigned(v, t) == status[v] # "signed"
\* Faulty: a signed version may be written.
WritableOnceSigned(v, t) == status[v] # "draft" => t = content[v]
Writable(v, t) == status[v] # "signed" /\ (status[v] # "draft" => t = content[v])

\* The index sales_contract_one_version_in_progress, v set aside.
\* Faulty: the index is not there.
NothingElseInProgress(v) == status[v] = status[v]
AloneInProgress(v) == \A u \in Versions \ {v} : status[u] \notin InProgress

\* evaluate_reservation_transitions, when version v is signed or not.
Evaluated(reserved, covered, signed) ==
  IF reserved = "reserved" /\ covered /\ signed THEN "committed" ELSE reserved
LatestSigned == \E v \in Versions : IsLatest(v) /\ status[v] = "signed"

-----------------------------------------------------------------------------
(* create_contract_version                                                  *)

CreateRead(w, v, t) ==
  /\ Idle(w) /\ Contractable
  /\ \A u \in Versions : status[u] \notin InProgress
  /\ IsNext(v)
  /\ Become(w, Task("create", v, t))
  /\ UNCHANGED rows

\* An index refuses the insertion: caught in a savepoint, a 409 response.
CreateRefuse(w) ==
  /\ Doing(w, "create")
  /\ status[task[w].version] # "none" \/ ~AloneInProgress(task[w].version)
  /\ Rest(w)
  /\ UNCHANGED rows

CreateWrite(w) ==
  /\ Doing(w, "create")
  /\ LET v == task[w].version IN
     /\ status[v] = "none" /\ AloneInProgress(v)
     /\ status'  = [status EXCEPT ![v] = "draft"]
     /\ content' = [content EXCEPT ![v] = task[w].text]
  /\ Rest(w)
  /\ UNCHANGED <<file, paid>>

-----------------------------------------------------------------------------
(* update_contract_content                                                  *)

EditRead(w, v, t) ==
  /\ Idle(w) /\ Contractable
  /\ status[v] = "draft"
  /\ Become(w, Task("edit", v, t))
  /\ UNCHANGED rows

\* The UPDATE sets the text, and leaves the status as it has become.
EditWrite(w) ==
  /\ Doing(w, "edit")
  /\ LET v == task[w].version IN
     content' = IF Writable(v, task[w].text) THEN [content EXCEPT ![v] = task[w].text] ELSE content
  /\ Rest(w)
  /\ UNCHANGED <<status, file, paid>>

-----------------------------------------------------------------------------
(* transition_contract                                                      *)

Required(v, a) == status[v] = IF a = "submit" THEN "draft" ELSE "review"
Target(a) == IF a = "submit" THEN "review" ELSE IF a = "approve" THEN "approved" ELSE "draft"

TransitionRead(w, v, a) ==
  /\ Idle(w) /\ Contractable
  /\ Required(v, a)
  /\ Become(w, Task(a, v, None))
  /\ UNCHANGED rows

\* The UPDATE sets the status, whatever the row has become; the trigger and
\* the index may refuse it.
TransitionWrite(w) ==
  /\ task[w].op \in Actions
  /\ LET v == task[w].version IN
     status' = IF Writable(v, content[v])
                  /\ (Target(task[w].op) \in InProgress => AloneInProgress(v))
               THEN [status EXCEPT ![v] = Target(task[w].op)] ELSE status
  /\ Rest(w)
  /\ UNCHANGED <<content, file, paid>>

-----------------------------------------------------------------------------
(* sign_contract_as_client                                                  *)

\* Faulty: an older version may be signed.
SignReadAnyVersion(w, v) ==
  /\ Idle(w) /\ Contractable
  /\ status[v] = "approved"
  /\ Become(w, Task("sign", v, None))
  /\ UNCHANGED rows

SignRead(w, v) ==
  /\ Idle(w) /\ Contractable
  /\ status[v] = "approved" /\ IsLatest(v)
  /\ Become(w, Task("sign", v, None))
  /\ UNCHANGED rows

SignRefuse(w) ==
  /\ Doing(w, "sign") /\ ~Writable(task[w].version, content[task[w].version])
  /\ Rest(w)
  /\ UNCHANGED rows

\* Faulty: the transitions of the reservation are not evaluated.
SignOnly(w) ==
  /\ Doing(w, "sign")
  /\ LET v == task[w].version IN
     /\ Writable(v, content[v])
     /\ status' = [status EXCEPT ![v] = "signed"]
  /\ Rest(w)
  /\ UNCHANGED <<content, file, paid>>

\* The signature, then the evaluation under the reservation lock.
SignWrite(w) ==
  /\ Doing(w, "sign")
  /\ LET v == task[w].version IN
     /\ Writable(v, content[v])
     /\ status' = [status EXCEPT ![v] = "signed"]
     /\ file' = Evaluated(file, paid, IsLatest(v))
  /\ Rest(w)
  /\ UNCHANGED <<content, paid>>

-----------------------------------------------------------------------------
(* The reservation and its payments (modules Reservation, PaymentFile).     *)

\* The fees are covered, or the reservation is cancelled or expires.
FileMoves(w, f) ==
  /\ Idle(w) /\ file = "held" /\ f \in {"reserved", "closed"}
  /\ file' = f
  /\ UNCHANGED <<status, content, paid, task>>

\* The first instalment is covered: evaluated under the reservation lock.
FirstInstalmentPaid(w) ==
  /\ Idle(w) /\ file = "reserved" /\ ~paid
  /\ paid' = TRUE
  /\ file' = Evaluated(file, TRUE, LatestSigned)
  /\ UNCHANGED <<status, content, task>>

-----------------------------------------------------------------------------
ReadStep(w) ==
  \/ \E v \in Versions, t \in Contents : CreateRead(w, v, t) \/ EditRead(w, v, t)
  \/ \E v \in Versions, a \in Actions : TransitionRead(w, v, a)
  \/ \E v \in Versions : SignRead(w, v)
WriteStep(w) ==
  \/ CreateRefuse(w) \/ CreateWrite(w) \/ EditWrite(w)
  \/ TransitionWrite(w) \/ SignRefuse(w) \/ SignWrite(w)
FileStep(w) ==
  \/ \E f \in {"reserved", "closed"} : FileMoves(w, f)
  \/ FirstInstalmentPaid(w)

Next == \E w \in Workers : ReadStep(w) \/ WriteStep(w) \/ FileStep(w)

Spec == Init /\ [][Next]_vars

-----------------------------------------------------------------------------
(* What holds however the workers interleave.                              *)

\* T04: a signed version never changes, whoever still holds an older reading
\* of it (sales_contract_version_guard).
SignedIsImmutable ==
  [][\A v \in Versions : status[v] = "signed" =>
       status'[v] = "signed" /\ content'[v] = content[v]]_vars

\* A text changes in a draft only (B-049), although the handler tested the
\* status of a row it did not lock.
TextChangesInDraft ==
  [][\A v \in Versions : content'[v] # content[v] => status[v] \in {"none", "draft"}]_vars

\* At most one version is being written or reviewed, in spite of transitions
\* that return a version to draft while another one is created.
OneInProgress ==
  \A u, v \in Versions : status[u] \in InProgress /\ status[v] \in InProgress => u = v

\* Whichever comes last of the signature and the first instalment commits the
\* reservation: none of the two transactions misses the other.
SignedAndPaidIsCommitted == LatestSigned /\ paid => file = "committed"

-----------------------------------------------------------------------------
\* An approved version never changes any more: it can only be signed; any
\* correction is another version (B-049).
ApprovedKept ==
  \A v \in Versions : status[v] = "approved" =>
    status'[v] \in {"approved", "signed"} /\ content'[v] = content[v]

\* Only the latest version is ever signed (sign_contract_as_client).
LatestIsSigned ==
  \A v \in Versions : status[v] # "signed" /\ status'[v] = "signed" => IsLatest(v)
=============================================================================
