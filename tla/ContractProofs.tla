--------------------------- MODULE ContractProofs ---------------------------
(***************************************************************************)
(* Theorems about module Contract, for every set of workers and texts and  *)
(* every number of versions.  The last part is about requests that take    *)
(* turns: what they read of a row without a lock is still true when they   *)
(* write.                                                                  *)
(***************************************************************************)
EXTENDS MCContract, TLAPS

\* A worker that will write knows its version, and its text if it has one.
TaskDiscipline ==
  \A w \in Workers :
    /\ task[w].op # "idle" => task[w].version \in Versions
    /\ task[w].op \in {"create", "edit"} => task[w].text \in Contents

\* The version a worker has read exists.
KnownVersions ==
  \A w \in Workers : task[w].op \in {"edit", "sign"} \cup Actions => status[task[w].version] # "none"

\* Only a reserved file is paid for.
PaidIsReserved == paid => file \in {"reserved", "committed"}

IInv ==
  /\ TypeOK
  /\ TaskDiscipline
  /\ KnownVersions
  /\ OneInProgress
  /\ PaidIsReserved
  /\ SignedAndPaidIsCommitted

-----------------------------------------------------------------------------
(* Types.                                                                   *)

LEMMA TasksAreTasks ==
  ASSUME NEW o \in Ops, NEW v \in Versions \cup {0}, NEW t \in Contents \cup {None}
  PROVE  /\ Task(o, v, t) \in Tasks
         /\ Task(o, v, t).op = o /\ Task(o, v, t).version = v /\ Task(o, v, t).text = t
BY DEF Task, Tasks

LEMMA RestingIsIdle == Resting \in Tasks /\ Resting.op = "idle"
BY TasksAreTasks DEF Resting, Ops

\* What a first step reads: a version that exists, except to create it.
LEMMA ReadKnows ==
  ASSUME TypeOK, NEW w \in Workers, ReadStep(w)
  PROVE  \E o \in Ops \ {"idle"}, v \in Versions, t \in Contents \cup {None} :
           /\ rows' = rows /\ status' = status /\ task' = [task EXCEPT ![w] = Task(o, v, t)]
           /\ o = "create" \/ status[v] # "none"
           /\ o \in {"create", "edit"} => t \in Contents
<1> USE DEF Become, rows
<1>1. CASE \E v \in Versions, t \in Contents : CreateRead(w, v, t)
  BY <1>1 DEF CreateRead, Ops
<1>2. CASE \E v \in Versions, t \in Contents : EditRead(w, v, t)
  BY <1>2 DEF EditRead, Ops
<1>3. CASE \E v \in Versions, a \in Actions : TransitionRead(w, v, a)
  <2>1. PICK v \in Versions, a \in Actions :
          /\ rows' = rows /\ task' = [task EXCEPT ![w] = Task(a, v, None)]
          /\ status[v] # "none"
    BY <1>3 DEF TransitionRead, Required
  <2>2. a \in Ops \ {"idle"} /\ a \notin {"create", "edit"}
    BY DEF Ops, Actions
  <2> QED BY <2>1, <2>2
<1>4. CASE \E v \in Versions : SignRead(w, v)
  <2>1. PICK v \in Versions :
          /\ rows' = rows /\ status' = status /\ task' = [task EXCEPT ![w] = Task("sign", v, None)]
          /\ status[v] # "none"
    BY <1>4 DEF SignRead
  <2>2. "sign" \in Ops \ {"idle"} /\ "sign" \notin {"create", "edit"} /\ None \in Contents \cup {None}
    BY DEF Ops
  <2> QED BY <2>1, <2>2
<1> QED BY <1>1, <1>2, <1>3, <1>4 DEF ReadStep

LEMMA ReadTypes ==
  ASSUME TypeOK, TaskDiscipline, NEW w \in Workers, ReadStep(w)
  PROVE  rows' = rows /\ TypeOK' /\ TaskDiscipline'
<1>1. PICK o \in Ops \ {"idle"}, v \in Versions, t \in Contents \cup {None} :
        /\ rows' = rows /\ task' = [task EXCEPT ![w] = Task(o, v, t)]
        /\ o \in {"create", "edit"} => t \in Contents
  BY ReadKnows
<1>2. Task(o, v, t) \in Tasks /\ Task(o, v, t).op = o /\ Task(o, v, t).version = v /\ Task(o, v, t).text = t
  BY TasksAreTasks
<1>3. TypeOK'
  BY <1>1, <1>2 DEF TypeOK, rows
<1>4. TaskDiscipline'
  BY <1>1, <1>2 DEF TypeOK, TaskDiscipline
<1> QED BY <1>1, <1>3, <1>4

LEMMA RestTypes ==
  ASSUME TypeOK, TaskDiscipline, NEW w \in Workers, Rest(w)
  PROVE  task' \in [Workers -> Tasks] /\ TaskDiscipline'
BY RestingIsIdle DEF Rest, Become, TypeOK, TaskDiscipline

LEMMA WriteTypes ==
  ASSUME TypeOK, TaskDiscipline, NEW w \in Workers, WriteStep(w)
  PROVE  TypeOK' /\ TaskDiscipline'
<1>1. Rest(w)
  BY DEF WriteStep, CreateRefuse, CreateWrite, EditWrite, TransitionWrite, SignRefuse, SignWrite
<1>2. task' \in [Workers -> Tasks] /\ TaskDiscipline'
  BY <1>1, RestTypes
<1>3. status' \in [Versions -> Statuses] /\ content' \in [Versions -> Contents \cup {None}]
  <2> USE DEF TypeOK, TaskDiscipline, rows, Statuses, InProgress, Doing
  <2>1. CASE CreateRefuse(w) \/ SignRefuse(w)
    BY <2>1 DEF CreateRefuse, SignRefuse
  <2>2. CASE CreateWrite(w)
    BY <2>2 DEF CreateWrite
  <2>3. CASE EditWrite(w)
    BY <2>3 DEF EditWrite
  <2>4. CASE TransitionWrite(w)
    BY <2>4 DEF TransitionWrite, Target, Actions
  <2>5. CASE SignWrite(w)
    BY <2>5 DEF SignWrite
  <2> QED BY <2>1, <2>2, <2>3, <2>4, <2>5 DEF WriteStep
<1>4. file' \in Files /\ paid' = paid
  BY DEF TypeOK, rows, WriteStep, CreateRefuse, CreateWrite, EditWrite, TransitionWrite, SignRefuse,
         SignWrite, Evaluated, Files
<1> QED BY <1>2, <1>3, <1>4 DEF TypeOK

LEMMA FileTypes ==
  ASSUME TypeOK, TaskDiscipline, NEW w \in Workers, FileStep(w)
  PROVE  TypeOK' /\ TaskDiscipline'
BY DEF TypeOK, TaskDiscipline, FileStep, FileMoves, FirstInstalmentPaid, Evaluated, Files

LEMMA TypesKept == IInv /\ [Next]_vars => TypeOK' /\ TaskDiscipline'
<1> SUFFICES ASSUME IInv, [Next]_vars PROVE TypeOK' /\ TaskDiscipline'
  OBVIOUS
<1>1. CASE UNCHANGED vars
  BY <1>1 DEF IInv, TypeOK, TaskDiscipline, vars, rows
<1> QED BY <1>1, ReadTypes, WriteTypes, FileTypes DEF IInv, Next

-----------------------------------------------------------------------------
(* The rows.                                                                *)

\* How the row of one version moves.
LEMMA RowMoves ==
  ASSUME IInv, [Next]_vars, NEW v \in Versions
  PROVE  \/ status'[v] = status[v] /\ content'[v] = content[v]
         \/ \E w \in Workers : CreateWrite(w) /\ task[w].version = v
         \/ \E w \in Workers : EditWrite(w) /\ status[v] = "draft" /\ status'[v] = "draft"
         \/ \E w \in Workers : /\ TransitionWrite(w) /\ task[w].version = v
                               /\ status[v] # "signed" /\ content'[v] = content[v]
         \/ \E w \in Workers : /\ SignWrite(w) /\ task[w].version = v
                               /\ status[v] # "signed" /\ content'[v] = content[v]
<1> USE DEF IInv, TypeOK, TaskDiscipline, rows, Doing
<1>1. CASE UNCHANGED vars
  BY <1>1 DEF vars
<1>2. ASSUME NEW w \in Workers, ReadStep(w)
      PROVE  status'[v] = status[v] /\ content'[v] = content[v]
  BY <1>2, ReadTypes
<1>3. ASSUME NEW w \in Workers, FileStep(w)
      PROVE  status'[v] = status[v] /\ content'[v] = content[v]
  BY <1>3 DEF FileStep, FileMoves, FirstInstalmentPaid
<1>4. ASSUME NEW w \in Workers, CreateRefuse(w) \/ SignRefuse(w)
      PROVE  status'[v] = status[v] /\ content'[v] = content[v]
  BY <1>4 DEF CreateRefuse, SignRefuse
<1>5. ASSUME NEW w \in Workers, CreateWrite(w), task[w].version # v
      PROVE  status'[v] = status[v] /\ content'[v] = content[v]
  BY <1>5 DEF CreateWrite
<1>6. ASSUME NEW w \in Workers, EditWrite(w)
      PROVE  \/ status'[v] = status[v] /\ content'[v] = content[v]
             \/ status[v] = "draft" /\ status'[v] = "draft"
  BY <1>6 DEF EditWrite, Writable
<1>7. ASSUME NEW w \in Workers, TransitionWrite(w)
      PROVE  \/ status'[v] = status[v] /\ content'[v] = content[v]
             \/ task[w].version = v /\ status[v] # "signed" /\ content'[v] = content[v]
  BY <1>7 DEF TransitionWrite, Writable, Actions
<1>8. ASSUME NEW w \in Workers, SignWrite(w)
      PROVE  \/ status'[v] = status[v] /\ content'[v] = content[v]
             \/ task[w].version = v /\ status[v] # "signed" /\ content'[v] = content[v]
  BY <1>8 DEF SignWrite, Writable
<1> QED BY <1>1, <1>2, <1>3, <1>4, <1>5, <1>6, <1>7, <1>8 DEF Next, WriteStep

\* A version never disappears, so what a worker has read still exists.
LEMMA KnownVersionsKept == IInv /\ [Next]_vars => KnownVersions'
<1> SUFFICES ASSUME IInv, [Next]_vars, NEW x \in Workers,
                    task'[x].op \in {"edit", "sign"} \cup Actions
             PROVE  status'[task'[x].version] # "none"
  BY DEF KnownVersions
<1> USE DEF IInv, TypeOK
<1>1. \A v \in Versions : status[v] # "none" => status'[v] # "none"
  <2> SUFFICES ASSUME NEW v \in Versions, status[v] # "none" PROVE status'[v] # "none"
    OBVIOUS
  <2>1. ASSUME NEW w \in Workers, CreateWrite(w), task[w].version = v PROVE FALSE
    BY <2>1 DEF CreateWrite
  <2>2. ASSUME NEW w \in Workers, TransitionWrite(w), task[w].version = v
        PROVE  status'[v] # "none"
    BY <2>2 DEF TransitionWrite, Target
  <2>3. ASSUME NEW w \in Workers, SignWrite(w), task[w].version = v
        PROVE  status'[v] # "none"
    BY <2>3 DEF SignWrite
  <2> QED BY <2>1, <2>2, <2>3, RowMoves
<1>2. CASE task'[x] = task[x]
  <2>1. task[x].version \in Versions
    BY <1>2 DEF TaskDiscipline, Actions
  <2> QED BY <1>1, <1>2, <2>1 DEF KnownVersions
<1>3. CASE task'[x] # task[x]
  <2>1. PICK w \in Workers : ReadStep(w) \/ WriteStep(w) \/ FileStep(w)
    BY <1>3 DEF Next, vars
  <2>2. CASE WriteStep(w)
    <3>1. Rest(w)
      BY <2>2 DEF WriteStep, CreateRefuse, CreateWrite, EditWrite, TransitionWrite, SignRefuse, SignWrite
    <3>2. task'[x].op = "idle"
      BY <1>3, <3>1, RestingIsIdle DEF Rest, Become
    <3> QED BY <3>2 DEF Actions
  <2>3. CASE ReadStep(w)
    <3>1. PICK o \in Ops, v \in Versions, t \in Contents \cup {None} :
            /\ status' = status /\ task' = [task EXCEPT ![w] = Task(o, v, t)]
            /\ o = "create" \/ status[v] # "none"
      BY <2>3, ReadKnows
    <3>2. task'[x].op = o /\ task'[x].version = v
      BY <1>3, <3>1, TasksAreTasks
    <3> QED BY <3>1, <3>2 DEF Actions
  <2>4. CASE FileStep(w)
    BY <1>3, <2>4 DEF FileStep, FileMoves, FirstInstalmentPaid
  <2> QED BY <2>1, <2>2, <2>3, <2>4
<1> QED BY <1>2, <1>3

\* A version enters the work in progress only when no other one is there.
LEMMA OneInProgressKept == IInv /\ [Next]_vars => OneInProgress'
<1> SUFFICES ASSUME IInv, [Next]_vars PROVE OneInProgress'
  OBVIOUS
<1> USE DEF IInv, TypeOK, TaskDiscipline
<1>1. CASE \E w \in Workers : CreateWrite(w)
  <2> PICK w \in Workers : CreateWrite(w)
    BY <1>1
  <2>1. /\ task[w].version \in Versions /\ AloneInProgress(task[w].version)
        /\ status' = [status EXCEPT ![task[w].version] = "draft"]
    BY DEF CreateWrite, Doing
  <2> QED BY <2>1 DEF AloneInProgress, OneInProgress, InProgress
<1>2. CASE \E w \in Workers : TransitionWrite(w)
  <2> PICK w \in Workers : TransitionWrite(w)
    BY <1>2
  <2> DEFINE v == task[w].version
  <2>1. v \in Versions
    BY DEF TransitionWrite, Actions
  <2>2. CASE status' = status
    BY <2>2 DEF OneInProgress
  <2>3. CASE status' # status
    <3>1. /\ status' = [status EXCEPT ![v] = Target(task[w].op)]
          /\ Target(task[w].op) \in InProgress => AloneInProgress(v)
      BY <2>3 DEF TransitionWrite
    <3> HIDE DEF v
    <3>2. \A u \in Versions \ {v} : status'[u] = status[u]
      BY <3>1
    <3>3. status'[v] = Target(task[w].op)
      BY <2>1, <3>1
    <3> QED BY <2>1, <3>1, <3>2, <3>3 DEF AloneInProgress, OneInProgress
  <2> QED BY <2>2, <2>3
<1>3. CASE ~\E w \in Workers : CreateWrite(w) \/ TransitionWrite(w)
  <2>1. \A v \in Versions : status'[v] \in InProgress => status[v] \in InProgress
    <3> SUFFICES ASSUME NEW v \in Versions, status'[v] \in InProgress
                 PROVE  status[v] \in InProgress
      OBVIOUS
    <3>1. ASSUME NEW w \in Workers, SignWrite(w), task[w].version = v
          PROVE  status'[v] = "signed"
      BY <3>1 DEF SignWrite
    <3> QED BY <1>3, <3>1, RowMoves DEF InProgress
  <2> QED BY <2>1 DEF OneInProgress
<1> QED BY <1>1, <1>2, <1>3

\* The latest version does not become signed unless a signature is written.
LEMMA LatestSignedKept ==
  ASSUME IInv, [Next]_vars, ~\E w \in Workers : SignWrite(w)
  PROVE  LatestSigned' => LatestSigned
<1>1. \A v \in Versions : /\ status'[v] = "signed" => status[v] = "signed"
                          /\ status'[v] = "none" => status[v] = "none"
  <2> SUFFICES ASSUME NEW v \in Versions
               PROVE  /\ status'[v] = "signed" => status[v] = "signed"
                      /\ status'[v] = "none" => status[v] = "none"
    OBVIOUS
  <2>1. ASSUME NEW w \in Workers, CreateWrite(w), task[w].version = v
        PROVE  status'[v] = "draft"
    BY <2>1 DEF CreateWrite, IInv, TypeOK
  <2>2. ASSUME NEW w \in Workers, TransitionWrite(w), task[w].version = v
        PROVE  status'[v] = status[v] \/ status'[v] \in {"draft", "review", "approved"}
    BY <2>2 DEF TransitionWrite, Target, IInv, TypeOK
  <2> QED BY <2>1, <2>2, RowMoves
<1> QED BY <1>1 DEF LatestSigned, IsLatest

LEMMA CommitKept == IInv /\ [Next]_vars => PaidIsReserved' /\ SignedAndPaidIsCommitted'
<1> SUFFICES ASSUME IInv, [Next]_vars PROVE PaidIsReserved' /\ SignedAndPaidIsCommitted'
  OBVIOUS
<1> USE DEF IInv, PaidIsReserved, SignedAndPaidIsCommitted
<1>1. CASE \E w \in Workers : SignWrite(w)
  <2> PICK w \in Workers : SignWrite(w)
    BY <1>1
  <2> DEFINE v == task[w].version
  <2>1. /\ v \in Versions /\ paid' = paid
        /\ status' = [status EXCEPT ![v] = "signed"]
        /\ file' = Evaluated(file, paid, IsLatest(v))
    BY DEF SignWrite, TaskDiscipline, Doing
  <2> HIDE DEF v
  <2>2. CASE IsLatest(v)
    BY <2>1, <2>2 DEF Evaluated
  <2>3. CASE ~IsLatest(v)
    <3>0. status[v] # "none"
      BY DEF KnownVersions, SignWrite, Doing, v
    <3>1. PICK u \in Versions : u > v /\ status[u] # "none"
      BY <2>1, <2>3, <3>0 DEF IsLatest
    <3>2. status'[u] # "none" /\ \A x \in Versions \ {v} : status'[x] = status[x]
      BY <2>1, <3>1 DEF TypeOK, Versions
    <3>3. LatestSigned' => LatestSigned
      <4> SUFFICES ASSUME NEW x \in Versions, IsLatest(x)', status'[x] = "signed"
                   PROVE  LatestSigned
        BY DEF LatestSigned
      <4>1. x # v
        BY <3>1, <3>2 DEF IsLatest
      <4>2. status[x] = "signed" /\ \A y \in Versions : y > x => status[y] = "none"
        BY <3>0, <3>2, <4>1, <2>1 DEF IsLatest, TypeOK
      <4> QED BY <4>2 DEF LatestSigned, IsLatest
    <3> QED BY <2>1, <3>3 DEF Evaluated
  <2> QED BY <2>2, <2>3
<1>2. CASE ~\E w \in Workers : SignWrite(w)
  <2>1. LatestSigned' => LatestSigned
    BY <1>2, LatestSignedKept
  <2>2. CASE \E w \in Workers : FirstInstalmentPaid(w)
    BY <2>1, <2>2 DEF FirstInstalmentPaid, Evaluated
  <2>3. CASE \E w \in Workers, f \in {"reserved", "closed"} : FileMoves(w, f)
    BY <2>1, <2>3 DEF FileMoves
  <2>4. CASE paid' = paid /\ file' = file
    BY <2>1, <2>4
  <2> QED
    BY <1>2, <2>2, <2>3, <2>4 DEF Next, FileStep, ReadStep, WriteStep, CreateRead, EditRead,
       TransitionRead, SignRead, CreateRefuse, CreateWrite, EditWrite, TransitionWrite, SignRefuse,
       rows, vars
<1> QED BY <1>1, <1>2

-----------------------------------------------------------------------------
(* The theorems.                                                            *)

LEMMA InitInv == Init => IInv
<1> SUFFICES ASSUME Init PROVE IInv
  OBVIOUS
<1>1. Resting \in Tasks /\ Resting.op = "idle"
  BY TasksAreTasks DEF Resting, Ops
<1>2. TypeOK /\ TaskDiscipline /\ KnownVersions
  BY <1>1 DEF Init, TypeOK, TaskDiscipline, KnownVersions, Actions, Statuses, InProgress, Files
<1> QED BY <1>2 DEF Init, IInv, OneInProgress, InProgress, PaidIsReserved, SignedAndPaidIsCommitted

LEMMA InvKept == IInv /\ [Next]_vars => IInv'
BY TypesKept, KnownVersionsKept, OneInProgressKept, CommitKept DEF IInv

LEMMA Invariant == Spec => []IInv
BY InitInv, InvKept, PTL DEF Spec

\* Every reachable state is well typed.
THEOREM TypeCorrect == Spec => []TypeOK
<1>1. IInv => TypeOK
  BY DEF IInv
<1> QED BY <1>1, Invariant, PTL

\* At most one version is in progress, whatever transitions are pending.
THEOREM OneInProgressCorrect == Spec => []OneInProgress
<1>1. IInv => OneInProgress
  BY DEF IInv
<1> QED BY <1>1, Invariant, PTL

\* A file that is paid, and whose latest version is signed, is committed.
THEOREM SignedAndPaidCorrect == Spec => []SignedAndPaidIsCommitted
<1>1. IInv => SignedAndPaidIsCommitted
  BY DEF IInv
<1> QED BY <1>1, Invariant, PTL

\* A signed version is immutable (T04).
THEOREM SignedIsImmutableCorrect == Spec => SignedIsImmutable
<1>1. IInv /\ [Next]_vars =>
        [\A v \in Versions : status[v] = "signed" =>
           status'[v] = "signed" /\ content'[v] = content[v]]_vars
  <2> SUFFICES ASSUME IInv, [Next]_vars, NEW v \in Versions, status[v] = "signed"
               PROVE  status'[v] = "signed" /\ content'[v] = content[v]
    OBVIOUS
  <2>1. ASSUME NEW w \in Workers, CreateWrite(w), task[w].version = v PROVE FALSE
    BY <2>1 DEF CreateWrite
  <2> QED BY <2>1, RowMoves
<1> QED BY <1>1, Invariant, PTL DEF SignedIsImmutable, Spec

\* A text changes in a draft only.
THEOREM TextChangesInDraftCorrect == Spec => TextChangesInDraft
<1>1. IInv /\ [Next]_vars =>
        [\A v \in Versions : content'[v] # content[v] => status[v] \in {"none", "draft"}]_vars
  <2> SUFFICES ASSUME IInv, [Next]_vars, NEW v \in Versions, content'[v] # content[v]
               PROVE  status[v] \in {"none", "draft"}
    OBVIOUS
  <2>1. ASSUME NEW w \in Workers, CreateWrite(w), task[w].version = v PROVE status[v] = "none"
    BY <2>1 DEF CreateWrite
  <2> QED BY <2>1, RowMoves
<1> QED BY <1>1, Invariant, PTL DEF TextChangesInDraft, Spec

-----------------------------------------------------------------------------
(* Requests in turn.                                                        *)

\* What a transition or a signature has read of its version is still true.
StillAsRead ==
  \A w \in Workers :
    LET v == task[w].version IN
      /\ task[w].op \in Actions => Required(v, task[w].op)
      /\ task[w].op = "sign" => status[v] = "approved" /\ IsLatest(v)

TurnInv == IInv /\ (~overlapped => StillAsRead)

LEMMA TurnInit == MCInit => TurnInv
<1> SUFFICES ASSUME MCInit PROVE TurnInv
  OBVIOUS
<1>1. IInv
  BY InitInv DEF MCInit
<1>2. StillAsRead
  BY RestingIsIdle DEF MCInit, Init, StillAsRead, Actions
<1> QED BY <1>1, <1>2 DEF TurnInv

\* A worker that has just read, has read what is there.
LEMMA ReadIsTrue ==
  ASSUME TypeOK, NEW w \in Workers, ReadStep(w), task'[w].op \in Actions \cup {"sign"}
  PROVE  \E v \in Versions, o \in Ops :
           /\ task'[w].version = v /\ task'[w].op = o
           /\ o \in Actions => Required(v, o)
           /\ o = "sign" => status[v] = "approved" /\ IsLatest(v)
<1> USE DEF TypeOK, Become
<1>1. ASSUME NEW v \in Versions, NEW t \in Contents, CreateRead(w, v, t) \/ EditRead(w, v, t) PROVE FALSE
  <2>1. task'[w].op \in {"create", "edit"}
    BY <1>1 DEF CreateRead, EditRead, Task
  <2> QED BY <2>1 DEF Actions
<1>2. ASSUME NEW v \in Versions, NEW a \in Actions, TransitionRead(w, v, a)
      PROVE  task'[w].op = a /\ a # "sign" /\ task'[w].version = v /\ Required(v, a)
  BY <1>2 DEF TransitionRead, Task, Actions
<1>3. ASSUME NEW v \in Versions, SignRead(w, v)
      PROVE  /\ task'[w].op = "sign" /\ "sign" \notin Actions
             /\ task'[w].version = v /\ status[v] = "approved" /\ IsLatest(v)
  BY <1>3 DEF SignRead, Task, Actions
<1>4. "sign" \in Ops /\ Actions \subseteq Ops
  BY DEF Ops
<1> QED BY <1>1, <1>2, <1>3, <1>4 DEF ReadStep

\* Unless requests have overlapped, whoever has begun makes the next step.
LEMMA TurnsAreTaken ==
  ASSUME MCNext, ~overlapped'
  PROVE  ~overlapped /\ Next /\ \A w \in Workers : Idle(w) \/ task'[w] # task[w]
BY DEF MCNext

LEMMA TurnKept == TurnInv /\ [MCNext]_<<vars, overlapped>> => TurnInv'
<1> SUFFICES ASSUME TurnInv, [MCNext]_<<vars, overlapped>> PROVE TurnInv'
  OBVIOUS
<1>1. IInv' /\ IInv
  BY InvKept DEF TurnInv, MCNext
<1>2. CASE UNCHANGED <<vars, overlapped>>
  BY <1>1, <1>2 DEF TurnInv, StillAsRead, Required, IsLatest, vars, rows
<1>3. ASSUME MCNext, ~overlapped', NEW v \in Workers, task'[v].op \in Actions \cup {"sign"}
      PROVE  ReadStep(v) /\ rows' = rows
  <2>1. Next /\ task'[v] # task[v]
    BY <1>3, TurnsAreTaken DEF Idle, Actions
  <2>2. PICK w \in Workers : ReadStep(w) \/ WriteStep(w) \/ FileStep(w)
    BY <2>1 DEF Next
  <2>3. ~FileStep(w)
    BY <2>1 DEF FileStep, FileMoves, FirstInstalmentPaid
  <2>4. ASSUME WriteStep(w) PROVE FALSE
    <3>1. Rest(w)
      BY <2>4 DEF WriteStep, CreateRefuse, CreateWrite, EditWrite, TransitionWrite, SignRefuse, SignWrite
    <3>2. task'[v].op = "idle"
      BY <1>1, <2>1, <3>1, RestingIsIdle DEF Rest, Become, IInv, TypeOK
    <3> QED BY <1>3, <3>2 DEF Actions
  <2>5. ReadStep(w) /\ w = v
    <3>1. ReadStep(w)
      BY <2>2, <2>3, <2>4
    <3>2. w = v
      BY <1>1, <2>1, <3>1, ReadKnows DEF IInv, TypeOK
    <3> QED BY <3>1, <3>2
  <2> QED BY <1>1, <2>5, ReadTypes DEF IInv
<1>4. ASSUME MCNext, ~overlapped' PROVE StillAsRead'
  <2> SUFFICES ASSUME NEW w \in Workers, task'[w].op \in Actions \cup {"sign"}
               PROVE  LET v == task[w].version IN
                        (/\ task[w].op \in Actions => Required(v, task[w].op)
                         /\ task[w].op = "sign" => status[v] = "approved" /\ IsLatest(v))'
    BY DEF StillAsRead
  <2>1. ReadStep(w) /\ status' = status
    BY <1>3, <1>4 DEF rows
  <2>2. PICK v \in Versions, o \in Ops :
          /\ task'[w].version = v /\ task'[w].op = o
          /\ o \in Actions => Required(v, o)
          /\ o = "sign" => status[v] = "approved" /\ IsLatest(v)
    BY <1>1, <2>1, ReadIsTrue DEF IInv
  <2> QED BY <2>1, <2>2 DEF Required, IsLatest
<1> QED BY <1>1, <1>2, <1>4 DEF TurnInv

\* As long as requests take turns, an approved version is signed as it is or
\* stays as it is (transition_contract, update_contract_content).
THEOREM ApprovedIsFrozenCorrect == MCSpec => ApprovedIsFrozenInTurn
<1>1. TurnInv /\ [MCNext]_<<vars, overlapped>> => [~overlapped' => ApprovedKept]_<<vars, overlapped>>
  <2> SUFFICES ASSUME TurnInv, MCNext, ~overlapped', NEW v \in Versions, status[v] = "approved"
               PROVE  status'[v] \in {"approved", "signed"} /\ content'[v] = content[v]
    BY DEF ApprovedKept
  <2>1. IInv /\ StillAsRead /\ Next
    BY TurnsAreTaken DEF TurnInv
  <2>2. ASSUME NEW w \in Workers, CreateWrite(w), task[w].version = v PROVE FALSE
    BY <2>2 DEF CreateWrite
  <2>3. ASSUME NEW w \in Workers, TransitionWrite(w), task[w].version = v PROVE FALSE
    BY <2>1, <2>3 DEF StillAsRead, Required, TransitionWrite
  <2>4. ASSUME NEW w \in Workers, SignWrite(w), task[w].version = v PROVE status'[v] = "signed"
    BY <2>1, <2>4 DEF SignWrite, IInv, TypeOK
  <2> QED BY <2>1, <2>2, <2>3, <2>4, RowMoves
<1> QED BY <1>1, TurnInit, TurnKept, PTL DEF MCSpec, ApprovedIsFrozenInTurn

\* As long as requests take turns, the client signs the latest version
\* (sign_contract_as_client).
THEOREM LatestIsSignedCorrect == MCSpec => LatestIsSignedInTurn
<1>1. TurnInv /\ [MCNext]_<<vars, overlapped>> => [~overlapped' => LatestIsSigned]_<<vars, overlapped>>
  <2> SUFFICES ASSUME TurnInv, MCNext, ~overlapped', NEW v \in Versions,
                      status[v] # "signed", status'[v] = "signed"
               PROVE  IsLatest(v)
    BY DEF LatestIsSigned
  <2>1. IInv /\ StillAsRead /\ Next
    BY TurnsAreTaken DEF TurnInv
  <2>2. ASSUME NEW w \in Workers, CreateWrite(w), task[w].version = v PROVE FALSE
    BY <2>1, <2>2 DEF CreateWrite, IInv, TypeOK
  <2>3. ASSUME NEW w \in Workers, TransitionWrite(w), task[w].version = v PROVE FALSE
    BY <2>1, <2>3 DEF TransitionWrite, Target, IInv, TypeOK
  <2>4. ASSUME NEW w \in Workers, SignWrite(w), task[w].version = v PROVE IsLatest(v)
    BY <2>1, <2>4 DEF StillAsRead, SignWrite, Doing
  <2> QED BY <2>1, <2>2, <2>3, <2>4, RowMoves
<1> QED BY <1>1, TurnInit, TurnKept, PTL DEF MCSpec, LatestIsSignedInTurn
=============================================================================
