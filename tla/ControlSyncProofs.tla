------------------------- MODULE ControlSyncProofs -------------------------
(***************************************************************************)
(* Theorems about module ControlSync, for any number of drafts, photos,    *)
(* synchronisation cycles, lost answers and restarts.                      *)
(***************************************************************************)
EXTENDS MCControlSync, FiniteSetTheorems, SequenceTheorems, TLAPS

\* A draft is stored under its own id, and copies keep that id.
StoreKeyed == \A i \in Drafts : store[i] # None => store[i].id = i

\* An open reserve has an event.
ReserveExists == open => res > 0

\* A cycle with a draft in hand has locked it, and nobody else has it.
LockDiscipline ==
  /\ \A c \in Cycles : Holding(c) => engine[c].next \in Draft /\ engine[c].next.id \in inflight
  /\ \A c \in Cycles : engine[c].pc = "answer" => engine[c].answer \in Replies
  /\ OneCyclePerDraft

\* A submission that is awaited is the only one its cycle waits for.
WireDiscipline ==
  /\ \A q \in wire : q.by # None =>
       q.by \in Cycles /\ engine[q.by].pc = "wait" /\ engine[q.by].next.id = q.id
  /\ \A p, q \in wire : p.by # None /\ p.by = q.by => p = q

IInv == TypeOK /\ StoreKeyed /\ ReserveExists /\ LockDiscipline /\ WireDiscipline

-----------------------------------------------------------------------------
(* What the helpers return.                                                 *)

LEMMA RemoveAtType ==
  ASSUME NEW S, NEW s \in Seq(S), NEW i \in DOMAIN s
  PROVE  RemoveAt(s, i) \in Seq(S)
<1>1. SubSeq(s, 1, i - 1) \in Seq(S) /\ SubSeq(s, i + 1, Len(s)) \in Seq(S)
  BY SubSeqProperties
<1> QED BY <1>1 DEF RemoveAt

LEMMA FreshType ==
  ASSUME NEW i \in Drafts, NEW e \in Events
  PROVE  Fresh(i, e) \in Draft
BY DEF Fresh, Draft, PhotoStatus, SyncStatus

LEMMA MutateType ==
  ASSUME NEW kind, NEW item, kind = "edit" => item \in Edits,
         NEW next \in Draft, NEW d \in Draft
  PROVE  Mutate(kind, item, next, d) \in Draft /\ Mutate(kind, item, next, d).id = d.id
BY DEF Mutate, Draft, PhotoStatus

LEMMA SettledType ==
  ASSUME NEW d \in Draft, NEW a \in Replies
  PROVE  Settled(d, a) \in Draft /\ Settled(d, a).id = d.id
<1>1. CASE a.status = "conflict"
  BY <1>1 DEF Settled, Draft, SyncStatus
<1>2. CASE a.status = "applied"
  <2>1. a.latest \in Events
    BY <1>2 DEF Replies
  <2> QED BY <1>2, <2>1 DEF Settled, Draft, SyncStatus
<1>3. CASE a.status \notin {"conflict", "applied"}
  BY <1>3 DEF Settled, Draft, SyncStatus
<1> QED BY <1>1, <1>2, <1>3

LEMMA MissionRowType ==
  ASSUME TypeOK, ReserveExists
  PROVE  MissionRow \in Events
BY DEF TypeOK, ReserveExists, MissionRow, Events

LEMMA InsertType ==
  ASSUME TypeOK, ReserveExists, NEW id \in Drafts \cup {None}, NEW r, Insert(id, r)
  PROVE  insp' \in Seq(Drafts \cup {None}) /\ res' \in Nat /\ open' \in BOOLEAN /\ ReserveExists'
<1>1. insp' \in Seq(Drafts \cup {None})
  BY DEF TypeOK, Insert
<1>2. res \in Nat /\ open \in BOOLEAN
  BY DEF TypeOK
<1>3. \/ res' = res + 2 /\ open' = FALSE
      \/ res' = res /\ open' = open
      \/ res' = 1 /\ open' = TRUE
  BY DEF Insert
<1>4. res' \in Nat /\ ReserveExists'
  BY <1>2, <1>3 DEF ReserveExists
<1>5. open' \in BOOLEAN
  BY <1>2, <1>3
<1> QED BY <1>1, <1>4, <1>5

LEMMA DisturbType ==
  ASSUME TypeOK, NEW what \in DOMAIN Budget \ {"all"}, Disturb(what)
  PROVE  left' \in [DOMAIN Budget -> Nat]
<1>1. left \in [DOMAIN Budget -> Nat] /\ "all" \in DOMAIN Budget
  BY BudgetHasNames DEF TypeOK
<1>2. /\ left' = [left EXCEPT ![what] = left[what] - 1, !["all"] = left["all"] - 1]
      /\ left[what] > 0 /\ left["all"] > 0
  BY DEF Disturb
<1> QED BY <1>1, <1>2

LEMMA SpendType ==
  ASSUME TypeOK, NEW what \in DOMAIN Budget, Spend(what)
  PROVE  left' \in [DOMAIN Budget -> Nat] /\ left[what] \in Nat \ {0}
BY DEF TypeOK, Spend

-----------------------------------------------------------------------------
(* What keeps the disciplines of the lock and of the wire.                  *)

\* The form, the chain and the world leave the cycles alone.
LEMMA CyclesLeftAlone ==
  ASSUME IInv, UNCHANGED <<engine, inflight, wire>>
  PROVE  LockDiscipline' /\ WireDiscipline'
BY DEF IInv, LockDiscipline, WireDiscipline, OneCyclePerDraft, Holding

\* A cycle goes on with the draft it has.
LEMMA CycleKeeps ==
  ASSUME IInv, NEW c \in Cycles, Holding(c), NEW new \in Running,
         new.pc \in {"mark", "upload", "patch", "wait", "answer"},
         new.next \in Draft, new.next.id = engine[c].next.id,
         new.pc = "answer" => new.answer \in Replies,
         engine' = [engine EXCEPT ![c] = new], UNCHANGED inflight
  PROVE  LockDiscipline'
<1>1. \A d \in Cycles : engine'[d] = IF d = c THEN new ELSE engine[d]
  BY DEF IInv, TypeOK
<1>2. \A d \in Cycles : /\ Holding(d)' <=> Holding(d)
                        /\ Holding(d) => engine'[d].next.id = engine[d].next.id
  BY <1>1 DEF Holding
<1>3. OneCyclePerDraft'
  BY <1>2 DEF OneCyclePerDraft, IInv, LockDiscipline
<1>4. \A d \in Cycles : Holding(d)' => engine'[d].next \in Draft /\ engine'[d].next.id \in inflight
  BY <1>1, <1>2 DEF IInv, LockDiscipline
<1>5. \A d \in Cycles : engine'[d].pc = "answer" => engine'[d].answer \in Replies
  BY <1>1 DEF IInv, LockDiscipline
<1> QED BY <1>3, <1>4, <1>5 DEF LockDiscipline

\* A cycle takes a draft that nobody has.
LEMMA CycleTakes ==
  ASSUME IInv, NEW c \in Cycles, ~Holding(c), NEW new \in Running,
         new.pc \in {"mark", "upload"}, new.next \in Draft, new.next.id \notin inflight,
         engine' = [engine EXCEPT ![c] = new], inflight' = inflight \cup {new.next.id}
  PROVE  LockDiscipline'
<1>1. \A d \in Cycles : engine'[d] = IF d = c THEN new ELSE engine[d]
  BY DEF IInv, TypeOK
<1>2. \A d \in Cycles : Holding(d)' => d = c \/ (Holding(d) /\ engine'[d] = engine[d])
  BY <1>1 DEF Holding
<1>3. \A d \in Cycles \ {c} : Holding(d)' => engine'[d].next.id \in inflight
  BY <1>2 DEF IInv, LockDiscipline
<1>4. OneCyclePerDraft'
  BY <1>1, <1>2, <1>3 DEF OneCyclePerDraft, IInv, LockDiscipline
<1>5. \A d \in Cycles : Holding(d)' => engine'[d].next \in Draft /\ engine'[d].next.id \in inflight'
  BY <1>1, <1>2 DEF IInv, LockDiscipline
<1>6. \A d \in Cycles : engine'[d].pc = "answer" => engine'[d].answer \in Replies
  BY <1>1 DEF IInv, LockDiscipline
<1> QED BY <1>4, <1>5, <1>6 DEF LockDiscipline

\* A cycle lets its draft go, if it has one.
LEMMA CycleReleases ==
  ASSUME IInv, NEW c \in Cycles, NEW new \in {Rest} \cup Running, new.pc \in {"next", "rest"},
         engine' = [engine EXCEPT ![c] = new],
         \/ ~Holding(c) /\ inflight' = inflight
         \/ Holding(c) /\ inflight' = inflight \ {engine[c].next.id}
  PROVE  LockDiscipline'
<1>1. \A d \in Cycles : engine'[d] = IF d = c THEN new ELSE engine[d]
  BY DEF IInv, TypeOK
<1>2. \A d \in Cycles : Holding(d)' => d # c /\ Holding(d) /\ engine'[d] = engine[d]
  BY <1>1 DEF Holding
<1>3. OneCyclePerDraft'
  BY <1>2 DEF OneCyclePerDraft, IInv, LockDiscipline
<1>4. \A d \in Cycles : Holding(d)' => engine'[d].next \in Draft /\ engine'[d].next.id \in inflight'
  <2> SUFFICES ASSUME NEW d \in Cycles, Holding(d)'
               PROVE  engine'[d].next \in Draft /\ engine'[d].next.id \in inflight'
    OBVIOUS
  <2>1. engine'[d].next \in Draft /\ engine'[d].next.id \in inflight
    BY <1>2 DEF IInv, LockDiscipline
  <2>2. Holding(c) => engine[d].next.id # engine[c].next.id
    BY <1>2 DEF IInv, LockDiscipline, OneCyclePerDraft
  <2> QED BY <1>2, <2>1, <2>2
<1>5. \A d \in Cycles : engine'[d].pc = "answer" => engine'[d].answer \in Replies
  BY <1>1 DEF IInv, LockDiscipline
<1> QED BY <1>3, <1>4, <1>5 DEF LockDiscipline

\* A step of a cycle that awaits nothing leaves the wire in order.
LEMMA WireKeeps ==
  ASSUME IInv, NEW c \in Cycles, NEW new, engine[c].pc # "wait",
         engine' = [engine EXCEPT ![c] = new], wire' = wire
  PROVE  WireDiscipline'
<1>1. \A d \in Cycles : engine'[d] = IF d = c THEN new ELSE engine[d]
  BY DEF IInv, TypeOK
<1> QED BY <1>1 DEF IInv, WireDiscipline

-----------------------------------------------------------------------------
(* The initial states, the form, the chain and the others.                  *)

LEMMA InitIInv ==
  ASSUME Init
  PROVE  IInv
<1>1. insp \in Seq(Drafts \cup {None}) /\ res \in Nat /\ open \in BOOLEAN /\ row \in Events
  BY DEF Init, MissionRow, Events
<1>2. jobs \in Seq(Job)
  BY DEF Init
<1>3. left \in [DOMAIN Budget -> Nat]
  BY BudgetHasNames DEF Init
<1>4. TypeOK
  BY <1>1, <1>2, <1>3 DEF Init, TypeOK
<1>5. \A c \in Cycles : engine[c].pc = "rest"
  BY DEF Init, Rest
<1> QED BY <1>4, <1>5 DEF Init, IInv, StoreKeyed, ReserveExists, LockDiscipline, OneCyclePerDraft,
                          WireDiscipline, Holding

LEMMA OthersIInv ==
  ASSUME IInv, OtherInspects \/ Correction
  PROVE  IInv'
<1>1. UNCHANGED <<device, cycle, docs>>
  BY DEF OtherInspects, Correction
<1>2. left' \in [DOMAIN Budget -> Nat]
  BY DisturbType, BudgetHasNames DEF IInv, OtherInspects, Correction
<1>3. insp' \in Seq(Drafts \cup {None}) /\ res' \in Nat /\ open' \in BOOLEAN /\ ReserveExists'
  <2>1. CASE OtherInspects
    BY <2>1, InsertType DEF IInv, OtherInspects
  <2>2. CASE Correction
    BY <2>2 DEF IInv, TypeOK, ReserveExists, Correction
  <2> QED BY <2>1, <2>2
<1>4. TypeOK'
  BY <1>1, <1>2, <1>3 DEF IInv, TypeOK, device, cycle
<1>5. LockDiscipline' /\ WireDiscipline'
  BY <1>1, CyclesLeftAlone DEF cycle
<1> QED BY <1>1, <1>3, <1>4, <1>5 DEF IInv, StoreKeyed, device

\* A step of the form or of the chain: what it must leave in order.
LEMMA DeviceIInv ==
  ASSUME IInv, UNCHANGED <<cycle, server>>,
         store' \in [Drafts -> Draft \cup {None}], StoreKeyed',
         form' \in {Closed} \cup [mount : Nat \ {0}, draft : Draft, error : BOOLEAN],
         jobs' \in Seq(Job), used' \subseteq Drafts, taken' \subseteq Photos,
         left' \in [DOMAIN Budget -> Nat]
  PROVE  IInv'
<1>1. TypeOK'
  BY DEF IInv, TypeOK, cycle, server
<1>2. LockDiscipline' /\ WireDiscipline'
  BY CyclesLeftAlone DEF cycle
<1> QED BY <1>1, <1>2 DEF IInv, ReserveExists, server
LEMMA FormIInv ==
  ASSUME IInv, Form
  PROVE  IInv'
<1> USE DEF IInv
<1>1. CASE OpenForm
  <2>1. PICK i \in Drafts :
          form' = [mount |-> left["mounts"], error |-> FALSE,
                   draft |-> IF store[i] # None THEN store[i] ELSE Fresh(i, row)]
    BY <1>1 DEF OpenForm
  <2>2. "mounts" \in DOMAIN Budget
    BY BudgetHasNames
  <2>3. left["mounts"] \in Nat \ {0} /\ left' \in [DOMAIN Budget -> Nat]
    BY <1>1, <2>2, SpendType DEF OpenForm
  <2>4. store[i] # None => store[i] \in Draft
    BY DEF TypeOK
  <2>5. Fresh(i, row) \in Draft
    BY FreshType DEF TypeOK
  <2>6. form' \in [mount : Nat \ {0}, draft : Draft, error : BOOLEAN]
    BY <2>1, <2>3, <2>4, <2>5
  <2> QED BY <1>1, <2>3, <2>6, DeviceIInv DEF OpenForm, TypeOK, StoreKeyed
<1>2. CASE CloseForm
  <2>1. left' \in [DOMAIN Budget -> Nat]
    BY <1>2, DisturbType, BudgetHasNames DEF CloseForm
  <2> QED BY <1>2, <2>1, DeviceIInv DEF CloseForm, TypeOK, StoreKeyed
<1>3. CASE RetryPersist
  <2>1. [mount |-> form.mount, kind |-> "all", item |-> None, next |-> form.draft, base |-> None] \in Job
    BY <1>3 DEF RetryPersist, TypeOK, Job, Jobs
  <2>2. jobs' \in Seq(Job)
    BY <1>3, <2>1 DEF RetryPersist, TypeOK
  <2>3. used' \subseteq Drafts
    BY <1>3 DEF RetryPersist, TypeOK, Draft
  <2> QED BY <1>3, <2>2, <2>3, DeviceIInv DEF RetryPersist, TypeOK, StoreKeyed
<1>4. CASE Discard
  <2>1. PICK i \in Drafts : form' = [form EXCEPT !.draft = Fresh(i, None)]
    BY <1>4 DEF Discard
  <2>2. Fresh(i, None) \in Draft
    BY FreshType DEF Events
  <2>3. form' \in [mount : Nat \ {0}, draft : Draft, error : BOOLEAN]
    BY <1>4, <2>1, <2>2 DEF Discard, TypeOK
  <2>4. store' \in [Drafts -> Draft \cup {None}] /\ StoreKeyed'
    BY <1>4 DEF Discard, TypeOK, StoreKeyed
  <2> QED BY <1>4, <2>3, <2>4, DeviceIInv DEF Discard, TypeOK
<1>5. ASSUME NEW kind \in {"edit", "add", "remove", "all"}, NEW item \in Edits \cup Photos \cup {None},
             kind = "edit" => item \in Edits, form # Closed, Persist(kind, item), taken' \subseteq Photos
      PROVE  IInv'
  <2> DEFINE next == Mutate(kind, item, form.draft, form.draft)
  <2>1. form \in [mount : Nat \ {0}, draft : Draft, error : BOOLEAN]
    BY <1>5 DEF TypeOK
  <2>2. next \in Draft
    BY <1>5, <2>1, MutateType
  <2>3. /\ form' = [form EXCEPT !.draft = next] /\ used' = used \cup {next.id}
        /\ jobs' = IF form.error THEN jobs
                   ELSE Append(jobs, [mount |-> form.mount, kind |-> kind, item |-> item,
                                      next |-> next, base |-> None])
        /\ UNCHANGED <<store, cycle, server, left>>
    BY <1>5 DEF Persist
  <2> HIDE DEF next
  <2>4. [mount |-> form.mount, kind |-> kind, item |-> item, next |-> next, base |-> None] \in Job
    BY <1>5, <2>1, <2>2 DEF Job, Jobs
  <2>5. jobs' \in Seq(Job)
    BY <2>3, <2>4 DEF TypeOK
  <2>6. form' \in [mount : Nat \ {0}, draft : Draft, error : BOOLEAN]
    BY <2>1, <2>2, <2>3
  <2>7. used' \subseteq Drafts
    BY <2>2, <2>3 DEF Draft, TypeOK
  <2> QED BY <1>5, <2>3, <2>5, <2>6, <2>7, DeviceIInv DEF TypeOK, StoreKeyed
<1>6. ASSUME NEW e \in Edits, Fill(e) PROVE IInv'
  BY <1>5, <1>6 DEF Fill, TypeOK
<1>7. ASSUME NEW p \in Photos, AddPhoto(p) PROVE IInv'
  BY <1>5, <1>7 DEF AddPhoto, TypeOK
<1>8. ASSUME NEW p \in Photos, RemovePhoto(p) PROVE IInv'
  BY <1>5, <1>8 DEF RemovePhoto, TypeOK
<1> QED BY <1>1, <1>2, <1>3, <1>4, <1>6, <1>7, <1>8 DEF Form

LEMMA ChainIInv ==
  ASSUME IInv, Chain
  PROVE  IInv'
<1> USE DEF IInv
<1> PICK i \in DOMAIN jobs : ReadJob(i) \/ WriteJob(i) \/ FailJob(i)
  BY DEF Chain
<1>1. jobs[i] \in Job /\ jobs[i].next \in Draft /\ jobs[i].next.id \in Drafts
  BY DEF TypeOK, Job, Jobs, Draft
<1>2. RemoveAt(jobs, i) \in Seq(Job)
  BY RemoveAtType DEF TypeOK
<1>3. CASE ReadJob(i)
  <2>1. PICK b : b = IF store[jobs[i].next.id] # None THEN store[jobs[i].next.id] ELSE jobs[i].next
    OBVIOUS
  <2>2. b \in Draft
    BY <1>1, <2>1 DEF TypeOK
  <2>3. jobs' = [jobs EXCEPT ![i] = [jobs[i] EXCEPT !.base = b]]
    BY <1>3, <2>1 DEF ReadJob
  <2>4. [jobs[i] EXCEPT !.base = b] \in Job
    BY <1>1, <2>2 DEF Job, Jobs
  <2>5. jobs' \in Seq(Job)
    BY <2>3, <2>4 DEF TypeOK
  <2> QED BY <1>3, <2>5, DeviceIInv DEF ReadJob, TypeOK, StoreKeyed
<1>4. CASE WriteJob(i)
  <2> DEFINE written == Mutate(jobs[i].kind, jobs[i].item, jobs[i].next, jobs[i].base)
  <2>1. jobs[i].base \in Draft
    BY <1>1, <1>4 DEF WriteJob, Job, Jobs
  <2>2. written \in Draft /\ written.id \in Drafts
    BY <1>1, <2>1, MutateType DEF Job, Jobs, Draft
  <2>3. /\ store' = [store EXCEPT ![written.id] = written]
        /\ form' = IF form.mount = jobs[i].mount /\ form.draft = jobs[i].next
                   THEN [form EXCEPT !.draft = written, !.error = form.error /\ jobs[i].kind # "all"]
                   ELSE form
        /\ jobs' = RemoveAt(jobs, i) /\ UNCHANGED <<used, taken, cycle, server, left>>
    BY <1>4 DEF WriteJob
  <2> HIDE DEF written
  <2>4. store' \in [Drafts -> Draft \cup {None}] /\ StoreKeyed'
    BY <2>2, <2>3 DEF TypeOK, StoreKeyed
  <2>5. form.mount = jobs[i].mount => form \in [mount : Nat \ {0}, draft : Draft, error : BOOLEAN]
    BY <1>1 DEF TypeOK, Closed, Job, Jobs
  <2>6. form' \in {Closed} \cup [mount : Nat \ {0}, draft : Draft, error : BOOLEAN]
    BY <2>2, <2>3, <2>5 DEF TypeOK
  <2> QED BY <1>2, <2>3, <2>4, <2>6, DeviceIInv DEF TypeOK
<1>5. CASE FailJob(i)
  <2>1. left' \in [DOMAIN Budget -> Nat]
    BY <1>5, DisturbType, BudgetHasNames DEF FailJob
  <2>2. form.mount = jobs[i].mount => form \in [mount : Nat \ {0}, draft : Draft, error : BOOLEAN]
    BY <1>1 DEF TypeOK, Closed, Job, Jobs
  <2>3. form' \in {Closed} \cup [mount : Nat \ {0}, draft : Draft, error : BOOLEAN]
    BY <1>5, <2>2 DEF FailJob, TypeOK
  <2> QED BY <1>2, <1>5, <2>1, <2>3, DeviceIInv DEF FailJob, TypeOK, StoreKeyed
<1> QED BY <1>3, <1>4, <1>5
-----------------------------------------------------------------------------
(* The synchronisation cycles.                                              *)

\* A step of a cycle: what it must leave in order.
LEMMA CycleIInv ==
  ASSUME IInv, NEW c \in Cycles, NEW new \in {Rest} \cup Running,
         engine' = [engine EXCEPT ![c] = new], LockDiscipline', WireDiscipline',
         UNCHANGED <<form, jobs, used, taken, insp, res, open>>,
         store' \in [Drafts -> Draft \cup {None}], StoreKeyed',
         inflight' \subseteq Drafts, row' \in Events,
         wire' \subseteq [id : Drafts, known : Events, row : Events,
                         by : Cycles \cup {None}, step : {"check", "write"}],
         docs' \in [Photos -> Nat], left' \in [DOMAIN Budget -> Nat]
  PROVE  IInv'
<1>1. engine' \in [Cycles -> {Rest} \cup Running]
  BY DEF IInv, TypeOK
<1>2. TypeOK'
  BY <1>1 DEF IInv, TypeOK
<1> QED BY <1>2 DEF IInv, ReserveExists

\* Storing a draft under its id.
LEMMA PutKeeps ==
  ASSUME IInv, NEW d \in Draft, Put(d)
  PROVE  store' \in [Drafts -> Draft \cup {None}] /\ StoreKeyed'
BY DEF IInv, TypeOK, StoreKeyed, Put, Draft

\* The fields of a cycle at work.
LEMMA AtWork ==
  ASSUME IInv, NEW c \in Cycles, engine[c].pc # "rest"
  PROVE  /\ engine[c] \in Running
         /\ Holding(c) => engine[c].next \in Draft /\ engine[c].next.id \in Drafts
<1>1. engine[c] \in {Rest} \cup Running
  BY DEF IInv, TypeOK
<1>2. engine[c] \in Running
  BY <1>1 DEF Rest
<1>3. Holding(c) => engine[c].next \in Draft
  BY DEF IInv, LockDiscipline
<1> QED BY <1>2, <1>3 DEF Draft

LEMMA StartIInv ==
  ASSUME IInv, NEW c \in Cycles, StartCycle(c)
  PROVE  IInv'
<1> DEFINE kept == {i \in Drafts : store[i] # None}
<1>1. Cardinality(kept) \in Nat
  BY DraftIds, FS_Subset, FS_CardinalityType
<1>2. PICK list \in [1 .. Cardinality(kept) -> kept] :
        engine' = [engine EXCEPT ![c] =
          [pc |-> "next", todo |-> [k \in DOMAIN list |-> store[list[k]]],
           next |-> None, changed |-> FALSE, row |-> None, answer |-> None]]
  BY DEF StartCycle, Step
<1>3. [k \in DOMAIN list |-> store[list[k]]] \in Seq(Draft)
  <2>1. \A k \in DOMAIN list : store[list[k]] \in Draft
    BY DEF IInv, TypeOK
  <2>2. DOMAIN list = 1 .. Cardinality(kept)
    OBVIOUS
  <2> HIDE DEF kept
  <2> QED BY <1>1, <2>1, <2>2
<1> HIDE DEF kept
<1>4. PICK new : new = [pc |-> "next", todo |-> [k \in DOMAIN list |-> store[list[k]]],
                        next |-> None, changed |-> FALSE, row |-> None, answer |-> None]
  OBVIOUS
<1>5. new \in Running /\ new.pc = "next" /\ engine' = [engine EXCEPT ![c] = new]
  BY <1>2, <1>3, <1>4 DEF Running, Events
<1>6. engine[c].pc = "rest" /\ UNCHANGED <<device, inflight, wire, server, left>>
  BY DEF StartCycle, Rest
<1>7. ~Holding(c)
  BY <1>6 DEF Holding
<1>8. LockDiscipline'
  BY <1>5, <1>6, <1>7, CycleReleases
<1>9. WireDiscipline'
  BY <1>5, <1>6, WireKeeps
<1>10. row' \in Events
  BY MissionRowType DEF IInv, StartCycle, TypeOK
<1> QED BY <1>5, <1>6, <1>8, <1>9, <1>10, CycleIInv DEF IInv, TypeOK, StoreKeyed, device, server

LEMMA NextDraftIInv ==
  ASSUME IInv, NEW c \in Cycles, NextDraft(c)
  PROVE  IInv'
<1>1. engine[c].pc = "next" /\ UNCHANGED <<device, row, wire, server, left>> /\ ~Holding(c)
  BY DEF NextDraft, Holding
<1>2. engine[c] \in Running
  BY <1>1, AtWork
<1>3. ASSUME NEW new \in {Rest} \cup Running, engine' = [engine EXCEPT ![c] = new],
             LockDiscipline', inflight' \subseteq Drafts
      PROVE  IInv'
  <2>1. WireDiscipline'
    BY <1>1, <1>3, WireKeeps
  <2> QED BY <1>1, <1>3, <2>1, CycleIInv DEF IInv, TypeOK, StoreKeyed, device, server
<1>4. ASSUME NEW new \in {Rest} \cup Running, new.pc \in {"next", "rest"},
             engine' = [engine EXCEPT ![c] = new], UNCHANGED inflight
      PROVE  IInv'
  <2>1. LockDiscipline'
    BY <1>1, <1>4, CycleReleases
  <2> QED BY <1>3, <1>4, <2>1 DEF IInv, TypeOK
<1>5. CASE engine[c].todo = <<>>
  <2>1. engine' = [engine EXCEPT ![c] = Rest] /\ UNCHANGED inflight
    BY <1>1, <1>5 DEF NextDraft, Step
  <2>2. Rest.pc = "rest"
    BY DEF Rest
  <2> QED BY <1>4, <2>1, <2>2
<1>6. CASE engine[c].todo # <<>>
  <2>1. PICK d, rest : d = Head(engine[c].todo) /\ rest = [engine[c] EXCEPT !.todo = Tail(engine[c].todo)]
    OBVIOUS
  <2>2. engine[c].todo \in Seq(Draft)
    BY <1>2 DEF Running
  <2>3. d \in Draft /\ Tail(engine[c].todo) \in Seq(Draft)
    BY <1>6, <2>1, <2>2
  <2>4. rest \in Running /\ rest.pc = "next"
    BY <1>1, <1>2, <2>1, <2>3 DEF Running
  <2>5. PICK now : now = IF store[d.id] # None THEN store[d.id] ELSE d
    OBVIOUS
  <2>6. now \in Draft /\ now.id = d.id /\ d.id \in Drafts
    BY <2>3, <2>5 DEF IInv, TypeOK, StoreKeyed, Draft
  <2>7. CASE (ToSend(d) = {} /\ ~Waiting(d)) \/ d.id \in inflight
    <3>1. engine' = [engine EXCEPT ![c] = rest] /\ UNCHANGED inflight
      BY <1>1, <1>6, <2>1, <2>7 DEF NextDraft, Step
    <3> QED BY <1>4, <2>4, <3>1
  <2>8. CASE ~((ToSend(d) = {} /\ ~Waiting(d)) \/ d.id \in inflight)
    <3>1. PICK new : new = [rest EXCEPT !.pc = IF ToSend(now) = {} THEN "upload" ELSE "mark",
                                        !.next = now, !.row = row]
      OBVIOUS
    <3>2. inflight' = inflight \cup {d.id} /\ engine' = [engine EXCEPT ![c] = new]
      BY <1>1, <1>6, <2>1, <2>5, <2>8, <3>1 DEF NextDraft, Step
    <3>3. row \in Events
      BY DEF IInv, TypeOK
    <3>4. new \in Running /\ new.pc \in {"mark", "upload"} /\ new.next = now
      BY <2>4, <2>6, <3>1, <3>3 DEF Running
    <3>5. LockDiscipline'
      BY <1>1, <2>6, <2>8, <3>2, <3>4, CycleTakes
    <3>6. inflight' \subseteq Drafts
      BY <2>6, <3>2 DEF IInv, TypeOK
    <3> QED BY <1>3, <3>2, <3>4, <3>5, <3>6
  <2> QED BY <2>7, <2>8
<1> QED BY <1>5, <1>6
\* A step of a cycle that has a draft in hand, keeps it and sends nothing.
LEMMA HandIInv ==
  ASSUME IInv, NEW c \in Cycles, engine[c].pc \in {"mark", "upload"}, NEW new \in Running,
         new.pc \in {"upload", "patch"}, new.next \in Draft, new.next.id = engine[c].next.id,
         engine' = [engine EXCEPT ![c] = new],
         UNCHANGED <<form, jobs, used, taken, inflight, row, wire, insp, res, open>>,
         store' \in [Drafts -> Draft \cup {None}], StoreKeyed',
         docs' \in [Photos -> Nat], left' \in [DOMAIN Budget -> Nat]
  PROVE  IInv'
<1>1. LockDiscipline'
  BY CycleKeeps DEF Holding
<1>2. WireDiscipline'
  BY WireKeeps
<1> QED BY <1>1, <1>2, CycleIInv DEF IInv, TypeOK

LEMMA MarkIInv ==
  ASSUME IInv, NEW c \in Cycles, Mark(c)
  PROVE  IInv'
<1>1. engine[c].pc = "mark" /\ engine[c] \in Running /\ engine[c].next \in Draft
  BY AtWork DEF Mark, Holding
<1>2. PICK d : d = engine[c].next
  OBVIOUS
<1>3. PICK marked :
        marked = [d EXCEPT !.photos = [p \in Photos |-> IF p \in ToSend(d) THEN "syncing" ELSE d.photos[p]]]
  OBVIOUS
<1>4. marked \in Draft /\ marked.id = d.id
  BY <1>1, <1>2, <1>3 DEF Draft, PhotoStatus
<1>5. PICK new : new = [engine[c] EXCEPT !.pc = "upload", !.next = marked, !.changed = TRUE]
  OBVIOUS
<1>6. new \in Running /\ new.pc = "upload" /\ new.next = marked
  BY <1>1, <1>4, <1>5 DEF Running
<1>7. /\ Put(marked) /\ engine' = [engine EXCEPT ![c] = new]
      /\ UNCHANGED <<form, jobs, used, taken, inflight, row, wire, server, left>>
  BY <1>2, <1>3, <1>5 DEF Mark, Step
<1>8. store' \in [Drafts -> Draft \cup {None}] /\ StoreKeyed'
  BY <1>4, <1>7, PutKeeps
<1> QED BY <1>1, <1>2, <1>4, <1>6, <1>7, <1>8, HandIInv DEF IInv, TypeOK, server

LEMMA UploadIInv ==
  ASSUME IInv, NEW c \in Cycles, NEW p \in Photos, Upload(c, p)
  PROVE  IInv'
<1>1. engine[c].pc = "upload" /\ engine[c] \in Running /\ engine[c].next \in Draft
  BY AtWork DEF Upload, Holding
<1>2. ASSUME NEW st \in {"synced", "failed"}, Step(c, [engine[c] EXCEPT !.next.photos[p] = st])
      PROVE  \E new \in Running : /\ new.pc = "upload" /\ new.next \in Draft
                                 /\ new.next.id = engine[c].next.id
                                 /\ engine' = [engine EXCEPT ![c] = new]
  <2>1. PICK d : d = [engine[c].next EXCEPT !.photos[p] = st]
    OBVIOUS
  <2>2. d \in Draft /\ d.id = engine[c].next.id
    BY <1>1, <2>1 DEF Draft, PhotoStatus
  <2>3. PICK new : new = [engine[c] EXCEPT !.next = d]
    OBVIOUS
  <2>4. new \in Running /\ new.pc = "upload" /\ new.next = d
    BY <1>1, <2>2, <2>3 DEF Running
  <2>5. [engine[c] EXCEPT !.next.photos[p] = st] = new
    BY <1>1, <2>1, <2>3 DEF Running, Draft
  <2>6. engine' = [engine EXCEPT ![c] = new]
    BY <1>2, <2>5 DEF Step
  <2> QED BY <2>2, <2>4, <2>6
<1>3. \E new \in Running : /\ new.pc = "upload" /\ new.next \in Draft
                          /\ new.next.id = engine[c].next.id
                          /\ engine' = [engine EXCEPT ![c] = new]
  BY <1>2 DEF Upload
<1>4. UNCHANGED <<device, inflight, row, wire, insp, res, open>>
  BY DEF Upload
<1>5. docs' \in [Photos -> Nat]
  BY DEF Upload, IInv, TypeOK
<1>6. left' \in [DOMAIN Budget -> Nat]
  BY DisturbType, BudgetHasNames DEF Upload, IInv, TypeOK
<1>7. store' \in [Drafts -> Draft \cup {None}] /\ StoreKeyed'
  BY <1>4 DEF device, IInv, TypeOK, StoreKeyed
<1> QED BY <1>1, <1>3, <1>4, <1>5, <1>6, <1>7, HandIInv DEF device

LEMMA EvidenceIInv ==
  ASSUME IInv, NEW c \in Cycles, MakeEvidence(c)
  PROVE  IInv'
<1>1. engine[c].pc = "upload" /\ engine[c] \in Running /\ engine[c].next \in Draft
  BY AtWork DEF MakeEvidence, Holding
<1>2. UNCHANGED <<device, inflight, row, wire, server>>
  BY DEF MakeEvidence
<1>3. left' \in [DOMAIN Budget -> Nat]
  BY DisturbType, BudgetHasNames DEF MakeEvidence, IInv, TypeOK
<1>4. \/ Step(c, [engine[c] EXCEPT !.pc = "patch", !.next.evidence = TRUE, !.changed = TRUE])
      \/ Step(c, [engine[c] EXCEPT !.pc = "patch"])
  BY DEF MakeEvidence
<1>5. \E new \in Running : /\ new.pc = "patch" /\ new.next \in Draft
                          /\ new.next.id = engine[c].next.id
                          /\ engine' = [engine EXCEPT ![c] = new]
  <2>1. CASE Step(c, [engine[c] EXCEPT !.pc = "patch", !.next.evidence = TRUE, !.changed = TRUE])
    <3>1. PICK d : d = [engine[c].next EXCEPT !.evidence = TRUE]
      OBVIOUS
    <3>2. d \in Draft /\ d.id = engine[c].next.id
      BY <1>1, <3>1 DEF Draft
    <3>3. PICK new : new = [engine[c] EXCEPT !.pc = "patch", !.next = d, !.changed = TRUE]
      OBVIOUS
    <3>4. new \in Running /\ new.pc = "patch" /\ new.next = d
      BY <1>1, <3>2, <3>3 DEF Running
    <3>5. [engine[c] EXCEPT !.pc = "patch", !.next.evidence = TRUE, !.changed = TRUE] = new
      BY <1>1, <3>1, <3>3 DEF Running, Draft
    <3> QED BY <2>1, <3>2, <3>4, <3>5 DEF Step
  <2>2. CASE Step(c, [engine[c] EXCEPT !.pc = "patch"])
    <3>1. PICK new : new = [engine[c] EXCEPT !.pc = "patch"]
      OBVIOUS
    <3>2. new \in Running /\ new.pc = "patch" /\ new.next = engine[c].next
      BY <1>1, <3>1 DEF Running
    <3> QED BY <1>1, <2>2, <3>1, <3>2 DEF Step
  <2> QED BY <1>4, <2>1, <2>2
<1>6. store' \in [Drafts -> Draft \cup {None}] /\ StoreKeyed' /\ docs' \in [Photos -> Nat]
  BY <1>2 DEF device, server, IInv, TypeOK, StoreKeyed
<1> QED BY <1>1, <1>2, <1>3, <1>5, <1>6, HandIInv DEF device, server

\* Letting the draft go.
LEMMA ReleaseIInv ==
  ASSUME IInv, NEW c \in Cycles, engine[c].pc \in {"patch", "answer"}, Release(c),
         UNCHANGED <<form, jobs, used, taken, row, wire, server, left>>,
         store' \in [Drafts -> Draft \cup {None}], StoreKeyed'
  PROVE  IInv'
<1>1. engine[c] \in Running /\ Holding(c)
  BY AtWork DEF Holding
<1>2. PICK new : new = [engine[c] EXCEPT !.pc = "next", !.next = None,
                                         !.changed = FALSE, !.row = None, !.answer = None]
  OBVIOUS
<1>3. new \in Running /\ new.pc = "next"
  BY <1>1, <1>2 DEF Running, Events
<1>4. engine' = [engine EXCEPT ![c] = new] /\ inflight' = inflight \ {engine[c].next.id}
  BY <1>2 DEF Release, Step
<1>5. LockDiscipline'
  BY <1>1, <1>3, <1>4, CycleReleases
<1>6. WireDiscipline'
  BY <1>4, WireKeeps
<1> QED BY <1>3, <1>4, <1>5, <1>6, CycleIInv DEF IInv, TypeOK, server

LEMMA AnswerIInv ==
  ASSUME IInv, NEW c \in Cycles, Answer(c)
  PROVE  IInv'
<1>1. engine[c].pc = "answer" /\ engine[c].next \in Draft
  BY AtWork DEF Answer, Holding
<1>2. engine[c].answer \in Replies
  BY <1>1 DEF IInv, LockDiscipline
<1>3. Settled(engine[c].next, engine[c].answer) \in Draft
  BY <1>1, <1>2, SettledType
<1>4. store' \in [Drafts -> Draft \cup {None}] /\ StoreKeyed'
  BY <1>3, PutKeeps DEF Answer
<1> QED BY <1>1, <1>4, ReleaseIInv DEF Answer
LEMMA PatchIInv ==
  ASSUME IInv, NEW c \in Cycles, Patch(c)
  PROVE  IInv'
<1>1. engine[c].pc = "patch" /\ engine[c] \in Running /\ Holding(c)
      /\ engine[c].next \in Draft /\ engine[c].next.id \in Drafts
  BY AtWork DEF Patch, Holding
<1>2. PICK d, sent : d = engine[c].next /\ sent = [d EXCEPT !.sync = "syncing"]
  OBVIOUS
<1>3. sent \in Draft /\ sent.id = d.id
  BY <1>1, <1>2 DEF Draft, SyncStatus
<1>4. UNCHANGED <<form, jobs, used, taken, row, server, left>>
  BY DEF Patch
<1>5. CASE Waiting(d) /\ Decide \in d.edits
  <2>1. PICK new, q : /\ new = [engine[c] EXCEPT !.pc = "wait", !.next = sent]
                      /\ q = [id |-> d.id, known |-> d.known, row |-> engine[c].row,
                              by |-> c, step |-> "check"]
    OBVIOUS
  <2>2. /\ Put(sent) /\ engine' = [engine EXCEPT ![c] = new] /\ wire' = wire \cup {q}
        /\ UNCHANGED inflight
    BY <1>2, <1>5, <2>1 DEF Patch, Step
  <2>3. new \in Running /\ new.pc = "wait" /\ new.next = sent
    BY <1>1, <1>3, <2>1 DEF Running
  <2>4. q \in [id : Drafts, known : Events, row : Events, by : Cycles \cup {None}, step : {"check", "write"}]
    BY <1>1, <1>2, <2>1 DEF Running, Draft
  <2>5. store' \in [Drafts -> Draft \cup {None}] /\ StoreKeyed'
    BY <1>3, <2>2, PutKeeps
  <2>6. LockDiscipline'
    BY <1>1, <1>2, <1>3, <2>2, <2>3, CycleKeeps
  <2>7. WireDiscipline'
    <3>1. \A b \in Cycles : engine'[b] = IF b = c THEN new ELSE engine[b]
      BY <2>2 DEF IInv, TypeOK
    <3>2. \A o \in wire : o.by # None => o.by \in Cycles \ {c}
      BY <1>1 DEF IInv, WireDiscipline
    <3>3. q.by = c /\ q.id = sent.id
      BY <1>3, <2>1
    <3> QED BY <2>2, <2>3, <3>1, <3>2, <3>3 DEF IInv, WireDiscipline
  <2> QED BY <1>4, <2>2, <2>3, <2>4, <2>5, <2>6, <2>7, CycleIInv DEF IInv, TypeOK, server
<1>6. CASE ~(Waiting(d) /\ Decide \in d.edits)
  <2>1. /\ IF engine[c].changed THEN Put(d) ELSE UNCHANGED store
        /\ Release(c) /\ UNCHANGED wire
    BY <1>2, <1>6 DEF Patch
  <2>2. store' \in [Drafts -> Draft \cup {None}] /\ StoreKeyed'
    BY <1>1, <1>2, <2>1, PutKeeps DEF IInv, TypeOK, StoreKeyed
  <2> QED BY <1>1, <1>4, <2>1, <2>2, ReleaseIInv
<1> QED BY <1>5, <1>6

\* Submissions that are given up: nobody awaits them any more.
LEMMA AbandonType ==
  ASSUME IInv, NEW mine \in SUBSET wire, Abandon(mine)
  PROVE  /\ wire' \subseteq [id : Drafts, known : Events, row : Events,
                             by : Cycles \cup {None}, step : {"check", "write"}]
         /\ \A q \in wire' : q.by # None => q \in wire \ mine
<1>1. PICK gone \in SUBSET mine : wire' = (wire \ mine) \cup {[q EXCEPT !.by = None] : q \in gone}
  BY DEF Abandon
<1>2. \A q \in gone : q \in [id : Drafts, known : Events, row : Events,
                             by : Cycles \cup {None}, step : {"check", "write"}]
  BY DEF IInv, TypeOK
<1>3. \A q \in gone :
        /\ [q EXCEPT !.by = None] \in [id : Drafts, known : Events, row : Events,
                                       by : Cycles \cup {None}, step : {"check", "write"}]
        /\ [q EXCEPT !.by = None].by = None
  BY <1>2
<1> QED BY <1>1, <1>3 DEF IInv, TypeOK

LEMMA LoseIInv ==
  ASSUME IInv, NEW c \in Cycles, Lose(c)
  PROVE  IInv'
<1>1. /\ engine[c].pc \in {"wait", "answer"} /\ engine[c] \in Running /\ Holding(c)
      /\ engine[c].next \in Draft
  BY AtWork DEF Lose, Holding
<1>2. PICK new : new = [engine[c] EXCEPT !.pc = "answer", !.answer = [status |-> "error"]]
  OBVIOUS
<1>3. new \in Running /\ new.pc = "answer" /\ new.next = engine[c].next /\ new.answer \in Replies
  BY <1>1, <1>2 DEF Running, Replies
<1>4. engine' = [engine EXCEPT ![c] = new] /\ UNCHANGED <<device, inflight, row, server>>
  BY <1>2 DEF Lose, Step
<1>5. LockDiscipline'
  BY <1>1, <1>3, <1>4, CycleKeeps DEF device
<1>6. Abandon({q \in wire : q.by = c}) /\ {q \in wire : q.by = c} \in SUBSET wire
  BY DEF Lose
<1>7. /\ wire' \subseteq [id : Drafts, known : Events, row : Events,
                          by : Cycles \cup {None}, step : {"check", "write"}]
      /\ \A q \in wire' : q.by # None => q \in wire \ {x \in wire : x.by = c}
  BY <1>6, AbandonType
<1>8. WireDiscipline'
  <2>1. \A b \in Cycles : b # c => engine'[b] = engine[b]
    BY <1>4 DEF IInv, TypeOK
  <2>2. \A q \in wire' : q.by # None => q \in wire /\ q.by # c
    BY <1>7
  <2> QED BY <2>1, <2>2 DEF IInv, WireDiscipline
<1>9. left' \in [DOMAIN Budget -> Nat]
  BY DisturbType, BudgetHasNames DEF Lose, IInv
<1> QED BY <1>3, <1>4, <1>5, <1>7, <1>8, <1>9, CycleIInv DEF IInv, TypeOK, StoreKeyed, device, server

-----------------------------------------------------------------------------
(* The server, and the closing of the application.                          *)

\* A submission that has been handled.
LEMMA ReplyKeeps ==
  ASSUME IInv, NEW q \in wire, NEW a \in Replies, Reply(q, a), wire' = wire \ {q}, UNCHANGED inflight
  PROVE  /\ engine' \in [Cycles -> {Rest} \cup Running]
         /\ LockDiscipline' /\ WireDiscipline'
<1>1. CASE q.by = None
  <2>1. UNCHANGED engine
    BY <1>1 DEF Reply
  <2> QED BY <2>1 DEF IInv, TypeOK, LockDiscipline, WireDiscipline, OneCyclePerDraft, Holding
<1>2. CASE q.by # None
  <2>1. PICK c \in Cycles : c = q.by
    BY <1>2 DEF IInv, WireDiscipline
  <2>2. engine[c].pc = "wait" /\ engine[c] \in Running /\ Holding(c) /\ engine[c].next \in Draft
    BY <1>2, <2>1, AtWork DEF IInv, WireDiscipline, Holding
  <2>3. PICK new : new = [engine[c] EXCEPT !.pc = "answer", !.answer = a]
    OBVIOUS
  <2>4. new \in Running /\ new.pc = "answer" /\ new.next = engine[c].next /\ new.answer \in Replies
    BY <2>2, <2>3 DEF Running
  <2>5. engine' = [engine EXCEPT ![c] = new]
    BY <1>2, <2>1, <2>3 DEF Reply, Step
  <2>6. LockDiscipline'
    BY <2>2, <2>4, <2>5, CycleKeeps
  <2>7. engine' \in [Cycles -> {Rest} \cup Running]
    BY <2>4, <2>5 DEF IInv, TypeOK
  <2>8. \A b \in Cycles : b # c => engine'[b] = engine[b]
    BY <2>5 DEF IInv, TypeOK
  <2>9. \A p \in wire' : p.by # None => p \in wire /\ p.by # c
    BY <1>2, <2>1 DEF IInv, WireDiscipline
  <2>10. WireDiscipline'
    BY <2>8, <2>9 DEF IInv, WireDiscipline
  <2> QED BY <2>6, <2>7, <2>10
<1> QED BY <1>1, <1>2

LEMMA CheckIInv ==
  ASSUME IInv, NEW q \in wire, Check(q)
  PROVE  IInv'
<1>1. UNCHANGED <<device, inflight, row, server, left>>
  BY DEF Check
<1>2. wire' \subseteq [id : Drafts, known : Events, row : Events,
                      by : Cycles \cup {None}, step : {"check", "write"}]
      /\ engine' \in [Cycles -> {Rest} \cup Running] /\ LockDiscipline' /\ WireDiscipline'
  <2>1. CASE q.known = Latest(q.row)
    <3>1. PICK o : o = [q EXCEPT !.step = "write"]
      OBVIOUS
    <3>2. q \in [id : Drafts, known : Events, row : Events, by : Cycles \cup {None}, step : {"check", "write"}]
      BY DEF IInv, TypeOK
    <3>3. /\ o \in [id : Drafts, known : Events, row : Events, by : Cycles \cup {None}, step : {"check", "write"}]
          /\ o.by = q.by /\ o.id = q.id
      BY <3>1, <3>2
    <3>4. wire' = (wire \ {q}) \cup {o} /\ UNCHANGED engine
      BY <2>1, <3>1 DEF Check
    <3>5. WireDiscipline'
      BY <3>3, <3>4 DEF IInv, WireDiscipline
    <3>6. LockDiscipline'
      BY <1>1, <3>4 DEF IInv, LockDiscipline, OneCyclePerDraft, Holding
    <3> QED BY <3>3, <3>4, <3>5, <3>6 DEF IInv, TypeOK
  <2>2. CASE q.known # Latest(q.row)
    <3>1. wire' = wire \ {q} /\ Reply(q, [status |-> "conflict"])
      BY <2>2 DEF Check
    <3>2. [status |-> "conflict"] \in Replies
      BY DEF Replies
    <3> QED BY <1>1, <3>1, <3>2, ReplyKeeps DEF IInv, TypeOK
  <2> QED BY <2>1, <2>2
<1> QED BY <1>1, <1>2 DEF IInv, TypeOK, StoreKeyed, ReserveExists, device, server

LEMMA WriteIInv ==
  ASSUME IInv, NEW q \in wire, Write(q)
  PROVE  IInv'
<1>1. UNCHANGED <<device, inflight, row, docs, left>> /\ wire' = wire \ {q} /\ Insert(q.id, q.row)
  BY DEF Write
<1>2. insp' \in Seq(Drafts \cup {None}) /\ res' \in Nat /\ open' \in BOOLEAN /\ ReserveExists'
  BY <1>1, InsertType DEF IInv, TypeOK
<1>3. PICK a : a = [status |-> "applied",
                    latest |-> IF q.row # None THEN <<"reserve", res + 2>>
                               ELSE <<"inspection", Len(insp) + 1>>]
  OBVIOUS
<1>4. a.latest \in Events
  <2>1. res \in Nat /\ Len(insp) \in Nat
    BY DEF IInv, TypeOK
  <2> QED BY <1>3, <2>1 DEF Events
<1>5. a \in Replies /\ Reply(q, a)
  BY <1>3, <1>4 DEF Replies, Write
<1>6. engine' \in [Cycles -> {Rest} \cup Running] /\ LockDiscipline' /\ WireDiscipline'
  BY <1>1, <1>5, ReplyKeeps
<1> QED BY <1>1, <1>2, <1>6 DEF IInv, TypeOK, StoreKeyed, device

LEMMA RestartIInv ==
  ASSUME IInv, Restart
  PROVE  IInv'
<1>1. /\ form' = Closed /\ jobs' = <<>> /\ inflight' = {} /\ engine' = [c \in Cycles |-> Rest]
      /\ UNCHANGED <<store, used, taken, row, server>> /\ Abandon(wire)
  BY DEF Restart
<1>2. /\ wire' \subseteq [id : Drafts, known : Events, row : Events,
                          by : Cycles \cup {None}, step : {"check", "write"}]
      /\ \A q \in wire' : q.by = None
  BY <1>1, AbandonType
<1>3. left' \in [DOMAIN Budget -> Nat]
  BY DisturbType, BudgetHasNames DEF Restart, IInv
<1>4. \A c \in Cycles : engine'[c].pc = "rest"
  BY <1>1 DEF Rest
<1>5. LockDiscipline' /\ WireDiscipline'
  BY <1>2, <1>4 DEF LockDiscipline, WireDiscipline, OneCyclePerDraft, Holding
<1>6. TypeOK'
  BY <1>1, <1>2, <1>3 DEF IInv, TypeOK, server
<1> QED BY <1>1, <1>5, <1>6 DEF IInv, StoreKeyed, ReserveExists, server

LEMMA NextIInv == IInv /\ [Next]_vars => IInv'
<1> SUFFICES ASSUME IInv, [Next]_vars PROVE IInv'
  OBVIOUS
<1>1. CASE Form \/ Chain \/ OtherInspects \/ Correction \/ Restart
  BY <1>1, FormIInv, ChainIInv, OthersIInv, RestartIInv
<1>2. ASSUME NEW c \in Cycles, Cycle(c) PROVE IInv'
  BY <1>2, StartIInv, NextDraftIInv, MarkIInv, UploadIInv, EvidenceIInv, PatchIInv, LoseIInv, AnswerIInv
     DEF Cycle
<1>3. ASSUME NEW q \in wire, Server(q) PROVE IInv'
  BY <1>3, CheckIInv, WriteIInv DEF Server
<1>4. CASE UNCHANGED vars
  <2>1. UNCHANGED <<cycle, server, store, form, jobs, used, taken, left>>
    BY <1>4 DEF vars, device
  <2> QED BY <2>1, DeviceIInv DEF IInv, TypeOK, StoreKeyed
<1> QED BY <1>1, <1>2, <1>3, <1>4 DEF Next

-----------------------------------------------------------------------------
LEMMA Inductive == Spec => []IInv
BY InitIInv, NextIInv, PTL DEF Spec

\* The store, the form, the chain and the cycles always hold values of their
\* kinds, whatever is lost, refused or closed on the way.
THEOREM TypeCorrect == Spec => []TypeOK
<1>1. IInv => TypeOK
  BY DEF IInv
<1> QED BY <1>1, Inductive, PTL

\* One cycle at a time has a given draft in hand, however many polls overlap and
\* wherever they are interrupted: draftsInFlight is enough (syncDraft).
THEOREM OneCyclePerDraftCorrect == Spec => []OneCyclePerDraft
<1>1. IInv => OneCyclePerDraft
  BY DEF IInv, LockDiscipline
<1> QED BY <1>1, Inductive, PTL

\* The device never awaits two submissions of one correlation id: a second one
\* on the wire is one it has given up, after a lost answer or a restart.
THEOREM OneAwaitedSubmissionCorrect == Spec => []OneAwaitedSubmission
<1>1. ASSUME IInv PROVE OneAwaitedSubmission
  <2> SUFFICES ASSUME NEW p \in wire, NEW q \in wire, p.by # None, q.by # None, p.id = q.id
               PROVE  p = q
    BY DEF OneAwaitedSubmission
  <2>1. /\ p.by \in Cycles /\ engine[p.by].pc = "wait" /\ engine[p.by].next.id = p.id
        /\ q.by \in Cycles /\ engine[q.by].pc = "wait" /\ engine[q.by].next.id = q.id
    BY <1>1 DEF IInv, WireDiscipline
  <2>2. p.by = q.by
    BY <1>1, <2>1 DEF IInv, LockDiscipline, OneCyclePerDraft, Holding
  <2> QED BY <1>1, <2>2 DEF IInv, WireDiscipline
<1> QED BY <1>1, Inductive, PTL

-----------------------------------------------------------------------------
(* What a step of a cycle does to the drafts it deals with.                 *)

\* Two snapshots of one draft that a cycle tells apart by their photos only.
Alike(d, e) == d.id = e.id /\ d.edits = e.edits /\ d.sync = e.sync /\ d.known = e.known

LEMMA StartShape ==
  ASSUME IInv, NEW c \in Cycles, StartCycle(c)
  PROVE  \E new \in Running :
           /\ engine' = [engine EXCEPT ![c] = new] /\ new.pc = "next"
           /\ \A k \in DOMAIN new.todo : \E i \in Drafts : store[i] # None /\ new.todo[k] = store[i]
<1> DEFINE kept == {i \in Drafts : store[i] # None}
<1>1. Cardinality(kept) \in Nat
  BY DraftIds, FS_Subset, FS_CardinalityType
<1>2. PICK list \in [1 .. Cardinality(kept) -> kept] :
        engine' = [engine EXCEPT ![c] =
          [pc |-> "next", todo |-> [k \in DOMAIN list |-> store[list[k]]],
           next |-> None, changed |-> FALSE, row |-> None, answer |-> None]]
  BY DEF StartCycle, Step
<1>3. PICK new : new = [pc |-> "next", todo |-> [k \in DOMAIN list |-> store[list[k]]],
                        next |-> None, changed |-> FALSE, row |-> None, answer |-> None]
  OBVIOUS
<1>4. engine' = [engine EXCEPT ![c] = new]
  BY <1>2, <1>3
<1>5. \A k \in DOMAIN new.todo : list[k] \in Drafts /\ store[list[k]] # None /\ new.todo[k] = store[list[k]]
  BY <1>3
<1>6. IInv'
  BY StartIInv
<1>7. new \in Running
  <2>1. engine'[c] = new
    BY <1>4 DEF IInv, TypeOK
  <2>2. engine'[c] \in {Rest} \cup Running /\ new.pc # Rest.pc
    BY <1>3, <1>6 DEF IInv, TypeOK, Rest
  <2> QED BY <2>1, <2>2
<1> QED BY <1>3, <1>4, <1>5, <1>7

LEMMA NextDraftShape ==
  ASSUME IInv, NEW c \in Cycles, NextDraft(c)
  PROVE  \/ engine' = [engine EXCEPT ![c] = Rest]
         \/ \E new \in Running, d \in Draft, now \in Draft :
              /\ engine[c].todo # <<>> /\ d = Head(engine[c].todo) /\ new.todo = Tail(engine[c].todo)
              /\ engine' = [engine EXCEPT ![c] = new]
              /\ now = IF store[d.id] # None THEN store[d.id] ELSE d
              /\ new.pc = "next" \/ (new.pc \in {"mark", "upload"} /\ new.next = now)
<1>1. engine[c].pc = "next"
  BY DEF NextDraft
<1>2. engine[c] \in Running
  BY <1>1, AtWork
<1>5. CASE engine[c].todo = <<>>
  BY <1>1, <1>5 DEF NextDraft, Step
<1>6. CASE engine[c].todo # <<>>
  <2>1. PICK d, rest : d = Head(engine[c].todo) /\ rest = [engine[c] EXCEPT !.todo = Tail(engine[c].todo)]
    OBVIOUS
  <2>2. engine[c].todo \in Seq(Draft)
    BY <1>2 DEF Running
  <2>3. d \in Draft /\ Tail(engine[c].todo) \in Seq(Draft)
    BY <1>6, <2>1, <2>2
  <2>4. rest \in Running /\ rest.pc = "next" /\ rest.todo = Tail(engine[c].todo)
    BY <1>1, <1>2, <2>1, <2>3 DEF Running
  <2>5. PICK now : now = IF store[d.id] # None THEN store[d.id] ELSE d
    OBVIOUS
  <2>6. now \in Draft
    BY <2>3, <2>5 DEF IInv, TypeOK, Draft
  <2>7. CASE (ToSend(d) = {} /\ ~Waiting(d)) \/ d.id \in inflight
    <3>1. engine' = [engine EXCEPT ![c] = rest]
      BY <1>1, <1>6, <2>1, <2>7 DEF NextDraft, Step
    <3> QED BY <1>6, <2>1, <2>3, <2>4, <2>5, <2>6, <3>1
  <2>8. CASE ~((ToSend(d) = {} /\ ~Waiting(d)) \/ d.id \in inflight)
    <3>1. PICK new : new = [rest EXCEPT !.pc = IF ToSend(now) = {} THEN "upload" ELSE "mark",
                                        !.next = now, !.row = row]
      OBVIOUS
    <3>2. engine' = [engine EXCEPT ![c] = new]
      BY <1>1, <1>6, <2>1, <2>5, <2>8, <3>1 DEF NextDraft, Step
    <3>3. row \in Events
      BY DEF IInv, TypeOK
    <3>4. new \in Running /\ new.pc \in {"mark", "upload"} /\ new.next = now /\ new.todo = rest.todo
      BY <2>4, <2>6, <3>1, <3>3 DEF Running
    <3> QED BY <1>6, <2>1, <2>3, <2>4, <2>5, <2>6, <3>2, <3>4
  <2> QED BY <2>7, <2>8
<1> QED BY <1>5, <1>6

\* Marking, uploading and the evidence: the photos only.
LEMMA HandShape ==
  ASSUME IInv, NEW c \in Cycles, Mark(c) \/ (\E p \in Photos : Upload(c, p)) \/ MakeEvidence(c)
  PROVE  \E new \in Running :
           /\ engine' = [engine EXCEPT ![c] = new]
           /\ engine[c].pc \in {"mark", "upload"} /\ new.pc \in {"upload", "patch"}
           /\ new.todo = engine[c].todo
           /\ new.next \in Draft /\ Alike(new.next, engine[c].next)
           /\ UNCHANGED store \/ Put(new.next)
           /\ UNCHANGED <<form, jobs, used, taken, inflight, row, wire, insp, res, open>>
<1>1. engine[c].pc \in {"mark", "upload"} /\ engine[c] \in Running /\ engine[c].next \in Draft
  BY AtWork DEF Mark, Upload, MakeEvidence, Holding
<1>2. PICK d : d = engine[c].next
  OBVIOUS
<1>3. CASE Mark(c)
  <2>1. PICK marked :
          marked = [d EXCEPT !.photos = [p \in Photos |-> IF p \in ToSend(d) THEN "syncing" ELSE d.photos[p]]]
    OBVIOUS
  <2>2. marked \in Draft /\ Alike(marked, d)
    BY <1>1, <1>2, <2>1 DEF Draft, PhotoStatus, Alike
  <2>3. PICK new : new = [engine[c] EXCEPT !.pc = "upload", !.next = marked, !.changed = TRUE]
    OBVIOUS
  <2>4. new \in Running /\ new.pc = "upload" /\ new.next = marked /\ new.todo = engine[c].todo
    BY <1>1, <2>2, <2>3 DEF Running
  <2>5. /\ Put(marked) /\ engine' = [engine EXCEPT ![c] = new]
        /\ UNCHANGED <<form, jobs, used, taken, inflight, row, wire, insp, res, open>>
    BY <1>2, <1>3, <2>1, <2>3 DEF Mark, Step, server
  <2> QED BY <1>1, <1>2, <2>2, <2>4, <2>5
<1>4. ASSUME NEW p \in Photos, Upload(c, p)
      PROVE  \E new \in Running :
               /\ engine' = [engine EXCEPT ![c] = new] /\ new.pc = "upload"
               /\ new.todo = engine[c].todo /\ new.next \in Draft /\ Alike(new.next, d)
  <2>1. PICK st \in {"synced", "failed"} : Step(c, [engine[c] EXCEPT !.next.photos[p] = st])
    BY <1>4 DEF Upload
  <2>2. PICK e : e = [d EXCEPT !.photos[p] = st]
    OBVIOUS
  <2>3. e \in Draft /\ Alike(e, d)
    BY <1>1, <1>2, <2>2 DEF Draft, PhotoStatus, Alike
  <2>4. PICK new : new = [engine[c] EXCEPT !.next = e]
    OBVIOUS
  <2>5. new \in Running /\ new.pc = "upload" /\ new.next = e /\ new.todo = engine[c].todo
    BY <1>1, <1>4, <2>3, <2>4 DEF Running, Upload
  <2>6. [engine[c] EXCEPT !.next.photos[p] = st] = new
    BY <1>1, <1>2, <2>2, <2>4 DEF Running, Draft
  <2> QED BY <2>1, <2>3, <2>5, <2>6 DEF Step
<1>5. ASSUME MakeEvidence(c)
      PROVE  \E new \in Running :
               /\ engine' = [engine EXCEPT ![c] = new] /\ new.pc = "patch"
               /\ new.todo = engine[c].todo /\ new.next \in Draft /\ Alike(new.next, d)
  <2>1. \/ Step(c, [engine[c] EXCEPT !.pc = "patch", !.next.evidence = TRUE, !.changed = TRUE])
        \/ Step(c, [engine[c] EXCEPT !.pc = "patch"])
    BY <1>5 DEF MakeEvidence
  <2>2. CASE Step(c, [engine[c] EXCEPT !.pc = "patch", !.next.evidence = TRUE, !.changed = TRUE])
    <3>1. PICK e : e = [d EXCEPT !.evidence = TRUE]
      OBVIOUS
    <3>2. e \in Draft /\ Alike(e, d)
      BY <1>1, <1>2, <3>1 DEF Draft, Alike
    <3>3. PICK new : new = [engine[c] EXCEPT !.pc = "patch", !.next = e, !.changed = TRUE]
      OBVIOUS
    <3>4. new \in Running /\ new.pc = "patch" /\ new.next = e /\ new.todo = engine[c].todo
      BY <1>1, <3>2, <3>3 DEF Running
    <3>5. [engine[c] EXCEPT !.pc = "patch", !.next.evidence = TRUE, !.changed = TRUE] = new
      BY <1>1, <1>2, <3>1, <3>3 DEF Running, Draft
    <3> QED BY <2>2, <3>2, <3>4, <3>5 DEF Step
  <2>3. CASE Step(c, [engine[c] EXCEPT !.pc = "patch"])
    <3>1. PICK new : new = [engine[c] EXCEPT !.pc = "patch"]
      OBVIOUS
    <3>2. new \in Running /\ new.pc = "patch" /\ new.next = d /\ new.todo = engine[c].todo
      BY <1>1, <1>2, <3>1 DEF Running
    <3> QED BY <1>1, <1>2, <2>3, <3>1, <3>2 DEF Step, Alike
  <2> QED BY <2>1, <2>2, <2>3
<1>6. (\E p \in Photos : Upload(c, p)) \/ MakeEvidence(c) =>
        UNCHANGED <<store, form, jobs, used, taken, inflight, row, wire, insp, res, open>>
  BY DEF Upload, MakeEvidence, device, server
<1>7. CASE \E p \in Photos : Upload(c, p)
  BY <1>1, <1>2, <1>4, <1>6, <1>7
<1>8. CASE MakeEvidence(c)
  BY <1>1, <1>2, <1>5, <1>6, <1>8
<1> QED BY <1>3, <1>7, <1>8

\* What letting the draft go leaves of a cycle.
LEMMA ReleaseShape ==
  ASSUME IInv, NEW c \in Cycles, Holding(c), Release(c)
  PROVE  \E new \in Running :
           engine' = [engine EXCEPT ![c] = new] /\ new.pc = "next" /\ new.todo = engine[c].todo
<1>1. engine[c] \in Running
  BY AtWork DEF Holding
<1>2. PICK new : new = [engine[c] EXCEPT !.pc = "next", !.next = None,
                                         !.changed = FALSE, !.row = None, !.answer = None]
  OBVIOUS
<1>3. new \in Running /\ new.pc = "next" /\ new.todo = engine[c].todo
  BY <1>1, <1>2 DEF Running, Events
<1> QED BY <1>2, <1>3 DEF Release, Step

LEMMA PatchShape ==
  ASSUME IInv, NEW c \in Cycles, Patch(c)
  PROVE  /\ Holding(c) /\ engine[c].pc = "patch"
         /\ UNCHANGED <<form, jobs, used, taken, row, server, left>>
         /\ \/ \E new \in Running : \E q :
                 /\ engine' = [engine EXCEPT ![c] = new] /\ new.pc = "wait"
                 /\ new.todo = engine[c].todo
                 /\ Waiting(engine[c].next)
                 /\ new.next = [engine[c].next EXCEPT !.sync = "syncing"] /\ Put(new.next)
                 /\ q.id = engine[c].next.id /\ q.known = engine[c].next.known
                 /\ q.by = c /\ q.step = "check"
                 /\ wire' = wire \cup {q}
            \/ \E new \in Running :
                 /\ engine' = [engine EXCEPT ![c] = new] /\ new.pc = "next"
                 /\ new.todo = engine[c].todo
                 /\ UNCHANGED store \/ Put(engine[c].next)
                 /\ UNCHANGED wire
<1>1. engine[c].pc = "patch" /\ Holding(c) /\ engine[c] \in Running /\ engine[c].next \in Draft
  BY AtWork DEF Patch, Holding
<1>2. PICK d, sent : d = engine[c].next /\ sent = [d EXCEPT !.sync = "syncing"]
  OBVIOUS
<1>3. sent \in Draft
  BY <1>1, <1>2 DEF Draft, SyncStatus
<1>4. UNCHANGED <<form, jobs, used, taken, row, server, left>>
  BY DEF Patch
<1>5. CASE Waiting(d) /\ Decide \in d.edits
  <2>1. PICK new, q : /\ new = [engine[c] EXCEPT !.pc = "wait", !.next = sent]
                      /\ q = [id |-> d.id, known |-> d.known, row |-> engine[c].row,
                              by |-> c, step |-> "check"]
    OBVIOUS
  <2>2. Put(sent) /\ engine' = [engine EXCEPT ![c] = new] /\ wire' = wire \cup {q}
    BY <1>2, <1>5, <2>1 DEF Patch, Step
  <2>3. new \in Running /\ new.pc = "wait" /\ new.next = sent /\ new.todo = engine[c].todo
    BY <1>1, <1>3, <2>1 DEF Running
  <2>4. q.id = d.id /\ q.known = d.known /\ q.by = c /\ q.step = "check"
    BY <2>1
  <2> QED BY <1>1, <1>2, <1>4, <1>5, <2>2, <2>3, <2>4
<1>6. CASE ~(Waiting(d) /\ Decide \in d.edits)
  <2>1. /\ IF engine[c].changed THEN Put(d) ELSE UNCHANGED store
        /\ Release(c) /\ UNCHANGED wire
    BY <1>2, <1>6 DEF Patch
  <2> QED BY <1>1, <1>2, <1>4, <2>1, ReleaseShape
<1> QED BY <1>5, <1>6

LEMMA LoseShape ==
  ASSUME IInv, NEW c \in Cycles, Lose(c)
  PROVE  /\ engine[c].pc \in {"wait", "answer"} /\ Holding(c)
         /\ UNCHANGED <<device, inflight, row, server>>
         /\ Abandon({q \in wire : q.by = c})
         /\ \E new \in Running :
              /\ engine' = [engine EXCEPT ![c] = new] /\ new.pc = "answer"
              /\ new.todo = engine[c].todo /\ new.next = engine[c].next
              /\ new.answer.status = "error"
<1>1. engine[c].pc \in {"wait", "answer"} /\ engine[c] \in Running /\ Holding(c)
  BY AtWork DEF Lose, Holding
<1>2. PICK new : new = [engine[c] EXCEPT !.pc = "answer", !.answer = [status |-> "error"]]
  OBVIOUS
<1>3. /\ new \in Running /\ new.pc = "answer" /\ new.next = engine[c].next
      /\ new.todo = engine[c].todo /\ new.answer.status = "error"
  BY <1>1, <1>2 DEF Running, Replies
<1>4. engine' = [engine EXCEPT ![c] = new] /\ UNCHANGED <<device, inflight, row, server>>
      /\ Abandon({q \in wire : q.by = c})
  BY <1>2 DEF Lose, Step
<1> QED BY <1>1, <1>3, <1>4

LEMMA AnswerShape ==
  ASSUME IInv, NEW c \in Cycles, Answer(c)
  PROVE  /\ engine[c].pc = "answer" /\ Holding(c) /\ engine[c].answer \in Replies
         /\ engine[c].next \in Draft
         /\ Put(Settled(engine[c].next, engine[c].answer))
         /\ UNCHANGED <<form, jobs, used, taken, row, wire, server, left>>
         /\ \E new \in Running :
              engine' = [engine EXCEPT ![c] = new] /\ new.pc = "next" /\ new.todo = engine[c].todo
<1>1. engine[c].pc = "answer" /\ Holding(c) /\ engine[c].next \in Draft
  BY AtWork DEF Answer, Holding
<1>2. engine[c].answer \in Replies
  BY <1>1 DEF IInv, LockDiscipline
<1> QED BY <1>1, <1>2, ReleaseShape DEF Answer

\* Whoever awaited a submission gets its answer.
LEMMA ReplyShape ==
  ASSUME IInv, NEW q \in wire, NEW a \in Replies, Reply(q, a)
  PROVE  \/ q.by = None /\ UNCHANGED engine
         \/ /\ q.by \in Cycles /\ engine[q.by].pc = "wait" /\ engine[q.by].next.id = q.id
            /\ \E new \in Running :
                 /\ engine' = [engine EXCEPT ![q.by] = new] /\ new.pc = "answer" /\ new.answer = a
                 /\ new.todo = engine[q.by].todo /\ new.next = engine[q.by].next
<1>1. CASE q.by = None
  BY <1>1 DEF Reply
<1>2. CASE q.by # None
  <2>1. PICK c \in Cycles : c = q.by
    BY <1>2 DEF IInv, WireDiscipline
  <2>2. engine[c].pc = "wait" /\ engine[c] \in Running /\ engine[c].next.id = q.id
    BY <1>2, <2>1, AtWork DEF IInv, WireDiscipline
  <2>3. PICK new : new = [engine[c] EXCEPT !.pc = "answer", !.answer = a]
    OBVIOUS
  <2>4. /\ new \in Running /\ new.pc = "answer" /\ new.next = engine[c].next
        /\ new.todo = engine[c].todo /\ new.answer = a
    BY <2>2, <2>3 DEF Running
  <2>5. engine' = [engine EXCEPT ![c] = new]
    BY <1>2, <2>1, <2>3 DEF Reply, Step
  <2> QED BY <2>1, <2>2, <2>4, <2>5
<1> QED BY <1>1, <1>2

-----------------------------------------------------------------------------
(* The copies of a draft, and what each of them may still submit.           *)

Stored  == {store[i] : i \in {j \in Drafts : store[j] # None}}
Chained == {jobs[k].next : k \in DOMAIN jobs}
             \cup {jobs[k].base : k \in {m \in DOMAIN jobs : jobs[m].base # None}}
Listed  == UNION {Range(engine[c].todo) : c \in {b \in Cycles : engine[b].pc # "rest"}}
InHand  == {engine[c].next : c \in {b \in Cycles : Holding(b)}}
Kept    == Stored \cup Chained \cup Listed \cup InHand
Shown   == IF form = Closed THEN {} ELSE {form.draft}

\* What may still be submitted or is on its way: under an id, expecting an event.
Claims == {d \in Kept \cup Shown : d.sync # "synced"} \cup wire

Inserted(i) == \E k \in DOMAIN insp : insp[k] = i

\* The target has moved on for good from the event that is expected.
Spent(known) ==
  \/ known = None /\ insp # <<>>
  \/ \E n \in Nat : known = <<"reserve", n>> /\ n < res
  \/ \E n \in Nat : known = <<"inspection", n>> /\ n < Len(insp)

\* A submission that passed the comparison expects an event of its target.
Passed(q) ==
  IF q.row # None THEN \E n \in Nat : q.known = <<"reserve", n>> /\ n <= res
  ELSE q.known = None \/ \E n \in Nat : q.known = <<"inspection", n>> /\ n <= Len(insp)

Applied(c) == engine[c].pc = "answer" /\ engine[c].answer.status = "applied"

\* Where the cycles and the wire stand.
Stand ==
  /\ \A c \in Cycles : engine[c].pc \in {"wait", "answer"} => engine[c].next.sync = "syncing"
  /\ \A c \in Cycles : Applied(c) => Inserted(engine[c].next.id)
  /\ \A q \in wire : q.step = "write" => Passed(q)

\* All that may still be submitted under an id expects one and the same event:
\* the draft got it when it was made, and only an applied answer changes it.
Lineage ==
  /\ \A d \in Kept \cup wire : d.id \in used
  /\ \A i \in Drafts : Inserted(i) => i \in used
  /\ \A x, y \in Claims : x.id = y.id => x.known = y.known
  /\ \A x \in Claims : Inserted(x.id) => Spent(x.known)
  /\ \A d \in Kept \cup Shown : d.sync = "synced" => Inserted(d.id)
  /\ Stand

\* One draft, as far as its submission goes.
Kin(d, e) == e.id = d.id /\ e.known = d.known /\ (e.sync = "synced" <=> d.sync = "synced")

\* A step copies drafts, settles one, or shows a newborn one.
Follows ==
  /\ used \subseteq used'
  /\ \A d \in Kept' : \/ \E e \in Kept : Kin(e, d)
                      \/ \E e \in Shown : Kin(e, d) /\ d.id \in used'
                      \/ d.sync = "synced" /\ d.id \in used /\ Inserted(d.id)
  /\ \A d \in Shown' : \/ \E e \in Kept \cup Shown : Kin(e, d)
                       \/ d.sync # "synced" /\ d.id \notin used'
  /\ \A q \in wire' : \/ \E p \in wire : p.id = q.id /\ p.known = q.known
                      \/ \E e \in Kept : e.sync # "synced" /\ e.id = q.id /\ e.known = q.known

\* The history of the server only grows, by what was submitted.
Grows ==
  /\ res' >= res /\ Len(insp') >= Len(insp) /\ (insp # <<>> => insp' # <<>>)
  /\ \A i \in Drafts : Inserted(i) => Inserted(i)'
  /\ \A i \in Drafts : Inserted(i)' =>
       Inserted(i) \/ \E q \in wire : q.id = i /\ Spent(q.known)'

\* What a cycle carries, one draft at a time.
ByCycle ==
  /\ \A d : d \in Listed <=>
       \E b \in Cycles : engine[b].pc # "rest" /\ \E k \in DOMAIN engine[b].todo : d = engine[b].todo[k]
  /\ \A d : d \in InHand <=> \E b \in Cycles : Holding(b) /\ d = engine[b].next

LEMMA InCycle == ByCycle
<1>1. \A d : d \in Listed <=> \E b \in Cycles : engine[b].pc # "rest" /\ d \in Range(engine[b].todo)
  BY DEF Listed
<1>2. ASSUME NEW d
      PROVE  d \in Listed <=>
               \E b \in Cycles : engine[b].pc # "rest" /\ \E k \in DOMAIN engine[b].todo : d = engine[b].todo[k]
  <2>1. ASSUME NEW b
        PROVE  d \in Range(engine[b].todo) <=> \E k \in DOMAIN engine[b].todo : d = engine[b].todo[k]
    BY DEF Range
  <2> QED BY <1>1, <2>1
<1>3. \A d : d \in InHand <=> \E b \in Cycles : Holding(b) /\ d = engine[b].next
  BY DEF InHand
<1> QED BY <1>2, <1>3 DEF ByCycle

LEMMA DraftsOfCopies == IInv => \A d \in Kept \cup Shown : d \in Draft /\ d.id \in Drafts
<1> SUFFICES ASSUME IInv
             PROVE  \A d \in Kept \cup Shown : d \in Draft /\ d.id \in Drafts
  OBVIOUS
<1>1. \A d \in Stored : d \in Draft
  BY DEF Stored, IInv, TypeOK
<1>2. \A d \in Chained : d \in Draft
  BY DEF Chained, IInv, TypeOK, Job, Jobs
<1>3. \A d \in Listed \cup InHand : d \in Draft
  <2>1. \A c \in Cycles : engine[c].pc # "rest" => \A k \in DOMAIN engine[c].todo : engine[c].todo[k] \in Draft
    BY AtWork DEF Running
  <2>2. \A c \in Cycles : Holding(c) => engine[c].next \in Draft
    BY DEF IInv, LockDiscipline
  <2> QED BY <2>1, <2>2, InCycle DEF ByCycle
<1>4. \A d \in Shown : d \in Draft
  BY DEF Shown, IInv, TypeOK
<1> QED BY <1>1, <1>2, <1>3, <1>4 DEF Kept, Draft

LEMMA LineageFollows ==
  ASSUME IInv, IInv', Lineage, Follows, Grows
  PROVE  /\ \A d \in Kept' \cup wire' : d.id \in used'
         /\ \A i \in Drafts : Inserted(i)' => i \in used'
         /\ \A x, y \in Claims' : x.id = y.id => x.known = y.known
         /\ \A x \in Claims' : Inserted(x.id)' => Spent(x.known)'
         /\ \A d \in Kept' \cup Shown' : d.sync = "synced" => Inserted(d.id)'
<1>1. \A d \in Kept \cup Shown : d \in Draft /\ d.id \in Drafts
  BY DraftsOfCopies
<1>2. (\A d \in Kept \cup Shown : d \in Draft /\ d.id \in Drafts)'
  BY DraftsOfCopies, PTL
<1>3. \A d \in Kept' \cup wire' : d.id \in used'
  <2>1. \A d \in Kept \cup wire : d.id \in used
    BY DEF Lineage
  <2> QED BY <2>1 DEF Follows, Kin
<1>4. \A i \in Drafts : Inserted(i)' => i \in used'
  BY DEF Lineage, Follows, Grows
\* Each claim is an earlier one, or newborn.
<1>5. \A x \in Claims' : \/ \E y \in Claims : y.id = x.id /\ y.known = x.known
                         \/ x \in Shown' /\ x.id \notin used'
  BY DEF Claims, Follows, Kin
<1>6. \A x \in Claims' \ Shown' : x.id \in used'
  BY <1>3 DEF Claims
<1>7. \A x, y \in Shown' : x = y
  BY DEF Shown
<1>8. \A x, y \in Claims' : x.id = y.id => x.known = y.known
  <2> SUFFICES ASSUME NEW x \in Claims', NEW y \in Claims', x.id = y.id
               PROVE  x.known = y.known
    OBVIOUS
  <2>1. CASE x \in Shown' /\ x.id \notin used'
    BY <1>6, <1>7, <2>1
  <2>2. CASE y \in Shown' /\ y.id \notin used'
    BY <1>6, <1>7, <2>2
  <2>3. CASE ~(x \in Shown' /\ x.id \notin used') /\ ~(y \in Shown' /\ y.id \notin used')
    BY <1>5, <2>3 DEF Lineage
  <2> QED BY <2>1, <2>2, <2>3
<1>9. \A x \in Claims' : x.id \in Drafts
  BY <1>2 DEF Claims, IInv, TypeOK
<1>10. \A k : Spent(k) => Spent(k)'
  <2>1. res \in Nat /\ res' \in Nat /\ Len(insp) \in Nat /\ Len(insp') \in Nat
    BY DEF IInv, TypeOK
  <2> QED BY <2>1 DEF Spent, Grows
<1>11. \A x \in Claims' : Inserted(x.id)' => Spent(x.known)'
  <2> SUFFICES ASSUME NEW x \in Claims', Inserted(x.id)'
               PROVE  Spent(x.known)'
    OBVIOUS
  <2>1. x.id \in used'
    BY <1>4, <1>9
  <2>2. PICK y \in Claims : y.id = x.id /\ y.known = x.known
    BY <1>5, <2>1
  <2>3. CASE Inserted(x.id)
    BY <1>10, <2>2, <2>3 DEF Lineage
  <2>4. CASE ~Inserted(x.id)
    <3>1. PICK q \in wire : q.id = x.id /\ Spent(q.known)'
      BY <1>9, <2>4 DEF Grows
    <3>2. q \in Claims
      BY DEF Claims
    <3>3. q.known = x.known
      BY <2>2, <3>1, <3>2 DEF Lineage
    <3> QED BY <3>1, <3>3
  <2> QED BY <2>3, <2>4
<1>12. \A d \in Kept' \cup Shown' : d.sync = "synced" => Inserted(d.id)'
  <2>1. \A d \in Kept \cup Shown : d.sync = "synced" => Inserted(d.id)'
    BY <1>1 DEF Lineage, Grows
  <2> QED BY <1>2, <2>1 DEF Follows, Kin, Grows
<1> QED BY <1>3, <1>4, <1>8, <1>11, <1>12

LEMMA KinIsReflexive == \A d : Kin(d, d)
BY DEF Kin

\* A cycle moves on: what it carries is what was carried, or what it takes.
LEMMA CycleCarries ==
  ASSUME IInv, NEW c \in Cycles, NEW new, engine' = [engine EXCEPT ![c] = new]
  PROVE  /\ \A d \in Listed' : d \in Listed \/ (new.pc # "rest" /\ \E k \in DOMAIN new.todo : d = new.todo[k])
         /\ \A d \in InHand' :
              d \in InHand \/ (new.pc \in {"mark", "upload", "patch", "wait", "answer"} /\ d = new.next)
<1>1. \A b \in Cycles : engine'[b] = IF b = c THEN new ELSE engine[b]
  BY DEF IInv, TypeOK
<1>2. ByCycle /\ ByCycle'
  BY InCycle, PTL
<1>3. ASSUME NEW d \in Listed'
      PROVE  d \in Listed \/ (new.pc # "rest" /\ \E k \in DOMAIN new.todo : d = new.todo[k])
  <2>1. PICK b \in Cycles : engine'[b].pc # "rest" /\ \E k \in DOMAIN engine'[b].todo : d = engine'[b].todo[k]
    BY <1>2 DEF ByCycle
  <2>2. CASE b = c
    BY <1>1, <2>1, <2>2
  <2>3. CASE b # c
    BY <1>1, <1>2, <2>1, <2>3 DEF ByCycle
  <2> QED BY <2>2, <2>3
<1>4. ASSUME NEW d \in InHand'
      PROVE  d \in InHand \/ (new.pc \in {"mark", "upload", "patch", "wait", "answer"} /\ d = new.next)
  <2>1. PICK b \in Cycles : Holding(b)' /\ d = engine'[b].next
    BY <1>2 DEF ByCycle
  <2>2. CASE b = c
    BY <1>1, <2>1, <2>2 DEF Holding
  <2>3. CASE b # c
    <3>1. Holding(b) /\ d = engine[b].next
      BY <1>1, <2>1, <2>3 DEF Holding
    <3> QED BY <1>2, <3>1 DEF ByCycle
  <2> QED BY <2>2, <2>3
<1> QED BY <1>3, <1>4

\* Where the links are once one of them has gone.
LEMMA ChainIndex ==
  ASSUME IInv, NEW i \in DOMAIN jobs, jobs' = RemoveAt(jobs, i)
  PROVE  /\ \A k \in DOMAIN jobs' : \E s \in DOMAIN jobs \ {i} :
              jobs'[k] = jobs[s] /\ s = IF k < i THEN k ELSE k + 1
         /\ \A m \in DOMAIN jobs \ {i} : \E t \in DOMAIN jobs' :
              jobs'[t] = jobs[m] /\ t = IF m < i THEN m ELSE m - 1
<1>1. jobs \in Seq(Job)
  BY DEF IInv, TypeOK
<1>2. PICK n \in Nat : n = Len(jobs) /\ DOMAIN jobs = 1 .. n
  BY <1>1
<1>3. i \in 1 .. n
  BY <1>2
<1>4. PICK a, b : a = SubSeq(jobs, 1, i - 1) /\ b = SubSeq(jobs, i + 1, n)
  OBVIOUS
<1>5. a \in Seq(Job) /\ Len(a) = i - 1 /\ \A k \in 1 .. i - 1 : a[k] = jobs[k]
  BY <1>1, <1>2, <1>3, <1>4
<1>6. b \in Seq(Job) /\ Len(b) = n - i /\ \A k \in 1 .. n - i : b[k] = jobs[i + k]
  BY <1>1, <1>2, <1>3, <1>4
<1>7. jobs' = a \o b
  BY <1>2, <1>4 DEF RemoveAt
<1>8. /\ DOMAIN jobs' = 1 .. n - 1
      /\ \A k \in 1 .. n - 1 : jobs'[k] = IF k <= i - 1 THEN a[k] ELSE b[k - (i - 1)]
  BY <1>3, <1>5, <1>6, <1>7
<1>9. ASSUME NEW k \in 1 .. n - 1
      PROVE  jobs'[k] = IF k < i THEN jobs[k] ELSE jobs[k + 1]
  <2>1. CASE k < i
    BY <1>3, <1>5, <1>8, <2>1
  <2>2. CASE ~(k < i)
    <3>1. k - (i - 1) \in 1 .. n - i /\ i + (k - (i - 1)) = k + 1 /\ ~(k <= i - 1)
      BY <1>3, <2>2
    <3>2. jobs'[k] = b[k - (i - 1)]
      BY <1>8, <3>1
    <3> QED BY <1>6, <2>2, <3>1, <3>2
  <2> QED BY <2>1, <2>2
<1> QED BY <1>2, <1>3, <1>8, <1>9

\* Taking a link out of the chain.
LEMMA ChainShrinks ==
  ASSUME IInv, NEW i \in DOMAIN jobs, jobs' = RemoveAt(jobs, i)
  PROVE  /\ \A k \in DOMAIN jobs' : \E m \in DOMAIN jobs : jobs'[k] = jobs[m]
         /\ Chained' \subseteq Chained
BY ChainIndex DEF Chained

LEMMA FormFollows ==
  ASSUME IInv, Lineage, Form
  PROVE  Follows
<1>1. UNCHANGED cycle /\ UNCHANGED server
  BY DEF Form, OpenForm, CloseForm, RetryPersist, Discard, Fill, AddPhoto, RemovePhoto, Persist
<1>2. Listed' = Listed /\ InHand' = InHand /\ wire' = wire
  BY <1>1 DEF cycle, Listed, InHand, Holding
<1>3. CASE OpenForm
  <2>1. PICK i \in Drafts :
          /\ store[i] # None \/ NewId(i)
          /\ form' = [mount |-> left["mounts"], error |-> FALSE,
                      draft |-> IF store[i] # None THEN store[i] ELSE Fresh(i, row)]
    BY <1>3 DEF OpenForm
  <2>2. Kept' = Kept /\ used' = used
    BY <1>2, <1>3 DEF OpenForm, Kept, Stored, Chained
  <2>3. form'.draft = IF store[i] # None THEN store[i] ELSE Fresh(i, row)
    BY <2>1
  <2>4. \A d \in Shown' : d = form'.draft
    BY DEF Shown
  <2>5. store[i] # None => store[i] \in Kept
    BY DEF Kept, Stored
  <2>6. Fresh(i, row).id = i /\ Fresh(i, row).sync = "pending"
    BY DEF Fresh
  <2>7. NewId(i) => i \notin used
    BY DEF NewId
  <2> QED BY <1>2, <2>1, <2>2, <2>3, <2>4, <2>5, <2>6, <2>7, KinIsReflexive DEF Follows
<1>4. CASE CloseForm
  <2>1. Kept' = Kept /\ used' = used /\ Shown' = {}
    BY <1>2, <1>4 DEF CloseForm, Kept, Stored, Chained, Shown
  <2> QED BY <1>2, <2>1, KinIsReflexive DEF Follows
<1>5. CASE RetryPersist
  <2>1. /\ form # Closed /\ UNCHANGED <<store, form>> /\ used' = used \cup {form.draft.id}
        /\ jobs' = Append(jobs, [mount |-> form.mount, kind |-> "all", item |-> None,
                                 next |-> form.draft, base |-> None])
    BY <1>5 DEF RetryPersist
  <2>2. Chained' \subseteq Chained \cup {form.draft}
    BY <2>1 DEF Chained, IInv, TypeOK
  <2>3. Kept' \subseteq Kept \cup {form.draft} /\ Shown' = Shown /\ form.draft \in Shown
    BY <1>2, <2>1, <2>2 DEF Kept, Stored, Shown
  <2> QED BY <1>2, <2>1, <2>3, KinIsReflexive DEF Follows
<1>6. CASE Discard
  <2>1. PICK i \in Drafts : NewId(i) /\ form' = [form EXCEPT !.draft = Fresh(i, None)]
    BY <1>6 DEF Discard
  <2>2. /\ form \in [mount : Nat \ {0}, draft : Draft, error : BOOLEAN]
        /\ store' = [store EXCEPT ![form.draft.id] = None] /\ jobs' = jobs /\ used' = used
    BY <1>6 DEF Discard, IInv, TypeOK
  <2>3. Stored' \subseteq Stored
    BY <2>2 DEF Stored, IInv, TypeOK
  <2>4. Kept' \subseteq Kept
    BY <1>2, <2>2, <2>3 DEF Kept, Chained
  <2>5. \A d \in Shown' : d = Fresh(i, None)
    BY <2>1, <2>2 DEF Shown
  <2>6. Fresh(i, None).id = i /\ Fresh(i, None).sync = "pending" /\ i \notin used
    BY <2>1 DEF Fresh, NewId
  <2> QED BY <1>2, <2>2, <2>4, <2>5, <2>6, KinIsReflexive DEF Follows
<1>7. ASSUME NEW kind, NEW item, kind = "edit" => item \in Edits, form # Closed, Persist(kind, item)
      PROVE  Follows
  <2> DEFINE next == Mutate(kind, item, form.draft, form.draft)
  <2>1. form \in [mount : Nat \ {0}, draft : Draft, error : BOOLEAN]
    BY <1>7 DEF IInv, TypeOK
  <2>2. Kin(form.draft, next) /\ next.id = form.draft.id
    BY <1>7, <2>1 DEF Kin, Mutate, Draft
  <2>3. /\ form' = [form EXCEPT !.draft = next] /\ used' = used \cup {next.id}
        /\ jobs' = IF form.error THEN jobs
                   ELSE Append(jobs, [mount |-> form.mount, kind |-> kind, item |-> item,
                                      next |-> next, base |-> None])
        /\ UNCHANGED store
    BY <1>7 DEF Persist
  <2> HIDE DEF next
  <2>4. Chained' \subseteq Chained \cup {next}
    BY <2>3 DEF Chained, IInv, TypeOK
  <2>5. Kept' \subseteq Kept \cup {next} /\ form.draft \in Shown /\ \A d \in Shown' : d = next
    BY <1>2, <1>7, <2>1, <2>3, <2>4 DEF Kept, Stored, Shown
  <2> QED BY <1>2, <2>2, <2>3, <2>5, KinIsReflexive DEF Follows
<1>8. CASE \/ \E e \in Edits : Fill(e)
           \/ \E p \in Photos : AddPhoto(p) \/ RemovePhoto(p)
  BY <1>7, <1>8 DEF Fill, AddPhoto, RemovePhoto
<1> QED BY <1>3, <1>4, <1>5, <1>6, <1>8 DEF Form

LEMMA ChainFollows ==
  ASSUME IInv, Lineage, Chain
  PROVE  Follows
<1> PICK i \in DOMAIN jobs : ReadJob(i) \/ WriteJob(i) \/ FailJob(i)
  BY DEF Chain
<1>1. UNCHANGED <<used, cycle, server>>
  BY DEF ReadJob, WriteJob, FailJob
<1>2. Listed' = Listed /\ InHand' = InHand /\ wire' = wire /\ used' = used
  BY <1>1 DEF cycle, Listed, InHand, Holding
<1>3. jobs[i] \in Job /\ jobs[i].next \in Draft /\ jobs[i].next \in Chained
  BY DEF IInv, TypeOK, Job, Jobs, Draft, Chained
<1>4. CASE ReadJob(i)
  <2>1. PICK b : b = IF store[jobs[i].next.id] # None THEN store[jobs[i].next.id] ELSE jobs[i].next
    OBVIOUS
  <2>2. jobs' = [jobs EXCEPT ![i] = [jobs[i] EXCEPT !.base = b]] /\ UNCHANGED <<store, form>>
    BY <1>4, <2>1 DEF ReadJob
  <2>3. b \in Stored \cup Chained
    BY <1>3, <2>1 DEF Stored, Draft
  <2>4. Chained' \subseteq Chained \cup {b}
    BY <1>3, <2>2 DEF Chained, IInv, TypeOK, Job, Jobs
  <2>5. Kept' \subseteq Kept /\ Shown' = Shown
    BY <1>2, <2>2, <2>3, <2>4 DEF Kept, Stored, Shown
  <2> QED BY <1>2, <2>5, KinIsReflexive DEF Follows
<1>5. CASE WriteJob(i)
  <2> DEFINE written == Mutate(jobs[i].kind, jobs[i].item, jobs[i].next, jobs[i].base)
  <2>1. jobs[i].base \in Draft /\ jobs[i].base \in Chained
    BY <1>3, <1>5 DEF WriteJob, Job, Jobs, Chained
  <2>2. Kin(jobs[i].base, written) /\ written \in Draft
    BY <1>3, <2>1, MutateType DEF Kin, Mutate, Draft, Job, Jobs
  <2>3. /\ store' = [store EXCEPT ![written.id] = written]
        /\ form' = IF form.mount = jobs[i].mount /\ form.draft = jobs[i].next
                   THEN [form EXCEPT !.draft = written, !.error = form.error /\ jobs[i].kind # "all"]
                   ELSE form
        /\ jobs' = RemoveAt(jobs, i)
    BY <1>5 DEF WriteJob
  <2> HIDE DEF written
  <2>4. Stored' \subseteq Stored \cup {written}
    BY <2>2, <2>3 DEF Stored, IInv, TypeOK, Draft
  <2>5. Chained' \subseteq Chained
    BY <2>3, ChainShrinks
  <2>6. \A d \in Shown' : d \in Shown \/ d = written
    <3>1. jobs[i].mount # 0
      BY <1>3 DEF Job, Jobs
    <3>2. form.mount = jobs[i].mount => form \in [mount : Nat \ {0}, draft : Draft, error : BOOLEAN]
      BY <3>1 DEF IInv, TypeOK, Closed
    <3> QED BY <2>3, <3>2 DEF Shown
  <2>7. Kept' \subseteq Kept \cup {written} /\ jobs[i].base \in Kept
    BY <1>2, <2>1, <2>4, <2>5 DEF Kept
  <2> QED BY <1>2, <2>2, <2>6, <2>7, KinIsReflexive DEF Follows
<1>6. CASE FailJob(i)
  <2>1. jobs' = RemoveAt(jobs, i) /\ UNCHANGED store
        /\ form' = IF form.mount = jobs[i].mount THEN [form EXCEPT !.error = TRUE] ELSE form
    BY <1>6 DEF FailJob
  <2>2. Kept' \subseteq Kept
    BY <1>2, <2>1, ChainShrinks DEF Kept, Stored
  <2>3. Shown' \subseteq Shown
    <3>1. jobs[i].mount # 0
      BY <1>3 DEF Job, Jobs
    <3>2. form.mount = jobs[i].mount =>
            form # Closed /\ form \in [mount : Nat \ {0}, draft : Draft, error : BOOLEAN]
      BY <3>1 DEF IInv, TypeOK, Closed
    <3>3. form'.draft = form.draft /\ (form = Closed => form' = Closed)
      BY <2>1, <3>2
    <3> QED BY <3>3 DEF Shown
  <2> QED BY <1>2, <2>2, <2>3, KinIsReflexive DEF Follows
<1> QED BY <1>4, <1>5, <1>6

\* What a cycle may make of the drafts.
Descends(e) ==
  \/ \E d \in Kept : Kin(d, e)
  \/ e.sync = "synced" /\ e.id \in used /\ Inserted(e.id)

LEMMA CycleStepFollows ==
  ASSUME IInv, NEW c \in Cycles, NEW new, engine' = [engine EXCEPT ![c] = new],
         UNCHANGED <<form, jobs, used>>,
         UNCHANGED store \/ (\E e \in Draft : Put(e) /\ Descends(e)),
         new.pc # "rest" => \A k \in DOMAIN new.todo : new.todo[k] \in Kept,
         new.pc \in {"mark", "upload", "patch", "wait", "answer"} => Descends(new.next),
         \A q \in wire' : \/ \E p \in wire : p.id = q.id /\ p.known = q.known
                          \/ \E e \in Kept : e.sync # "synced" /\ e.id = q.id /\ e.known = q.known
  PROVE  Follows
<1>1. Chained' = Chained /\ Shown' = Shown
  BY DEF Chained, Shown
<1>2. \A d \in Kept : Descends(d)
  BY KinIsReflexive DEF Descends
<1>3. \A d \in Stored' : Descends(d)
  <2>1. CASE UNCHANGED store
    BY <1>2, <2>1 DEF Stored, Kept
  <2>2. CASE \E e \in Draft : Put(e) /\ Descends(e)
    <3>1. PICK e \in Draft : Put(e) /\ Descends(e)
      BY <2>2
    <3>2. Stored' \subseteq Stored \cup {e}
      BY <3>1 DEF Put, Stored, IInv, TypeOK, Draft
    <3> QED BY <1>2, <3>1, <3>2 DEF Kept
  <2> QED BY <2>1, <2>2
<1>4. \A d \in Listed' : d \in Kept
  <2>1. \A d \in Listed' : d \in Listed \/ (new.pc # "rest" /\ \E k \in DOMAIN new.todo : d = new.todo[k])
    BY CycleCarries
  <2>2. \A d \in Listed : d \in Kept
    BY DEF Kept
  <2> QED BY <2>1, <2>2
<1>5. \A d \in InHand' : Descends(d)
  <2>1. \A d \in InHand' :
          d \in InHand \/ (new.pc \in {"mark", "upload", "patch", "wait", "answer"} /\ d = new.next)
    BY CycleCarries
  <2> QED BY <1>2, <2>1 DEF Kept
<1>6. \A d \in Kept' : Descends(d)
  BY <1>1, <1>2, <1>3, <1>4, <1>5 DEF Kept
<1> QED BY <1>1, <1>6, KinIsReflexive DEF Follows, Descends

\* What a cycle lists or has in hand is a copy.
LEMMA OfCycle ==
  ASSUME IInv, NEW c \in Cycles
  PROVE  /\ engine[c].pc # "rest" => \A k \in DOMAIN engine[c].todo : engine[c].todo[k] \in Kept
         /\ Holding(c) => engine[c].next \in Kept
BY InCycle DEF ByCycle, Kept

LEMMA AbandonsKeep ==
  ASSUME IInv, NEW mine \in SUBSET wire, Abandon(mine)
  PROVE  /\ \A q \in wire' : \E p \in wire : p.id = q.id /\ p.known = q.known /\ p.row = q.row /\ p.step = q.step
         /\ \A q, r \in wire' : q # r /\ q.step = "write" /\ r.step = "write" =>
              \E p, s \in wire : p # s /\ p.step = "write" /\ s.step = "write"
<1>1. PICK gone \in SUBSET mine : wire' = (wire \ mine) \cup {[q EXCEPT !.by = None] : q \in gone}
  BY DEF Abandon
<1>2. \A q \in gone : LET r == [q EXCEPT !.by = None] IN
        r.id = q.id /\ r.known = q.known /\ r.row = q.row /\ r.step = q.step
  BY DEF IInv, TypeOK
<1>3. \A q \in wire' : \/ q \in wire \ mine
                       \/ \E p \in gone : q = [p EXCEPT !.by = None]
  BY <1>1
<1>4. \A q \in wire' : \E p \in wire : /\ p.id = q.id /\ p.known = q.known /\ p.row = q.row /\ p.step = q.step
                                     /\ q = IF p \in mine THEN [p EXCEPT !.by = None] ELSE p
  BY <1>2, <1>3
<1> QED BY <1>4

LEMMA CycleFollows ==
  ASSUME IInv, Lineage, NEW c \in Cycles, Cycle(c)
  PROVE  Follows
<1>1. CASE StartCycle(c)
  <2>1. PICK new \in Running :
          /\ engine' = [engine EXCEPT ![c] = new] /\ new.pc = "next"
          /\ \A k \in DOMAIN new.todo : \E i \in Drafts : store[i] # None /\ new.todo[k] = store[i]
    BY <1>1, StartShape
  <2>2. \A k \in DOMAIN new.todo : new.todo[k] \in Kept
    BY <2>1 DEF Kept, Stored
  <2>3. UNCHANGED <<form, jobs, used, store, wire>>
    BY <1>1 DEF StartCycle, device
  <2> QED BY <2>1, <2>2, <2>3, CycleStepFollows
<1>2. CASE NextDraft(c)
  <2>1. UNCHANGED <<form, jobs, used, store, wire>>
    BY <1>2 DEF NextDraft, device
  <2>2. CASE engine' = [engine EXCEPT ![c] = Rest]
    <3>1. Rest.pc = "rest"
      BY DEF Rest
    <3> QED BY <2>1, <2>2, <3>1, CycleStepFollows
  <2>3. CASE engine' # [engine EXCEPT ![c] = Rest]
    <3>1. PICK new \in Running, d \in Draft, now \in Draft :
              /\ engine[c].todo # <<>> /\ d = Head(engine[c].todo) /\ new.todo = Tail(engine[c].todo)
              /\ engine' = [engine EXCEPT ![c] = new]
              /\ now = IF store[d.id] # None THEN store[d.id] ELSE d
              /\ new.pc = "next" \/ (new.pc \in {"mark", "upload"} /\ new.next = now)
      BY <1>2, <2>3, NextDraftShape
    <3>2. engine[c].pc # "rest" /\ engine[c].todo \in Seq(Draft)
      BY <1>2, AtWork DEF NextDraft, Running
    <3>3. \A k \in DOMAIN engine[c].todo : engine[c].todo[k] \in Kept
      BY <3>2, OfCycle
    <3>4. d \in Kept /\ \A k \in DOMAIN new.todo : new.todo[k] \in Kept
      BY <3>1, <3>2, <3>3
    <3>5. now \in Kept
      BY <3>1, <3>4 DEF Kept, Stored, Draft
    <3>6. Descends(now)
      BY <3>5, KinIsReflexive DEF Descends
    <3> QED BY <2>1, <3>1, <3>4, <3>6, CycleStepFollows
  <2> QED BY <2>2, <2>3
<1>3. CASE Mark(c) \/ (\E p \in Photos : Upload(c, p)) \/ MakeEvidence(c)
  <2>1. PICK new \in Running :
           /\ engine' = [engine EXCEPT ![c] = new]
           /\ engine[c].pc \in {"mark", "upload"} /\ new.pc \in {"upload", "patch"}
           /\ new.todo = engine[c].todo
           /\ new.next \in Draft /\ Alike(new.next, engine[c].next)
           /\ UNCHANGED store \/ Put(new.next)
           /\ UNCHANGED <<form, jobs, used, taken, inflight, row, wire, insp, res, open>>
    BY <1>3, HandShape
  <2>2. engine[c].next \in Kept /\ \A k \in DOMAIN engine[c].todo : engine[c].todo[k] \in Kept
    BY <2>1, OfCycle DEF Holding
  <2>3. Descends(new.next)
    BY <2>1, <2>2 DEF Descends, Kin, Alike
  <2> QED BY <2>1, <2>2, <2>3, CycleStepFollows
<1>4. CASE Patch(c)
  <2>1. Holding(c) /\ engine[c].pc = "patch" /\ UNCHANGED <<form, jobs, used>>
    BY <1>4, PatchShape
  <2>2. /\ engine[c].next \in Kept /\ engine[c].next \in Draft
        /\ \A k \in DOMAIN engine[c].todo : engine[c].todo[k] \in Kept
    BY <2>1, OfCycle, AtWork
  <2>3. ASSUME NEW new \in Running, NEW q,
               engine' = [engine EXCEPT ![c] = new], new.pc = "wait", new.todo = engine[c].todo,
               Waiting(engine[c].next), new.next = [engine[c].next EXCEPT !.sync = "syncing"],
               Put(new.next), q.id = engine[c].next.id, q.known = engine[c].next.known,
               wire' = wire \cup {q}
        PROVE  Follows
    <3>1. engine[c].next.sync # "synced"
      BY <2>3 DEF Waiting
    <3>2. new.next \in Draft /\ Kin(engine[c].next, new.next)
      BY <2>2, <2>3, <3>1 DEF Kin, Draft, SyncStatus
    <3>3. Descends(new.next)
      BY <2>2, <3>2 DEF Descends
    <3> QED BY <2>1, <2>2, <2>3, <3>1, <3>2, <3>3, CycleStepFollows
  <2>4. ASSUME NEW new \in Running,
               engine' = [engine EXCEPT ![c] = new], new.pc = "next", new.todo = engine[c].todo,
               UNCHANGED store \/ Put(engine[c].next), UNCHANGED wire
        PROVE  Follows
    <3>1. Descends(engine[c].next)
      BY <2>2, KinIsReflexive DEF Descends
    <3> QED BY <2>1, <2>2, <2>4, <3>1, CycleStepFollows
  <2> QED BY <1>4, <2>3, <2>4, PatchShape
<1>5. CASE Lose(c)
  <2>1. PICK new \in Running :
              /\ engine' = [engine EXCEPT ![c] = new] /\ new.pc = "answer"
              /\ new.todo = engine[c].todo /\ new.next = engine[c].next
    BY <1>5, LoseShape
  <2>2. /\ engine[c].pc \in {"wait", "answer"} /\ Holding(c) /\ UNCHANGED <<form, jobs, used, store>>
        /\ Abandon({q \in wire : q.by = c})
    BY <1>5, LoseShape DEF device
  <2>3. engine[c].next \in Kept /\ \A k \in DOMAIN engine[c].todo : engine[c].todo[k] \in Kept
    BY <2>2, OfCycle DEF Holding
  <2>4. Descends(engine[c].next)
    BY <2>3, KinIsReflexive DEF Descends
  <2>5. \A q \in wire' : \E p \in wire : p.id = q.id /\ p.known = q.known
    BY <2>2, AbandonsKeep
  <2> QED BY <2>1, <2>2, <2>3, <2>4, <2>5, CycleStepFollows
<1>6. CASE Answer(c)
  <2>1. /\ engine[c].pc = "answer" /\ Holding(c) /\ engine[c].answer \in Replies
        /\ engine[c].next \in Draft /\ Put(Settled(engine[c].next, engine[c].answer))
        /\ UNCHANGED <<form, jobs, used, wire>>
    BY <1>6, AnswerShape
  <2>2. PICK new \in Running :
              engine' = [engine EXCEPT ![c] = new] /\ new.pc = "next" /\ new.todo = engine[c].todo
    BY <1>6, AnswerShape
  <2>3. engine[c].next \in Kept /\ \A k \in DOMAIN engine[c].todo : engine[c].todo[k] \in Kept
    BY <2>1, OfCycle
  <2>4. PICK e : e = Settled(engine[c].next, engine[c].answer)
    OBVIOUS
  <2>5. e \in Draft /\ e.id = engine[c].next.id
    BY <2>1, <2>4, SettledType
  <2>6. Descends(e)
    <3>1. CASE engine[c].answer.status = "applied"
      <4>1. e.sync = "synced"
        BY <2>1, <2>4, <3>1 DEF Settled, Draft
      <4>2. Inserted(e.id) /\ e.id \in used
        BY <2>1, <2>3, <2>5, <3>1 DEF Lineage, Stand, Applied
      <4> QED BY <4>1, <4>2 DEF Descends
    <3>2. CASE engine[c].answer.status # "applied"
      <4>1. engine[c].next.sync = "syncing"
        BY <2>1 DEF Lineage, Stand
      <4>2. Kin(engine[c].next, e)
        BY <2>1, <2>4, <2>5, <3>2, <4>1 DEF Kin, Settled, Draft
      <4> QED BY <2>3, <4>2 DEF Descends
    <3> QED BY <3>1, <3>2
  <2> QED BY <2>1, <2>2, <2>3, <2>4, <2>5, <2>6, CycleStepFollows
<1> QED BY <1>1, <1>2, <1>3, <1>4, <1>5, <1>6 DEF Cycle

\* What the server, the others and the closing of the application leave.
LEMMA OthersFollow ==
  ASSUME IInv, Lineage, OtherInspects \/ Correction
  PROVE  Follows
<1>1. UNCHANGED <<store, form, jobs, used, engine, wire>>
  BY DEF OtherInspects, Correction, device, cycle
<1>2. Kept' = Kept /\ Shown' = Shown
  BY <1>1 DEF Kept, Stored, Chained, Listed, InHand, Holding, Shown
<1> QED BY <1>1, <1>2, KinIsReflexive DEF Follows

LEMMA RestartFollows ==
  ASSUME IInv, Lineage, Restart
  PROVE  Follows
<1>1. /\ form' = Closed /\ jobs' = <<>> /\ engine' = [c \in Cycles |-> Rest]
      /\ UNCHANGED <<store, used>> /\ Abandon(wire)
  BY DEF Restart
<1>2. \A c \in Cycles : engine'[c].pc = "rest"
  BY <1>1 DEF Rest
<1>3. Listed' = {} /\ InHand' = {}
  BY <1>2 DEF Listed, InHand, Holding
<1>4. Stored' = Stored /\ Chained' = {} /\ Shown' = {}
  BY <1>1 DEF Stored, Chained, Shown
<1>5. Kept' \subseteq Kept
  BY <1>3, <1>4 DEF Kept
<1>6. \A q \in wire' : \E p \in wire : p.id = q.id /\ p.known = q.known
  BY <1>1, AbandonsKeep
<1> QED BY <1>1, <1>4, <1>5, <1>6, KinIsReflexive DEF Follows

LEMMA ServerReplies ==
  ASSUME IInv, NEW q \in wire, Server(q)
  PROVE  UNCHANGED engine \/ \E a \in Replies : Reply(q, a)
<1>1. [status |-> "conflict"] \in Replies
  BY DEF Replies
<1>2. ASSUME NEW a, a = [status |-> "applied",
                         latest |-> IF q.row # None THEN <<"reserve", res + 2>>
                                    ELSE <<"inspection", Len(insp) + 1>>]
      PROVE  a \in Replies
  <2>1. res \in Nat /\ Len(insp) \in Nat
    BY DEF IInv, TypeOK
  <2>2. a.latest \in Events
    BY <1>2, <2>1 DEF Events
  <2> QED BY <1>2, <2>2 DEF Replies
<1> QED BY <1>1, <1>2 DEF Server, Check, Write

LEMMA ServerFollows ==
  ASSUME IInv, Lineage, NEW q \in wire, Server(q)
  PROVE  Follows
<1>1. UNCHANGED <<store, form, jobs, used>>
  BY DEF Server, Check, Write, device
<1>2. UNCHANGED engine \/ \E a \in Replies : Reply(q, a)
  BY ServerReplies
<1>3. \A p \in wire' : \E o \in wire : o.id = p.id /\ o.known = p.known
  <2>1. q \in [id : Drafts, known : Events, row : Events, by : Cycles \cup {None}, step : {"check", "write"}]
    BY DEF IInv, TypeOK
  <2>2. [q EXCEPT !.step = "write"].id = q.id /\ [q EXCEPT !.step = "write"].known = q.known
    BY <2>1
  <2>3. wire' \subseteq wire \cup {[q EXCEPT !.step = "write"]}
    BY DEF Server, Check, Write
  <2> QED BY <2>2, <2>3
<1>4. CASE UNCHANGED engine
  <2>1. Kept' = Kept /\ Shown' = Shown
    BY <1>1, <1>4 DEF Kept, Stored, Chained, Listed, InHand, Holding, Shown
  <2> QED BY <1>1, <1>3, <2>1, KinIsReflexive DEF Follows
<1>5. ASSUME NEW a \in Replies, Reply(q, a), engine' # engine
      PROVE  Follows
  <2>1. PICK c \in Cycles : c = q.by /\ engine[c].pc = "wait" /\ engine[c].next.id = q.id
    BY <1>5, ReplyShape
  <2>2. PICK new \in Running :
          /\ engine' = [engine EXCEPT ![c] = new] /\ new.pc = "answer" /\ new.answer = a
          /\ new.todo = engine[c].todo /\ new.next = engine[c].next
    BY <1>5, <2>1, ReplyShape
  <2>3. engine[c].next \in Kept /\ \A k \in DOMAIN engine[c].todo : engine[c].todo[k] \in Kept
    BY <2>1, OfCycle DEF Holding
  <2>4. Descends(engine[c].next)
    BY <2>3, KinIsReflexive DEF Descends
  <2> QED BY <1>1, <1>3, <2>1, <2>2, <2>3, <2>4, CycleStepFollows
<1> QED BY <1>2, <1>4, <1>5

LEMMA InsertGrows ==
  ASSUME IInv, NEW id \in Drafts \cup {None}, NEW r, Insert(id, r)
  PROVE  /\ Len(insp') = Len(insp) + 1 /\ insp' # <<>> /\ res' >= res
         /\ r # None => res' = res + 2
         /\ \A i : Inserted(i)' <=> Inserted(i) \/ i = id
         /\ DOMAIN insp' = DOMAIN insp \cup {Len(insp) + 1}
         /\ \A k \in DOMAIN insp : insp'[k] = insp[k]
         /\ insp'[Len(insp) + 1] = id
<1>1. insp \in Seq(Drafts \cup {None}) /\ res \in Nat
  BY DEF IInv, TypeOK
<1>2. insp' = Append(insp, id)
  BY DEF Insert
<1>3. /\ DOMAIN insp' = DOMAIN insp \cup {Len(insp) + 1}
      /\ \A k \in DOMAIN insp : insp'[k] = insp[k]
      /\ insp'[Len(insp) + 1] = id
  BY <1>1, <1>2
<1>4. Len(insp') = Len(insp) + 1 /\ insp' # <<>>
  BY <1>1, <1>2
<1>5. res' >= res /\ (r # None => res' = res + 2)
  BY <1>1 DEF Insert
<1>6. \A i : Inserted(i)' <=> Inserted(i) \/ i = id
  BY <1>3 DEF Inserted
<1> QED BY <1>3, <1>4, <1>5, <1>6

LEMMA StillServerGrows ==
  ASSUME IInv, UNCHANGED insp, res' >= res
  PROVE  Grows
<1>1. Len(insp') >= Len(insp)
  BY DEF IInv, TypeOK
<1> QED BY <1>1 DEF Grows, Inserted

LEMMA WriteGrows ==
  ASSUME IInv, Lineage, NEW q \in wire, Write(q)
  PROVE  Grows
<1>1. q.id \in Drafts /\ q.known \in Events /\ Insert(q.id, q.row) /\ q.step = "write"
  BY DEF IInv, TypeOK, Write
<1>2. /\ Len(insp') = Len(insp) + 1 /\ insp' # <<>> /\ res' >= res /\ (q.row # None => res' = res + 2)
      /\ \A i : Inserted(i)' <=> Inserted(i) \/ i = q.id
  BY <1>1, InsertGrows
<1>3. Passed(q)
  BY <1>1 DEF Lineage, Stand
<1>4. res \in Nat /\ Len(insp) \in Nat
  BY DEF IInv, TypeOK
<1>5. Spent(q.known)'
  BY <1>2, <1>3, <1>4 DEF Spent, Passed
<1> QED BY <1>2, <1>4, <1>5 DEF Grows

LEMMA NextGrows ==
  ASSUME IInv, Lineage, [Next]_vars
  PROVE  Grows
<1>1. CASE Form \/ Chain \/ Restart \/ (\E c \in Cycles : Cycle(c)) \/ UNCHANGED vars
  <2>1. UNCHANGED <<insp, res>>
    <3>1. CASE Form \/ Chain \/ Restart \/ UNCHANGED vars
      BY <3>1 DEF Form, OpenForm, CloseForm, RetryPersist, Discard, Fill, AddPhoto, RemovePhoto, Persist,
                  Chain, ReadJob, WriteJob, FailJob, Restart, server, vars
    <3>2. CASE \E c \in Cycles : Cycle(c)
      BY <3>2 DEF Cycle, StartCycle, NextDraft, Mark, Upload, MakeEvidence, Patch, Lose, Answer, server
    <3> QED BY <1>1, <3>1, <3>2
  <2> QED BY <2>1, StillServerGrows DEF IInv, TypeOK
<1>2. CASE Correction
  BY <1>2, StillServerGrows DEF Correction, IInv, TypeOK
<1>3. CASE OtherInspects
  <2>1. Insert(None, MissionRow)
    BY <1>3 DEF OtherInspects
  <2>2. /\ Len(insp') = Len(insp) + 1 /\ insp' # <<>> /\ res' >= res
        /\ \A i : Inserted(i)' <=> Inserted(i) \/ i = None
    BY <2>1, InsertGrows
  <2>3. None \notin Drafts /\ Len(insp) \in Nat
    BY NoneIsNothing DEF IInv, TypeOK
  <2> QED BY <2>2, <2>3 DEF Grows
<1>4. ASSUME NEW q \in wire, Server(q) PROVE Grows
  <2>1. CASE Check(q)
    BY <2>1, StillServerGrows DEF Check, server, IInv, TypeOK
  <2>2. CASE Write(q)
    BY <2>2, WriteGrows
  <2> QED BY <1>4, <2>1, <2>2 DEF Server
<1> QED BY <1>1, <1>2, <1>3, <1>4 DEF Next

LEMMA PassedStays ==
  ASSUME IInv, IInv', Grows, NEW q, Passed(q)
  PROVE  Passed(q)'
<1>1. res \in Nat /\ Len(insp) \in Nat /\ res' \in Nat /\ Len(insp') \in Nat
  BY DEF IInv, TypeOK
<1> QED BY <1>1 DEF Passed, Grows

\* A cycle moves on.
LEMMA StandKeeps ==
  ASSUME IInv, IInv', Stand, Grows, NEW c \in Cycles, NEW new,
         engine' = [engine EXCEPT ![c] = new],
         new.pc \in {"wait", "answer"} => new.next.sync = "syncing",
         new.pc = "answer" /\ new.answer.status = "applied" => Inserted(new.next.id)',
         \A q \in wire' : q.step = "write" => \E p \in wire : p.step = "write" /\ p.row = q.row /\ p.known = q.known
  PROVE  Stand'
<1>1. \A b \in Cycles : engine'[b] = IF b = c THEN new ELSE engine[b]
  BY DEF IInv, TypeOK
<1>2. \A b \in Cycles : engine'[b].pc \in {"wait", "answer"} => engine'[b].next.sync = "syncing"
  BY <1>1 DEF Stand
<1>3. \A b \in Cycles : Applied(b)' => Inserted(engine[b].next.id)'
  <2> SUFFICES ASSUME NEW b \in Cycles, Applied(b)'
               PROVE  Inserted(engine[b].next.id)'
    OBVIOUS
  <2>1. CASE b = c
    BY <1>1, <2>1 DEF Applied
  <2>2. CASE b # c
    <3>1. Applied(b) /\ engine'[b] = engine[b]
      BY <1>1, <2>2 DEF Applied
    <3>2. engine[b].next.id \in Drafts
      BY <3>1, AtWork DEF Applied, Holding
    <3> QED BY <3>1, <3>2 DEF Stand, Grows
  <2> QED BY <2>1, <2>2
<1>4. \A q \in wire' : q.step = "write" => Passed(q)'
  <2> SUFFICES ASSUME NEW q \in wire', q.step = "write" PROVE Passed(q)'
    OBVIOUS
  <2>1. PICK p \in wire : p.step = "write" /\ p.row = q.row /\ p.known = q.known
    OBVIOUS
  <2>2. Passed(p)'
    BY <2>1, PassedStays DEF Stand
  <2> QED BY <2>1, <2>2 DEF Passed
<1> QED BY <1>2, <1>3, <1>4 DEF Stand

\* The cycles do not move.
LEMMA StandStays ==
  ASSUME IInv, IInv', Stand, Grows, UNCHANGED engine,
         \A q \in wire' : q.step = "write" =>
           Passed(q)' \/ \E p \in wire : p.step = "write" /\ p.row = q.row /\ p.known = q.known
  PROVE  Stand'
<1>1. \A c \in Cycles : Applied(c)' => Inserted(engine[c].next.id)'
  <2> SUFFICES ASSUME NEW c \in Cycles, Applied(c)' PROVE Inserted(engine[c].next.id)'
    OBVIOUS
  <2>1. Applied(c) /\ engine[c].next.id \in Drafts
    BY AtWork DEF Applied, Holding
  <2> QED BY <2>1 DEF Stand, Grows
<1>2. \A q \in wire' : q.step = "write" => Passed(q)'
  <2> SUFFICES ASSUME NEW q \in wire', q.step = "write", ~Passed(q)' PROVE FALSE
    OBVIOUS
  <2>1. PICK p \in wire : p.step = "write" /\ p.row = q.row /\ p.known = q.known
    OBVIOUS
  <2>2. Passed(p)'
    BY <2>1, PassedStays DEF Stand
  <2> QED BY <2>1, <2>2 DEF Passed
<1>3. \A c \in Cycles : engine'[c].pc \in {"wait", "answer"} => engine'[c].next.sync = "syncing"
  BY DEF Stand
<1> QED BY <1>1, <1>2, <1>3 DEF Stand

LEMMA CycleStand ==
  ASSUME IInv, IInv', Stand, Grows, NEW c \in Cycles, Cycle(c)
  PROVE  Stand'
<1>1. CASE StartCycle(c)
  <2>1. PICK new \in Running : engine' = [engine EXCEPT ![c] = new] /\ new.pc = "next"
    BY <1>1, StartShape
  <2>2. wire' = wire
    BY <1>1 DEF StartCycle
  <2> QED BY <2>1, <2>2, StandKeeps
<1>2. CASE NextDraft(c)
  <2>1. wire' = wire
    BY <1>2 DEF NextDraft
  <2>2. CASE engine' = [engine EXCEPT ![c] = Rest]
    <3>1. Rest.pc = "rest"
      BY DEF Rest
    <3> QED BY <2>1, <2>2, <3>1, StandKeeps
  <2>3. CASE engine' # [engine EXCEPT ![c] = Rest]
    <3>1. PICK new \in Running :
            engine' = [engine EXCEPT ![c] = new] /\ new.pc \in {"next", "mark", "upload"}
      BY <1>2, <2>3, NextDraftShape
    <3> QED BY <2>1, <3>1, StandKeeps
  <2> QED BY <2>2, <2>3
<1>3. CASE Mark(c) \/ (\E p \in Photos : Upload(c, p)) \/ MakeEvidence(c)
  <2>1. PICK new \in Running :
          engine' = [engine EXCEPT ![c] = new] /\ new.pc \in {"upload", "patch"} /\ UNCHANGED wire
    BY <1>3, HandShape
  <2> QED BY <2>1, StandKeeps
<1>4. CASE Patch(c)
  <2>1. Holding(c) /\ engine[c].next \in Draft
    BY <1>4, PatchShape, AtWork DEF Holding
  <2>2. ASSUME NEW new \in Running, NEW q,
               engine' = [engine EXCEPT ![c] = new], new.pc = "wait",
               new.next = [engine[c].next EXCEPT !.sync = "syncing"],
               q.step = "check", wire' = wire \cup {q}
        PROVE  Stand'
    <3>1. new.next.sync = "syncing"
      BY <2>1, <2>2 DEF Draft
    <3> QED BY <2>2, <3>1, StandKeeps
  <2>3. ASSUME NEW new \in Running,
               engine' = [engine EXCEPT ![c] = new], new.pc = "next", UNCHANGED wire
        PROVE  Stand'
    BY <2>3, StandKeeps
  <2> QED BY <1>4, <2>2, <2>3, PatchShape
<1>5. CASE Lose(c)
  <2>1. PICK new \in Running :
          /\ engine' = [engine EXCEPT ![c] = new] /\ new.pc = "answer"
          /\ new.next = engine[c].next /\ new.answer.status = "error"
    BY <1>5, LoseShape
  <2>2. engine[c].pc \in {"wait", "answer"} /\ Abandon({q \in wire : q.by = c})
    BY <1>5, LoseShape
  <2>3. new.next.sync = "syncing"
    BY <2>1, <2>2 DEF Stand
  <2>4. \A q \in wire' : \E p \in wire : p.row = q.row /\ p.known = q.known /\ p.step = q.step
    BY <2>2, AbandonsKeep
  <2>5. new.answer.status # "applied"
    BY <2>1
  <2>6. \A q \in wire' : q.step = "write" =>
          \E p \in wire : p.step = "write" /\ p.row = q.row /\ p.known = q.known
    BY <2>4
  <2> QED BY <2>1, <2>3, <2>5, <2>6, StandKeeps
<1>6. CASE Answer(c)
  <2>1. PICK new \in Running : engine' = [engine EXCEPT ![c] = new] /\ new.pc = "next"
    BY <1>6, AnswerShape
  <2>2. wire' = wire
    BY <1>6, AnswerShape
  <2> QED BY <2>1, <2>2, StandKeeps
<1> QED BY <1>1, <1>2, <1>3, <1>4, <1>5, <1>6 DEF Cycle

LEMMA ServerStand ==
  ASSUME IInv, IInv', Stand, Grows, NEW q \in wire, Server(q)
  PROVE  Stand'
<1>1. q \in [id : Drafts, known : Events, row : Events, by : Cycles \cup {None}, step : {"check", "write"}]
  BY DEF IInv, TypeOK
<1>2. ASSUME NEW a \in Replies, Reply(q, a), wire' = wire \ {q},
             a.status = "applied" => Inserted(q.id)'
      PROVE  Stand'
  <2>1. CASE UNCHANGED engine
    BY <1>2, <2>1, StandStays
  <2>2. CASE engine' # engine
    <3>1. PICK c \in Cycles : c = q.by /\ engine[c].pc = "wait" /\ engine[c].next.id = q.id
      BY <1>2, <2>2, ReplyShape
    <3>2. PICK new \in Running :
            /\ engine' = [engine EXCEPT ![c] = new] /\ new.pc = "answer" /\ new.answer = a
            /\ new.next = engine[c].next
      BY <1>2, <2>2, <3>1, ReplyShape
    <3>3. new.next.sync = "syncing"
      BY <3>1, <3>2 DEF Stand
    <3> QED BY <1>2, <3>1, <3>2, <3>3, StandKeeps
  <2> QED BY <2>1, <2>2
<1>3. CASE Check(q)
  <2>1. CASE q.known = Latest(q.row)
    <3>1. PICK o : o = [q EXCEPT !.step = "write"]
      OBVIOUS
    <3>2. o.row = q.row /\ o.known = q.known
      BY <1>1, <3>1
    <3>3. wire' = (wire \ {q}) \cup {o} /\ UNCHANGED <<engine, insp, res>>
      BY <1>3, <2>1, <3>1 DEF Check, server
    <3>4. Passed(o)'
      <4>1. res \in Nat /\ Len(insp) \in Nat
        BY DEF IInv, TypeOK
      <4> QED BY <2>1, <3>2, <3>3, <4>1 DEF Passed, Latest
    <3> QED BY <3>3, <3>4, StandStays
  <2>2. CASE q.known # Latest(q.row)
    <3>1. wire' = wire \ {q} /\ Reply(q, [status |-> "conflict"])
      BY <1>3, <2>2 DEF Check
    <3>2. [status |-> "conflict"] \in Replies
      BY DEF Replies
    <3> QED BY <1>2, <3>1, <3>2
  <2> QED BY <2>1, <2>2
<1>4. CASE Write(q)
  <2>1. PICK a : a = [status |-> "applied",
                      latest |-> IF q.row # None THEN <<"reserve", res + 2>>
                                 ELSE <<"inspection", Len(insp) + 1>>]
    OBVIOUS
  <2>2. a \in Replies
    <3>1. res \in Nat /\ Len(insp) \in Nat
      BY DEF IInv, TypeOK
    <3>2. a.latest \in Events
      BY <2>1, <3>1 DEF Events
    <3> QED BY <2>1, <3>2 DEF Replies
  <2>3. wire' = wire \ {q} /\ Reply(q, a) /\ Insert(q.id, q.row)
    BY <1>4, <2>1 DEF Write
  <2>4. Inserted(q.id)'
    BY <1>1, <2>3, InsertGrows
  <2> QED BY <1>2, <2>2, <2>3, <2>4
<1> QED BY <1>3, <1>4 DEF Server

LEMMA InitLineage ==
  ASSUME Init
  PROVE  Lineage
<1>1. \A c \in Cycles : engine[c].pc = "rest"
  BY DEF Init, Rest
<1>2. Stored = {} /\ Chained = {} /\ Listed = {} /\ InHand = {} /\ Shown = {} /\ wire = {}
  BY <1>1 DEF Init, Stored, Chained, Listed, InHand, Holding, Shown
<1>3. \A i \in Drafts : ~Inserted(i)
  BY NoneIsNothing DEF Init, Inserted
<1> QED BY <1>1, <1>2, <1>3 DEF Lineage, Stand, Kept, Claims, Applied

LEMMA NextLineage ==
  ASSUME IInv, Lineage, [Next]_vars
  PROVE  Lineage'
<1>1. IInv' /\ Grows
  BY NextIInv, NextGrows
<1>0. Stand
  BY DEF Lineage
<1>2. Follows
  <2>1. CASE UNCHANGED vars
    <3>1. UNCHANGED <<store, form, jobs, used, engine, wire>>
      BY <2>1 DEF vars, device, cycle
    <3>2. Kept' = Kept /\ Shown' = Shown
      BY <3>1 DEF Kept, Stored, Chained, Listed, InHand, Holding, Shown
    <3> QED BY <3>1, <3>2, KinIsReflexive DEF Follows
  <2> QED BY <2>1, FormFollows, ChainFollows, OthersFollow, RestartFollows, CycleFollows, ServerFollows
          DEF Next
<1>3. Stand'
  <2>1. CASE Form \/ Chain \/ OtherInspects \/ Correction \/ UNCHANGED vars
    <3>1. UNCHANGED <<engine, wire>>
      BY <2>1 DEF Form, OpenForm, CloseForm, RetryPersist, Discard, Fill, AddPhoto, RemovePhoto, Persist,
                  Chain, ReadJob, WriteJob, FailJob, OtherInspects, Correction, cycle, vars
    <3> QED BY <1>0, <1>1, <3>1, StandStays
  <2>2. CASE Restart
    <3>1. \A c \in Cycles : engine'[c].pc = "rest"
      BY <2>2 DEF Restart, Rest
    <3>2. \A q \in wire' : q.step = "write" => Passed(q)'
      <4> SUFFICES ASSUME NEW q \in wire', q.step = "write" PROVE Passed(q)'
        OBVIOUS
      <4>1. PICK p \in wire : p.step = "write" /\ p.row = q.row /\ p.known = q.known
        BY <2>2, AbandonsKeep DEF Restart
      <4>2. Passed(p)'
        BY <1>1, <4>1, PassedStays DEF Lineage, Stand
      <4> QED BY <4>1, <4>2 DEF Passed
    <3> QED BY <3>1, <3>2 DEF Stand, Applied
  <2> QED BY <1>0, <1>1, <2>1, <2>2, CycleStand, ServerStand DEF Next
<1>4. /\ \A d \in Kept' \cup wire' : d.id \in used'
      /\ \A i \in Drafts : Inserted(i)' => i \in used'
      /\ \A x, y \in Claims' : x.id = y.id => x.known = y.known
      /\ \A x \in Claims' : Inserted(x.id)' => Spent(x.known)'
      /\ \A d \in Kept' \cup Shown' : d.sync = "synced" => Inserted(d.id)'
  BY <1>1, <1>2, LineageFollows
<1> QED BY <1>3, <1>4 DEF Lineage

-----------------------------------------------------------------------------
(* As long as the actors do not meet.                                       *)

\* The server: one submission handled at a time, of an id not inserted yet.
OneHandled ==
  /\ \A p, q \in wire : p.step = "write" /\ q.step = "write" => p = q
  /\ \A q \in wire : q.step = "write" => ~Inserted(q.id)
  /\ \A i \in Drafts : \A a, b \in DOMAIN insp : insp[a] = i /\ insp[b] = i => a = b

\* The device: what a link has read, what a cycle lists and what it has in hand
\* are still what is stored.
NothingStale ==
  /\ \A k \in DOMAIN jobs : jobs[k].base # None =>
       LET i == jobs[k].next.id IN jobs[k].base = IF store[i] # None THEN store[i] ELSE jobs[k].next
  /\ \A d \in Listed : store[d.id] # None
  /\ \A c \in Cycles : Holding(c) =>
       store[engine[c].next.id] # None /\ Alike(store[engine[c].next.id], engine[c].next)

\* No answer was lost and the application was not closed.
Quiet == left.losses = Budget.losses /\ left.restarts = Budget.restarts

\* Whatever was applied is stored as such, or about to be.
Told ==
  /\ \A q \in wire : q.by # None
  /\ \A c \in Cycles : engine[c].pc = "answer" =>
       \/ engine[c].answer.status = "applied"
       \/ engine[c].answer.status = "conflict" /\ ~Inserted(engine[c].next.id)
  /\ \A i \in Drafts : Inserted(i) /\ store[i] # None =>
       store[i].sync = "synced" \/ \E c \in Cycles : Applied(c) /\ engine[c].next.id = i
  /\ \A i \in Drafts : Inserted(i) /\ store[i] = None =>
       /\ \A k \in DOMAIN jobs : jobs[k].next.id # i
       /\ \A d \in Shown : d.id # i

\* No write is tried again before one has failed.
NoRetry ==
  left.fails = Budget.fails =>
    (\A k \in DOMAIN jobs : jobs[k].kind # "all") /\ (form # Closed => ~form.error)

Spending == \A what \in DOMAIN Budget : left[what] <= Budget[what]

TurnInv ==
  /\ met \in Nat
  /\ Spending /\ NoRetry
  /\ met = 0 => OneHandled /\ NothingStale /\ (Quiet => Told)
-----------------------------------------------------------------------------
LEMMA SpentIsPast ==
  ASSUME IInv, NEW k, Spent(k), NEW r
  PROVE  k # Latest(r)
<1>1. res \in Nat /\ Len(insp) \in Nat
  BY DEF IInv, TypeOK
<1>2. CASE k = None /\ insp # <<>>
  <2>1. None # <<"reserve", res>> /\ None # <<"inspection", Len(insp)>>
    BY <1>1, NoneIsNothing
  <2> QED BY <1>2, <2>1 DEF Latest
<1>3. ASSUME NEW n \in Nat, k = <<"reserve", n>>, n < res PROVE k # Latest(r)
  <2>1. k # None
    BY <1>3, NoneIsNothing
  <2> QED BY <1>1, <1>3, <2>1 DEF Latest
<1>4. ASSUME NEW n \in Nat, k = <<"inspection", n>>, n < Len(insp) PROVE k # Latest(r)
  <2>1. k # None
    BY <1>4, NoneIsNothing
  <2> QED BY <1>1, <1>4, <2>1 DEF Latest
<1> QED BY <1>2, <1>3, <1>4 DEF Spent

\* What reaches the wire or the history otherwise than through the server.
LEMMA WireKeepsSteps ==
  ASSUME IInv, Form \/ Chain \/ Restart \/ OtherInspects \/ Correction \/ (\E c \in Cycles : Cycle(c))
                 \/ UNCHANGED vars
  PROVE  \A q \in wire' : q.step = "write" => \E p \in wire : p.step = "write" /\ p.id = q.id
<1>1. CASE Form \/ Chain \/ OtherInspects \/ Correction \/ UNCHANGED vars
  <2>1. UNCHANGED wire
    BY <1>1 DEF Form, OpenForm, CloseForm, RetryPersist, Discard, Fill, AddPhoto, RemovePhoto, Persist,
                Chain, ReadJob, WriteJob, FailJob, OtherInspects, Correction, cycle, vars
  <2> QED BY <2>1
<1>2. CASE Restart
  <2>1. \A q \in wire' : \E p \in wire : p.step = q.step /\ p.id = q.id
    BY <1>2, AbandonsKeep DEF Restart
  <2> QED BY <2>1
<1>3. ASSUME NEW c \in Cycles, Cycle(c)
      PROVE  \A q \in wire' : q.step = "write" => \E p \in wire : p.step = "write" /\ p.id = q.id
  <2>1. CASE Lose(c)
    <3>1. \A q \in wire' : \E p \in wire : p.step = q.step /\ p.id = q.id
      BY <2>1, AbandonsKeep DEF Lose
    <3> QED BY <3>1
  <2>2. CASE Patch(c)
    <3>1. UNCHANGED wire \/ \E q : q.step = "check" /\ wire' = wire \cup {q}
      BY <2>2, PatchShape
    <3> QED BY <3>1
  <2>3. CASE ~Lose(c) /\ ~Patch(c)
    <3>1. UNCHANGED wire
      BY <1>3, <2>3 DEF Cycle, StartCycle, NextDraft, Mark, Upload, MakeEvidence, Answer
    <3> QED BY <3>1
  <2> QED BY <2>1, <2>2, <2>3
<1> QED BY <1>1, <1>2, <1>3

LEMMA OneHandledKeeps ==
  ASSUME IInv, Lineage, OneHandled, [Next]_vars, ~Cross
  PROVE  OneHandled'
<1>1. \A p, q \in wire' : p.step = "write" /\ q.step = "write" => p = q
  BY DEF Cross, OneHandled
<1>2. \A q \in wire : q.id \in Drafts
  BY DEF IInv, TypeOK
<1>3. CASE Form \/ Chain \/ Restart \/ Correction \/ (\E c \in Cycles : Cycle(c)) \/ UNCHANGED vars
  <2>1. UNCHANGED insp
    <3>1. CASE Form \/ Chain \/ Restart \/ Correction \/ UNCHANGED vars
      BY <3>1 DEF Form, OpenForm, CloseForm, RetryPersist, Discard, Fill, AddPhoto, RemovePhoto, Persist,
                  Chain, ReadJob, WriteJob, FailJob, Restart, Correction, server, vars
    <3>2. CASE \E c \in Cycles : Cycle(c)
      BY <3>2 DEF Cycle, StartCycle, NextDraft, Mark, Upload, MakeEvidence, Patch, Lose, Answer, server
    <3> QED BY <1>3, <3>1, <3>2
  <2>2. \A i : Inserted(i)' <=> Inserted(i)
    BY <2>1 DEF Inserted
  <2>3. \A q \in wire' : q.step = "write" => \E p \in wire : p.step = "write" /\ p.id = q.id
    BY <1>3, WireKeepsSteps
  <2> QED BY <1>1, <2>1, <2>2, <2>3 DEF OneHandled
<1>4. CASE OtherInspects
  <2>1. Insert(None, MissionRow) /\ UNCHANGED wire
    BY <1>4 DEF OtherInspects, cycle
  <2>2. None \notin Drafts
    BY NoneIsNothing
  <2> QED BY <1>1, <1>2, <2>1, <2>2, InsertGrows DEF OneHandled
<1>5. ASSUME NEW q \in wire, Check(q) PROVE OneHandled'
  <2>1. UNCHANGED insp /\ \A i : Inserted(i)' <=> Inserted(i)
    BY <1>5 DEF Check, server, Inserted
  <2>2. CASE q.known = Latest(q.row)
    <3>1. q \in Claims
      BY DEF Claims
    <3>2. ~Inserted(q.id)
      BY <2>2, <3>1, SpentIsPast DEF Lineage
    <3>3. PICK o : o = [q EXCEPT !.step = "write"]
      OBVIOUS
    <3>4. o.id = q.id
      BY <3>3 DEF IInv, TypeOK
    <3>5. wire' = (wire \ {q}) \cup {o}
      BY <1>5, <2>2, <3>3 DEF Check
    <3> QED BY <1>1, <2>1, <3>2, <3>4, <3>5 DEF OneHandled
  <2>3. CASE q.known # Latest(q.row)
    <3>1. wire' = wire \ {q}
      BY <1>5, <2>3 DEF Check
    <3> QED BY <1>1, <2>1, <3>1 DEF OneHandled
  <2> QED BY <2>2, <2>3
<1>6. ASSUME NEW q \in wire, Write(q) PROVE OneHandled'
  <2>1. q.step = "write" /\ wire' = wire \ {q} /\ Insert(q.id, q.row)
    BY <1>6 DEF Write
  <2>2. ~Inserted(q.id) /\ \A p \in wire' : p.step # "write"
    BY <2>1 DEF OneHandled
  <2>3. /\ DOMAIN insp' = DOMAIN insp \cup {Len(insp) + 1}
        /\ \A k \in DOMAIN insp : insp'[k] = insp[k]
        /\ insp'[Len(insp) + 1] = q.id
    BY <1>2, <2>1, InsertGrows
  <2> QED BY <1>1, <2>2, <2>3 DEF OneHandled, Inserted
<1> QED BY <1>3, <1>4, <1>5, <1>6 DEF Next, Server

\* What a link has read is what it would read now.
ReadAsStored(j) ==
  j.base # None => j.base = IF store[j.next.id] # None THEN store[j.next.id] ELSE j.next

\* A step of the form or of the chain: the store is as it was, or no link has
\* read anything and no cycle runs.
LEMMA DeviceStale ==
  ASSUME IInv, NothingStale, UNCHANGED engine,
         \/ UNCHANGED store /\ \A k \in DOMAIN jobs' : ReadAsStored(jobs'[k])
         \/ store' # store /\ ~Meet
  PROVE  NothingStale'
<1>1. CASE UNCHANGED store /\ \A k \in DOMAIN jobs' : ReadAsStored(jobs'[k])
  <2>1. Listed' = Listed
    BY DEF Listed
  <2> QED BY <1>1, <2>1 DEF NothingStale, ReadAsStored, Holding
<1>2. CASE store' # store /\ ~Meet
  <2>1. (\A k \in DOMAIN jobs' : jobs'[k].base = None) /\ \A c \in Cycles : engine[c].pc = "rest"
    BY <1>2 DEF Meet, Busy, Rest
  <2>2. \A c \in Cycles : engine'[c].pc = "rest"
    BY <2>1
  <2>3. Listed' = {}
    BY <2>2 DEF Listed
  <2> QED BY <2>1, <2>2, <2>3 DEF NothingStale, Holding
<1> QED BY <1>1, <1>2

LEMMA FormStale ==
  ASSUME IInv, NothingStale, Form, ~Meet
  PROVE  NothingStale'
<1>1. UNCHANGED engine
  BY DEF Form, OpenForm, CloseForm, RetryPersist, Discard, Fill, AddPhoto, RemovePhoto, Persist, cycle
<1>2. \A k \in DOMAIN jobs : ReadAsStored(jobs[k])
  BY DEF NothingStale, ReadAsStored
<1>3. CASE OpenForm \/ CloseForm
  BY <1>1, <1>2, <1>3, DeviceStale DEF OpenForm, CloseForm
<1>4. CASE Discard
  <2>1. UNCHANGED jobs
    BY <1>4 DEF Discard
  <2> QED BY <1>1, <1>2, <2>1, DeviceStale
<1>5. ASSUME NEW j, j.base = None, jobs' = jobs \/ jobs' = Append(jobs, j), UNCHANGED store
      PROVE  NothingStale'
  <2>1. \A k \in DOMAIN jobs' : jobs'[k] = j \/ (k \in DOMAIN jobs /\ jobs'[k] = jobs[k])
    <3>1. PICK S : S = Job \cup {j}
      OBVIOUS
    <3>2. jobs \in Seq(S) /\ j \in S
      BY <3>1 DEF IInv, TypeOK
    <3> QED BY <1>5, <3>2
  <2>2. \A k \in DOMAIN jobs' : ReadAsStored(jobs'[k])
    BY <1>2, <1>5, <2>1 DEF ReadAsStored
  <2> QED BY <1>1, <1>5, <2>2, DeviceStale
<1>6. CASE RetryPersist
  <2>1. PICK j : j = [mount |-> form.mount, kind |-> "all", item |-> None,
                      next |-> form.draft, base |-> None]
    OBVIOUS
  <2>2. j.base = None /\ jobs' = Append(jobs, j) /\ UNCHANGED store
    BY <1>6, <2>1 DEF RetryPersist
  <2> QED BY <1>5, <2>2
<1>7. ASSUME NEW kind, NEW item, Persist(kind, item)
      PROVE  NothingStale'
  <2>1. PICK j : j = [mount |-> form.mount, kind |-> kind, item |-> item,
                      next |-> Mutate(kind, item, form.draft, form.draft), base |-> None]
    OBVIOUS
  <2>2. j.base = None /\ (jobs' = jobs \/ jobs' = Append(jobs, j)) /\ UNCHANGED store
    BY <1>7, <2>1 DEF Persist
  <2> QED BY <1>5, <2>2
<1>8. CASE \/ \E e \in Edits : Fill(e)
           \/ \E p \in Photos : AddPhoto(p) \/ RemovePhoto(p)
  BY <1>7, <1>8 DEF Fill, AddPhoto, RemovePhoto
<1> QED BY <1>3, <1>4, <1>6, <1>8 DEF Form

LEMMA ChainStale ==
  ASSUME IInv, NothingStale, Chain, ~Meet
  PROVE  NothingStale'
<1> PICK i \in DOMAIN jobs : ReadJob(i) \/ WriteJob(i) \/ FailJob(i)
  BY DEF Chain
<1>1. UNCHANGED engine
  BY DEF ReadJob, WriteJob, FailJob, cycle
<1>2. \A k \in DOMAIN jobs : ReadAsStored(jobs[k])
  BY DEF NothingStale, ReadAsStored
<1>3. CASE ReadJob(i)
  <2>1. PICK b : b = IF store[jobs[i].next.id] # None THEN store[jobs[i].next.id] ELSE jobs[i].next
    OBVIOUS
  <2>2. jobs' = [jobs EXCEPT ![i] = [jobs[i] EXCEPT !.base = b]] /\ UNCHANGED store
    BY <1>3, <2>1 DEF ReadJob
  <2>3. jobs[i] \in Jobs
    BY DEF IInv, TypeOK, Job
  <2>4. PICK j : j = [jobs[i] EXCEPT !.base = b]
    OBVIOUS
  <2>5. j.next = jobs[i].next /\ j.base = b
    BY <2>3, <2>4 DEF Jobs
  <2>6. \A k \in DOMAIN jobs' : k \in DOMAIN jobs /\ jobs'[k] = IF k = i THEN j ELSE jobs[k]
    BY <2>2, <2>4 DEF IInv, TypeOK
  <2>7. \A k \in DOMAIN jobs' : ReadAsStored(jobs'[k])
    BY <1>2, <2>1, <2>5, <2>6 DEF ReadAsStored
  <2> QED BY <1>1, <2>2, <2>7, DeviceStale
<1>4. CASE WriteJob(i) \/ FailJob(i)
  <2>1. jobs' = RemoveAt(jobs, i)
    BY <1>4 DEF WriteJob, FailJob
  <2>2. \A k \in DOMAIN jobs' : \E m \in DOMAIN jobs : jobs'[k] = jobs[m]
    BY <2>1, ChainShrinks
  <2>3. \A k \in DOMAIN jobs' : ReadAsStored(jobs'[k])
    BY <1>2, <2>2 DEF ReadAsStored
  <2> QED BY <1>1, <2>3, DeviceStale
<1> QED BY <1>3, <1>4

\* A step of a cycle.
LEMMA CycleStepStale ==
  ASSUME IInv, NothingStale, ~Meet, NEW c \in Cycles, NEW new,
         engine' = [engine EXCEPT ![c] = new], UNCHANGED jobs,
         UNCHANGED store \/ (Holding(c) /\ \E e \in Draft : e.id = engine[c].next.id /\ Put(e)),
         new.pc # "rest" => \A k \in DOMAIN new.todo : new.todo[k] \in Draft /\ store[new.todo[k].id] # None,
         new.pc \in {"mark", "upload", "patch", "wait", "answer"} =>
           /\ new.next.id \in Drafts
           /\ store'[new.next.id] # None /\ Alike(store'[new.next.id], new.next)
  PROVE  NothingStale'
<1>1. \A b \in Cycles : engine'[b] = IF b = c THEN new ELSE engine[b]
  BY DEF IInv, TypeOK
<1>2. \A d \in Draft : d.id \in Drafts
  BY DEF Draft
<1>3. \A i \in Drafts : /\ store[i] # None => store'[i] # None
                        /\ (Holding(c) /\ i = engine[c].next.id) \/ store'[i] = store[i]
  <2>1. CASE UNCHANGED store
    BY <2>1
  <2>2. ASSUME NEW e \in Draft, Holding(c), e.id = engine[c].next.id, Put(e)
        PROVE  \A i \in Drafts : /\ store[i] # None => store'[i] # None
                                 /\ i = engine[c].next.id \/ store'[i] = store[i]
    <3>1. store[e.id] # None
      BY <2>2 DEF NothingStale
    <3>2. e # None
      BY <2>2, NoneIsNothing
    <3> QED BY <1>2, <2>2, <3>2 DEF Put, IInv, TypeOK
  <2> QED BY <2>1, <2>2
<1>4. \A k \in DOMAIN jobs' : jobs'[k].base # None =>
        LET i == jobs'[k].next.id IN jobs'[k].base = IF store'[i] # None THEN store'[i] ELSE jobs'[k].next
  BY DEF NothingStale, Meet
<1>5. \A d \in Listed' : store'[d.id] # None
  <2>1. \A d \in Listed' : d \in Listed \/ (new.pc # "rest" /\ \E k \in DOMAIN new.todo : d = new.todo[k])
    BY CycleCarries
  <2>2. \A d \in Listed : d.id \in Drafts /\ store[d.id] # None
    BY DraftsOfCopies DEF NothingStale, Kept
  <2>3. \A d \in Listed' : d.id \in Drafts /\ store[d.id] # None
    BY <1>2, <2>1, <2>2
  <2> QED BY <1>3, <2>3
<1>6. \A b \in Cycles : Holding(b)' =>
        store'[engine'[b].next.id] # None /\ Alike(store'[engine'[b].next.id], engine'[b].next)
  <2> SUFFICES ASSUME NEW b \in Cycles, Holding(b)'
               PROVE  store'[engine'[b].next.id] # None /\ Alike(store'[engine'[b].next.id], engine'[b].next)
    OBVIOUS
  <2>1. CASE b = c
    BY <1>1, <2>1 DEF Holding
  <2>2. CASE b # c
    <3>1. engine'[b] = engine[b] /\ Holding(b)
      BY <1>1, <2>2 DEF Holding
    <3>2. engine[b].next.id \in Drafts /\ (Holding(c) => engine[b].next.id # engine[c].next.id)
      BY <2>2, <3>1, AtWork DEF IInv, LockDiscipline, OneCyclePerDraft, Holding
    <3> QED BY <1>3, <3>1, <3>2 DEF NothingStale
  <2> QED BY <2>1, <2>2
<1> QED BY <1>4, <1>5, <1>6 DEF NothingStale

LEMMA CycleStale ==
  ASSUME IInv, Lineage, NothingStale, ~Meet, NEW c \in Cycles, Cycle(c)
  PROVE  NothingStale'
<1>1. \A d \in Listed : d \in Draft /\ store[d.id] # None
  BY DraftsOfCopies DEF NothingStale, Kept
<1>2. engine[c].pc # "rest" =>
        \A k \in DOMAIN engine[c].todo : engine[c].todo[k] \in Draft /\ store[engine[c].todo[k].id] # None
  BY <1>1, InCycle DEF ByCycle
<1>3. Holding(c) => /\ engine[c].next \in Draft /\ engine[c].next.id \in Drafts
                    /\ store[engine[c].next.id] # None /\ Alike(store[engine[c].next.id], engine[c].next)
  BY AtWork DEF NothingStale, Holding
<1>4. UNCHANGED jobs
  BY DEF Cycle, StartCycle, NextDraft, Mark, Upload, MakeEvidence, Patch, Lose, Answer, device
<1>5. CASE StartCycle(c)
  <2>1. PICK new \in Running :
          /\ engine' = [engine EXCEPT ![c] = new] /\ new.pc = "next"
          /\ \A k \in DOMAIN new.todo : \E i \in Drafts : store[i] # None /\ new.todo[k] = store[i]
    BY <1>5, StartShape
  <2>2. \A k \in DOMAIN new.todo : new.todo[k] \in Draft /\ store[new.todo[k].id] # None
    BY <2>1 DEF IInv, TypeOK, StoreKeyed
  <2>3. UNCHANGED store
    BY <1>5 DEF StartCycle, device
  <2> QED BY <1>4, <2>1, <2>2, <2>3, CycleStepStale
<1>6. CASE NextDraft(c)
  <2>1. UNCHANGED store
    BY <1>6 DEF NextDraft, device
  <2>2. CASE engine' = [engine EXCEPT ![c] = Rest]
    <3>1. Rest.pc = "rest"
      BY DEF Rest
    <3> QED BY <1>4, <2>1, <2>2, <3>1, CycleStepStale
  <2>3. CASE engine' # [engine EXCEPT ![c] = Rest]
    <3>1. PICK new \in Running, d \in Draft, now \in Draft :
              /\ engine[c].todo # <<>> /\ d = Head(engine[c].todo) /\ new.todo = Tail(engine[c].todo)
              /\ engine' = [engine EXCEPT ![c] = new]
              /\ now = IF store[d.id] # None THEN store[d.id] ELSE d
              /\ new.pc = "next" \/ (new.pc \in {"mark", "upload"} /\ new.next = now)
      BY <1>6, <2>3, NextDraftShape
    <3>2. engine[c].pc # "rest" /\ engine[c].todo \in Seq(Draft)
      BY <1>6, AtWork DEF NextDraft, Running
    <3>3. /\ store[d.id] # None
          /\ \A k \in DOMAIN new.todo : new.todo[k] \in Draft /\ store[new.todo[k].id] # None
      BY <1>2, <3>1, <3>2
    <3>4. now = store[d.id] /\ now.id \in Drafts /\ store[now.id] = now /\ now # None
      BY <3>1, <3>3 DEF IInv, TypeOK, StoreKeyed, Draft
    <3>5. Alike(store[now.id], now)
      BY <3>4 DEF Alike
    <3> QED BY <1>4, <2>1, <3>1, <3>3, <3>4, <3>5, CycleStepStale
  <2> QED BY <2>2, <2>3
<1>7. CASE Mark(c) \/ (\E p \in Photos : Upload(c, p)) \/ MakeEvidence(c)
  <2>1. PICK new \in Running :
           /\ engine' = [engine EXCEPT ![c] = new]
           /\ engine[c].pc \in {"mark", "upload"} /\ new.pc \in {"upload", "patch"}
           /\ new.todo = engine[c].todo
           /\ new.next \in Draft /\ Alike(new.next, engine[c].next)
           /\ UNCHANGED store \/ Put(new.next)
    BY <1>7, HandShape
  <2>2. Holding(c) /\ engine[c].pc # "rest"
    BY <2>1 DEF Holding
  <2>3. new.next.id = engine[c].next.id /\ new.next # None
    BY <2>1, NoneIsNothing DEF Alike
  <2>4. store'[new.next.id] # None /\ Alike(store'[new.next.id], new.next)
    <3>1. CASE UNCHANGED store
      BY <1>3, <2>1, <2>2, <2>3, <3>1 DEF Alike
    <3>2. CASE Put(new.next)
      BY <1>3, <2>2, <2>3, <3>2 DEF Put, Alike, IInv, TypeOK
    <3> QED BY <2>1, <3>1, <3>2
  <2> QED BY <1>2, <1>3, <1>4, <2>1, <2>2, <2>3, <2>4, CycleStepStale
<1>8. CASE Patch(c)
  <2>1. Holding(c) /\ engine[c].pc = "patch"
    BY <1>8, PatchShape
  <2>2. ASSUME NEW new \in Running, engine' = [engine EXCEPT ![c] = new], new.pc = "wait",
               new.todo = engine[c].todo, new.next = [engine[c].next EXCEPT !.sync = "syncing"],
               Put(new.next)
        PROVE  NothingStale'
    <3>1. new.next \in Draft /\ new.next.id = engine[c].next.id /\ new.next # None
      BY <1>3, <2>1, <2>2, NoneIsNothing DEF Draft, SyncStatus
    <3>2. store'[new.next.id] = new.next
      BY <1>3, <2>1, <2>2, <3>1 DEF Put, IInv, TypeOK
    <3>3. Alike(store'[new.next.id], new.next)
      BY <3>2 DEF Alike
    <3> QED BY <1>2, <1>3, <1>4, <2>1, <2>2, <3>1, <3>2, <3>3, CycleStepStale
  <2>3. ASSUME NEW new \in Running, engine' = [engine EXCEPT ![c] = new], new.pc = "next",
               new.todo = engine[c].todo, UNCHANGED store \/ Put(engine[c].next)
        PROVE  NothingStale'
    BY <1>2, <1>3, <1>4, <2>1, <2>3, CycleStepStale
  <2> QED BY <1>8, <2>2, <2>3, PatchShape
<1>9. CASE Lose(c)
  <2>1. PICK new \in Running :
          /\ engine' = [engine EXCEPT ![c] = new] /\ new.pc = "answer"
          /\ new.todo = engine[c].todo /\ new.next = engine[c].next
    BY <1>9, LoseShape
  <2>2. Holding(c) /\ engine[c].pc # "rest" /\ UNCHANGED store
    BY <1>9, LoseShape DEF device
  <2> QED BY <1>2, <1>3, <1>4, <2>1, <2>2, CycleStepStale
<1>10. CASE Answer(c)
  <2>1. /\ engine[c].pc = "answer" /\ Holding(c) /\ engine[c].answer \in Replies
        /\ Put(Settled(engine[c].next, engine[c].answer))
    BY <1>10, AnswerShape
  <2>2. PICK new \in Running :
              engine' = [engine EXCEPT ![c] = new] /\ new.pc = "next" /\ new.todo = engine[c].todo
    BY <1>10, AnswerShape
  <2>3. PICK e \in Draft : e = Settled(engine[c].next, engine[c].answer) /\ e.id = engine[c].next.id
    BY <1>3, <2>1, SettledType
  <2> QED BY <1>2, <1>4, <2>1, <2>2, <2>3, CycleStepStale
<1> QED BY <1>5, <1>6, <1>7, <1>8, <1>9, <1>10 DEF Cycle

\* The cycles have in hand what they had, or nothing.
LEMMA StillStale ==
  ASSUME IInv, NothingStale, NEW c \in Cycles, NEW new,
         engine' = [engine EXCEPT ![c] = new], UNCHANGED <<store, jobs>>, Holding(c),
         new.next = engine[c].next, new.todo = engine[c].todo
  PROVE  NothingStale'
<1>1. \A b \in Cycles : engine'[b] = IF b = c THEN new ELSE engine[b]
  BY DEF IInv, TypeOK
<1>2. engine[c].pc # "rest"
  BY DEF Holding
<1>3. \A d \in Listed' : d \in Listed
  <2>1. \A d \in Listed' : d \in Listed \/ (new.pc # "rest" /\ \E k \in DOMAIN new.todo : d = new.todo[k])
    BY CycleCarries
  <2>2. \A d \in Listed' : d \in Listed \/ \E k \in DOMAIN engine[c].todo : d = engine[c].todo[k]
    BY <2>1
  <2> QED BY <1>2, <2>2, InCycle DEF ByCycle
<1>4. \A b \in Cycles : Holding(b)' => Holding(b) /\ engine'[b].next = engine[b].next
  BY <1>1 DEF Holding
<1> QED BY <1>3, <1>4 DEF NothingStale

LEMMA NothingStaleKeeps ==
  ASSUME IInv, Lineage, NothingStale, [Next]_vars, ~Meet
  PROVE  NothingStale'
<1>1. CASE OtherInspects \/ Correction \/ UNCHANGED vars
  <2>1. UNCHANGED <<store, jobs, engine>>
    BY <1>1 DEF OtherInspects, Correction, vars, device, cycle
  <2>2. Listed' = Listed
    BY <2>1 DEF Listed
  <2> QED BY <2>1, <2>2 DEF NothingStale, Holding
<1>2. CASE Restart
  <2>1. jobs' = <<>> /\ \A c \in Cycles : engine'[c].pc = "rest"
    BY <1>2 DEF Restart, Rest
  <2>2. Listed' = {}
    BY <2>1 DEF Listed
  <2> QED BY <2>1, <2>2 DEF NothingStale, Holding
<1>3. ASSUME NEW q \in wire, Server(q) PROVE NothingStale'
  <2>1. UNCHANGED <<store, jobs>>
    BY <1>3 DEF Server, Check, Write, device
  <2>2. UNCHANGED engine \/ \E a \in Replies : Reply(q, a)
    BY <1>3, ServerReplies
  <2>3. CASE UNCHANGED engine
    <3>1. Listed' = Listed
      BY <2>3 DEF Listed
    <3> QED BY <2>1, <2>3, <3>1 DEF NothingStale, Holding
  <2>4. ASSUME NEW a \in Replies, Reply(q, a), engine' # engine PROVE NothingStale'
    <3>1. PICK c \in Cycles : c = q.by /\ engine[c].pc = "wait"
      BY <2>4, ReplyShape
    <3>2. PICK new \in Running :
            engine' = [engine EXCEPT ![c] = new] /\ new.todo = engine[c].todo /\ new.next = engine[c].next
      BY <2>4, <3>1, ReplyShape
    <3> QED BY <2>1, <3>1, <3>2, StillStale DEF Holding
  <2> QED BY <2>2, <2>3, <2>4
<1> QED BY <1>1, <1>2, <1>3, FormStale, ChainStale, CycleStale DEF Next

\* What remains of the budget never grows.
LEMMA LeftFalls ==
  ASSUME IInv, [Next]_vars
  PROVE  /\ \A what \in DOMAIN Budget : left'[what] <= left[what]
         /\ (\E i \in DOMAIN jobs : FailJob(i)) => left'.fails < left.fails
         /\ (\E c \in Cycles : Lose(c)) => left'.losses < left.losses
         /\ Restart => left'.restarts < left.restarts
<1>1. left \in [DOMAIN Budget -> Nat]
      /\ DOMAIN Budget = {"mounts", "closes", "losses", "fails", "others", "restarts", "all"}
  BY BudgetHasNames DEF IInv, TypeOK
<1>2. ASSUME NEW w \in DOMAIN Budget, Spend(w)
      PROVE  \A what \in DOMAIN Budget : left'[what] <= left[what]
  BY <1>1, <1>2 DEF Spend
<1>3. ASSUME NEW w \in DOMAIN Budget \ {"all"}, Disturb(w)
      PROVE  (\A what \in DOMAIN Budget : left'[what] <= left[what]) /\ left'[w] < left[w]
  <2>1. left' = [left EXCEPT ![w] = left[w] - 1, !["all"] = left["all"] - 1]
    BY <1>3 DEF Disturb
  <2>2. \A what \in DOMAIN Budget : left[what] \in Nat
    BY <1>1
  <2>3. /\ left'[w] = left[w] - 1 /\ left'["all"] = left["all"] - 1
        /\ \A what \in DOMAIN Budget \ {w, "all"} : left'[what] = left[what]
    BY <1>1, <1>3, <2>1
  <2> QED BY <1>1, <2>2, <2>3
<1>4. UNCHANGED left => \A what \in DOMAIN Budget : left'[what] <= left[what]
  <2>1. \A what \in DOMAIN Budget : left[what] \in Nat
    BY <1>1
  <2> QED BY <2>1
<1>5. ASSUME Form \/ Chain \/ OtherInspects \/ Correction \/ Restart \/ UNCHANGED vars
      PROVE  \A what \in DOMAIN Budget : left'[what] <= left[what]
  <2>1. CASE Form
    <3>1. Spend("mounts") \/ Disturb("closes") \/ UNCHANGED left
      BY <2>1 DEF Form, OpenForm, CloseForm, RetryPersist, Discard, Fill, AddPhoto, RemovePhoto, Persist
    <3> QED BY <1>1, <1>2, <1>3, <1>4, <3>1
  <2>2. CASE Chain
    <3>1. Disturb("fails") \/ UNCHANGED left
      BY <2>2 DEF Chain, ReadJob, WriteJob, FailJob
    <3> QED BY <1>1, <1>3, <1>4, <3>1
  <2>3. CASE OtherInspects \/ Correction \/ Restart
    <3>1. Disturb("others") \/ Disturb("restarts")
      BY <2>3 DEF OtherInspects, Correction, Restart
    <3> QED BY <1>1, <1>3, <3>1
  <2>4. CASE UNCHANGED vars
    BY <1>4, <2>4 DEF vars
  <2> QED BY <1>5, <2>1, <2>2, <2>3, <2>4
<1>6. ASSUME NEW c \in Cycles, Cycle(c)
      PROVE  \A what \in DOMAIN Budget : left'[what] <= left[what]
  <2>1. UNCHANGED left \/ \E w \in DOMAIN Budget \ {"all"} : Disturb(w)
    BY <1>1, <1>6 DEF Cycle, StartCycle, NextDraft, Mark, Upload, MakeEvidence, Patch, Lose, Answer
  <2> QED BY <1>3, <1>4, <2>1
<1>7. ASSUME NEW q \in wire, Server(q)
      PROVE  \A what \in DOMAIN Budget : left'[what] <= left[what]
  <2>1. UNCHANGED left
    BY <1>7 DEF Server, Check, Write
  <2> QED BY <1>4, <2>1
<1>8. \A what \in DOMAIN Budget : left'[what] <= left[what]
  BY <1>5, <1>6, <1>7 DEF Next
<1>9. (\E i \in DOMAIN jobs : FailJob(i)) => left'.fails < left.fails
  BY <1>1, <1>3 DEF FailJob
<1>10. (\E c \in Cycles : Lose(c)) => left'.losses < left.losses
  BY <1>1, <1>3 DEF Lose
<1>11. Restart => left'.restarts < left.restarts
  BY <1>1, <1>3 DEF Restart
<1> QED BY <1>8, <1>9, <1>10, <1>11

LEMMA SpendingKeeps ==
  ASSUME IInv, IInv', Spending, [Next]_vars
  PROVE  Spending'
<1>1. /\ left \in [DOMAIN Budget -> Nat] /\ left' \in [DOMAIN Budget -> Nat]
      /\ \A what \in DOMAIN Budget : Budget[what] \in Nat
  BY BudgetHasNames DEF IInv, TypeOK
<1>2. \A what \in DOMAIN Budget : left'[what] <= left[what]
  BY LeftFalls
<1> QED BY <1>1, <1>2 DEF Spending

LEMMA NoRetryKeeps ==
  ASSUME IInv, IInv', Spending, NoRetry, [Next]_vars
  PROVE  NoRetry'
<1> SUFFICES ASSUME left'.fails = Budget.fails
             PROVE  (\A k \in DOMAIN jobs' : jobs'[k].kind # "all") /\ (form' # Closed => ~form'.error)
  BY DEF NoRetry
<1>1. /\ left.fails \in Nat /\ left'.fails \in Nat /\ Budget.fails \in Nat
      /\ left.fails <= Budget.fails /\ left'.fails <= left.fails
  BY LeftFalls, BudgetHasNames DEF Spending, IInv, TypeOK
<1>2. left.fails = Budget.fails
  BY <1>1
<1>3. (\A k \in DOMAIN jobs : jobs[k].kind # "all") /\ (form # Closed => ~form.error)
  BY <1>2 DEF NoRetry
<1>4. CASE UNCHANGED <<form, jobs>>
  BY <1>3, <1>4
<1>5. CASE OpenForm
  <2>1. UNCHANGED jobs /\ \E d : form' = [mount |-> left["mounts"], error |-> FALSE, draft |-> d]
    BY <1>5 DEF OpenForm
  <2> QED BY <1>3, <2>1
<1>6. CASE CloseForm
  BY <1>3, <1>6 DEF CloseForm
<1>7. CASE RetryPersist
  BY <1>3, <1>7 DEF RetryPersist
<1>8. CASE Discard
  <2>1. /\ form \in [mount : Nat \ {0}, draft : Draft, error : BOOLEAN]
        /\ \E d : form' = [form EXCEPT !.draft = d]
        /\ UNCHANGED jobs /\ form # Closed
    BY <1>8 DEF Discard, IInv, TypeOK
  <2> QED BY <1>3, <2>1
<1>9. ASSUME NEW kind \in {"edit", "add", "remove"}, NEW item, form # Closed, Persist(kind, item)
      PROVE  (\A k \in DOMAIN jobs' : jobs'[k].kind # "all") /\ (form' # Closed => ~form'.error)
  <2>1. form \in [mount : Nat \ {0}, draft : Draft, error : BOOLEAN]
    BY <1>9 DEF IInv, TypeOK
  <2>2. PICK j : j = [mount |-> form.mount, kind |-> kind, item |-> item,
                      next |-> Mutate(kind, item, form.draft, form.draft), base |-> None]
    OBVIOUS
  <2>3. j.kind # "all"
    BY <2>2
  <2>4. (jobs' = jobs \/ jobs' = Append(jobs, j)) /\ \E d : form' = [form EXCEPT !.draft = d]
    BY <1>9, <2>2 DEF Persist
  <2>5. \A k \in DOMAIN jobs' : jobs'[k] = j \/ (k \in DOMAIN jobs /\ jobs'[k] = jobs[k])
    <3>1. PICK S : S = Job \cup {j}
      OBVIOUS
    <3>2. jobs \in Seq(S) /\ j \in S
      BY <3>1 DEF IInv, TypeOK
    <3> QED BY <2>4, <3>2
  <2> QED BY <1>3, <1>9, <2>1, <2>3, <2>4, <2>5
<1>10. CASE \/ \E e \in Edits : Fill(e)
            \/ \E p \in Photos : AddPhoto(p) \/ RemovePhoto(p)
  BY <1>9, <1>10 DEF Fill, AddPhoto, RemovePhoto
<1>11. ASSUME NEW i \in DOMAIN jobs, ReadJob(i)
       PROVE  (\A k \in DOMAIN jobs' : jobs'[k].kind # "all") /\ (form' # Closed => ~form'.error)
  <2>1. jobs[i] \in Jobs /\ UNCHANGED form
    BY <1>11 DEF ReadJob, IInv, TypeOK, Job
  <2>2. PICK b : jobs' = [jobs EXCEPT ![i] = [jobs[i] EXCEPT !.base = b]]
    BY <1>11 DEF ReadJob
  <2>3. \A k \in DOMAIN jobs' : k \in DOMAIN jobs /\ jobs'[k].kind = jobs[k].kind
    BY <2>1, <2>2 DEF IInv, TypeOK, Jobs
  <2> QED BY <1>3, <2>1, <2>3
<1>12. ASSUME NEW i \in DOMAIN jobs, WriteJob(i)
       PROVE  (\A k \in DOMAIN jobs' : jobs'[k].kind # "all") /\ (form' # Closed => ~form'.error)
  <2>1. jobs' = RemoveAt(jobs, i)
    BY <1>12 DEF WriteJob
  <2>2. \A k \in DOMAIN jobs' : \E m \in DOMAIN jobs : jobs'[k] = jobs[m]
    BY <2>1, ChainShrinks
  <2>3. form' # Closed => ~form'.error
    <3>1. CASE UNCHANGED form
      BY <1>3, <3>1
    <3>2. CASE form.mount = jobs[i].mount
      <4>1. form # Closed /\ form \in [mount : Nat \ {0}, draft : Draft, error : BOOLEAN]
        BY <3>2 DEF IInv, TypeOK, Job, Jobs, Closed
      <4>2. ~form.error
        BY <1>3, <4>1
      <4>3. form' = form \/ \E d : form' = [form EXCEPT !.draft = d, !.error = form.error /\ jobs[i].kind # "all"]
        BY <1>12 DEF WriteJob
      <4>4. ASSUME NEW d, form' = [form EXCEPT !.draft = d, !.error = form.error /\ jobs[i].kind # "all"]
            PROVE  form'.error = (form.error /\ jobs[i].kind # "all")
        BY <4>1, <4>4
      <4> QED BY <4>2, <4>3, <4>4
    <3> QED BY <1>12, <3>1, <3>2 DEF WriteJob
  <2> QED BY <1>3, <2>2, <2>3
<1>13. ASSUME NEW i \in DOMAIN jobs, FailJob(i) PROVE FALSE
  BY <1>1, <1>2, <1>13, LeftFalls
<1>14. CASE Restart
  <2>1. form' = Closed /\ jobs' = <<>>
    BY <1>14 DEF Restart
  <2> QED BY <2>1
<1>15. CASE OtherInspects \/ Correction \/ UNCHANGED vars
  BY <1>4, <1>15 DEF OtherInspects, Correction, vars, device
<1>16. ASSUME NEW c \in Cycles, Cycle(c) PROVE UNCHANGED <<form, jobs>>
  BY <1>16 DEF Cycle, StartCycle, NextDraft, Mark, Upload, MakeEvidence, Patch, Lose, Answer, device
<1>17. ASSUME NEW q \in wire, Server(q) PROVE UNCHANGED <<form, jobs>>
  BY <1>17 DEF Server, Check, Write, device
<1> QED BY <1>4, <1>5, <1>6, <1>7, <1>8, <1>10, <1>11, <1>12, <1>13, <1>14, <1>15, <1>16, <1>17
        DEF Next, Form, Chain

\* A draft in hand that is not known to be applied is not.
LEMMA NotYetApplied ==
  ASSUME IInv, NothingStale, Told, NEW c \in Cycles, Holding(c), ~Applied(c),
         engine[c].next.sync # "synced"
  PROVE  ~Inserted(engine[c].next.id)
<1>1. PICK i \in Drafts : i = engine[c].next.id
  BY AtWork DEF Holding
<1>2. store[i] # None /\ store[i].sync # "synced"
  BY <1>1 DEF NothingStale, Alike
<1>3. \A b \in Cycles : Applied(b) /\ engine[b].next.id = i => b = c
  BY <1>1 DEF IInv, LockDiscipline, OneCyclePerDraft, Applied, Holding
<1> QED BY <1>1, <1>2, <1>3 DEF Told

\* A step of the form or of the chain: what it stores and what it still shows.
LEMMA DeviceTold ==
  ASSUME IInv, Told, UNCHANGED <<engine, insp, wire>>,
         \A i \in Drafts : Inserted(i) =>
           /\ store'[i] # None => store[i] # None /\ store'[i].sync = store[i].sync
           /\ store'[i] = None => /\ \A k \in DOMAIN jobs' : jobs'[k].next.id # i
                                  /\ \A d \in Shown' : d.id # i
  PROVE  Told'
<1>1. \A i : Inserted(i)' <=> Inserted(i)
  BY DEF Inserted
<1>2. \A c \in Cycles : Applied(c)' <=> Applied(c)
  BY DEF Applied
<1> QED BY <1>1, <1>2 DEF Told

LEMMA FormTold ==
  ASSUME IInv, Lineage, NothingStale, Told, ~Meet, Form
  PROVE  Told'
<1>1. UNCHANGED <<engine, insp, wire>>
  BY DEF Form, OpenForm, CloseForm, RetryPersist, Discard, Fill, AddPhoto, RemovePhoto, Persist, cycle, server
<1>2. \A i \in Drafts : Inserted(i) => i \in used
  BY DEF Lineage
<1>3. CASE OpenForm
  <2>1. PICK j \in Drafts :
          /\ store[j] # None \/ NewId(j)
          /\ form' = [mount |-> left["mounts"], error |-> FALSE,
                      draft |-> IF store[j] # None THEN store[j] ELSE Fresh(j, row)]
    BY <1>3 DEF OpenForm
  <2>2. UNCHANGED <<store, jobs>>
    BY <1>3 DEF OpenForm
  <2>3. \A d \in Shown' : d.id = j /\ (store[j] # None \/ j \notin used)
    BY <2>1 DEF Shown, Fresh, NewId, IInv, StoreKeyed
  <2> QED BY <1>1, <1>2, <2>2, <2>3, DeviceTold DEF Told
<1>4. CASE CloseForm
  <2>1. UNCHANGED <<store, jobs>> /\ Shown' = {}
    BY <1>4 DEF CloseForm, Shown
  <2> QED BY <1>1, <2>1, DeviceTold DEF Told
<1>5. ASSUME NEW j, form # Closed, jobs' = jobs \/ jobs' = Append(jobs, j), j.next.id = form.draft.id,
             UNCHANGED store, \A d \in Shown' : d.id = form.draft.id
      PROVE  Told'
  <2>1. \A k \in DOMAIN jobs' : jobs'[k] = j \/ (k \in DOMAIN jobs /\ jobs'[k] = jobs[k])
    <3>1. PICK S : S = Job \cup {j}
      OBVIOUS
    <3>2. jobs \in Seq(S) /\ j \in S
      BY <3>1 DEF IInv, TypeOK
    <3> QED BY <1>5, <3>2
  <2>2. \A i \in Drafts : Inserted(i) /\ store[i] = None => form.draft.id # i
    BY <1>5 DEF Told, Shown
  <2>3. \A i \in Drafts : Inserted(i) /\ store[i] = None => \A k \in DOMAIN jobs' : jobs'[k].next.id # i
    BY <1>5, <2>1, <2>2 DEF Told
  <2> QED BY <1>1, <1>5, <2>2, <2>3, DeviceTold
<1>6. CASE RetryPersist
  <2>1. PICK j : j = [mount |-> form.mount, kind |-> "all", item |-> None,
                      next |-> form.draft, base |-> None]
    OBVIOUS
  <2>2. /\ form # Closed /\ j.next = form.draft /\ jobs' = Append(jobs, j) /\ UNCHANGED <<store, form>>
        /\ \A d \in Shown' : d = form.draft
    BY <1>6, <2>1 DEF RetryPersist, Shown
  <2> QED BY <1>5, <2>2
<1>7. ASSUME NEW kind, NEW item, kind = "edit" => item \in Edits, form # Closed, Persist(kind, item)
      PROVE  Told'
  <2>1. PICK next : next = Mutate(kind, item, form.draft, form.draft)
    OBVIOUS
  <2>2. form \in [mount : Nat \ {0}, draft : Draft, error : BOOLEAN]
    BY <1>7 DEF IInv, TypeOK
  <2>3. next.id = form.draft.id
    BY <1>7, <2>1, <2>2, MutateType
  <2>4. PICK j : j = [mount |-> form.mount, kind |-> kind, item |-> item, next |-> next, base |-> None]
    OBVIOUS
  <2>5. j.next = next /\ (jobs' = jobs \/ jobs' = Append(jobs, j)) /\ UNCHANGED store
        /\ form' = [form EXCEPT !.draft = next]
    BY <1>7, <2>1, <2>4 DEF Persist
  <2>6. \A d \in Shown' : d = next
    BY <2>2, <2>5 DEF Shown
  <2> QED BY <1>5, <1>7, <2>3, <2>5, <2>6
<1>8. CASE \/ \E e \in Edits : Fill(e)
           \/ \E p \in Photos : AddPhoto(p) \/ RemovePhoto(p)
  BY <1>7, <1>8 DEF Fill, AddPhoto, RemovePhoto
<1>9. CASE Discard
  <2>1. PICK j \in Drafts : NewId(j) /\ form' = [form EXCEPT !.draft = Fresh(j, None)]
    BY <1>9 DEF Discard
  <2>2. /\ form \in [mount : Nat \ {0}, draft : Draft, error : BOOLEAN]
        /\ store' = [store EXCEPT ![form.draft.id] = None] /\ UNCHANGED jobs
    BY <1>9 DEF Discard, IInv, TypeOK
  <2>3. \A d \in Shown' : d.id = j /\ j \notin used
    BY <2>1, <2>2 DEF Shown, Fresh, NewId
  <2>4. \A i \in Drafts : store'[i] = None \/ store'[i] = store[i]
    BY <2>2 DEF IInv, TypeOK
  <2>5. \A i \in Drafts : store'[i] = None /\ store[i] # None => jobs = <<>>
    <3>1. store' # store => jobs = <<>>
      BY <1>1, <2>2 DEF Meet
    <3> QED BY <3>1
  <2>6. \A i \in Drafts : Inserted(i) /\ store'[i] = None => \A k \in DOMAIN jobs' : jobs'[k].next.id # i
    BY <2>2, <2>5 DEF Told
  <2> QED BY <1>1, <1>2, <2>3, <2>4, <2>6, DeviceTold
<1> QED BY <1>3, <1>4, <1>6, <1>8, <1>9 DEF Form

LEMMA ChainTold ==
  ASSUME IInv, Lineage, NothingStale, Told, Chain
  PROVE  Told'
<1> PICK i \in DOMAIN jobs : ReadJob(i) \/ WriteJob(i) \/ FailJob(i)
  BY DEF Chain
<1>1. UNCHANGED <<engine, insp, wire>>
  BY DEF ReadJob, WriteJob, FailJob, cycle, server
<1>2. jobs[i] \in Jobs /\ jobs[i].next \in Draft /\ jobs[i].next.id \in Drafts /\ jobs[i].mount # 0
  BY DEF IInv, TypeOK, Job, Jobs, Draft
<1>3. \A j \in Drafts : Inserted(j) /\ store[j] = None =>
        /\ \A k \in DOMAIN jobs : jobs[k].next.id # j
        /\ \A d \in Shown : d.id # j
  BY DEF Told
<1>4. form.mount = jobs[i].mount =>
        form # Closed /\ form \in [mount : Nat \ {0}, draft : Draft, error : BOOLEAN]
  BY <1>2 DEF IInv, TypeOK, Closed
<1>5. CASE ReadJob(i)
  <2>1. PICK b : jobs' = [jobs EXCEPT ![i] = [jobs[i] EXCEPT !.base = b]]
    BY <1>5 DEF ReadJob
  <2>2. \A k \in DOMAIN jobs' : k \in DOMAIN jobs /\ jobs'[k].next = jobs[k].next
    BY <1>2, <2>1 DEF IInv, TypeOK, Jobs
  <2>3. UNCHANGED store /\ Shown' = Shown
    BY <1>5 DEF ReadJob, Shown
  <2> QED BY <1>1, <1>3, <2>2, <2>3, DeviceTold
<1>6. CASE FailJob(i)
  <2>1. UNCHANGED store /\ jobs' = RemoveAt(jobs, i)
        /\ form' = IF form.mount = jobs[i].mount THEN [form EXCEPT !.error = TRUE] ELSE form
    BY <1>6 DEF FailJob
  <2>2. \A k \in DOMAIN jobs' : \E m \in DOMAIN jobs : jobs'[k] = jobs[m]
    BY <2>1, ChainShrinks
  <2>3. \A d \in Shown' : d \in Shown
    <3>1. form'.draft = form.draft /\ (form = Closed => form' = Closed)
      BY <1>4, <2>1
    <3> QED BY <3>1 DEF Shown
  <2> QED BY <1>1, <1>3, <2>1, <2>2, <2>3, DeviceTold
<1>7. CASE WriteJob(i)
  <2>1. PICK written : written = Mutate(jobs[i].kind, jobs[i].item, jobs[i].next, jobs[i].base)
    OBVIOUS
  <2>2. jobs[i].base # None /\ jobs[i].base \in Draft
    BY <1>2, <1>7 DEF WriteJob, Jobs
  <2>3. written \in Draft /\ written.id = jobs[i].base.id /\ written.sync = jobs[i].base.sync
    <3>1. jobs[i] \in Job
      BY DEF IInv, TypeOK
    <3> QED BY <1>2, <2>1, <2>2, <3>1, MutateType DEF Mutate, Draft, Job
  <2>4. jobs[i].base = IF store[jobs[i].next.id] # None THEN store[jobs[i].next.id] ELSE jobs[i].next
    BY <2>2 DEF NothingStale
  <2>5. written.id = jobs[i].next.id
    BY <1>2, <2>3, <2>4 DEF IInv, StoreKeyed
  <2>6. /\ store' = [store EXCEPT ![written.id] = written]
        /\ jobs' = RemoveAt(jobs, i)
        /\ form' = IF form.mount = jobs[i].mount /\ form.draft = jobs[i].next
                   THEN [form EXCEPT !.draft = written, !.error = form.error /\ jobs[i].kind # "all"]
                   ELSE form
    BY <1>7, <2>1 DEF WriteJob
  <2>7. \A k \in DOMAIN jobs' : \E m \in DOMAIN jobs : jobs'[k] = jobs[m]
    BY <2>6, ChainShrinks
  <2>8. \A d \in Shown' : d \in Shown \/ d.id = written.id
    BY <1>4, <2>6 DEF Shown
  <2>9. \A j \in Drafts : store'[j] = IF j = written.id THEN written ELSE store[j]
    BY <2>6 DEF IInv, TypeOK
  <2>10. written # None
    BY <2>3, NoneIsNothing
  <2>11. ASSUME NEW j \in Drafts, Inserted(j), store'[j] # None
         PROVE  store[j] # None /\ store'[j].sync = store[j].sync
    <3>1. CASE j = written.id
      <4>1. store[j] # None
        BY <1>3, <2>5, <2>11, <3>1
      <4> QED BY <2>3, <2>4, <2>5, <2>9, <3>1, <4>1
    <3>2. CASE j # written.id
      BY <2>9, <2>11, <3>2
    <3> QED BY <3>1, <3>2
  <2>12. ASSUME NEW j \in Drafts, Inserted(j), store'[j] = None
         PROVE  /\ \A k \in DOMAIN jobs' : jobs'[k].next.id # j
                /\ \A d \in Shown' : d.id # j
    <3>1. j # written.id /\ store[j] = None
      BY <2>9, <2>10, <2>12
    <3> QED BY <1>3, <2>7, <2>8, <2>12, <3>1
  <2> QED BY <1>1, <2>11, <2>12, DeviceTold
<1> QED BY <1>5, <1>6, <1>7

\* A step of a cycle that does not bring an answer.
LEMMA CycleStepTold ==
  ASSUME IInv, Told, NEW c \in Cycles, NEW new, engine' = [engine EXCEPT ![c] = new],
         new.pc # "answer", UNCHANGED <<form, jobs, insp>>, \A q \in wire' : q.by # None,
         \/ UNCHANGED store /\ ~Applied(c)
         \/ \E e \in Draft : /\ Put(e) /\ store[e.id] # None
                             /\ Applied(c) => engine[c].next.id = e.id
                             /\ Inserted(e.id) => e.sync = "synced"
  PROVE  Told'
<1>1. \A i : Inserted(i)' <=> Inserted(i)
  BY DEF Inserted
<1>2. \A b \in Cycles : engine'[b] = IF b = c THEN new ELSE engine[b]
  BY DEF IInv, TypeOK
<1>3. \A b \in Cycles : b # c => (Applied(b)' <=> Applied(b))
  BY <1>2 DEF Applied
<1>4. Shown' = Shown
  BY DEF Shown
<1>5. \A b \in Cycles : engine'[b].pc = "answer" =>
        \/ engine'[b].answer.status = "applied"
        \/ engine'[b].answer.status = "conflict" /\ ~Inserted(engine'[b].next.id)
  BY <1>2 DEF Told
<1>6. CASE UNCHANGED store /\ ~Applied(c)
  <2>1. \A i \in Drafts : Inserted(i) /\ store[i] # None =>
          store[i].sync = "synced" \/ \E b \in Cycles : Applied(b)' /\ engine'[b].next.id = i
    BY <1>2, <1>3, <1>6 DEF Told
  <2> QED BY <1>1, <1>4, <1>5, <1>6, <2>1 DEF Told
<1>7. ASSUME NEW e \in Draft, Put(e), store[e.id] # None, Applied(c) => engine[c].next.id = e.id,
             Inserted(e.id) => e.sync = "synced"
      PROVE  Told'
  <2>1. \A i \in Drafts : store'[i] = IF i = e.id THEN e ELSE store[i]
    BY <1>7 DEF Put, IInv, TypeOK, Draft
  <2>2. e # None
    BY NoneIsNothing
  <2>3. \A i \in Drafts : store'[i] = None <=> store[i] = None
    BY <1>7, <2>1, <2>2
  <2>4. \A i \in Drafts : Inserted(i) /\ store'[i] # None =>
          store'[i].sync = "synced" \/ \E b \in Cycles : Applied(b)' /\ engine'[b].next.id = i
    <3> SUFFICES ASSUME NEW i \in Drafts, Inserted(i), store'[i] # None, store'[i].sync # "synced"
                 PROVE  \E b \in Cycles : Applied(b)' /\ engine'[b].next.id = i
      OBVIOUS
    <3>1. i # e.id /\ store[i] # None /\ store[i].sync # "synced"
      BY <1>7, <2>1, <2>3
    <3>2. PICK b \in Cycles : Applied(b) /\ engine[b].next.id = i
      BY <3>1 DEF Told
    <3> QED BY <1>2, <1>3, <1>7, <3>1, <3>2
  <2> QED BY <1>1, <1>4, <1>5, <2>3, <2>4 DEF Told
<1> QED BY <1>6, <1>7

LEMMA CycleTold ==
  ASSUME IInv, Lineage, NothingStale, Told, NEW c \in Cycles, Cycle(c), ~Lose(c)
  PROVE  Told'
<1>1. UNCHANGED <<form, jobs, insp>>
  BY DEF Cycle, StartCycle, NextDraft, Mark, Upload, MakeEvidence, Patch, Answer, Lose, device, server
<1>2. Holding(c) => /\ engine[c].next \in Draft /\ engine[c].next.id \in Drafts
                    /\ store[engine[c].next.id] # None /\ Alike(store[engine[c].next.id], engine[c].next)
  BY AtWork DEF NothingStale, Holding
<1>3. \A q \in wire : q.by # None
  BY DEF Told
<1>4. CASE StartCycle(c) \/ NextDraft(c)
  <2>1. UNCHANGED <<store, wire>> /\ ~Applied(c)
    BY <1>4 DEF StartCycle, NextDraft, device, Applied, Rest
  <2>2. \E new : engine' = [engine EXCEPT ![c] = new] /\ new.pc # "answer"
    <3>1. CASE StartCycle(c)
      BY <3>1, StartShape
    <3>2. CASE NextDraft(c)
      <4>1. Rest.pc # "answer"
        BY DEF Rest
      <4> QED BY <3>2, <4>1, NextDraftShape
    <3> QED BY <1>4, <3>1, <3>2
  <2> QED BY <1>1, <1>3, <2>1, <2>2, CycleStepTold
<1>5. ASSUME Holding(c), engine[c].pc # "answer"
      PROVE  ~Applied(c) /\ (Inserted(engine[c].next.id) => engine[c].next.sync = "synced")
  BY <1>5, NotYetApplied DEF Applied
<1>6. CASE Mark(c) \/ (\E p \in Photos : Upload(c, p)) \/ MakeEvidence(c)
  <2>1. PICK new \in Running :
           /\ engine' = [engine EXCEPT ![c] = new]
           /\ engine[c].pc \in {"mark", "upload"} /\ new.pc \in {"upload", "patch"}
           /\ new.next \in Draft /\ Alike(new.next, engine[c].next)
           /\ UNCHANGED store \/ Put(new.next)
           /\ UNCHANGED wire
    BY <1>6, HandShape
  <2>2. Holding(c) /\ engine[c].pc # "answer"
    BY <2>1 DEF Holding
  <2>3. new.next.id = engine[c].next.id /\ new.next.sync = engine[c].next.sync
    BY <2>1 DEF Alike
  <2> QED BY <1>1, <1>2, <1>3, <1>5, <2>1, <2>2, <2>3, CycleStepTold
<1>7. CASE Patch(c)
  <2>1. Holding(c) /\ engine[c].pc = "patch"
    BY <1>7, PatchShape
  <2>2. ASSUME NEW new \in Running, NEW q, engine' = [engine EXCEPT ![c] = new], new.pc = "wait",
               Waiting(engine[c].next), new.next = [engine[c].next EXCEPT !.sync = "syncing"],
               Put(new.next), q.by = c, wire' = wire \cup {q}
        PROVE  Told'
    <3>1. new.next \in Draft /\ new.next.id = engine[c].next.id
      BY <1>2, <2>1, <2>2 DEF Draft, SyncStatus
    <3>2. c # None
      BY NoneIsNothing
    <3>3. ~Inserted(engine[c].next.id)
      BY <1>5, <2>1, <2>2 DEF Waiting
    <3> QED BY <1>1, <1>2, <1>3, <1>5, <2>1, <2>2, <3>1, <3>2, <3>3, CycleStepTold
  <2>3. ASSUME NEW new \in Running, engine' = [engine EXCEPT ![c] = new], new.pc = "next",
               UNCHANGED store \/ Put(engine[c].next), UNCHANGED wire
        PROVE  Told'
    BY <1>1, <1>2, <1>3, <1>5, <2>1, <2>3, CycleStepTold
  <2> QED BY <1>7, <2>2, <2>3, PatchShape
<1>8. CASE Answer(c)
  <2>1. /\ engine[c].pc = "answer" /\ Holding(c)
        /\ Put(Settled(engine[c].next, engine[c].answer)) /\ UNCHANGED wire
    BY <1>8, AnswerShape
  <2>2. PICK new \in Running : engine' = [engine EXCEPT ![c] = new] /\ new.pc = "next"
    BY <1>8, AnswerShape
  <2>3. engine[c].answer \in Replies
    BY <1>8, AnswerShape
  <2>4. PICK e \in Draft : e = Settled(engine[c].next, engine[c].answer) /\ e.id = engine[c].next.id
    BY <1>2, <2>1, <2>3, SettledType
  <2>5. Inserted(e.id) => e.sync = "synced"
    <3>1. CASE engine[c].answer.status = "applied"
      <4>1. e = [engine[c].next EXCEPT !.sync = "synced", !.known = engine[c].answer.latest]
        BY <2>4, <3>1 DEF Settled
      <4> QED BY <1>2, <2>1, <4>1 DEF Draft
    <3>2. CASE engine[c].answer.status # "applied"
      BY <2>1, <2>4, <3>2 DEF Told
    <3> QED BY <3>1, <3>2
  <2> QED BY <1>1, <1>2, <1>3, <2>1, <2>2, <2>4, <2>5, CycleStepTold
<1> QED BY <1>4, <1>6, <1>7, <1>8 DEF Cycle

LEMMA ServerTold ==
  ASSUME IInv, Lineage, NothingStale, Told, NEW q \in wire, Server(q)
  PROVE  Told'
<1>1. UNCHANGED <<store, form, jobs>>
  BY DEF Server, Check, Write, device
<1>2. Shown' = Shown
  BY <1>1 DEF Shown
<1>3. q \in [id : Drafts, known : Events, row : Events, by : Cycles \cup {None}, step : {"check", "write"}]
  BY DEF IInv, TypeOK
<1>4. \A p \in wire : p.by # None
  BY DEF Told
<1>5. ASSUME Check(q), q.known = Latest(q.row) PROVE Told'
  <2>1. PICK o : o = [q EXCEPT !.step = "write"]
    OBVIOUS
  <2>2. o.by = q.by
    BY <1>3, <2>1
  <2>3. wire' = (wire \ {q}) \cup {o} /\ UNCHANGED <<engine, insp>>
    BY <1>5, <2>1 DEF Check, server
  <2>4. \A p \in wire' : p.by # None
    BY <1>4, <2>2, <2>3
  <2>5. \A i : Inserted(i)' <=> Inserted(i)
    BY <2>3 DEF Inserted
  <2>6. \A c \in Cycles : Applied(c)' <=> Applied(c)
    BY <2>3 DEF Applied
  <2> QED BY <1>1, <1>2, <2>3, <2>4, <2>5, <2>6 DEF Told
<1>6. ASSUME NEW a \in Replies, Reply(q, a), wire' = wire \ {q},
             NEW grown \in BOOLEAN, \A i \in Drafts : Inserted(i)' <=> Inserted(i) \/ (grown /\ i = q.id),
             a.status = IF grown THEN "applied" ELSE "conflict"
      PROVE  Told'
  <2>1. PICK c \in Cycles : c = q.by /\ engine[c].pc = "wait" /\ engine[c].next.id = q.id
    BY <1>4, <1>6, ReplyShape
  <2>2. PICK new \in Running :
          /\ engine' = [engine EXCEPT ![c] = new] /\ new.pc = "answer" /\ new.answer = a
          /\ new.next = engine[c].next
    BY <1>4, <1>6, <2>1, ReplyShape
  <2>3. \A b \in Cycles : engine'[b] = IF b = c THEN new ELSE engine[b]
    BY <2>2 DEF IInv, TypeOK
  <2>4. Holding(c) /\ ~Applied(c) /\ engine[c].next.sync = "syncing"
    BY <2>1 DEF Holding, Applied, Lineage, Stand
  <2>5. ~Inserted(q.id)
    BY <2>1, <2>4, NotYetApplied
  <2>6. store[q.id] # None
    BY <2>1, <2>4 DEF NothingStale
  <2>7. \A b \in Cycles : Holding(b) => engine[b].next.id \in Drafts
    BY AtWork DEF Holding
  <2>8. \A b \in Cycles : b # c /\ engine[b].pc = "answer" => Holding(b) /\ engine[b].next.id # q.id
    BY <2>1, <2>4 DEF IInv, LockDiscipline, OneCyclePerDraft, Holding
  <2>9. \A b \in Cycles : engine'[b].pc = "answer" =>
          \/ engine'[b].answer.status = "applied"
          \/ engine'[b].answer.status = "conflict" /\ ~Inserted(engine[b].next.id)'
    <3> SUFFICES ASSUME NEW b \in Cycles, engine'[b].pc = "answer", engine'[b].answer.status # "applied"
                 PROVE  engine'[b].answer.status = "conflict" /\ ~Inserted(engine[b].next.id)'
      OBVIOUS
    <3>1. CASE b = c
      <4>1. engine'[b].answer = a /\ engine'[b].next.id = q.id /\ q.id \in Drafts
        BY <1>3, <2>1, <2>2, <2>3, <3>1
      <4>2. a.status = "conflict" /\ ~Inserted(q.id)'
        BY <1>6, <2>5, <4>1
      <4>3. \A k \in DOMAIN insp' : insp'[k] # engine'[b].next.id
        BY <4>1, <4>2 DEF Inserted
      <4> QED BY <4>1, <4>2, <4>3 DEF Inserted
    <3>2. CASE b # c
      <4>1. engine'[b] = engine[b] /\ engine[b].next.id \in Drafts /\ engine[b].next.id # q.id
        BY <2>3, <2>7, <2>8, <3>2
      <4>2. engine[b].answer.status = "conflict" /\ ~Inserted(engine[b].next.id)
        BY <4>1 DEF Told
      <4>3. \A i \in Drafts : i # q.id /\ ~Inserted(i) => ~Inserted(i)'
        BY <1>6
      <4>4. PICK i \in Drafts : i = engine[b].next.id
        BY <4>1
      <4>5. ~Inserted(i)' /\ i = engine'[b].next.id
        BY <4>1, <4>2, <4>3, <4>4
      <4>6. \A k \in DOMAIN insp' : insp'[k] # engine'[b].next.id
        BY <4>5 DEF Inserted
      <4> QED BY <4>1, <4>2, <4>6 DEF Inserted
    <3> QED BY <3>1, <3>2
  <2>10. \A b \in Cycles : Applied(b) => b # c /\ Applied(b)' /\ engine'[b].next.id = engine[b].next.id
    BY <2>3, <2>4 DEF Applied
  <2>11. grown => Applied(c)' /\ engine'[c].next.id = q.id
    BY <1>6, <2>1, <2>2, <2>3 DEF Applied
  <2>12. \A i \in Drafts : Inserted(i)' /\ store[i] # None =>
           store[i].sync = "synced" \/ \E b \in Cycles : Applied(b)' /\ engine'[b].next.id = i
    BY <1>6, <2>10, <2>11 DEF Told
  <2>13. \A i \in Drafts : Inserted(i)' /\ store[i] = None => Inserted(i)
    BY <1>6, <2>6
  <2>14. \A p \in wire' : p.by # None
    BY <1>4, <1>6
  <2> QED BY <1>1, <1>2, <2>9, <2>12, <2>13, <2>14 DEF Told
<1>7. CASE Check(q) /\ q.known # Latest(q.row)
  <2>1. PICK a : a = [status |-> "conflict"]
    OBVIOUS
  <2>2. wire' = wire \ {q} /\ Reply(q, a) /\ UNCHANGED insp
    BY <1>7, <2>1 DEF Check, server
  <2>3. a \in Replies /\ a.status = "conflict"
    BY <2>1 DEF Replies
  <2>4. \A i \in Drafts : Inserted(i)' <=> Inserted(i) \/ (FALSE /\ i = q.id)
    BY <2>2 DEF Inserted
  <2> QED BY <1>6, <2>2, <2>3, <2>4
<1>8. CASE Write(q)
  <2>1. PICK a : a = [status |-> "applied",
                      latest |-> IF q.row # None THEN <<"reserve", res + 2>>
                                 ELSE <<"inspection", Len(insp) + 1>>]
    OBVIOUS
  <2>2. wire' = wire \ {q} /\ Reply(q, a) /\ Insert(q.id, q.row)
    BY <1>8, <2>1 DEF Write
  <2>3. a \in Replies /\ a.status = "applied"
    <3>1. Len(insp) \in Nat /\ res \in Nat
      BY DEF IInv, TypeOK
    <3>2. (IF q.row # None THEN <<"reserve", res + 2>> ELSE <<"inspection", Len(insp) + 1>>) \in Events
      BY <3>1 DEF Events
    <3> QED BY <2>1, <3>2 DEF Replies
  <2>4. \A i : Inserted(i)' <=> Inserted(i) \/ i = q.id
    BY <1>3, <2>2, InsertGrows
  <2>5. \A i \in Drafts : Inserted(i)' <=> Inserted(i) \/ (TRUE /\ i = q.id)
    BY <2>4
  <2> QED BY <1>6, <2>2, <2>3, <2>5
<1> QED BY <1>5, <1>7, <1>8 DEF Server, Check

LEMMA ToldKeeps ==
  ASSUME IInv, IInv', Lineage, NothingStale, Told, Spending, Quiet', ~Meet, [Next]_vars
  PROVE  Told'
<1>1. /\ left.losses \in Nat /\ left.restarts \in Nat /\ left'.losses \in Nat /\ left'.restarts \in Nat
      /\ Budget.losses \in Nat /\ Budget.restarts \in Nat
      /\ left.losses <= Budget.losses /\ left.restarts <= Budget.restarts
      /\ left'.losses = Budget.losses /\ left'.restarts = Budget.restarts
  BY BudgetHasNames DEF IInv, TypeOK, Spending, Quiet
<1>2. \A c \in Cycles : ~Lose(c)
  BY <1>1, LeftFalls
<1>3. ~Restart
  BY <1>1, LeftFalls
<1>4. CASE OtherInspects \/ Correction \/ UNCHANGED vars
  <2>1. UNCHANGED <<store, form, jobs, engine, wire>>
    BY <1>4 DEF OtherInspects, Correction, vars, device, cycle
  <2>2. \A i \in Drafts : Inserted(i)' <=> Inserted(i)
    <3>1. CASE OtherInspects
      <4>1. None \notin Drafts /\ Insert(None, MissionRow)
        BY <3>1, NoneIsNothing DEF OtherInspects
      <4> QED BY <4>1, InsertGrows
    <3>2. CASE Correction \/ UNCHANGED vars
      BY <3>2 DEF Correction, vars, server, Inserted
    <3> QED BY <1>4, <3>1, <3>2
  <2>3. \A c \in Cycles : engine[c].pc = "answer" => engine[c].next.id \in Drafts
    BY AtWork DEF Holding
  <2>4. \A c \in Cycles : engine[c].pc = "answer" /\ ~Inserted(engine[c].next.id) => ~Inserted(engine[c].next.id)'
    <3> SUFFICES ASSUME NEW c \in Cycles, engine[c].pc = "answer", ~Inserted(engine[c].next.id)
                 PROVE  ~Inserted(engine[c].next.id)'
      OBVIOUS
    <3>1. PICK i \in Drafts : i = engine[c].next.id
      BY <2>3
    <3>2. ~Inserted(i)' /\ engine' = engine
      BY <2>1, <2>2, <3>1
    <3> QED BY <3>1, <3>2 DEF Inserted
  <2>5. Shown' = Shown /\ \A c \in Cycles : Applied(c)' <=> Applied(c)
    BY <2>1 DEF Shown, Applied
  <2> QED BY <2>1, <2>2, <2>4, <2>5 DEF Told
<1>5. CASE Form
  BY <1>5, FormTold
<1>6. CASE Chain
  BY <1>6, ChainTold
<1>7. CASE \E c \in Cycles : Cycle(c)
  BY <1>2, <1>7, CycleTold
<1>8. CASE \E q \in wire : Server(q)
  BY <1>8, ServerTold
<1> QED BY <1>3, <1>4, <1>5, <1>6, <1>7, <1>8 DEF Next

LEMMA InitTurn ==
  ASSUME MCInit
  PROVE  IInv /\ Lineage /\ TurnInv
<1>1. IInv /\ Lineage
  BY InitIInv, InitLineage DEF MCInit
<1>2. Init /\ met = 0
  BY DEF MCInit
<1>3. \A i \in Drafts : ~Inserted(i)
  BY <1>2, NoneIsNothing DEF Init, Inserted
<1>4. \A c \in Cycles : engine[c].pc = "rest"
  BY <1>2 DEF Init, Rest
<1>5. Listed = {} /\ Shown = {}
  BY <1>2, <1>4 DEF Init, Listed, Shown
<1>6. OneHandled
  BY <1>2, <1>3 DEF Init, OneHandled, Inserted
<1>7. NothingStale
  BY <1>2, <1>4, <1>5 DEF Init, NothingStale, Holding
<1>8. Told
  BY <1>2, <1>3, <1>4, <1>5 DEF Init, Told
<1>9. Spending /\ NoRetry
  <2>1. left = Budget /\ \A what \in DOMAIN Budget : Budget[what] \in Nat
    BY <1>2, BudgetHasNames DEF Init
  <2>2. Spending
    BY <2>1 DEF Spending
  <2>3. NoRetry
    BY <1>2 DEF Init, NoRetry
  <2> QED BY <2>2, <2>3
<1> QED BY <1>1, <1>2, <1>6, <1>7, <1>8, <1>9 DEF TurnInv

\* A step as long as they do not meet.
LEMMA InTurn ==
  ASSUME [MCNext]_<<vars, saved, met>>, met \in Nat
  PROVE  /\ [Next]_vars /\ met' \in Nat
         /\ met' = 0 => met = 0 /\ ~Meet /\ ~Cross
<1>1. CASE MCNext
  <2>1. CASE Meet \/ Cross
    BY <1>1, <2>1 DEF MCNext
  <2>2. CASE ~(Meet \/ Cross)
    BY <1>1, <2>2 DEF MCNext
  <2> QED BY <2>1, <2>2
<1>2. CASE UNCHANGED <<vars, saved, met>>
  <2>1. UNCHANGED vars /\ UNCHANGED met
    BY <1>2
  <2>2. UNCHANGED store /\ UNCHANGED wire
    BY <2>1 DEF vars, device, cycle
  <2> QED BY <2>1, <2>2 DEF Meet, Cross
<1> QED BY <1>1, <1>2

LEMMA QuietBefore ==
  ASSUME IInv, IInv', Spending, [Next]_vars, Quiet'
  PROVE  Quiet
<1>1. /\ left.losses \in Nat /\ left.restarts \in Nat
      /\ Budget.losses \in Nat /\ Budget.restarts \in Nat
      /\ left.losses <= Budget.losses /\ left.restarts <= Budget.restarts
      /\ left'.losses = Budget.losses /\ left'.restarts = Budget.restarts
      /\ left'.losses <= left.losses /\ left'.restarts <= left.restarts
  BY LeftFalls, BudgetHasNames DEF IInv, TypeOK, Spending, Quiet
<1> QED BY <1>1 DEF Quiet

LEMMA NextTurn ==
  ASSUME IInv, Lineage, TurnInv, [MCNext]_<<vars, saved, met>>
  PROVE  IInv' /\ Lineage' /\ TurnInv'
<1>1. /\ [Next]_vars /\ met' \in Nat
      /\ met' = 0 => met = 0 /\ ~Meet /\ ~Cross
  BY InTurn DEF TurnInv
<1>2. IInv' /\ Lineage'
  BY <1>1, NextIInv, NextLineage
<1>3. Spending' /\ NoRetry'
  BY <1>1, <1>2, SpendingKeeps, NoRetryKeeps DEF TurnInv
<1>4. ASSUME met' = 0 PROVE OneHandled' /\ NothingStale' /\ (Quiet' => Told')
  <2>1. ~Meet /\ ~Cross /\ OneHandled /\ NothingStale /\ (Quiet => Told) /\ Spending
    BY <1>1, <1>4 DEF TurnInv
  <2>2. OneHandled' /\ NothingStale'
    BY <1>1, <2>1, OneHandledKeeps, NothingStaleKeeps
  <2>3. Quiet' => Told'
    BY <1>1, <1>2, <2>1, QuietBefore, ToldKeeps
  <2> QED BY <2>2, <2>3
<1> QED BY <1>1, <1>2, <1>3, <1>4 DEF TurnInv

LEMMA TurnInductive == MCSpec => [](IInv /\ Lineage /\ TurnInv)
<1>1. MCInit => IInv /\ Lineage /\ TurnInv
  BY InitTurn
<1>2. (IInv /\ Lineage /\ TurnInv) /\ [MCNext]_<<vars, saved, met>> => (IInv /\ Lineage /\ TurnInv)'
  BY NextTurn
<1> QED BY <1>1, <1>2, PTL DEF MCSpec

\* How often an id stands in the history.
LEMMA CountOfInsp ==
  ASSUME IInv, NEW i, \A a, b \in DOMAIN insp : insp[a] = i /\ insp[b] = i => a = b
  PROVE  /\ Count(insp, i) \in Nat /\ Count(insp, i) <= 1
         /\ Count(insp, i) = 1 <=> Inserted(i)
<1> DEFINE S == {k \in DOMAIN insp : insp[k] = i}
<1>1. CASE S = {}
  <2>1. Cardinality(S) = 0
    BY <1>1, FS_EmptySet
  <2> QED BY <1>1, <2>1 DEF Count, Inserted
<1>2. CASE S # {}
  <2>1. PICK k \in S : TRUE
    BY <1>2
  <2>2. S = {k}
    BY <2>1
  <2>3. Cardinality(S) = 1
    BY <2>2, FS_Singleton
  <2> QED BY <2>1, <2>3 DEF Count, Inserted
<1> QED BY <1>1, <1>2

\* As long as the server handles one submission at a time, it keeps one
\* inspection of a correlation id, however many cycles, losses
\* and restarts there are (syncDraft, expected_latest_event_id).
THEOREM SubmittedOnceInTurnCorrect == MCSpec => []SubmittedOnceInTurn
<1>1. IInv /\ Lineage /\ TurnInv => SubmittedOnceInTurn
  <2> SUFFICES ASSUME IInv, TurnInv, met = 0, NEW i \in Drafts
               PROVE  Count(insp, i) <= 1
    BY DEF SubmittedOnceInTurn
  <2>1. \A a, b \in DOMAIN insp : insp[a] = i /\ insp[b] = i => a = b
    BY DEF TurnInv, OneHandled
  <2> QED BY <2>1, CountOfInsp
<1> QED BY <1>1, TurnInductive, PTL

\* As long as the actors do not meet, what the store shows as synchronised was
\* applied, and what it shows in conflict was not, unless an answer was lost or
\* the application closed (syncDraft, InspectionFormView).
THEOREM SettledIsTrueInTurnCorrect == MCSpec => []SettledIsTrueInTurn
<1>1. IInv /\ Lineage /\ TurnInv => SettledIsTrueInTurn
  <2> SUFFICES ASSUME IInv, Lineage, TurnInv, met = 0, NEW i \in Drafts, store[i] # None
               PROVE  /\ store[i].sync = "synced" => Count(insp, i) = 1
                      /\ store[i].sync = "conflict" /\ Count(insp, i) = 1 =>
                           left.losses < Budget.losses \/ left.restarts < Budget.restarts
    BY DEF SettledIsTrueInTurn
  <2>1. Count(insp, i) = 1 <=> Inserted(i)
    BY CountOfInsp DEF TurnInv, OneHandled
  <2>2. store[i] \in Kept /\ store[i].id = i
    BY DEF Kept, Stored, IInv, StoreKeyed
  <2>3. store[i].sync = "synced" => Inserted(i)
    BY <2>2 DEF Lineage
  <2>4. ASSUME store[i].sync = "conflict", Inserted(i) PROVE ~Quiet
    <3> SUFFICES ASSUME Quiet PROVE FALSE
      OBVIOUS
    <3>1. PICK c \in Cycles : Applied(c) /\ engine[c].next.id = i
      BY <2>4 DEF TurnInv, Told
    <3>2. Holding(c) /\ engine[c].next.sync = "syncing"
      BY <3>1 DEF Applied, Holding, Lineage, Stand
    <3>3. store[i].sync = engine[c].next.sync
      BY <3>1, <3>2 DEF TurnInv, NothingStale, Alike
    <3> QED BY <2>4, <3>2, <3>3
  <2>5. ~Quiet => left.losses < Budget.losses \/ left.restarts < Budget.restarts
    <3>1. /\ left.losses \in Nat /\ left.restarts \in Nat
          /\ Budget.losses \in Nat /\ Budget.restarts \in Nat
          /\ left.losses <= Budget.losses /\ left.restarts <= Budget.restarts
      BY BudgetHasNames DEF IInv, TypeOK, TurnInv, Spending
    <3> QED BY <3>1 DEF Quiet
  <2> QED BY <2>1, <2>3, <2>4, <2>5
<1> QED BY <1>1, TurnInductive, PTL

\* A draft in conflict may be discarded, or keeps its status and what it holds.
Waits(i) ==
  store[i] # None /\ store[i].sync = "conflict" =>
    \/ store'[i] = None
    \/ /\ store'[i].sync = "conflict"
       /\ left.fails = Budget.fails => store[i].edits \subseteq store'[i].edits

\* A step of a cycle puts back the draft it has in hand, the same but for its
\* photos, unless that one is not in conflict.
LEMMA PutWaits ==
  ASSUME IInv, NothingStale, NEW c \in Cycles, Holding(c), NEW e \in Draft, Put(e),
         e.id = engine[c].next.id, Alike(e, engine[c].next) \/ engine[c].next.sync # "conflict"
  PROVE  \A i \in Drafts : Waits(i)
<1> SUFFICES ASSUME NEW i \in Drafts, store[i] # None, store[i].sync = "conflict"
             PROVE  store'[i] = store[i] \/ (store'[i].sync = "conflict" /\ store'[i].edits = store[i].edits)
  BY DEF Waits
<1>1. store' = [store EXCEPT ![e.id] = e] /\ e.id \in Drafts
  BY DEF Put, Draft
<1>2. CASE i # e.id
  BY <1>1, <1>2 DEF IInv, TypeOK
<1>3. CASE i = e.id
  <2>1. store'[i] = e
    BY <1>1, <1>3 DEF IInv, TypeOK
  <2>2. Alike(store[i], engine[c].next)
    BY <1>3 DEF NothingStale
  <2> QED BY <2>1, <2>2 DEF Alike
<1> QED BY <1>2, <1>3

LEMMA CycleWaits ==
  ASSUME IInv, Lineage, NothingStale, NEW c \in Cycles, Cycle(c)
  PROVE  \A i \in Drafts : Waits(i)
<1>1. UNCHANGED store => \A i \in Drafts : Waits(i)
  BY DEF Waits
<1>2. CASE StartCycle(c) \/ NextDraft(c) \/ Lose(c)
  BY <1>1, <1>2 DEF StartCycle, NextDraft, Lose, device
<1>3. CASE Mark(c) \/ (\E p \in Photos : Upload(c, p)) \/ MakeEvidence(c)
  <2>1. PICK e \in Draft : /\ engine[c].pc \in {"mark", "upload"} /\ Alike(e, engine[c].next)
                           /\ UNCHANGED store \/ Put(e)
    BY <1>3, HandShape
  <2> QED BY <1>1, <2>1, PutWaits DEF Alike, Holding
<1>4. CASE Patch(c)
  <2>1. Holding(c) /\ engine[c].pc = "patch" /\ engine[c].next \in Draft
    BY <1>4, PatchShape, AtWork DEF Holding
  <2>2. ASSUME NEW e, e = [engine[c].next EXCEPT !.sync = "syncing"], Put(e), Waiting(engine[c].next)
        PROVE  \A i \in Drafts : Waits(i)
    <3>1. e \in Draft /\ e.id = engine[c].next.id
      BY <2>1, <2>2 DEF Draft, SyncStatus
    <3>2. engine[c].next.sync # "conflict"
      BY <2>2 DEF Waiting
    <3> QED BY <2>1, <2>2, <3>1, <3>2, PutWaits
  <2>3. ASSUME Put(engine[c].next) PROVE \A i \in Drafts : Waits(i)
    BY <2>1, <2>3, PutWaits DEF Alike
  <2> QED BY <1>1, <1>4, <2>2, <2>3, PatchShape
<1>5. CASE Answer(c)
  <2>1. /\ engine[c].pc = "answer" /\ Holding(c) /\ engine[c].answer \in Replies /\ engine[c].next \in Draft
        /\ Put(Settled(engine[c].next, engine[c].answer))
    BY <1>5, AnswerShape
  <2>2. PICK e \in Draft : e = Settled(engine[c].next, engine[c].answer) /\ e.id = engine[c].next.id
    BY <2>1, SettledType
  <2>3. engine[c].next.sync = "syncing"
    BY <2>1 DEF Lineage, Stand
  <2> QED BY <2>1, <2>2, <2>3, PutWaits
<1> QED BY <1>2, <1>3, <1>4, <1>5 DEF Cycle

LEMMA ChainWaits ==
  ASSUME IInv, NothingStale, NoRetry, NEW i \in DOMAIN jobs, WriteJob(i)
  PROVE  \A j \in Drafts : Waits(j)
<1>1. jobs[i] \in Job /\ jobs[i].next \in Draft /\ jobs[i].next.id \in Drafts
  BY DEF IInv, TypeOK, Job, Jobs, Draft
<1>2. jobs[i].base # None /\ jobs[i].base \in Draft /\ jobs[i].base.edits \in SUBSET Edits
  BY <1>1 DEF WriteJob, Jobs, Job, Draft
<1>3. PICK written : written = Mutate(jobs[i].kind, jobs[i].item, jobs[i].next, jobs[i].base)
  OBVIOUS
<1>4. written.id = jobs[i].base.id /\ written.sync = jobs[i].base.sync
      /\ (jobs[i].kind # "all" => jobs[i].base.edits \subseteq written.edits)
  BY <1>1, <1>2, <1>3 DEF Mutate, Draft, Job, Jobs
<1>5. store' = [store EXCEPT ![written.id] = written]
  BY <1>3 DEF WriteJob
<1>6. jobs[i].base = IF store[jobs[i].next.id] # None THEN store[jobs[i].next.id] ELSE jobs[i].next
  BY <1>2 DEF NothingStale
<1>7. written.id = jobs[i].next.id
  BY <1>1, <1>4, <1>6 DEF IInv, StoreKeyed
<1> SUFFICES ASSUME NEW j \in Drafts, store[j] # None, store[j].sync = "conflict"
             PROVE  /\ store'[j].sync = "conflict"
                    /\ left.fails = Budget.fails => store[j].edits \subseteq store'[j].edits
  BY DEF Waits
<1>8. CASE j # written.id
  BY <1>5, <1>8 DEF IInv, TypeOK
<1>9. CASE j = written.id
  <2>1. store'[j] = written /\ jobs[i].base = store[j]
    BY <1>5, <1>6, <1>7, <1>9 DEF IInv, TypeOK
  <2>2. left.fails = Budget.fails => jobs[i].kind # "all"
    BY DEF NoRetry
  <2> QED BY <1>4, <2>1, <2>2
<1> QED BY <1>8, <1>9

\* As long as the actors do not meet, nothing but a discard takes a draft out
\* of conflict, and nothing but a retried write takes an input out of it
\* (runSyncCycle, patchDraft, retryPersist).
THEOREM ConflictWaitsInTurnCorrect == MCSpec => ConflictWaitsInTurn
<1>1. IInv /\ Lineage /\ TurnInv /\ [MCNext]_<<vars, saved, met>> =>
        (met' = 0 => \A i \in Drafts : Waits(i))
  <2> SUFFICES ASSUME IInv, Lineage, TurnInv, [MCNext]_<<vars, saved, met>>, met' = 0
               PROVE  \A i \in Drafts : Waits(i)
    OBVIOUS
  <2>1. [Next]_vars /\ NothingStale /\ NoRetry
    BY InTurn DEF TurnInv
  <2>2. UNCHANGED store => \A i \in Drafts : Waits(i)
    BY DEF Waits
  <2>3. CASE Form
    <3>1. UNCHANGED store \/ \E k : store' = [store EXCEPT ![k] = None]
      BY <2>3 DEF Form, OpenForm, CloseForm, RetryPersist, Discard, Fill, AddPhoto, RemovePhoto, Persist
    <3>2. ASSUME NEW k, store' = [store EXCEPT ![k] = None]
          PROVE  \A i \in Drafts : Waits(i)
      <4>1. \A i \in Drafts : store'[i] = None \/ store'[i] = store[i]
        BY <3>2 DEF IInv, TypeOK
      <4> QED BY <4>1 DEF Waits
    <3> QED BY <2>2, <3>1, <3>2
  <2>4. CASE Chain
    <3>1. UNCHANGED store \/ \E i \in DOMAIN jobs : WriteJob(i)
      BY <2>4 DEF Chain, ReadJob, FailJob
    <3> QED BY <2>1, <2>2, <3>1, ChainWaits
  <2>5. CASE \E c \in Cycles : Cycle(c)
    BY <2>1, <2>5, CycleWaits
  <2>6. CASE OtherInspects \/ Correction \/ Restart \/ (\E q \in wire : Server(q)) \/ UNCHANGED vars
    <3>1. UNCHANGED store
      BY <2>6 DEF OtherInspects, Correction, Restart, Server, Check, Write, vars, device
    <3> QED BY <2>2, <3>1
  <2> QED BY <2>1, <2>3, <2>4, <2>5, <2>6 DEF Next
<1>2. (met' = 0 => \A i \in Drafts : Waits(i)) =>
        [met' = 0 => \A i \in Drafts :
           store[i] # None /\ store[i].sync = "conflict" =>
             \/ store'[i] = None
             \/ /\ store'[i].sync = "conflict"
                /\ left.fails = Budget.fails => store[i].edits \subseteq store'[i].edits
        ]_<<vars, saved, met>>
  BY DEF Waits
<1> QED BY <1>1, <1>2, TurnInductive, PTL DEF MCSpec, ConflictWaitsInTurn

-----------------------------------------------------------------------------
(* The uploads, as long as the actors do not meet and no write fails.       *)

Adds(k, p) == jobs[k].kind = "add" /\ jobs[k].item = p

\* Where a photo is: in the store or in the hands of a cycle, or in memory.
Carried(i, p) ==
  \/ store[i] # None /\ store[i].photos[p] # "none"
  \/ \E c \in Cycles : Holding(c) /\ engine[c].next.id = i /\ engine[c].next.photos[p] # "none"
OnScreen(i, p) ==
  \/ \E k \in DOMAIN jobs : jobs[k].next.id = i /\ jobs[k].next.photos[p] # "none"
  \/ form # Closed /\ form.draft.id = i /\ form.draft.photos[p] # "none"
Has(i, p) == Carried(i, p) \/ OnScreen(i, p)

NotTaken(p) == docs[p] = 0 /\ (\A i \in Drafts : ~Has(i, p)) /\ \A k \in DOMAIN jobs : ~Adds(k, p)

\* A photo belongs to one draft, and one link of a chain adds it.
OneHome(p) ==
  /\ \A i, j \in Drafts : Has(i, p) /\ Has(j, p) => i = j
  /\ \A k, m \in DOMAIN jobs : Adds(k, p) /\ Adds(m, p) => k = m
  /\ \A k \in DOMAIN jobs : Adds(k, p) => jobs[k].next.photos[p] # "none"

\* Until that link has run, nothing knows the photo but the memory.
NotYetStored(p) ==
  (\E k \in DOMAIN jobs : Adds(k, p)) => docs[p] = 0 /\ \A i \in Drafts : ~Carried(i, p)

\* A draft that is not stored yet has its photos added first on its chain.
AddedFirst(p) ==
  /\ \A k \in DOMAIN jobs : jobs[k].next.photos[p] # "none" /\ store[jobs[k].next.id] = None =>
       \E m \in 1 .. k : Adds(m, p) /\ jobs[m].mount = jobs[k].mount /\ jobs[m].next.id = jobs[k].next.id
  /\ form # Closed /\ form.draft.photos[p] # "none" /\ store[form.draft.id] = None =>
       \E m \in DOMAIN jobs : Adds(m, p) /\ jobs[m].mount = form.mount /\ jobs[m].next.id = form.draft.id

\* What a cycle uploads, it has marked, and so will write back.
Marked == \A c \in Cycles : engine[c].pc = "upload" =>
            engine[c].changed \/ \A p \in Photos : engine[c].next.photos[p] # "syncing"

\* Nothing would upload the photo again.
Done == {"none", "synced"}
WritesBack(c, i) == engine[c].pc \in {"upload", "patch"} /\ engine[c].changed /\ engine[c].next.id = i
Safe(p) ==
  /\ \A c \in Cycles : Holding(c) => engine[c].next.photos[p] \in Done
  /\ \A i \in Drafts : store[i] # None /\ store[i].photos[p] \notin Done => \E c \in Cycles : WritesBack(c, i)

\* Each loss and each restart may cost one more upload.
Trials == (Budget.losses - left.losses) + (Budget.restarts - left.restarts)
Bounded(p) == docs[p] <= 1 + Trials /\ (docs[p] = 1 + Trials => Safe(p))

PhotoInv(p) ==
  /\ p \notin taken => NotTaken(p)
  /\ OneHome(p) /\ NotYetStored(p) /\ AddedFirst(p) /\ Bounded(p)

UploadInv == met = 0 /\ left.fails = Budget.fails => Marked /\ \A p \in Photos : PhotoInv(p)

\* What a cycle may make of the photos of a draft without uploading any.
Later(d, e) == \A p \in Photos : /\ d.photos[p] = "none" => e.photos[p] = "none"
                                 /\ d.photos[p] \in Done => e.photos[p] \in Done

\* A step of a cycle that uploads nothing: it takes a stored draft, or goes on
\* with the one it has in hand, and writes back what it has marked.
PutsBack(c) ==
  Holding(c) /\ \E e \in Draft : Put(e) /\ e.id = engine[c].next.id /\ Later(engine[c].next, e)
Moves(c, new) ==
  /\ engine' = [engine EXCEPT ![c] = new]
  /\ new.pc \in {"mark", "upload", "patch", "wait", "answer"} =>
       \/ Holding(c) /\ new.next.id = engine[c].next.id /\ Later(engine[c].next, new.next)
       \/ ~Holding(c) /\ new.next.id \in Drafts /\ store[new.next.id] # None /\ new.next = store[new.next.id]
  /\ new.pc = "upload" => new.changed \/ \A p \in Photos : new.next.photos[p] # "syncing"
  /\ \A i : WritesBack(c, i) => PutsBack(c) \/ (new.pc = "patch" /\ new.changed /\ new.next.id = i)
  /\ UNCHANGED store \/ PutsBack(c)

-----------------------------------------------------------------------------
LEMMA LaterIsReflexive == \A d : Later(d, d)
BY DEF Later

LEMMA StartMoves ==
  ASSUME IInv, NEW c \in Cycles, StartCycle(c)
  PROVE  \E new : Moves(c, new)
<1>1. PICK new \in Running : engine' = [engine EXCEPT ![c] = new] /\ new.pc = "next"
  BY StartShape
<1>2. UNCHANGED store /\ engine[c].pc = "rest"
  BY DEF StartCycle, device, Rest
<1> QED BY <1>1, <1>2 DEF Moves, WritesBack

LEMMA NextDraftMoves ==
  ASSUME IInv, NothingStale, NEW c \in Cycles, NextDraft(c)
  PROVE  \E new : Moves(c, new)
<1>1. UNCHANGED store /\ engine[c].pc = "next" /\ ~Holding(c) /\ \A i : ~WritesBack(c, i)
  BY DEF NextDraft, device, Holding, WritesBack
<1>2. CASE engine' = [engine EXCEPT ![c] = Rest]
  <2>1. Rest.pc = "rest"
    BY DEF Rest
  <2> QED BY <1>1, <1>2, <2>1 DEF Moves
<1>3. CASE engine' # [engine EXCEPT ![c] = Rest]
  <2>1. engine[c] \in Running /\ engine[c].todo # <<>> /\ engine[c].todo \in Seq(Draft)
    BY <1>1, <1>3, AtWork DEF NextDraft, Step, Running
  <2>2. PICK d, rest : d = Head(engine[c].todo) /\ rest = [engine[c] EXCEPT !.todo = Tail(engine[c].todo)]
    OBVIOUS
  <2>3. d \in Draft /\ d.id \in Drafts /\ store[d.id] # None
    <3>1. 1 \in DOMAIN engine[c].todo /\ d = engine[c].todo[1]
      BY <2>1, <2>2
    <3>2. d \in Listed
      BY <1>1, <3>1, InCycle DEF ByCycle
    <3> QED BY <3>2, DraftsOfCopies DEF NothingStale, Kept
  <2>4. PICK now : now = store[d.id]
    OBVIOUS
  <2>5. now \in Draft /\ now.id = d.id /\ now # None
    BY <2>3, <2>4 DEF IInv, TypeOK, StoreKeyed
  <2>6. rest \in Running /\ rest.pc = "next"
    <3>1. Tail(engine[c].todo) \in Seq(Draft)
      BY <2>1
    <3> QED BY <1>1, <2>1, <2>2, <3>1 DEF Running
  <2>7. CASE engine' = [engine EXCEPT ![c] = rest]
    BY <1>1, <2>6, <2>7 DEF Moves
  <2>8. CASE engine' # [engine EXCEPT ![c] = rest]
    <3>1. PICK new : new = [rest EXCEPT !.pc = IF ToSend(now) = {} THEN "upload" ELSE "mark",
                                        !.next = now, !.row = row]
      OBVIOUS
    <3>2. engine' = [engine EXCEPT ![c] = new]
      BY <1>1, <2>1, <2>2, <2>3, <2>4, <2>8, <3>1 DEF NextDraft, Step
    <3>3. new.next = now /\ new.pc = IF ToSend(now) = {} THEN "upload" ELSE "mark"
      BY <2>6, <3>1 DEF Running
    <3>4. ToSend(now) = {} => \A p \in Photos : now.photos[p] # "syncing"
      BY DEF ToSend
    <3> QED BY <1>1, <2>3, <2>4, <2>5, <3>2, <3>3, <3>4 DEF Moves
  <2> QED BY <2>7, <2>8
<1> QED BY <1>2, <1>3

LEMMA MarkMoves ==
  ASSUME IInv, NEW c \in Cycles, Mark(c)
  PROVE  \E new : Moves(c, new)
<1>1. engine[c].pc = "mark" /\ Holding(c) /\ engine[c] \in Running /\ engine[c].next \in Draft
  BY AtWork DEF Mark, Holding
<1>2. PICK d, marked :
        /\ d = engine[c].next
        /\ marked = [d EXCEPT !.photos = [p \in Photos |-> IF p \in ToSend(d) THEN "syncing" ELSE d.photos[p]]]
  OBVIOUS
<1>3. marked \in Draft /\ marked.id = d.id
      /\ \A p \in Photos : marked.photos[p] = IF p \in ToSend(d) THEN "syncing" ELSE d.photos[p]
  BY <1>1, <1>2 DEF Draft, PhotoStatus
<1>4. Later(d, marked)
  BY <1>3 DEF Later, ToSend, Done
<1>5. PICK new : new = [engine[c] EXCEPT !.pc = "upload", !.next = marked, !.changed = TRUE]
  OBVIOUS
<1>6. new.pc = "upload" /\ new.next = marked /\ new.changed
  BY <1>1, <1>5 DEF Running
<1>7. Put(marked) /\ engine' = [engine EXCEPT ![c] = new]
  BY <1>2, <1>5 DEF Mark, Step
<1>8. PutsBack(c)
  BY <1>1, <1>2, <1>3, <1>4, <1>7 DEF PutsBack
<1> QED BY <1>1, <1>2, <1>3, <1>4, <1>6, <1>7, <1>8 DEF Moves

LEMMA EvidenceMoves ==
  ASSUME IInv, NEW c \in Cycles, MakeEvidence(c)
  PROVE  \E new : Moves(c, new)
<1>1. engine[c].pc = "upload" /\ Holding(c) /\ engine[c] \in Running /\ engine[c].next \in Draft
  BY AtWork DEF MakeEvidence, Holding
<1>2. UNCHANGED store
  BY DEF MakeEvidence, device
<1>3. PICK e : e = [engine[c].next EXCEPT !.evidence = TRUE]
  OBVIOUS
<1>4. e.id = engine[c].next.id /\ Later(engine[c].next, e)
  BY <1>1, <1>3 DEF Draft, Later
<1>5. \E new : /\ engine' = [engine EXCEPT ![c] = new] /\ new.pc = "patch"
               /\ new.next = engine[c].next \/ new.next = e
               /\ engine[c].changed => new.changed
  <2>1. CASE Step(c, [engine[c] EXCEPT !.pc = "patch"])
    <3>1. PICK new : new = [engine[c] EXCEPT !.pc = "patch"]
      OBVIOUS
    <3>2. new.pc = "patch" /\ new.next = engine[c].next /\ new.changed = engine[c].changed
      BY <1>1, <3>1 DEF Running
    <3> QED BY <2>1, <3>1, <3>2 DEF Step
  <2>2. CASE Step(c, [engine[c] EXCEPT !.pc = "patch", !.next.evidence = TRUE, !.changed = TRUE])
    <3>1. PICK new : new = [engine[c] EXCEPT !.pc = "patch", !.next = e, !.changed = TRUE]
      OBVIOUS
    <3>2. new.pc = "patch" /\ new.next = e /\ new.changed
      BY <1>1, <3>1 DEF Running
    <3>3. [engine[c] EXCEPT !.pc = "patch", !.next.evidence = TRUE, !.changed = TRUE] = new
      BY <1>1, <1>3, <3>1 DEF Running, Draft
    <3> QED BY <2>2, <3>2, <3>3 DEF Step
  <2> QED BY <2>1, <2>2 DEF MakeEvidence
<1> QED BY <1>1, <1>2, <1>4, <1>5, LaterIsReflexive DEF Moves, WritesBack

LEMMA PatchMoves ==
  ASSUME IInv, NEW c \in Cycles, Patch(c)
  PROVE  \E new : Moves(c, new)
<1>1. engine[c].pc = "patch" /\ Holding(c) /\ engine[c] \in Running /\ engine[c].next \in Draft
  BY AtWork DEF Patch, Holding
<1>2. PICK d, sent : d = engine[c].next /\ sent = [d EXCEPT !.sync = "syncing"]
  OBVIOUS
<1>3. sent \in Draft /\ sent.id = d.id /\ Later(d, sent)
  BY <1>1, <1>2 DEF Draft, SyncStatus, Later
<1>4. CASE Waiting(d) /\ Decide \in d.edits
  <2>1. PICK new : new = [engine[c] EXCEPT !.pc = "wait", !.next = sent]
    OBVIOUS
  <2>2. Put(sent) /\ engine' = [engine EXCEPT ![c] = new]
    BY <1>2, <1>4, <2>1 DEF Patch, Step
  <2>3. new.pc = "wait" /\ new.next = sent
    BY <1>1, <2>1 DEF Running
  <2>4. PutsBack(c)
    BY <1>1, <1>2, <1>3, <2>2 DEF PutsBack
  <2> QED BY <1>1, <1>2, <1>3, <2>2, <2>3, <2>4 DEF Moves
<1>5. CASE ~(Waiting(d) /\ Decide \in d.edits)
  <2>1. IF engine[c].changed THEN Put(d) ELSE UNCHANGED store
    BY <1>2, <1>5 DEF Patch
  <2>2. Release(c)
    BY <1>2, <1>5 DEF Patch
  <2>3. PICK new \in Running : engine' = [engine EXCEPT ![c] = new] /\ new.pc = "next"
    BY <1>1, <2>2, ReleaseShape
  <2>4. Put(d) => PutsBack(c)
    BY <1>1, <1>2, LaterIsReflexive DEF PutsBack
  <2> QED BY <2>1, <2>3, <2>4 DEF Moves, WritesBack
<1> QED BY <1>4, <1>5

LEMMA LoseMoves ==
  ASSUME IInv, NEW c \in Cycles, Lose(c)
  PROVE  \E new : Moves(c, new)
<1>1. engine[c].pc \in {"wait", "answer"} /\ Holding(c) /\ UNCHANGED store
  BY LoseShape DEF device
<1>2. PICK new \in Running : /\ engine' = [engine EXCEPT ![c] = new] /\ new.pc = "answer"
                             /\ new.next = engine[c].next
  BY LoseShape
<1> QED BY <1>1, <1>2, LaterIsReflexive DEF Moves, WritesBack

LEMMA AnswerMoves ==
  ASSUME IInv, NEW c \in Cycles, Answer(c)
  PROVE  \E new : Moves(c, new)
<1>1. /\ engine[c].pc = "answer" /\ Holding(c) /\ engine[c].answer \in Replies /\ engine[c].next \in Draft
      /\ Put(Settled(engine[c].next, engine[c].answer))
  BY AnswerShape
<1>2. PICK new \in Running : engine' = [engine EXCEPT ![c] = new] /\ new.pc = "next"
  BY AnswerShape
<1>3. PICK e \in Draft : e = Settled(engine[c].next, engine[c].answer) /\ e.id = engine[c].next.id
  BY <1>1, SettledType
<1>4. e.photos = engine[c].next.photos
  BY <1>1, <1>3 DEF Settled, Draft
<1>5. PutsBack(c)
  BY <1>1, <1>3, <1>4 DEF PutsBack, Later
<1> QED BY <1>1, <1>2, <1>5 DEF Moves, WritesBack

LEMMA CycleMoves ==
  ASSUME IInv, NothingStale, NEW c \in Cycles, Cycle(c), \A p \in Photos : ~Upload(c, p)
  PROVE  UNCHANGED <<form, jobs, taken, docs>> /\ \E new : Moves(c, new)
<1>1. UNCHANGED <<form, jobs, taken, docs>>
  BY DEF Cycle, StartCycle, NextDraft, Mark, MakeEvidence, Patch, Answer, Lose, device, server
<1> QED BY <1>1, StartMoves, NextDraftMoves, MarkMoves, EvidenceMoves, PatchMoves, LoseMoves, AnswerMoves
        DEF Cycle

LEMMA TrialsGrow ==
  ASSUME IInv, IInv', Spending, [Next]_vars
  PROVE  /\ Trials \in Nat /\ Trials' \in Nat /\ Trials' >= Trials
         /\ Disturb("losses") \/ Disturb("restarts") => Trials' >= Trials + 1
<1>1. /\ left.losses \in Nat /\ left.restarts \in Nat /\ left'.losses \in Nat /\ left'.restarts \in Nat
      /\ Budget.losses \in Nat /\ Budget.restarts \in Nat
      /\ left.losses <= Budget.losses /\ left.restarts <= Budget.restarts
      /\ left'.losses <= left.losses /\ left'.restarts <= left.restarts
  BY LeftFalls, BudgetHasNames DEF IInv, TypeOK, Spending
<1>2. Disturb("losses") \/ Disturb("restarts") => left'.losses < left.losses \/ left'.restarts < left.restarts
  <2>1. left \in [DOMAIN Budget -> Nat]
        /\ DOMAIN Budget = {"mounts", "closes", "losses", "fails", "others", "restarts", "all"}
    BY BudgetHasNames DEF IInv, TypeOK
  <2>2. ASSUME NEW w \in {"losses", "restarts"}, Disturb(w) PROVE left'[w] < left[w]
    <3>1. left' = [left EXCEPT ![w] = left[w] - 1, !["all"] = left["all"] - 1]
      BY <2>2 DEF Disturb
    <3>2. left'[w] = left[w] - 1 /\ left[w] \in Nat
      BY <2>1, <3>1
    <3> QED BY <3>2
  <2> QED BY <2>2
<1> QED BY <1>1, <1>2 DEF Trials

\* A step that leaves the memory alone.
LEMMA CarriedStep ==
  ASSUME IInv, NEW p \in Photos, PhotoInv(p), UNCHANGED <<form, jobs, taken>>,
         \A i \in Drafts : Carried(i, p)' => Carried(i, p),
         \A i \in Drafts : store[i] # None => store'[i] # None,
         docs'[p] = docs[p] \/ \E i \in Drafts : Carried(i, p),
         Bounded(p)'
  PROVE  PhotoInv(p)'
<1>1. \A i : OnScreen(i, p)' <=> OnScreen(i, p)
  BY DEF OnScreen
<1>2. \A i \in Drafts : Has(i, p)' => Has(i, p)
  BY <1>1 DEF Has
<1>3. \A k : Adds(k, p)' <=> Adds(k, p)
  BY DEF Adds
<1>4. p \notin taken' => NotTaken(p)'
  BY <1>2, <1>3 DEF PhotoInv, NotTaken, Has
<1>5. OneHome(p)' /\ NotYetStored(p)'
  BY <1>2, <1>3 DEF PhotoInv, OneHome, NotYetStored
<1>6. AddedFirst(p)'
  <2>1. \A k \in DOMAIN jobs : jobs[k].next.id \in Drafts
    BY DEF IInv, TypeOK, Job, Jobs, Draft
  <2>2. form # Closed => form.draft.id \in Drafts
    BY DEF IInv, TypeOK, Draft
  <2> QED BY <1>3, <2>1, <2>2 DEF PhotoInv, AddedFirst
<1> QED BY <1>4, <1>5, <1>6 DEF PhotoInv

LEMMA BoundedStays ==
  ASSUME IInv, NEW p \in Photos, Bounded(p), docs'[p] = docs[p],
         Trials \in Nat, Trials' \in Nat, Trials' >= Trials, Trials' = Trials /\ Safe(p) => Safe(p)'
  PROVE  Bounded(p)'
<1>1. docs[p] \in Nat
  BY DEF IInv, TypeOK
<1>2. docs'[p] <= 1 + Trials'
  BY <1>1 DEF Bounded
<1>3. docs'[p] = 1 + Trials' => Safe(p)'
  <2> SUFFICES ASSUME docs'[p] = 1 + Trials' PROVE Safe(p)'
    OBVIOUS
  <2>1. docs[p] = 1 + Trials /\ Trials' = Trials
    <3>1. docs[p] <= 1 + Trials
      BY DEF Bounded
    <3>2. PICK a \in Nat, b \in Nat, n \in Nat : a = Trials /\ b = Trials' /\ n = docs[p]
      BY <1>1
    <3>3. n <= 1 + a /\ b >= a /\ n = 1 + b
      BY <3>1, <3>2
    <3>4. n = 1 + a /\ b = a
      BY <3>3
    <3> QED BY <3>2, <3>4
  <2> QED BY <2>1 DEF Bounded
<1> QED BY <1>2, <1>3 DEF Bounded

LEMMA MovesKeep ==
  ASSUME IInv, IInv', NEW p \in Photos, NEW c \in Cycles, NEW new, Moves(c, new)
  PROVE  /\ \A i \in Drafts : Carried(i, p)' => Carried(i, p)
         /\ \A i \in Drafts : store[i] # None => store'[i] # None
         /\ Safe(p) => Safe(p)'
         /\ Marked => Marked'
<1>1. \A b \in Cycles : engine'[b] = IF b = c THEN new ELSE engine[b]
  BY DEF Moves, IInv, TypeOK
<1>2. \A b \in Cycles : Holding(b) => engine[b].next.id \in Drafts
  BY AtWork DEF Holding
<1>3. /\ \A i \in Drafts : store[i] # None => store'[i] # None
      /\ \A i \in Drafts : store'[i] = store[i]
           \/ (Holding(c) /\ i = engine[c].next.id /\ Later(engine[c].next, store'[i]))
  <2>1. CASE UNCHANGED store
    BY <2>1
  <2>2. ASSUME NEW e \in Draft, Holding(c), Put(e), e.id = engine[c].next.id, Later(engine[c].next, e)
        PROVE  \A i \in Drafts :
                 /\ store[i] # None => store'[i] # None
                 /\ store'[i] = store[i]
                      \/ (Holding(c) /\ i = engine[c].next.id /\ Later(engine[c].next, store'[i]))
    <3>1. \A i \in Drafts : store'[i] = IF i = e.id THEN e ELSE store[i]
      BY <2>2 DEF Put, IInv, TypeOK
    <3>2. e # None
      BY NoneIsNothing
    <3> QED BY <2>2, <3>1, <3>2
  <2> QED BY <2>1, <2>2 DEF Moves, PutsBack
<1>4. ASSUME NEW i \in Drafts, Carried(i, p)' PROVE Carried(i, p)
  <2>1. CASE store'[i] # None /\ store'[i].photos[p] # "none"
    BY <1>3, <2>1 DEF Carried, Later
  <2>2. ASSUME NEW b \in Cycles, Holding(b)', engine'[b].next.id = i, engine'[b].next.photos[p] # "none"
        PROVE  Carried(i, p)
    <3>1. CASE b = c
      <4>1. /\ new.pc \in {"mark", "upload", "patch", "wait", "answer"}
            /\ new.next.id = i /\ new.next.photos[p] # "none"
        BY <1>1, <2>2, <3>1 DEF Holding
      <4> QED BY <4>1 DEF Carried, Moves, Later
    <3>2. CASE b # c
      BY <1>1, <2>2, <3>2 DEF Carried, Holding
    <3> QED BY <3>1, <3>2
  <2> QED BY <1>4, <2>1, <2>2 DEF Carried
<1>5. ASSUME Safe(p) PROVE Safe(p)'
  <2>1. \A b \in Cycles : Holding(b) => engine[b].next.photos[p] \in Done
    BY <1>5 DEF Safe
  <2>2. ASSUME NEW b \in Cycles, Holding(b)' PROVE engine'[b].next.photos[p] \in Done
    <3>1. CASE b # c
      BY <1>1, <2>1, <2>2, <3>1 DEF Holding
    <3>2. CASE b = c /\ Holding(c)
      BY <1>1, <2>1, <2>2, <3>2 DEF Holding, Moves, Later
    <3>3. CASE b = c /\ ~Holding(c)
      <4>1. new.next.id \in Drafts /\ store[new.next.id] # None /\ new.next = store[new.next.id]
        BY <1>1, <2>2, <3>3 DEF Holding, Moves
      <4>2. SUFFICES ASSUME NEW a \in Cycles, WritesBack(a, new.next.id) PROVE FALSE
        BY <1>1, <1>5, <3>3, <4>1 DEF Safe
      <4>3. a # c /\ Holding(a) /\ engine[a].next.id = new.next.id
        BY <3>3, <4>2 DEF WritesBack, Holding
      <4>4. Holding(a)' /\ engine'[a].next.id = engine'[c].next.id
        BY <1>1, <4>3 DEF Holding
      <4> QED BY <2>2, <3>3, <4>3, <4>4 DEF IInv, LockDiscipline, OneCyclePerDraft
    <3> QED BY <3>1, <3>2, <3>3
  <2>3. ASSUME NEW i \in Drafts, store'[i] # None, store'[i].photos[p] \notin Done
        PROVE  \E b \in Cycles : WritesBack(b, i)'
    <3>1. store'[i] = store[i] /\ ~(PutsBack(c) /\ i = engine[c].next.id)
      <4>1. PutsBack(c) => i # engine[c].next.id
        <5> SUFFICES ASSUME NEW e \in Draft, Holding(c), Put(e), e.id = i, Later(engine[c].next, e)
                     PROVE  FALSE
          BY DEF PutsBack
        <5>1. store'[i] = e
          BY DEF Put, IInv, TypeOK
        <5> QED BY <2>1, <2>3, <5>1 DEF Later
      <4> QED BY <1>3, <2>1, <2>3, <4>1 DEF Later
    <3>2. PICK b \in Cycles : WritesBack(b, i)
      BY <1>5, <2>3, <3>1 DEF Safe
    <3>3. CASE b # c
      BY <1>1, <3>2, <3>3 DEF WritesBack
    <3>4. CASE b = c
      <4>1. new.pc = "patch" /\ new.changed /\ new.next.id = i
        BY <3>1, <3>2, <3>4 DEF Moves, WritesBack
      <4> QED BY <1>1, <3>4, <4>1 DEF WritesBack
    <3> QED BY <3>3, <3>4
  <2> QED BY <2>2, <2>3 DEF Safe
<1>6. Marked => Marked'
  BY <1>1 DEF Marked, Moves
<1> QED BY <1>3, <1>4, <1>5, <1>6

LEMMA UploadKeeps ==
  ASSUME IInv, IInv', Spending, [Next]_vars, Marked, NEW p \in Photos, PhotoInv(p),
         NEW c \in Cycles, NEW q \in Photos, Upload(c, q)
  PROVE  PhotoInv(p)' /\ Marked'
<1>1. /\ Trials \in Nat /\ Trials' \in Nat /\ Trials' >= Trials /\ docs[p] \in Nat
      /\ Disturb("losses") => Trials' >= Trials + 1
  BY TrialsGrow DEF IInv, TypeOK
<1>2. /\ engine[c].pc = "upload" /\ Holding(c) /\ engine[c] \in Running
      /\ engine[c].next \in Draft /\ engine[c].next.id \in Drafts /\ engine[c].next.photos[q] = "syncing"
  BY AtWork DEF Upload, Holding
<1>3. UNCHANGED <<store, form, jobs, taken>>
  BY DEF Upload, device
<1>4. PICK st \in {"synced", "failed"} :
        /\ Step(c, [engine[c] EXCEPT !.next.photos[q] = st])
        /\ \/ st = "synced" /\ docs' = [docs EXCEPT ![q] = docs[q] + 1] /\ UNCHANGED left
           \/ /\ st = "failed" /\ Disturb("losses")
              /\ \E made \in 0 .. 1 : docs' = [docs EXCEPT ![q] = docs[q] + made]
  BY DEF Upload
<1>5. PICK e : e = [engine[c].next EXCEPT !.photos[q] = st]
  OBVIOUS
<1>6. e.id = engine[c].next.id /\ \A r \in Photos : e.photos[r] = IF r = q THEN st ELSE engine[c].next.photos[r]
  BY <1>2, <1>5 DEF Draft
<1>7. PICK new : new = [engine[c] EXCEPT !.next = e]
  OBVIOUS
<1>8. new.pc = "upload" /\ new.next = e /\ new.changed = engine[c].changed
  BY <1>2, <1>7 DEF Running
<1>9. [engine[c] EXCEPT !.next.photos[q] = st] = new
  BY <1>2, <1>5, <1>7 DEF Running, Draft
<1>10. \A b \in Cycles : engine'[b] = IF b = c THEN new ELSE engine[b]
  BY <1>4, <1>9 DEF Step, IInv, TypeOK
<1>11. \A b \in Cycles : /\ Holding(b)' <=> Holding(b)
                         /\ Holding(b) => engine'[b].next.id = engine[b].next.id
                         /\ \A i : WritesBack(b, i)' <=> WritesBack(b, i)
  BY <1>2, <1>6, <1>8, <1>10 DEF Holding, WritesBack
<1>12. \A b \in Cycles : engine[b].next.photos[p] = "none" /\ Holding(b) => engine'[b].next.photos[p] = "none"
  BY <1>2, <1>6, <1>8, <1>10
<1>13. \A i \in Drafts : Carried(i, p)' => Carried(i, p)
  BY <1>3, <1>11, <1>12 DEF Carried
<1>14. Carried(engine[c].next.id, q)
  BY <1>2 DEF Carried
<1>15. Marked'
  BY <1>2, <1>6, <1>8, <1>10 DEF Marked
<1>16. docs'[p] = docs[p] \/ p = q
  BY <1>4 DEF IInv, TypeOK
<1>17. engine[c].changed
  BY <1>2 DEF Marked
<1>18. Bounded(p)'
  <2>1. CASE p # q
    <3>1. Safe(p) => Safe(p)'
      BY <1>3, <1>6, <1>8, <1>10, <1>11, <2>1 DEF Safe
    <3> QED BY <1>1, <1>16, <2>1, <3>1, BoundedStays DEF PhotoInv
  <2>2. CASE p = q
    <3>1. ~Safe(p)
      BY <1>2, <2>2 DEF Safe, Done
    <3>2. docs[p] <= Trials
      BY <1>1, <3>1 DEF PhotoInv, Bounded
    <3>3. CASE st = "failed"
      <4>1. Disturb("losses") /\ \E made \in 0 .. 1 : docs' = [docs EXCEPT ![q] = docs[q] + made]
        BY <1>4, <3>3
      <4>2. PICK made \in 0 .. 1 : docs'[p] = docs[p] + made
        BY <2>2, <4>1 DEF IInv, TypeOK
      <4>3. docs'[p] < 1 + Trials'
        BY <1>1, <3>2, <4>1, <4>2
      <4>4. docs'[p] \in Nat
        BY <1>1, <4>2
      <4> QED BY <1>1, <4>3, <4>4 DEF Bounded
    <3>4. CASE st = "synced"
      <4>1. docs' = [docs EXCEPT ![q] = docs[q] + 1] /\ UNCHANGED left
        BY <1>4, <3>4
      <4>2. docs'[p] = docs[p] + 1 /\ Trials' = Trials
        BY <2>2, <4>1 DEF IInv, TypeOK, Trials
      <4>3. \A b \in Cycles : Holding(b)' => engine'[b].next.photos[p] \in Done
        <5> SUFFICES ASSUME NEW b \in Cycles, Holding(b), engine'[b].next.photos[p] # "none", b # c
                     PROVE  FALSE
          BY <1>6, <1>8, <1>10, <1>11, <2>2, <3>4 DEF Done
        <5>1. engine[b].next.photos[p] # "none" /\ engine[b].next.id \in Drafts
          BY <1>10, AtWork DEF Holding
        <5>2. Carried(engine[b].next.id, p)
          BY <5>1 DEF Carried
        <5>3. engine[b].next.id = engine[c].next.id
          BY <1>2, <1>14, <2>2, <5>1, <5>2 DEF PhotoInv, OneHome, Has
        <5> QED BY <1>2, <5>3 DEF IInv, LockDiscipline, OneCyclePerDraft
      <4>4. \A i \in Drafts : store'[i] # None /\ store'[i].photos[p] \notin Done => \E b \in Cycles : WritesBack(b, i)'
        <5> SUFFICES ASSUME NEW i \in Drafts, store[i] # None, store[i].photos[p] # "none"
                     PROVE  WritesBack(c, i)'
          BY <1>3 DEF Done
        <5>1. Carried(i, p)
          BY DEF Carried
        <5>2. i = engine[c].next.id
          BY <1>2, <1>14, <2>2, <5>1 DEF PhotoInv, OneHome, Has
        <5> QED BY <1>2, <1>11, <1>17, <5>2 DEF WritesBack
      <4> QED BY <1>1, <3>2, <4>2, <4>3, <4>4 DEF Bounded, Safe
    <3> QED BY <3>3, <3>4
  <2> QED BY <2>1, <2>2
<1>19. docs'[p] = docs[p] \/ \E i \in Drafts : Carried(i, p)
  BY <1>2, <1>14, <1>16
<1> QED BY <1>3, <1>13, <1>15, <1>18, <1>19, CarriedStep

\* A step of the form or of the chain that adds no photo.
LEMMA ScreenStep ==
  ASSUME IInv, NEW p \in Photos, PhotoInv(p), UNCHANGED <<engine, docs>>, taken \subseteq taken',
         Trials \in Nat, Trials' \in Nat, Trials' >= Trials, Safe(p) => Safe(p)',
         \A i \in Drafts : Carried(i, p)' => Carried(i, p),
         \A i \in Drafts : OnScreen(i, p)' => Has(i, p),
         \A k \in DOMAIN jobs' : Adds(k, p)' =>
           jobs'[k].next.photos[p] # "none" /\ \E m \in DOMAIN jobs : Adds(m, p),
         \A k, m \in DOMAIN jobs' : Adds(k, p)' /\ Adds(m, p)' => k = m,
         AddedFirst(p)'
  PROVE  PhotoInv(p)'
<1>1. \A i \in Drafts : Has(i, p)' => Has(i, p)
  BY DEF Has
<1>2. p \notin taken' => NotTaken(p)'
  BY <1>1 DEF PhotoInv, NotTaken
<1>3. OneHome(p)' /\ NotYetStored(p)'
  BY <1>1 DEF PhotoInv, OneHome, NotYetStored
<1>4. Bounded(p)'
  BY BoundedStays DEF PhotoInv
<1> QED BY <1>2, <1>3, <1>4 DEF PhotoInv

LEMMA AppendAt ==
  ASSUME IInv, NEW j, jobs' = Append(jobs, j)
  PROVE  /\ DOMAIN jobs = 1 .. Len(jobs) /\ Len(jobs) \in Nat /\ DOMAIN jobs' = 1 .. Len(jobs) + 1
         /\ \A k \in DOMAIN jobs : jobs'[k] = jobs[k]
         /\ jobs'[Len(jobs) + 1] = j
<1>1. PICK S : S = Job \cup {j}
  OBVIOUS
<1>2. jobs \in Seq(S) /\ j \in S
  BY <1>1 DEF IInv, TypeOK
<1> QED BY <1>2

LEMMA PersistKeeps ==
  ASSUME IInv, NoRetry, left.fails = Budget.fails, NEW p \in Photos, PhotoInv(p),
         NEW kind \in {"edit", "add", "remove"}, NEW item, kind # "edit" => item \in Photos,
         kind = "edit" => item \in Edits,
         form # Closed, Persist(kind, item), taken' = taken \/ (kind = "add" /\ taken' = taken \cup {item}),
         kind = "add" => item \notin taken /\ item \in taken', Trials \in Nat
  PROVE  PhotoInv(p)'
<1>1. /\ form \in [mount : Nat \ {0}, draft : Draft, error : BOOLEAN] /\ form.draft.id \in Drafts
      /\ ~form.error
  BY DEF IInv, TypeOK, NoRetry, Draft
<1>2. PICK next : next = Mutate(kind, item, form.draft, form.draft)
  OBVIOUS
<1>3. PICK j : j = [mount |-> form.mount, kind |-> kind, item |-> item, next |-> next, base |-> None]
  OBVIOUS
<1>4. /\ jobs' = Append(jobs, j) /\ form' = [form EXCEPT !.draft = next]
      /\ UNCHANGED <<store, engine, docs, left>>
  BY <1>1, <1>2, <1>3 DEF Persist, cycle, server
<1>5. j.mount = form.mount /\ j.kind = kind /\ j.item = item /\ j.next = next
  BY <1>3
<1>6. /\ next.id = form.draft.id
      /\ next.photos[p] = IF kind = "add" /\ item = p THEN "pending"
                          ELSE IF kind = "remove" /\ item = p THEN "none" ELSE form.draft.photos[p]
  BY <1>1, <1>2 DEF Mutate, Draft
<1>7. form' # Closed /\ form'.draft = next /\ form'.mount = form.mount
  BY <1>1, <1>4 DEF Closed
<1>0. PICK n : n = Len(jobs) + 1
  OBVIOUS
<1>8. /\ DOMAIN jobs = 1 .. n - 1 /\ n \in Nat \ {0} /\ DOMAIN jobs' = 1 .. n
      /\ \A k \in DOMAIN jobs : jobs'[k] = jobs[k]
      /\ jobs'[n] = j
  <2>1. n \in Nat \ {0} /\ n - 1 = Len(jobs)
    BY <1>0, <1>4, AppendAt
  <2> QED BY <1>0, <1>4, <2>1, AppendAt
<1>9. \A k \in DOMAIN jobs' : k = n \/ k \in DOMAIN jobs
  BY <1>8
<1>10. /\ \A k \in DOMAIN jobs : Adds(k, p)' <=> Adds(k, p)
       /\ Adds(n, p)' <=> kind = "add" /\ item = p
  BY <1>5, <1>8 DEF Adds
<1>11. \A i : Carried(i, p)' <=> Carried(i, p)
  BY <1>4 DEF Carried, Holding
<1>12. \A i \in Drafts : OnScreen(i, p)' =>
         OnScreen(i, p) \/ (kind = "add" /\ item = p /\ i = form.draft.id)
  <2> SUFFICES ASSUME NEW i \in Drafts, OnScreen(i, p)', ~OnScreen(i, p)
               PROVE  kind = "add" /\ item = p /\ i = form.draft.id
    OBVIOUS
  <2>1. CASE form'.draft.id = i /\ form'.draft.photos[p] # "none"
    BY <1>6, <1>7, <2>1 DEF OnScreen
  <2>2. ASSUME NEW k \in DOMAIN jobs', jobs'[k].next.id = i, jobs'[k].next.photos[p] # "none"
        PROVE  kind = "add" /\ item = p /\ i = form.draft.id
    <3>1. k = n
      BY <1>8, <1>9, <2>2 DEF OnScreen
    <3> QED BY <1>5, <1>6, <1>8, <2>2, <3>1 DEF OnScreen
  <2> QED BY <2>1, <2>2 DEF OnScreen
<1>13. Trials' = Trials
  BY <1>4 DEF Trials
<1>14. CASE ~(kind = "add" /\ item = p)
  <2>1. AddedFirst(p)'
    <3>1. ASSUME NEW k \in DOMAIN jobs', jobs'[k].next.photos[p] # "none", store'[jobs'[k].next.id] = None
          PROVE  \E m \in 1 .. k : Adds(m, p)' /\ jobs'[m].mount = jobs'[k].mount /\ jobs'[m].next.id = jobs'[k].next.id
      <4>1. CASE k \in DOMAIN jobs
        <5>1. PICK m \in 1 .. k : Adds(m, p) /\ jobs[m].mount = jobs[k].mount /\ jobs[m].next.id = jobs[k].next.id
          BY <1>4, <1>8, <3>1, <4>1 DEF PhotoInv, AddedFirst
        <5>2. m \in DOMAIN jobs
          BY <1>8, <4>1
        <5> QED BY <1>8, <1>10, <4>1, <5>1, <5>2
      <4>2. CASE k = n
        <5>1. form.draft.photos[p] # "none" /\ store[form.draft.id] = None
          BY <1>4, <1>5, <1>6, <1>8, <1>14, <3>1, <4>2
        <5>2. PICK m \in DOMAIN jobs : Adds(m, p) /\ jobs[m].mount = form.mount /\ jobs[m].next.id = form.draft.id
          BY <5>1 DEF PhotoInv, AddedFirst
        <5>3. m \in 1 .. k /\ Adds(m, p)' /\ jobs'[m] = jobs[m]
          BY <1>8, <1>10, <4>2, <5>2
        <5> QED BY <1>5, <1>6, <1>8, <4>2, <5>2, <5>3
      <4> QED BY <1>9, <4>1, <4>2
    <3>2. ASSUME form'.draft.photos[p] # "none", store'[form'.draft.id] = None
          PROVE  \E m \in DOMAIN jobs' : Adds(m, p)' /\ jobs'[m].mount = form'.mount /\ jobs'[m].next.id = form'.draft.id
      <4>1. form.draft.photos[p] # "none" /\ store[form.draft.id] = None
        BY <1>4, <1>6, <1>7, <1>14, <3>2
      <4>2. PICK m \in DOMAIN jobs : Adds(m, p) /\ jobs[m].mount = form.mount /\ jobs[m].next.id = form.draft.id
        BY <4>1 DEF PhotoInv, AddedFirst
      <4>3. m \in DOMAIN jobs' /\ Adds(m, p)' /\ jobs'[m] = jobs[m]
        BY <1>8, <1>10, <4>2
      <4> QED BY <1>6, <1>7, <4>2, <4>3
    <3> QED BY <3>1, <3>2 DEF AddedFirst
  <2>2. \A k \in DOMAIN jobs' : Adds(k, p)' => k \in DOMAIN jobs /\ Adds(k, p)
    BY <1>9, <1>10, <1>14
  <2>3. \A k \in DOMAIN jobs' : Adds(k, p)' => jobs'[k].next.photos[p] # "none" /\ \E m \in DOMAIN jobs : Adds(m, p)
    BY <1>8, <2>2 DEF PhotoInv, OneHome
  <2>4. \A k, m \in DOMAIN jobs' : Adds(k, p)' /\ Adds(m, p)' => k = m
    BY <2>2 DEF PhotoInv, OneHome
  <2>5. Safe(p) => Safe(p)'
    BY <1>4 DEF Safe, Holding, WritesBack
  <2>6. \A i \in Drafts : OnScreen(i, p)' => Has(i, p)
    BY <1>12, <1>14 DEF Has
  <2>7. taken \subseteq taken' /\ Trials' \in Nat /\ Trials' >= Trials
    BY <1>13
  <2> QED BY <1>4, <1>11, <2>1, <2>3, <2>4, <2>5, <2>6, <2>7, ScreenStep
<1>15. CASE kind = "add" /\ item = p
  <2>1. NotTaken(p)
    BY <1>15 DEF PhotoInv
  <2>2. \A i \in Drafts : Has(i, p)' => i = form.draft.id
    BY <1>11, <1>12, <2>1 DEF NotTaken, Has
  <2>3. \A k \in DOMAIN jobs : jobs[k].next.photos[p] = "none"
    <3>1. \A k \in DOMAIN jobs : jobs[k].next.id \in Drafts
      BY DEF IInv, TypeOK, Job, Jobs, Draft
    <3> QED BY <2>1, <3>1 DEF NotTaken, Has, OnScreen
  <2>4. \A k \in DOMAIN jobs' : Adds(k, p)' => k = n
    BY <1>9, <1>10, <2>1 DEF NotTaken
  <2>5. OneHome(p)'
    BY <1>5, <1>6, <1>8, <1>15, <2>2, <2>4 DEF OneHome
  <2>6. NotYetStored(p)'
    BY <1>4, <1>11, <2>1 DEF NotYetStored, NotTaken, Has
  <2>7. AddedFirst(p)'
    <3>1. \A k \in DOMAIN jobs' : jobs'[k].next.photos[p] # "none" => k = n
      BY <1>8, <1>9, <2>3
    <3>2. n \in DOMAIN jobs' /\ Adds(n, p)' /\ n \in 1 .. n
      BY <1>8, <1>10, <1>15
    <3> QED BY <1>5, <1>6, <1>7, <1>8, <3>1, <3>2 DEF AddedFirst
  <2>8. Bounded(p)'
    <3>1. docs'[p] = 0
      BY <1>4, <2>1 DEF NotTaken
    <3> QED BY <1>13, <3>1 DEF Bounded
  <2> QED BY <1>15, <2>5, <2>6, <2>7, <2>8 DEF PhotoInv
<1> QED BY <1>14, <1>15

LEMMA FormKeeps ==
  ASSUME IInv, IInv', Spending, NoRetry, [Next]_vars, ~Meet, left.fails = Budget.fails,
         NEW p \in Photos, PhotoInv(p), Form
  PROVE  PhotoInv(p)'
<1>1. Trials \in Nat /\ Trials' \in Nat /\ Trials' >= Trials
  BY TrialsGrow
<1>2. CASE RetryPersist
  BY <1>2 DEF RetryPersist, NoRetry
<1>3. CASE \/ \E e \in Edits : Fill(e)
           \/ \E q \in Photos : AddPhoto(q) \/ RemovePhoto(q)
  <2>1. ASSUME NEW e \in Edits, Fill(e) PROVE PhotoInv(p)'
    <3>1. form # Closed /\ Persist("edit", e) /\ taken' = taken
      BY <2>1 DEF Fill
    <3> QED BY <1>1, <3>1, PersistKeeps
  <2>2. ASSUME NEW q \in Photos, AddPhoto(q) PROVE PhotoInv(p)'
    <3>1. form # Closed /\ Persist("add", q) /\ taken' = taken \cup {q} /\ q \notin taken
      BY <2>2 DEF AddPhoto
    <3> QED BY <1>1, <3>1, PersistKeeps
  <2>3. ASSUME NEW q \in Photos, RemovePhoto(q) PROVE PhotoInv(p)'
    <3>1. form # Closed /\ Persist("remove", q) /\ taken' = taken
      BY <2>3 DEF RemovePhoto
    <3> QED BY <1>1, <3>1, PersistKeeps
  <2> QED BY <1>3, <2>1, <2>2, <2>3
\* The other steps queue nothing, and store nothing.
<1>4. ASSUME UNCHANGED <<engine, docs, taken>>, jobs' = jobs,
             \A i \in Drafts : store'[i] = store[i] \/ (store'[i] = None /\ jobs = <<>>),
             form' # Closed =>
               \/ \A r \in Photos : form'.draft.photos[r] = "none"
               \/ \E i \in Drafts : store'[i] # None /\ store[i] # None /\ form'.draft = store[i]
      PROVE  PhotoInv(p)'
  <2>1. \A i \in Drafts : Carried(i, p)' => Carried(i, p)
    BY <1>4 DEF Carried, Holding
  <2>2. form' # Closed /\ form'.draft.photos[p] # "none" =>
          store'[form'.draft.id] # None /\ Carried(form'.draft.id, p)
    <3> SUFFICES ASSUME NEW i \in Drafts, store'[i] # None, store[i] # None, form'.draft = store[i],
                        form'.draft.photos[p] # "none"
                 PROVE  store'[form'.draft.id] # None /\ Carried(form'.draft.id, p)
      BY <1>4
    <3>1. form'.draft.id = i
      BY DEF IInv, StoreKeyed
    <3> QED BY <3>1 DEF Carried
  <2>3. \A i \in Drafts : OnScreen(i, p)' => Has(i, p)
    <3> SUFFICES ASSUME NEW i \in Drafts, OnScreen(i, p)', ~OnScreen(i, p) PROVE Carried(i, p)
      BY DEF Has
    <3>1. form' # Closed /\ form'.draft.id = i /\ form'.draft.photos[p] # "none"
      BY <1>4 DEF OnScreen
    <3> QED BY <2>2, <3>1
  <2>4. \A k : Adds(k, p)' <=> Adds(k, p)
    BY <1>4 DEF Adds
  <2>5. /\ \A k \in DOMAIN jobs' : Adds(k, p)' =>
             jobs'[k].next.photos[p] # "none" /\ \E m \in DOMAIN jobs : Adds(m, p)
        /\ \A k, m \in DOMAIN jobs' : Adds(k, p)' /\ Adds(m, p)' => k = m
    BY <1>4, <2>4 DEF PhotoInv, OneHome
  <2>6. AddedFirst(p)'
    <3>1. ASSUME NEW k \in DOMAIN jobs', jobs'[k].next.photos[p] # "none", store'[jobs'[k].next.id] = None
          PROVE  \E m \in 1 .. k : Adds(m, p)' /\ jobs'[m].mount = jobs'[k].mount /\ jobs'[m].next.id = jobs'[k].next.id
      <4>1. jobs[k].next.id \in Drafts /\ jobs # <<>>
        BY <1>4, <3>1 DEF IInv, TypeOK, Job, Jobs, Draft
      <4>2. store[jobs[k].next.id] = None
        BY <1>4, <3>1, <4>1
      <4> QED BY <1>4, <2>4, <3>1, <4>2 DEF PhotoInv, AddedFirst
    <3> QED BY <2>2, <3>1 DEF AddedFirst
  <2>7. Safe(p) => Safe(p)'
    <3>1. \A c \in Cycles : (Holding(c)' <=> Holding(c)) /\ \A i : WritesBack(c, i)' <=> WritesBack(c, i)
      BY <1>4 DEF Holding, WritesBack
    <3> QED BY <1>4, <3>1 DEF Safe
  <2> QED BY <1>1, <1>4, <2>1, <2>3, <2>5, <2>6, <2>7, ScreenStep
<1>5. CASE OpenForm
  <2>1. PICK i \in Drafts :
          form' = [mount |-> left["mounts"], error |-> FALSE,
                   draft |-> IF store[i] # None THEN store[i] ELSE Fresh(i, row)]
    BY <1>5 DEF OpenForm
  <2>2. form'.draft = IF store[i] # None THEN store[i] ELSE Fresh(i, row)
    BY <2>1
  <2>3. UNCHANGED <<store, jobs, taken, engine, docs>>
    BY <1>5 DEF OpenForm, cycle, server
  <2> QED BY <1>4, <2>2, <2>3 DEF Fresh
<1>6. CASE CloseForm
  BY <1>4, <1>6 DEF CloseForm, cycle, server
<1>7. CASE Discard
  <2>1. PICK j \in Drafts : form' = [form EXCEPT !.draft = Fresh(j, None)]
    BY <1>7 DEF Discard
  <2>2. form \in [mount : Nat \ {0}, draft : Draft, error : BOOLEAN]
    BY <1>7 DEF Discard, IInv, TypeOK
  <2>3. form'.draft = Fresh(j, None)
    BY <2>1, <2>2
  <2>4. /\ store' = [store EXCEPT ![form.draft.id] = None]
        /\ UNCHANGED <<jobs, taken, engine, docs>>
    BY <1>7 DEF Discard, cycle, server
  <2>5. store' # store => jobs = <<>>
    BY <2>4 DEF Meet
  <2>6. \A i \in Drafts : store'[i] = store[i] \/ (store'[i] = None /\ jobs = <<>>)
    BY <2>4, <2>5 DEF IInv, TypeOK
  <2> QED BY <1>4, <2>3, <2>4, <2>6 DEF Fresh
<1> QED BY <1>2, <1>3, <1>5, <1>6, <1>7 DEF Form

LEMMA ReadKeeps ==
  ASSUME IInv, NEW p \in Photos, PhotoInv(p), NEW i \in DOMAIN jobs, ReadJob(i), Trials \in Nat
  PROVE  PhotoInv(p)'
<1>1. UNCHANGED <<store, form, taken, engine, docs, left>>
  BY DEF ReadJob, cycle, server
<1>2. PICK b : jobs' = [jobs EXCEPT ![i] = [jobs[i] EXCEPT !.base = b]]
  BY DEF ReadJob
<1>3. jobs[i] \in Jobs
  BY DEF IInv, TypeOK, Job
<1>4. /\ DOMAIN jobs' = DOMAIN jobs
      /\ \A k \in DOMAIN jobs : /\ jobs'[k].next = jobs[k].next /\ jobs'[k].mount = jobs[k].mount
                                /\ jobs'[k].kind = jobs[k].kind /\ jobs'[k].item = jobs[k].item
  BY <1>2, <1>3 DEF IInv, TypeOK, Jobs
<1>5. \A k \in DOMAIN jobs : Adds(k, p)' <=> Adds(k, p)
  BY <1>4 DEF Adds
<1>6. \A i_1 \in Drafts : /\ Carried(i_1, p)' <=> Carried(i_1, p)
                          /\ OnScreen(i_1, p)' => Has(i_1, p)
  BY <1>1, <1>4 DEF Carried, Holding, OnScreen, Has
<1>7. Safe(p) => Safe(p)'
  BY <1>1 DEF Safe, Holding, WritesBack
<1>8. AddedFirst(p)'
  <2>1. \A k \in DOMAIN jobs : \A m \in 1 .. k : m \in DOMAIN jobs
    <3>1. DOMAIN jobs = 1 .. Len(jobs) /\ Len(jobs) \in Nat
      BY DEF IInv, TypeOK
    <3> QED BY <3>1
  <2> QED BY <1>1, <1>4, <1>5, <2>1 DEF PhotoInv, AddedFirst
<1>9. Trials' = Trials
  BY <1>1 DEF Trials
<1>10. Trials' \in Nat /\ Trials' >= Trials
  BY <1>9
<1>11. /\ \A k \in DOMAIN jobs' : Adds(k, p)' =>
             jobs'[k].next.photos[p] # "none" /\ \E m \in DOMAIN jobs : Adds(m, p)
       /\ \A k, m \in DOMAIN jobs' : Adds(k, p)' /\ Adds(m, p)' => k = m
  BY <1>4, <1>5 DEF PhotoInv, OneHome
<1> QED BY <1>1, <1>6, <1>7, <1>8, <1>10, <1>11, ScreenStep

LEMMA WriteKeeps ==
  ASSUME IInv, IInv', NothingStale, NoRetry, left.fails = Budget.fails,
         NEW p \in Photos, PhotoInv(p), NEW i \in DOMAIN jobs, WriteJob(i), Trials \in Nat
  PROVE  PhotoInv(p)'
<1>1. UNCHANGED <<taken, engine, docs, left>>
  BY DEF WriteJob, cycle, server
<1>2. jobs[i] \in Job /\ jobs[i].next \in Draft /\ jobs[i].next.id \in Drafts /\ jobs[i].mount # 0
  BY DEF IInv, TypeOK, Job, Jobs, Draft
<1>3. jobs[i].base # None /\ jobs[i].base \in Draft /\ Runs(i)
  BY <1>2 DEF WriteJob, Jobs, Job
<1>4. PICK written : written = Mutate(jobs[i].kind, jobs[i].item, jobs[i].next, jobs[i].base)
  OBVIOUS
<1>5. PICK h \in Drafts : h = jobs[i].next.id
  BY <1>2
<1>6. jobs[i].base = IF store[h] # None THEN store[h] ELSE jobs[i].next
  BY <1>3, <1>5 DEF NothingStale
<1>7. jobs[i].base.id = h
  BY <1>5, <1>6 DEF IInv, StoreKeyed
<1>8. jobs[i].kind \in {"edit", "add", "remove"}
  BY <1>2 DEF NoRetry, Job, Jobs
<1>9. /\ written \in Draft /\ written.id = h
      /\ Adds(i, p) \/ written.photos[p] = jobs[i].base.photos[p] \/ written.photos[p] = "none"
  <2>1. written \in Draft
    BY <1>2, <1>3, <1>4, MutateType DEF Job
  <2> QED BY <1>2, <1>3, <1>4, <1>7, <1>8, <2>1 DEF Mutate, Draft, Adds
<1>10. written # None
  BY <1>9, NoneIsNothing
<1>11. /\ store' = [store EXCEPT ![h] = written] /\ jobs' = RemoveAt(jobs, i)
       /\ form' = IF form.mount = jobs[i].mount /\ form.draft = jobs[i].next
                  THEN [form EXCEPT !.draft = written, !.error = form.error /\ jobs[i].kind # "all"]
                  ELSE form
  BY <1>4, <1>9 DEF WriteJob
<1>12. \A j \in Drafts : store'[j] = IF j = h THEN written ELSE store[j]
  BY <1>11 DEF IInv, TypeOK
<1>13. UNCHANGED form \/ (form # Closed /\ form' # Closed /\ form'.draft = written /\ form'.mount = form.mount)
  <2>1. CASE form.mount = jobs[i].mount /\ form.draft = jobs[i].next
    <3>1. form # Closed /\ form \in [mount : Nat \ {0}, draft : Draft, error : BOOLEAN]
      BY <1>2, <2>1 DEF IInv, TypeOK, Closed
    <3>2. form' = [form EXCEPT !.draft = written, !.error = form.error /\ jobs[i].kind # "all"]
      BY <1>11, <2>1
    <3>3. form'.draft = written /\ form'.mount = form.mount /\ form' # Closed
      BY <3>1, <3>2 DEF Closed
    <3> QED BY <3>1, <3>3
  <2> QED BY <1>11, <2>1
<1>14. /\ \A k \in DOMAIN jobs' : \E s \in DOMAIN jobs \ {i} :
             jobs'[k] = jobs[s] /\ s = IF k < i THEN k ELSE k + 1
       /\ \A m \in DOMAIN jobs \ {i} : \E t \in DOMAIN jobs' :
             jobs'[t] = jobs[m] /\ t = IF m < i THEN m ELSE m - 1
  BY <1>11, ChainIndex
<1>15. \A k \in DOMAIN jobs' : Adds(k, p)' =>
         \E s \in DOMAIN jobs \ {i} : Adds(s, p) /\ jobs'[k] = jobs[s]
  BY <1>14 DEF Adds
<1>16. \A k, m \in DOMAIN jobs' : Adds(k, p)' /\ Adds(m, p)' => k = m
  <2> SUFFICES ASSUME NEW k \in DOMAIN jobs', NEW m \in DOMAIN jobs', Adds(k, p)', Adds(m, p)'
               PROVE  k = m
    OBVIOUS
  <2>1. PICK s \in DOMAIN jobs \ {i} : jobs'[k] = jobs[s] /\ s = IF k < i THEN k ELSE k + 1
    BY <1>14
  <2>2. PICK t \in DOMAIN jobs \ {i} : jobs'[m] = jobs[t] /\ t = IF m < i THEN m ELSE m + 1
    BY <1>14
  <2>3. s = t
    BY <2>1, <2>2 DEF Adds, PhotoInv, OneHome
  <2>4. DOMAIN jobs \subseteq Nat /\ DOMAIN jobs' \subseteq Nat
    <3>1. jobs \in Seq(Job) /\ jobs' \in Seq(Job)
      BY DEF IInv, TypeOK
    <3> QED BY <3>1
  <2> QED BY <2>1, <2>2, <2>3, <2>4
<1>17. Trials' = Trials /\ Trials' \in Nat /\ Trials' >= Trials
  <2>1. Trials' = Trials
    BY <1>1 DEF Trials
  <2> QED BY <2>1
<1>18. \A c \in Cycles : /\ Holding(c)' <=> Holding(c)
                         /\ \A j : WritesBack(c, j)' <=> WritesBack(c, j)
  BY <1>1 DEF Holding, WritesBack
\* What is not stored yet and holds the photo is about to add it.
<1>19. ASSUME store[h] = None, jobs[i].next.photos[p] # "none" PROVE Adds(i, p)
  <2>1. PICK m \in 1 .. i : Adds(m, p) /\ jobs[m].mount = jobs[i].mount /\ jobs[m].next.id = h
    BY <1>5, <1>19 DEF PhotoInv, AddedFirst
  <2>2. m = i
    <3>1. i \in Nat
      BY DEF IInv, TypeOK
    <3> QED BY <1>3, <1>5, <2>1, <3>1 DEF Runs
  <2> QED BY <2>1, <2>2
<1>20. ~Adds(i, p) /\ written.photos[p] # "none" =>
         store[h] # None /\ written.photos[p] = store[h].photos[p]
  BY <1>6, <1>9, <1>19
<1>21. CASE ~Adds(i, p)
  <2>1. \A j \in Drafts : Carried(j, p)' => Carried(j, p)
    <3> SUFFICES ASSUME NEW j \in Drafts, Carried(j, p)', ~Carried(j, p) PROVE FALSE
      OBVIOUS
    <3>1. store'[j] # None /\ store'[j].photos[p] # "none"
      BY <1>1, <1>18 DEF Carried
    <3> QED BY <1>12, <1>20, <1>21, <3>1 DEF Carried
  <2>2. \A j \in Drafts : OnScreen(j, p)' => Has(j, p)
    <3> SUFFICES ASSUME NEW j \in Drafts, OnScreen(j, p)', ~OnScreen(j, p) PROVE Carried(j, p)
      BY DEF Has
    <3>1. ~\E k \in DOMAIN jobs' : jobs'[k].next.id = j /\ jobs'[k].next.photos[p] # "none"
      BY <1>14 DEF OnScreen
    <3>2. form'.draft = written /\ written.id = j /\ written.photos[p] # "none"
      BY <1>13, <3>1 DEF OnScreen
    <3> QED BY <1>9, <1>20, <1>21, <3>2 DEF Carried
  <2>3. Safe(p) => Safe(p)'
    <3> SUFFICES ASSUME Safe(p), NEW j \in Drafts, store'[j] # None, store'[j].photos[p] \notin Done
                 PROVE  \E c \in Cycles : WritesBack(c, j)
      BY <1>1, <1>18 DEF Safe
    <3>1. store[j] # None /\ store[j].photos[p] = store'[j].photos[p]
      BY <1>12, <1>20, <1>21 DEF Done
    <3> QED BY <3>1 DEF Safe
  <2>4. AddedFirst(p)'
    <3>1. ASSUME NEW k \in DOMAIN jobs', jobs'[k].next.photos[p] # "none", store'[jobs'[k].next.id] = None
          PROVE  \E m \in 1 .. k : Adds(m, p)' /\ jobs'[m].mount = jobs'[k].mount /\ jobs'[m].next.id = jobs'[k].next.id
      <4>1. PICK s \in DOMAIN jobs \ {i} : jobs'[k] = jobs[s] /\ s = IF k < i THEN k ELSE k + 1
        BY <1>14
      <4>2. jobs[s].next.id \in Drafts
        BY DEF IInv, TypeOK, Job, Jobs, Draft
      <4>3. store[jobs[s].next.id] = None
        BY <1>10, <1>12, <3>1, <4>1, <4>2
      <4>4. PICK m \in 1 .. s : Adds(m, p) /\ jobs[m].mount = jobs[s].mount /\ jobs[m].next.id = jobs[s].next.id
        BY <3>1, <4>1, <4>3 DEF PhotoInv, AddedFirst
      <4>5. DOMAIN jobs = 1 .. Len(jobs) /\ Len(jobs) \in Nat /\ DOMAIN jobs' = 1 .. Len(jobs') /\ Len(jobs') \in Nat
        BY DEF IInv, TypeOK
      <4>6. m \in DOMAIN jobs \ {i}
        BY <1>21, <4>4, <4>5
      <4>7. PICK t \in DOMAIN jobs' : jobs'[t] = jobs[m] /\ t = IF m < i THEN m ELSE m - 1
        BY <1>14, <4>6
      <4>8. t \in 1 .. k
        BY <4>1, <4>4, <4>5, <4>6, <4>7
      <4> QED BY <4>1, <4>4, <4>7, <4>8 DEF Adds
    <3>2. ASSUME form' # Closed, form'.draft.photos[p] # "none", store'[form'.draft.id] = None
          PROVE  \E m \in DOMAIN jobs' : Adds(m, p)' /\ jobs'[m].mount = form'.mount /\ jobs'[m].next.id = form'.draft.id
      <4>1. UNCHANGED form /\ form.draft.id \in Drafts
        <5>1. form'.draft.id # h
          BY <1>10, <1>12, <3>2
        <5> QED BY <1>9, <1>13, <3>2, <5>1 DEF IInv, TypeOK, Draft
      <4>2. store[form.draft.id] = None
        BY <1>10, <1>12, <3>2, <4>1
      <4>3. PICK m \in DOMAIN jobs : Adds(m, p) /\ jobs[m].mount = form.mount /\ jobs[m].next.id = form.draft.id
        BY <3>2, <4>1, <4>2 DEF PhotoInv, AddedFirst
      <4>4. PICK t \in DOMAIN jobs' : jobs'[t] = jobs[m]
        BY <1>14, <1>21, <4>3
      <4> QED BY <4>1, <4>3, <4>4 DEF Adds
    <3> QED BY <3>1, <3>2 DEF AddedFirst
  <2>5. \A k \in DOMAIN jobs' : Adds(k, p)' =>
          jobs'[k].next.photos[p] # "none" /\ \E m \in DOMAIN jobs : Adds(m, p)
    BY <1>15 DEF PhotoInv, OneHome
  <2> QED BY <1>1, <1>16, <1>17, <2>1, <2>2, <2>3, <2>4, <2>5, ScreenStep
<1>22. CASE Adds(i, p)
  <2>1. docs[p] = 0 /\ p \in taken /\ \A j \in Drafts : ~Carried(j, p)
    BY <1>22 DEF PhotoInv, NotYetStored, NotTaken
  <2>2. \A k \in DOMAIN jobs' : ~Adds(k, p)'
    BY <1>15, <1>22 DEF PhotoInv, OneHome
  <2>3. Has(h, p)
    BY <1>5, <1>22 DEF PhotoInv, OneHome, Has, OnScreen
  <2>4. \A j \in Drafts : Has(j, p)' => j = h
    <3> SUFFICES ASSUME NEW j \in Drafts, Has(j, p)', j # h PROVE FALSE
      OBVIOUS
    <3>1. ~Carried(j, p)'
      BY <1>1, <1>12, <1>18, <2>1 DEF Carried
    <3>2. OnScreen(j, p)'
      BY <3>1 DEF Has
    <3>3. OnScreen(j, p)
      BY <1>9, <1>13, <1>14, <3>2 DEF OnScreen
    <3> QED BY <2>3, <3>3 DEF PhotoInv, OneHome, Has
  <2>5. OneHome(p)' /\ NotYetStored(p)'
    BY <2>2, <2>4 DEF OneHome, NotYetStored
  <2>6. AddedFirst(p)'
    <3>1. \A k \in DOMAIN jobs' : jobs'[k].next.photos[p] # "none" => store'[jobs'[k].next.id] # None
      <4> SUFFICES ASSUME NEW k \in DOMAIN jobs', jobs'[k].next.photos[p] # "none"
                   PROVE  store'[jobs'[k].next.id] # None
        OBVIOUS
      <4>1. jobs'[k].next.id \in Drafts
        BY DEF IInv, TypeOK, Job, Jobs, Draft
      <4>2. PICK g \in Drafts : g = jobs'[k].next.id
        BY <4>1
      <4>3. Has(g, p)'
        BY <4>2 DEF Has, OnScreen
      <4> QED BY <1>10, <1>12, <2>4, <4>2, <4>3
    <3>2. form' # Closed /\ form'.draft.photos[p] # "none" => store'[form'.draft.id] # None
      <4> SUFFICES ASSUME form' # Closed, form'.draft.photos[p] # "none"
                   PROVE  store'[form'.draft.id] # None
        OBVIOUS
      <4>1. PICK g \in Drafts : g = form'.draft.id
        BY DEF IInv, TypeOK, Draft
      <4>2. Has(g, p)'
        BY <4>1 DEF Has, OnScreen
      <4> QED BY <1>10, <1>12, <2>4, <4>1, <4>2
    <3> QED BY <3>1, <3>2 DEF AddedFirst
  <2>7. Bounded(p)'
    <3>1. docs'[p] = 0
      BY <1>1, <2>1
    <3> QED BY <1>17, <3>1 DEF Bounded
  <2> QED BY <1>1, <2>1, <2>5, <2>6, <2>7 DEF PhotoInv
<1> QED BY <1>21, <1>22

\* The server and the other actors: at most an answer reaches a cycle that waits.
LEMMA ServerKeeps ==
  ASSUME IInv, IInv', Spending, [Next]_vars, Marked, NEW p \in Photos, PhotoInv(p),
         \/ OtherInspects \/ Correction \/ UNCHANGED vars
         \/ \E q \in wire : Server(q)
  PROVE  PhotoInv(p)' /\ Marked'
<1>1. Trials \in Nat /\ Trials' \in Nat /\ Trials' >= Trials
  BY TrialsGrow
<1>2. UNCHANGED <<store, form, jobs, taken, docs>>
  BY DEF OtherInspects, Correction, Server, Check, Write, vars, device, cycle, server
<1>3. /\ \A b \in Cycles : (Holding(b)' <=> Holding(b)) /\ engine'[b].next = engine[b].next
      /\ \A b \in Cycles : engine[b].pc \in {"upload", "patch"} => engine'[b] = engine[b]
      /\ \A b \in Cycles : engine'[b].pc \in {"upload", "patch"} => engine'[b] = engine[b]
  <2>1. CASE UNCHANGED engine
    BY <2>1 DEF Holding
  <2>2. CASE ~UNCHANGED engine
    <3>1. PICK q \in wire : Server(q)
      BY <2>2 DEF OtherInspects, Correction, vars, cycle
    <3>2. PICK a \in Replies : Reply(q, a)
      BY <2>2, <3>1, ServerReplies
    <3>3. PICK c \in Cycles, new \in Running :
            /\ engine[c].pc = "wait" /\ engine' = [engine EXCEPT ![c] = new]
            /\ new.pc = "answer" /\ new.next = engine[c].next
      BY <2>2, <3>2, ReplyShape
    <3>4. \A b \in Cycles : engine'[b] = IF b = c THEN new ELSE engine[b]
      BY <3>3 DEF IInv, TypeOK
    <3> QED BY <3>3, <3>4 DEF Holding
  <2> QED BY <2>1, <2>2
<1>4. \A i \in Drafts : Carried(i, p)' => Carried(i, p)
  BY <1>2, <1>3 DEF Carried
<1>5. Safe(p) => Safe(p)'
  <2>1. \A c \in Cycles : \A i : WritesBack(c, i) => WritesBack(c, i)'
    BY <1>3 DEF WritesBack
  <2>2. \A i \in Drafts : store'[i] = store[i]
    BY <1>2
  <2> QED BY <1>3, <2>1, <2>2 DEF Safe
<1>6. Bounded(p)'
  BY <1>1, <1>2, <1>5, BoundedStays DEF PhotoInv
<1>7. Marked'
  BY <1>3 DEF Marked
<1> QED BY <1>2, <1>4, <1>6, <1>7, CarriedStep

\* A restart keeps the store only, and allows one more upload.
LEMMA RestartKeeps ==
  ASSUME IInv, IInv', Spending, [Next]_vars, NEW p \in Photos, PhotoInv(p), Restart
  PROVE  PhotoInv(p)' /\ Marked'
<1>1. Trials \in Nat /\ Trials' \in Nat /\ Trials' >= Trials + 1
  BY TrialsGrow DEF Restart
<1>2. /\ UNCHANGED <<store, taken, docs>> /\ form' = Closed /\ jobs' = <<>>
      /\ engine' = [c \in Cycles |-> Rest]
  BY DEF Restart, server
<1>3. \A c \in Cycles : ~Holding(c)' /\ engine'[c].pc = "rest"
  BY <1>2 DEF Holding, Rest
<1>4. DOMAIN jobs' = {}
  BY <1>2
<1>5. \A i \in Drafts : Has(i, p)' => Has(i, p)
  BY <1>2, <1>3, <1>4 DEF Has, Carried, OnScreen
<1>6. p \notin taken' => NotTaken(p)'
  BY <1>2, <1>4, <1>5 DEF PhotoInv, NotTaken
<1>7. OneHome(p)' /\ NotYetStored(p)' /\ AddedFirst(p)'
  BY <1>2, <1>4, <1>5 DEF PhotoInv, OneHome, NotYetStored, AddedFirst
<1>8. Bounded(p)'
  <2>1. docs[p] \in Nat /\ docs'[p] = docs[p]
    BY <1>2 DEF IInv, TypeOK
  <2>2. docs[p] <= 1 + Trials
    BY DEF PhotoInv, Bounded
  <2>3. docs'[p] < 1 + Trials' /\ docs'[p] <= 1 + Trials' /\ docs'[p] # 1 + Trials'
    BY <1>1, <2>1, <2>2
  <2> QED BY <2>3 DEF Bounded
<1>9. Marked'
  BY <1>3 DEF Marked
<1> QED BY <1>6, <1>7, <1>8, <1>9 DEF PhotoInv

LEMMA CycleKeepsPhotos ==
  ASSUME IInv, IInv', Spending, NothingStale, [Next]_vars, Marked, NEW p \in Photos, PhotoInv(p),
         NEW c \in Cycles, Cycle(c)
  PROVE  PhotoInv(p)' /\ Marked'
<1>1. CASE \E q \in Photos : Upload(c, q)
  BY <1>1, UploadKeeps
<1>2. CASE \A q \in Photos : ~Upload(c, q)
  <2>1. PICK new : UNCHANGED <<form, jobs, taken, docs>> /\ Moves(c, new)
    BY <1>2, CycleMoves
  <2>2. /\ \A i \in Drafts : Carried(i, p)' => Carried(i, p)
        /\ \A i \in Drafts : store[i] # None => store'[i] # None
        /\ Safe(p) => Safe(p)'
        /\ Marked => Marked'
    BY <2>1, MovesKeep
  <2>3. Bounded(p)'
    BY <2>1, <2>2, TrialsGrow, BoundedStays DEF PhotoInv
  <2> QED BY <2>1, <2>2, <2>3, CarriedStep
<1> QED BY <1>1, <1>2

LEMMA NextPhotos ==
  ASSUME IInv, IInv', Spending, NothingStale, NoRetry, [Next]_vars, ~Meet,
         left.fails = Budget.fails, left'.fails = Budget.fails, Marked, NEW p \in Photos, PhotoInv(p)
  PROVE  PhotoInv(p)' /\ Marked'
<1>1. CASE Form
  <2>1. PhotoInv(p)'
    BY <1>1, FormKeeps
  <2>2. UNCHANGED engine
    BY <1>1 DEF Form, OpenForm, CloseForm, RetryPersist, Discard, Fill, AddPhoto, RemovePhoto, Persist, cycle
  <2> QED BY <2>1, <2>2 DEF Marked
<1>2. CASE Chain
  <2>1. PICK i \in DOMAIN jobs : ReadJob(i) \/ WriteJob(i) \/ FailJob(i)
    BY <1>2 DEF Chain
  <2>2. ~FailJob(i)
    <3>1. FailJob(i) => left'.fails < left.fails
      BY LeftFalls
    <3>2. Budget.fails \in Nat
      BY BudgetHasNames
    <3> QED BY <3>1, <3>2
  <2>3. PhotoInv(p)'
    BY <2>1, <2>2, TrialsGrow, ReadKeeps, WriteKeeps
  <2>4. UNCHANGED engine
    BY <2>1, <2>2 DEF ReadJob, WriteJob, cycle
  <2> QED BY <2>3, <2>4 DEF Marked
<1>3. CASE \E c \in Cycles : Cycle(c)
  BY <1>3, CycleKeepsPhotos
<1>4. CASE Restart
  BY <1>4, RestartKeeps
<1>5. CASE OtherInspects \/ Correction \/ UNCHANGED vars \/ \E q \in wire : Server(q)
  BY <1>5, ServerKeeps
<1> QED BY <1>1, <1>2, <1>3, <1>4, <1>5 DEF Next

LEMMA InitUpload ==
  ASSUME MCInit
  PROVE  UploadInv
<1>1. Init
  BY DEF MCInit
<1>2. \A c \in Cycles : engine[c].pc = "rest" /\ ~Holding(c)
  BY <1>1 DEF Init, Rest, Holding
<1>3. DOMAIN jobs = {} /\ form = Closed /\ \A i \in Drafts : store[i] = None
  BY <1>1 DEF Init
<1>4. ASSUME NEW p \in Photos PROVE PhotoInv(p)
  <2>1. docs[p] = 0 /\ \A i \in Drafts : ~Has(i, p)
    BY <1>1, <1>2, <1>3 DEF Init, Has, Carried, OnScreen
  <2>2. NotTaken(p) /\ OneHome(p) /\ NotYetStored(p) /\ AddedFirst(p)
    BY <1>3, <2>1 DEF NotTaken, OneHome, NotYetStored, AddedFirst
  <2>3. Trials = 0
    BY <1>1, BudgetHasNames DEF Init, Trials
  <2>4. Bounded(p)
    BY <2>1, <2>3 DEF Bounded
  <2> QED BY <2>2, <2>4 DEF PhotoInv
<1>5. Marked
  BY <1>2 DEF Marked
<1> QED BY <1>4, <1>5 DEF UploadInv

LEMMA NextUpload ==
  ASSUME IInv, Lineage, TurnInv, UploadInv, [MCNext]_<<vars, saved, met>>
  PROVE  UploadInv'
<1>1. IInv' /\ [Next]_vars /\ (met' = 0 => met = 0 /\ ~Meet)
  BY InTurn, NextTurn DEF TurnInv
<1> SUFFICES ASSUME met' = 0, left'.fails = Budget.fails
             PROVE  Marked' /\ \A p \in Photos : PhotoInv(p)'
  BY DEF UploadInv
<1>2. NothingStale /\ NoRetry /\ Spending
  BY <1>1 DEF TurnInv
<1>3. left.fails = Budget.fails
  <2>1. left.fails \in Nat /\ Budget.fails \in Nat /\ left.fails <= Budget.fails /\ left'.fails <= left.fails
    BY <1>1, <1>2, LeftFalls, BudgetHasNames DEF IInv, TypeOK, Spending
  <2> QED BY <2>1
<1>4. Marked /\ \A p \in Photos : PhotoInv(p)
  BY <1>1, <1>3 DEF UploadInv
<1>5. \A p \in Photos : PhotoInv(p)' /\ Marked'
  BY <1>1, <1>2, <1>3, <1>4, NextPhotos
<1>6. CASE Photos = {}
  BY <1>6 DEF Marked, Holding
<1> QED BY <1>5, <1>6

LEMMA UploadInductive == MCSpec => [](IInv /\ Lineage /\ TurnInv /\ UploadInv)
<1>1. MCInit => IInv /\ Lineage /\ TurnInv /\ UploadInv
  BY InitTurn, InitUpload
<1>2. (IInv /\ Lineage /\ TurnInv /\ UploadInv) /\ [MCNext]_<<vars, saved, met>>
        => (IInv /\ Lineage /\ TurnInv /\ UploadInv)'
  BY NextTurn, NextUpload
<1> QED BY <1>1, <1>2, PTL DEF MCSpec

\* As long as the actors do not meet and no write fails, a photo is uploaded
\* once, and once more at most for each answer lost and each closing of the
\* application, in however many cycles (syncDraft, marking, ticket 015).
THEOREM UploadedOnceInTurnCorrect == MCSpec => []UploadedOnceInTurn
<1>1. IInv /\ TurnInv /\ UploadInv => UploadedOnceInTurn
  <2> SUFFICES ASSUME IInv, TurnInv, UploadInv, met = 0, left.fails = Budget.fails, NEW p \in Photos
               PROVE  docs[p] <= 1 + (Budget.losses - left.losses) + (Budget.restarts - left.restarts)
    BY DEF UploadedOnceInTurn
  <2>1. docs[p] <= 1 + Trials
    BY DEF UploadInv, PhotoInv, Bounded
  <2>2. /\ left.losses \in Nat /\ left.restarts \in Nat /\ docs[p] \in Nat
        /\ Budget.losses \in Nat /\ Budget.restarts \in Nat
    BY BudgetHasNames DEF IInv, TypeOK
  <2> QED BY <2>1, <2>2 DEF Trials
<1> QED BY <1>1, UploadInductive, PTL
=============================================================================
