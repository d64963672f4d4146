---------------------------- MODULE ControlSync ----------------------------
(***************************************************************************)
(* One inspector's device on one mission, offline first: the form and its  *)
(* chain of local writes, the IndexedDB store, the synchronisation cycles  *)
(* and the server they talk to over a network that loses answers           *)
(* (apps/control-pwa/src: db/repository.ts, sync/syncEngine.ts,            *)
(* views/InspectionFormView.tsx; backend apps/control, apps/inspections).  *)
(*                                                                         *)
(* A draft carries the set of the inspector's inputs, Decide among them:   *)
(* each input touches a field of its own, so that losing one shows.  A     *)
(* read or a write of IndexedDB is one step, a request and its answer are  *)
(* apart from them.  Retries are always due: backoff.ts only delays them.  *)
(***************************************************************************)
EXTENDS Naturals, Sequences, FiniteSets, SequencesExt

CONSTANTS
  Edits,      \* the fields of the form
  Decide,     \* the one that sets the decision (conforme / reserve)
  Photos,
  Drafts,     \* correlation ids, in the order they are handed out (a bound)
  Pending,    \* writes that may wait in the chain (a bound)
  Cycles,     \* synchronisation cycles that may overlap
  None,
  Budget      \* how often the environment may do what it does, by name (bounds)

ASSUME DecisionIsAField == Decide \in Edits
ASSUME DraftIds == Drafts \subseteq Nat \ {0} /\ IsFiniteSet(Drafts)
ASSUME BudgetHasNames ==
  Budget \in [{"mounts", "closes", "losses", "fails", "others", "restarts", "all"} -> Nat]

VARIABLES
  store,      \* inspection_drafts in IndexedDB
  form,       \* the mounted InspectionFormView: draftRef and persistError
  jobs,       \* the pending links of the write chains (persistChainRef)
  used,       \* correlation ids already handed out
  taken,      \* photos already taken
  engine,     \* the running synchronisation cycles
  inflight,   \* draftsInFlight
  row,        \* reserveLatestEventId of the cached mission, None without a reserve
  wire,       \* submissions on their way or being handled by the server
  insp,       \* server: the inspections of the declaration, by correlation id
  res,        \* server: the number of events of the mission's reserve
  open,       \* server: that reserve is open
  docs,       \* server: the documents created for a photo
  left        \* what remains of Budget

device == <<store, form, jobs, used, taken>>
cycle  == <<engine, inflight, row, wire>>
server == <<insp, res, open, docs>>
vars   == <<device, cycle, server, left>>

PhotoStatus == {"none", "pending", "syncing", "synced", "failed"}
SyncStatus  == {"pending", "syncing", "synced", "conflict"}
Events      == ({"inspection", "reserve"} \X (Nat \ {0})) \cup {None}
Draft == [id : Drafts, edits : SUBSET Edits, photos : [Photos -> PhotoStatus],
          sync : SyncStatus, known : Events, evidence : BOOLEAN]
\* None is none of the values it stands beside.
ASSUME NoneIsNothing == None \notin Drafts \cup Cycles \cup Draft \cup ({"inspection", "reserve"} \X Nat)
Jobs  == [mount : Nat \ {0}, kind : {"edit", "add", "remove", "all"}, item : Edits \cup Photos \cup {None},
          next : Draft, base : Draft \cup {None}]
Job   == {j \in Jobs : j.kind = "edit" => j.item \in Edits}
Replies == {[status |-> "conflict"], [status |-> "error"]} \cup [status : {"applied"}, latest : Events]
\* A cycle: what is left of its list, the draft in hand and what it makes of it.
Running == [pc : {"next", "mark", "upload", "patch", "wait", "answer"}, todo : Seq(Draft),
            next : Draft \cup {None}, changed : BOOLEAN, row : Events, answer : Replies \cup {None}]

Closed == [mount |-> 0]
Rest   == [pc |-> "rest"]

TypeOK ==
  /\ store    \in [Drafts -> Draft \cup {None}]
  /\ form     \in {Closed} \cup [mount : Nat \ {0}, draft : Draft, error : BOOLEAN]
  /\ jobs     \in Seq(Job)
  /\ used     \subseteq Drafts
  /\ taken    \subseteq Photos
  /\ engine   \in [Cycles -> {Rest} \cup Running]
  /\ inflight \subseteq Drafts
  /\ row      \in Events
  /\ wire     \subseteq [id : Drafts, known : Events, row : Events,
                         by : Cycles \cup {None}, step : {"check", "write"}]
  /\ insp     \in Seq(Drafts \cup {None})
  /\ res      \in Nat
  /\ open     \in BOOLEAN
  /\ docs     \in [Photos -> Nat]
  /\ left     \in [DOMAIN Budget -> Nat]

-----------------------------------------------------------------------------
(* The server: the last event of the target, and _create_inspection_row.   *)

\* What _create_inspection_row compares: the last event of the reserve that the
\* request names, else that of the last inspection of the declaration.
Latest(r) == IF r # None THEN <<"reserve", res>>
             ELSE IF insp = <<>> THEN None ELSE <<"inspection", Len(insp)>>

\* The row of the mission in list_missions_for_inspector.
MissionRow == IF open THEN <<"reserve", res>> ELSE None

\* One more inspection of the declaration: it closes the reserve r, or may open
\* one (the only one of the declaration, a bound).
Insert(id, r) ==
  /\ insp' = Append(insp, id)
  /\ \/ r # None /\ res' = res + 2 /\ open' = FALSE
     \/ r = None /\ UNCHANGED <<res, open>>
     \/ r = None /\ res = 0 /\ res' = 1 /\ open' = TRUE

Spend(what) == left[what] > 0 /\ left' = [left EXCEPT ![what] = @ - 1]

\* Something goes wrong, of the kind said and within the total (a bound).
Disturb(what) ==
  /\ left[what] > 0 /\ left["all"] > 0
  /\ left' = [left EXCEPT ![what] = @ - 1, !["all"] = @ - 1]

\* Another inspector reports on the declaration, on its reserve if it is open.
OtherInspects ==
  /\ Disturb("others")
  /\ Insert(None, MissionRow)
  /\ UNCHANGED <<device, cycle, docs>>

\* The builder documents a correction of the reserve.
Correction ==
  /\ Disturb("others")
  /\ open
  /\ res' = res + 1
  /\ UNCHANGED <<device, cycle, insp, open, docs>>

-----------------------------------------------------------------------------
(* The form.                                                               *)

Fresh(id, known) ==
  [id |-> id, edits |-> {}, photos |-> [p \in Photos |-> "none"],
   sync |-> "pending", known |-> known, evidence |-> FALSE]

NewId(i) == i \in Drafts \ used /\ \A j \in Drafts \ used : i <= j

\* Mount: the existing draft of the mission, else an empty one in memory.
OpenForm ==
  /\ form = Closed
  /\ Spend("mounts")
  /\ \E i \in Drafts :
       /\ \/ store[i] # None
          \/ NewId(i) /\ \A j \in Drafts : store[j] = None
       /\ form' = [mount |-> left["mounts"], error |-> FALSE,
                   draft |-> IF store[i] # None THEN store[i] ELSE Fresh(i, row)]
  /\ UNCHANGED <<store, jobs, used, taken, cycle, server>>

\* Back to the missions: the pending writes go on.
CloseForm ==
  /\ form # Closed
  /\ Disturb("closes")
  /\ form' = Closed
  /\ UNCHANGED <<store, jobs, used, taken, cycle, server>>

\* The mutation of a link of the chain, applied to the draft it is given.
Mutate(kind, item, next, d) ==
  IF kind = "edit" THEN [d EXCEPT !.edits = @ \cup {item}]
  ELSE IF kind = "add" THEN [d EXCEPT !.photos[item] = "pending"]
  ELSE IF kind = "remove" THEN [d EXCEPT !.photos[item] = "none"]
  ELSE [d EXCEPT !.edits = next.edits, !.photos = next.photos]

\* persist: the screen at once, the store through the chain unless a write
\* is known to have failed.
Persist(kind, item) ==
  LET next == Mutate(kind, item, form.draft, form.draft) IN
  /\ Len(jobs) < Pending
  /\ form' = [form EXCEPT !.draft = next]
  /\ used' = used \cup {next.id}
  /\ jobs' = IF form.error THEN jobs
             ELSE Append(jobs, [mount |-> form.mount, kind |-> kind, item |-> item,
                                next |-> next, base |-> None])
  /\ UNCHANGED <<store, cycle, server, left>>

Fill(e) ==
  /\ form # Closed
  /\ e \notin form.draft.edits
  /\ Persist("edit", e)
  /\ UNCHANGED taken

AddPhoto(p) ==
  /\ form # Closed
  /\ p \notin taken
  /\ Persist("add", p)
  /\ taken' = taken \cup {p}

RemovePhoto(p) ==
  /\ form # Closed
  /\ form.draft.photos[p] # "none"
  /\ Persist("remove", p)
  /\ UNCHANGED taken

RetryPersist ==
  /\ form # Closed
  /\ form.error
  /\ Len(jobs) < Pending
  /\ jobs' = Append(jobs, [mount |-> form.mount, kind |-> "all", item |-> None,
                           next |-> form.draft, base |-> None])
  /\ used' = used \cup {form.draft.id}
  /\ UNCHANGED <<store, form, taken, cycle, server, left>>

\* A link runs once those before it on the same chain have ended.
Runs(i) == \A j \in 1 .. i - 1 : jobs[j].mount # jobs[i].mount \/ jobs[j].next.id # jobs[i].next.id

\* Mutant of ReadJob: the draft in memory is written back (before ticket 016 ter).
ReadJobOfMemory(i) ==
  /\ Runs(i)
  /\ jobs[i].base = None
  /\ jobs' = [jobs EXCEPT ![i].base = jobs[i].next]
  /\ UNCHANGED <<store, form, used, taken, cycle, server, left>>

\* persist reads the draft again before it writes.
ReadJob(i) ==
  /\ Runs(i)
  /\ jobs[i].base = None
  /\ LET id == jobs[i].next.id IN
     jobs' = [jobs EXCEPT ![i].base = IF store[id] # None THEN store[id] ELSE jobs[i].next]
  /\ UNCHANGED <<store, form, used, taken, cycle, server, left>>

\* saveDraft, and what the form makes of it unless it has moved on.
WriteJob(i) ==
  /\ Runs(i)
  /\ jobs[i].base # None
  /\ LET saved == Mutate(jobs[i].kind, jobs[i].item, jobs[i].next, jobs[i].base) IN
     /\ store' = [store EXCEPT ![saved.id] = saved]
     /\ form' = IF form.mount = jobs[i].mount /\ form.draft = jobs[i].next
                THEN [form EXCEPT !.draft = saved, !.error = @ /\ jobs[i].kind # "all"]
                ELSE form
  /\ jobs' = RemoveAt(jobs, i)
  /\ UNCHANGED <<used, taken, cycle, server, left>>

\* IndexedDB refuses (quota, private browsing): nothing written, and a banner.
FailJob(i) ==
  /\ Runs(i)
  /\ Disturb("fails")
  /\ jobs' = RemoveAt(jobs, i)
  /\ form' = IF form.mount = jobs[i].mount THEN [form EXCEPT !.error = TRUE] ELSE form
  /\ UNCHANGED <<store, used, taken, cycle, server>>

\* resolveConflictByDiscarding: the fresh draft expects no event at all.
Discard ==
  /\ form # Closed
  /\ form.draft.sync = "conflict"
  /\ store' = [store EXCEPT ![form.draft.id] = None]
  /\ \E i \in Drafts : NewId(i) /\ form' = [form EXCEPT !.draft = Fresh(i, None)]
  /\ UNCHANGED <<jobs, used, taken, cycle, server, left>>

-----------------------------------------------------------------------------
(* The synchronisation cycles.                                             *)

ToSend(d) == {p \in Photos : d.photos[p] \notin {"none", "synced"}}
\* Mutants of Waiting: a conflict is sent again; an interrupted sending is not.
WaitingInConflict(d) == d.sync \in {"pending", "syncing", "conflict"}
WaitingIsPending(d)  == d.sync = "pending"
Waiting(d) == d.sync \in {"pending", "syncing"}

Step(c, new) == engine' = [engine EXCEPT ![c] = new]
Put(d) == store' = [store EXCEPT ![d.id] = d]

\* refreshMissions, which may fail, then getAllDrafts.
StartCycle(c) ==
  /\ engine[c] = Rest
  /\ row' \in {row, MissionRow}
  /\ LET kept == {i \in Drafts : store[i] # None} IN
     /\ kept # {}
     /\ \E list \in [1 .. Cardinality(kept) -> kept] :
          /\ \A j, k \in DOMAIN list : j < k => list[j] < list[k]
          /\ Step(c, [pc |-> "next", todo |-> [k \in DOMAIN list |-> store[list[k]]],
                      next |-> None, changed |-> FALSE, row |-> None, answer |-> None])
  /\ UNCHANGED <<device, inflight, wire, server, left>>

\* Mutant of NextDraft: the snapshot of the list is used (before ticket 015 ter).
NextDraftOfList(c) ==
  /\ engine[c].pc = "next"
  /\ IF engine[c].todo = <<>> THEN Step(c, Rest) /\ UNCHANGED inflight
     ELSE LET d == Head(engine[c].todo)
              rest == [engine[c] EXCEPT !.todo = Tail(@)] IN
          IF (ToSend(d) = {} /\ ~Waiting(d)) \/ d.id \in inflight
          THEN Step(c, rest) /\ UNCHANGED inflight
          ELSE /\ inflight' = inflight \cup {d.id}
               /\ Step(c, [rest EXCEPT !.pc = IF ToSend(d) = {} THEN "upload" ELSE "mark",
                                       !.next = d, !.row = row])
  /\ UNCHANGED <<device, row, wire, server, left>>

\* syncDraft on the next draft of the list, unless another cycle has it: under
\* the lock, the draft as it is now, and the mission.
NextDraft(c) ==
  /\ engine[c].pc = "next"
  /\ IF engine[c].todo = <<>> THEN Step(c, Rest) /\ UNCHANGED inflight
     ELSE LET d == Head(engine[c].todo)
              now == IF store[d.id] # None THEN store[d.id] ELSE d
              rest == [engine[c] EXCEPT !.todo = Tail(@)] IN
          IF (ToSend(d) = {} /\ ~Waiting(d)) \/ d.id \in inflight
          THEN Step(c, rest) /\ UNCHANGED inflight
          ELSE /\ inflight' = inflight \cup {d.id}
               /\ Step(c, [rest EXCEPT !.pc = IF ToSend(now) = {} THEN "upload" ELSE "mark",
                                       !.next = now, !.row = row])
  /\ UNCHANGED <<device, row, wire, server, left>>

Mark(c) ==
  /\ engine[c].pc = "mark"
  /\ LET d == engine[c].next
         marked == [d EXCEPT !.photos = [p \in Photos |-> IF p \in ToSend(d) THEN "syncing" ELSE d.photos[p]]] IN
     /\ Put(marked)
     /\ Step(c, [engine[c] EXCEPT !.pc = "upload", !.next = marked, !.changed = TRUE])
  /\ UNCHANGED <<form, jobs, used, taken, inflight, row, wire, server, left>>

\* One of the parallel uploads; a failed request may have created the document.
Upload(c, p) ==
  /\ engine[c].pc = "upload"
  /\ engine[c].next.photos[p] = "syncing"
  /\ \/ /\ Step(c, [engine[c] EXCEPT !.next.photos[p] = "synced"])
        /\ docs' = [docs EXCEPT ![p] = @ + 1]
        /\ UNCHANGED left
     \/ /\ Step(c, [engine[c] EXCEPT !.next.photos[p] = "failed"])
        /\ Disturb("losses")
        /\ \E made \in 0 .. 1 : docs' = [docs EXCEPT ![p] = @ + made]
  /\ UNCHANGED <<device, inflight, row, wire, insp, res, open>>

\* syncEvidenceIfReady, once every upload has answered.
MakeEvidence(c) ==
  LET d == engine[c].next
      there == {p \in Photos : d.photos[p] # "none"}
      ready == ~d.evidence /\ there # {} /\ \A p \in there : d.photos[p] = "synced" IN
  /\ engine[c].pc = "upload"
  /\ \A p \in Photos : d.photos[p] # "syncing"
  /\ \/ /\ ready
        /\ Step(c, [engine[c] EXCEPT !.pc = "patch", !.next.evidence = TRUE, !.changed = TRUE])
        /\ UNCHANGED left
     \/ /\ ready
        /\ Step(c, [engine[c] EXCEPT !.pc = "patch"])
        /\ Disturb("losses")
     \/ /\ ~ready
        /\ Step(c, [engine[c] EXCEPT !.pc = "patch"])
        /\ UNCHANGED left
  /\ UNCHANGED <<device, inflight, row, wire, server>>

Release(c) ==
  /\ inflight' = inflight \ {engine[c].next.id}
  /\ Step(c, [engine[c] EXCEPT !.pc = "next", !.next = None,
                               !.changed = FALSE, !.row = None, !.answer = None])

\* patchDraft of the whole snapshot, if the photos or the evidence moved; again
\* as "syncing", and syncInspection, unless there is no decision to send.
Patch(c) ==
  LET d == engine[c].next
      sent == [d EXCEPT !.sync = "syncing"] IN
  /\ engine[c].pc = "patch"
  /\ IF Waiting(d) /\ Decide \in d.edits
     THEN /\ Put(sent)
          /\ Step(c, [engine[c] EXCEPT !.pc = "wait", !.next = sent])
          /\ wire' = wire \cup {[id |-> d.id, known |-> d.known, row |-> engine[c].row,
                                  by |-> c, step |-> "check"]}
          /\ UNCHANGED inflight
     ELSE /\ IF engine[c].changed THEN Put(d) ELSE UNCHANGED store
          /\ Release(c)
          /\ UNCHANGED wire
  /\ UNCHANGED <<form, jobs, used, taken, row, server, left>>

\* The answer to a submission, if a cycle still waits for it.
Reply(q, answer) ==
  IF q.by = None THEN UNCHANGED engine
  ELSE Step(q.by, [engine[q.by] EXCEPT !.pc = "answer", !.answer = answer])

\* Mutant of Check: a submission passes whatever event it expected.
CheckNothing(q) ==
  /\ q.step = "check"
  /\ wire' = (wire \ {q}) \cup {[q EXCEPT !.step = "write"]}
  /\ UNCHANGED <<engine, device, inflight, row, server, left>>

\* _create_inspection_row compares the last event with the one expected ...
Check(q) ==
  /\ q.step = "check"
  /\ IF q.known = Latest(q.row)
     THEN wire' = (wire \ {q}) \cup {[q EXCEPT !.step = "write"]} /\ UNCHANGED engine
     ELSE wire' = wire \ {q} /\ Reply(q, [status |-> "conflict"])
  /\ UNCHANGED <<device, inflight, row, server, left>>

\* ... and its rows are there for the others once it commits.
Write(q) ==
  /\ q.step = "write"
  /\ Insert(q.id, q.row)
  /\ wire' = wire \ {q}
  /\ Reply(q, [status |-> "applied",
               latest |-> IF q.row # None THEN <<"reserve", res + 2>>
                          ELSE <<"inspection", Len(insp) + 1>>])
  /\ UNCHANGED <<device, inflight, row, docs, left>>

\* Submissions nobody waits for any more: some go on, the others are lost.
Abandon(mine) ==
  \E gone \in SUBSET mine :
    wire' = (wire \ mine) \cup {[q EXCEPT !.by = None] : q \in gone}

\* The network fails on a submission, before or after the server has acted.
Lose(c) ==
  /\ engine[c].pc \in {"wait", "answer"}
  /\ engine[c].answer # [status |-> "error"]
  /\ Disturb("losses")
  /\ Step(c, [engine[c] EXCEPT !.pc = "answer", !.answer = [status |-> "error"]])
  /\ Abandon({q \in wire : q.by = c})
  /\ UNCHANGED <<device, inflight, row, server>>

\* What the draft becomes on an answer.
Settled(d, answer) ==
  IF answer.status = "conflict" THEN [d EXCEPT !.sync = "conflict"]
  ELSE IF answer.status = "applied" THEN [d EXCEPT !.sync = "synced", !.known = answer.latest]
  ELSE [d EXCEPT !.sync = "pending"]

Answer(c) ==
  /\ engine[c].pc = "answer"
  /\ Put(Settled(engine[c].next, engine[c].answer))
  /\ Release(c)
  /\ UNCHANGED <<form, jobs, used, taken, row, wire, server, left>>

\* The application is closed: memory goes, the store stays, requests may go on.
Restart ==
  /\ Disturb("restarts")
  /\ form' = Closed /\ jobs' = <<>> /\ inflight' = {}
  /\ engine' = [c \in Cycles |-> Rest]
  /\ Abandon(wire)
  /\ UNCHANGED <<store, used, taken, row, server>>

-----------------------------------------------------------------------------
\* A first inspection, or a follow-up of the reserve opened by an earlier one.
Init ==
  /\ store = [i \in Drafts |-> None]
  /\ form = Closed /\ jobs = <<>> /\ used = {} /\ taken = {}
  /\ engine = [c \in Cycles |-> Rest] /\ inflight = {} /\ wire = {}
  /\ open \in BOOLEAN
  /\ insp = IF open THEN <<None>> ELSE <<>>
  /\ res = IF open THEN 1 ELSE 0
  /\ row = MissionRow
  /\ docs = [p \in Photos |-> 0]
  /\ left = Budget

Form ==
  \/ OpenForm \/ CloseForm \/ RetryPersist \/ Discard
  \/ \E e \in Edits : Fill(e)
  \/ \E p \in Photos : AddPhoto(p) \/ RemovePhoto(p)
Chain == \E i \in DOMAIN jobs : ReadJob(i) \/ WriteJob(i) \/ FailJob(i)
Cycle(c) ==
  \/ StartCycle(c) \/ NextDraft(c) \/ Mark(c) \/ \E p \in Photos : Upload(c, p)
  \/ MakeEvidence(c) \/ Patch(c) \/ Lose(c) \/ Answer(c)

Server(q) == Check(q) \/ Write(q)

Next ==
  \/ Form \/ Chain \/ OtherInspects \/ Correction \/ Restart
  \/ \E c \in Cycles : Cycle(c)
  \/ \E q \in wire : Server(q)

Spec == Init /\ [][Next]_vars

-----------------------------------------------------------------------------
\* A cycle has a draft in hand.
Holding(c) == engine[c].pc \in {"mark", "upload", "patch", "wait", "answer"}

\* A draft is in the hands of one cycle at a time, however many of them
\* overlap and whatever ends them (draftsInFlight, syncDraft).
OneCyclePerDraft ==
  \A c, d \in Cycles :
    Holding(c) /\ Holding(d) /\ engine[c].next.id = engine[d].next.id => c = d

\* The device never waits for two submissions of one correlation id at a time,
\* although those it has given up may still be on their way (syncDraftUnlocked).
OneAwaitedSubmission ==
  \A p, q \in wire : p.by # None /\ q.by # None /\ p.id = q.id => p = q
=============================================================================
