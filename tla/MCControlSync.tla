--------------------------- MODULE MCControlSync ---------------------------
(* ControlSync with few inputs, and two memories: what the inspector's     *)
(* writes have put in the store, and whether one of them ever met a        *)
(* synchronisation of the same draft.                                      *)
EXTENDS ControlSync, TLC

CONSTANT Meetings  \* after how many meetings a behaviour ends (a bound)

VARIABLES
  saved,      \* the inputs each draft has had written
  met         \* how often two of the actors have met on a draft

\* The environment of each run, by name.
Calm  == [mounts |-> 2, closes |-> 1, losses |-> 1, fails |-> 1, others |-> 1, restarts |-> 1, all |-> 1]
Quick == [mounts |-> 1, closes |-> 0, losses |-> 0, fails |-> 0, others |-> 0, restarts |-> 0, all |-> 0]

\* A local write or a discard comes during a cycle, a discard before a pending
\* write, or anything is written between the reading and the writing of a link.
Busy == \E c \in Cycles : engine[c] # Rest
Meet ==
  /\ store' # store
  /\ \/ \E k \in DOMAIN jobs' : jobs'[k].base # None
     \/ engine' = engine /\ Busy
     \/ jobs' = jobs /\ jobs # <<>> /\ engine' = engine

\* The server handles two submissions at a time.
Cross == wire' # wire /\ \E p, q \in wire' : p # q /\ p.step = "write" /\ q.step = "write"

MCInit == Init /\ saved = [i \in Drafts |-> {}] /\ met = 0
MCNext ==
  /\ Next
  /\ met < Meetings
  /\ saved' = [i \in Drafts |->
       IF store'[i] = None THEN {}
       ELSE IF Len(jobs') < Len(jobs) /\ engine' = engine THEN saved[i] \cup store'[i].edits
       ELSE saved[i]]
  /\ met' = IF Meet \/ Cross THEN met + 1 ELSE met
MCSpec == MCInit /\ [][MCNext]_<<vars, saved, met>>

\* The poll comes back every 15 s, promises resolve, the server answers.
MCFair ==
  /\ MCSpec
  /\ \A c \in Cycles : WF_vars(Cycle(c))
  /\ WF_vars(\E q \in wire : Server(q))

Count(seq, x) == Cardinality({k \in DOMAIN seq : seq[k] = x})


\* Every input that was written stays in the draft (InspectionFormView).
NoInputLost == \A i \in Drafts : store[i] # None => saved[i] \subseteq store[i].edits

\* As long as the server handles one submission at a time, it keeps one
\* inspection of a correlation id, however often its sending is tried again,
\* after a lost answer or a restart (syncDraft, expected_latest_event_id).
SubmittedOnceInTurn == met = 0 => \A i \in Drafts : Count(insp, i) <= 1

\* As long as the inspector's writes do not meet a synchronisation, and none of
\* them fails, a photo is uploaded once, and once more for each answer lost and
\* each closing of the application (ticket 015, syncDraft).
UploadedOnceInTurn ==
  met = 0 /\ left.fails = Budget.fails =>
    \A p \in Photos :
      docs[p] <= 1 + (Budget.losses - left.losses) + (Budget.restarts - left.restarts)

\* As long as they do not meet, a draft shown as synchronised was applied, and
\* one shown in conflict was not, unless an answer was lost or the application
\* closed on the way (syncDraft, InspectionFormView).
SettledIsTrueInTurn ==
  met = 0 => \A i \in Drafts : store[i] # None =>
    /\ store[i].sync = "synced" => Count(insp, i) = 1
    /\ store[i].sync = "conflict" /\ Count(insp, i) = 1 =>
         left.losses < Budget.losses \/ left.restarts < Budget.restarts

\* As long as they do not meet, a draft in conflict stays as it is until the
\* inspector discards it, unless a write that failed is tried again: that one
\* writes the memory back (runSyncCycle, patchDraft, retryPersist).
ConflictWaitsInTurn ==
  [][met' = 0 => \A i \in Drafts :
       store[i] # None /\ store[i].sync = "conflict" =>
         \/ store'[i] = None
         \/ /\ store'[i].sync = "conflict"
            /\ left.fails = Budget.fails => store[i].edits \subseteq store'[i].edits
    ]_<<vars, saved, met>>

\* As long as they do not meet, what is saved as decided, and stays so, ends up
\* applied, in conflict or discarded: no failed attempt leaves it aside for good
\* (syncDraft, "jamais d'abandon silencieux").
NothingAbandonedInTurn ==
  \A i \in Drafts :
    (store[i] # None /\ Decide \in store[i].edits)
      ~> \/ met > 0 \/ store[i] = None \/ Decide \notin store[i].edits
         \/ store[i].sync \in {"synced", "conflict"}
=============================================================================
