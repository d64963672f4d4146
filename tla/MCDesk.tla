------------------------------- MODULE MCDesk -------------------------------
(* Desk and Inbox, one scene at a time, chosen at the start: the file of a *)
(* reservation, the account of its programme once it is sold, or one       *)
(* subject that is announced by a message or raises an alert.              *)
EXTENDS Desk, TLC

VARIABLES scene, lost

First == CHOOSE r \in References : TRUE
\* A reserve that no declaration can be found for.
Orphan == CHOOSE s \in Reserves : TRUE

memory == <<scene, lost>>

\* Small organisations: everybody is an administrator of his own, and the
\* subjects belong to the first one.
TheBuilder      == [s \in Reserves |-> IF s = Orphan THEN None ELSE Client]
TheInspector    == [s \in Missions |-> Client]
TheRequester    == [s \in Asked |-> Client]
TheOrganization == [s \in Announced \cup Alerts |-> Client]
TheActive       == [u \in Users |-> u]
TheRoles        == [u \in Users |-> IF u = Client THEN {"inspecteur", "admin_keyimmo"} ELSE {"admin_keyimmo"}]

\* A file whose fees are settled, one whose two calls are but that no contract
\* binds, and one that is sold.
FeesPaid == [Empty EXCEPT !.res = "reserved", !.valid = TRUE, !.contracts = <<"signed">>, !.calls = {"frais"},
               !.amount = [r \in References |-> IF r = First THEN Due ELSE 0], !.reconciled = {First},
               !.alloc = [r \in References |-> [k \in Kinds |-> IF r = First /\ k = "frais" THEN Due ELSE 0]]]
Unsigned == [Empty EXCEPT !.res = "reserved", !.valid = TRUE, !.calls = Kinds,
               !.amount = [r \in References |-> 2 * Due], !.reconciled = References,
               !.alloc = [r \in References |-> [k \in Kinds |-> IF r = First THEN Due ELSE 0]]]
Sold == [Unsigned EXCEPT !.res = "committed", !.contracts = <<"signed">>]
Opening == [sale |-> {Empty}, premier |-> {FeesPaid}, contract |-> {Unsigned, [Empty EXCEPT !.res = "held"]},
            account |-> {Sold}]

\* How far a scene goes.
Bound(f) ==
  /\ Len(f.notices) <= 2 /\ Len(f.contracts) <= 2 /\ Len(f.out) <= 2
  /\ Cardinality({t \in f.tasks : t.status = "ticked"}) <= 1
  /\ scene = "sale" => f.contracts = <<>> /\ f.calls \subseteq {"frais"}
  /\ scene = "premier" => Len(f.contracts) = 1
  /\ scene = "contract" => f.notices = <<>> /\ (f.res = "held" => f.calls = {} /\ \A r \in References : f.amount[r] = 0)

MCInit ==
  /\ Init
  /\ scene \in DOMAIN Opening \cup Announced \cup Alerts
  /\ lost = {}
  /\ file \in IF scene \in DOMAIN Opening THEN Opening[scene] ELSE {Empty}

\* A message is lost by the worker that stops, or that found no subject and may
\* not try again.
Retries(s) == IF s \in Documents THEN MaxRetries ELSE 0
TooEarly == {s \in Announced :
  \E w \in Workers : /\ work[w].on = s /\ work[w].at = "read" /\ work[w].tried = Retries(s)
                     /\ subject[s] # "stored" /\ work'[w] = Idle}
Subjects == Announced \cup Alerts
InScene == \A s \in Subjects \ {scene} :
  /\ s \in Announced => subject'[s] = "absent"
  /\ \A e \in Executors : work'[e].on # s

Sale ==
  /\ scene \in {"sale", "premier", "contract"}
  /\ (\E q \in SaleRequests : Serve(q)) \/ Passes \/ Ticks
  /\ Bound(file') /\ UNCHANGED lost
Account ==
  /\ scene = "account"
  /\ (\E q \in AccountRequests : Serve(q)) \/ FieldReports \/ Reassigned
  /\ Bound(file') /\ UNCHANGED lost
Messages ==
  /\ scene \in Subjects
  /\ \/ Steady /\ lost' = lost \cup TooEarly
     \/ \E w \in Workers : Crash(w) /\ lost' = lost \cup {work[w].on}
  /\ InScene

MCNext ==
  \/ (Sale \/ Account) /\ UNCHANGED <<vars, scene>>
  \/ Messages /\ UNCHANGED <<file, scene>>

MCSpec == MCInit /\ [][MCNext]_<<vars, file, memory>> /\ InboxFairness

\* A message that no worker dropped, and that was not taken before the commit of
\* what it announces (for a document: more often than it is retried), is handled:
\* the reserve gets its task, the document its thumbnail (tickets 004, 006, 012).
AnnouncedIsHandledInTurn ==
  \A s \in Announced :
    subject[s] = "stored" /\ s \notin lost ~> s \in handled \/ s \in lost
=============================================================================
