------------------------------ MODULE PcTickets ------------------------------
(***************************************************************************)
(* Tickets a helper on a PC uploads one document with (agent/pc_upload.py  *)
(* and its routes).  A ticket is claimed before the body is read, so that  *)
(* it serves once; the records are files and outlive the portal, the       *)
(* requests do not.  Each step on the records is under one thread lock.    *)
(***************************************************************************)
EXTENDS Naturals, FiniteSets

CONSTANTS
  People,     \* owners of tickets
  Uploads,    \* requests of helpers served at the same time
  OpenMax,    \* open tickets of one person
  MaxTickets, \* bound: tickets
  MaxDeaths   \* bound: deaths of the portal

VARIABLES
  rec,     \* the records of the tickets, in the order they were issued
  up,      \* what each upload is at
  brought, \* history: documents staged with each ticket
  deaths

vars == <<rec, up, brought, deaths>>

Tickets == 1 .. MaxTickets
OpenStates == {"waiting", "opened"}
Ends == {"received", "failed", "cancelled", "closed", "expired"}
\* A ticket is young, past its ten minutes, or due to be removed.
Ages == {"young", "late", "old"}
Record == [owner : People, state : OpenStates \cup {"receiving"} \cup Ends, age : Ages]
NoRecord == [state |-> "none"]
Idle == [pc |-> "idle", of |-> 0]

Open(t) == rec[t].state \in OpenStates /\ rec[t].age = "young"
OpenOf(p) == {t \in Tickets : Open(t) /\ rec[t].owner = p}
-----------------------------------------------------------------------------
Init ==
  /\ rec = [t \in Tickets |-> NoRecord]
  /\ up = [u \in Uploads |-> Idle]
  /\ brought = [t \in Tickets |-> 0]
  /\ deaths = 0

\* A new ticket closes the oldest of the person's open ones beyond the limit.
Issue(p) ==
  /\ \E t \in Tickets :
       LET surplus == {s \in OpenOf(p) : Cardinality({r \in OpenOf(p) : r >= s}) >= OpenMax} IN
       /\ \A s \in Tickets : rec[s].state # "none" => s < t
       /\ rec[t].state = "none" /\ brought[t] = 0 /\ \A u \in Uploads : up[u].of # t
       /\ rec' = [s \in Tickets |->
            IF s = t THEN [owner |-> p, state |-> "waiting", age |-> "young"]
            ELSE IF s \in surplus THEN [rec[s] EXCEPT !.state = "closed"] ELSE rec[s]]
  /\ UNCHANGED <<up, brought, deaths>>

\* The helper reads what the ticket is for.
HelperOpen(t) ==
  /\ Open(t) /\ rec[t].state = "waiting"
  /\ rec' = [rec EXCEPT ![t].state = "opened"]
  /\ UNCHANGED <<up, brought, deaths>>

\* A helper cancels whatever its ticket is at.
CancelAnyway(t) ==
  /\ rec[t].state # "none"
  /\ rec' = [rec EXCEPT ![t].state = "cancelled"]
  /\ UNCHANGED <<up, brought, deaths>>

\* The person declines at the helper, or the helper fails.
HelperCancel(t) ==
  /\ Open(t)
  /\ rec' = [rec EXCEPT ![t].state = "cancelled"]
  /\ UNCHANGED <<up, brought, deaths>>

\* The ticket stays open until its document has come.
ClaimLater(u, t) ==
  /\ up[u].pc = "idle" /\ Open(t)
  /\ up' = [up EXCEPT ![u] = [pc |-> "reading", of |-> t]]
  /\ UNCHANGED <<rec, brought, deaths>>

\* An upload begins: the ticket is closed to others before the body is read.
Claim(u, t) ==
  /\ up[u].pc = "idle" /\ Open(t)
  /\ rec' = [rec EXCEPT ![t].state = "receiving"]
  /\ up' = [up EXCEPT ![u] = [pc |-> "reading", of |-> t]]
  /\ UNCHANGED <<brought, deaths>>

\* The body is read, found good, and staged.
Store(u) ==
  /\ up[u].pc = "reading"
  /\ up' = [up EXCEPT ![u].pc = "stored"]
  /\ brought' = [brought EXCEPT ![up[u].of] = brought[up[u].of] + 1]
  /\ UNCHANGED <<rec, deaths>>

\* The body is refused, breaks off, or cannot be staged.
Refuse(u) ==
  /\ up[u].pc = "reading"
  /\ up' = [up EXCEPT ![u].pc = "refused"]
  /\ UNCHANGED <<rec, brought, deaths>>

\* The outcome is written over whatever the record says; a removed record stays removed.
Finish(u) ==
  /\ up[u].pc \in {"stored", "refused"}
  /\ LET t == up[u].of IN
     rec' = [rec EXCEPT ![t] =
       IF rec[t].state = "none" THEN NoRecord
       ELSE [rec[t] EXCEPT !.state = IF up[u].pc = "stored" THEN "received" ELSE "failed",
                           !.age = "young"]]
  /\ up' = [up EXCEPT ![u] = Idle]
  /\ UNCHANGED <<brought, deaths>>

\* Any request of the owner: open tickets past their time expire, old ones that are not
\* open are removed, one that is being received too.
Sweep ==
  /\ rec' = [t \in Tickets |->
       IF rec[t].state = "none" THEN NoRecord
       ELSE IF rec[t].state \in OpenStates
       THEN IF rec[t].age = "young" THEN rec[t]
            ELSE [rec[t] EXCEPT !.state = "expired", !.age = "young"]
       ELSE IF rec[t].age = "old" THEN NoRecord ELSE rec[t]]
  /\ rec' # rec
  /\ UNCHANGED <<up, brought, deaths>>

Pass(t) ==
  /\ rec[t].state # "none" /\ rec[t].age # "old"
  /\ rec' = [rec EXCEPT ![t].age = IF rec[t].age = "young" THEN "late" ELSE "old"]
  /\ UNCHANGED <<up, brought, deaths>>

Die ==
  /\ deaths < MaxDeaths /\ deaths' = deaths + 1
  /\ up' = [u \in Uploads |-> Idle]
  /\ UNCHANGED <<rec, brought>>

Next ==
  \/ \E p \in People : Issue(p)
  \/ \E t \in Tickets : HelperOpen(t) \/ HelperCancel(t) \/ Pass(t)
  \/ \E u \in Uploads : Store(u) \/ Refuse(u) \/ Finish(u) \/ \E t \in Tickets : Claim(u, t)
  \/ Sweep \/ Die

Spec == Init /\ [][Next]_vars
-----------------------------------------------------------------------------
(* Properties                                                              *)

\* A record has the shape pc_upload.py gives it, or there is none, and an upload the ticket
\* it claimed.
TypeOK ==
  /\ rec \in [Tickets -> Record \cup {NoRecord}]
  /\ up \in [Uploads -> [pc : {"idle", "reading", "stored", "refused"}, of : Tickets \cup {0}]]
  /\ brought \in [Tickets -> Nat] /\ deaths \in 0 .. MaxDeaths

\* A ticket brings one document at most, and one that was cancelled, closed or expired, or
\* says that it failed, brings none, whatever requests collide (claim, finish).
TicketsServeOnce ==
  \A t \in Tickets :
    /\ brought[t] <= 1
    /\ brought[t] = 1 => rec[t].state \in {"none", "receiving", "received"}
=============================================================================
