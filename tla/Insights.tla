------------------------------- MODULE Insights -------------------------------
(***************************************************************************)
(* Insight cards (insights/): the cards of finished deliberation jobs are  *)
(* pulled from the agent server page by page, from a cursor that is moved  *)
(* back a little because a job may be written down late (intake.py), and   *)
(* then handled by their owners, in requests that read a card, wait, and   *)
(* save it (routes.py, store.py).                                          *)
(***************************************************************************)
EXTENDS Naturals, FiniteSets

CONSTANTS
  Jobs,       \* deliberation jobs, one card each, numbered as they finish
  Limit,      \* items of a page (SYNC_LIMIT)
  PagesMax,   \* pages of a pull (SYNC_PAGES_MAX)
  Overlap,    \* how far the cursor is moved back (SYNC_OVERLAP_S)
  Late,       \* how much later than it finishes a job may be written down
  PullTime,   \* how long a pull may take (SYNC_PAGES_MAX times SYNC_TIMEOUT_S)
  Handlers,   \* requests on cards served at the same time
  MaxTime,    \* bound: times
  MaxFails    \* bound: pulls that fail

VARIABLES
  now,
  at,       \* when each job finished, 0 if it did not
  written,  \* the jobs the agent server knows of
  card,     \* the cards, by their job
  cursor,   \* how far the pulls have come (jobs_since)
  partial,  \* the last pull stopped at its limit of pages (jobs_partial)
  pull,     \* what the pull is at
  cut,      \* history: some pull stopped at its limit
  gone,     \* history: the cards that were withdrawn
  hs,       \* what each handler is at
  fails

vars == <<now, at, written, card, cursor, partial, pull, cut, gone, hs, fails>>

Shared == {"confirmed", "disputed"}
Cards == {"none", "waiting", "draft", "withdrawn"} \cup Shared
Idle == [pc |-> "idle", of |-> {}]

\* What the numbers of intake.py are chosen for: the overlap covers a job that is written
\* late while a pull is under way, and a page of several items moves the cursor.
PullConstants ==
  /\ IsFiniteSet(Jobs) /\ Limit \in Nat /\ Limit > 1
  /\ Late \in Nat /\ PullTime \in Nat /\ Overlap \in Nat /\ Late + PullTime <= Overlap
-----------------------------------------------------------------------------
Init ==
  /\ now = 1 /\ at = [j \in Jobs |-> 0] /\ written = {}
  /\ card = [j \in Jobs |-> "none"]
  /\ cursor = 0 /\ partial = FALSE /\ cut = FALSE /\ gone = {} /\ fails = 0
  /\ pull = [pc |-> "idle", begun |-> 0, start |-> 0, pages |-> 0, full |-> FALSE, done |-> FALSE, due |-> {}]
  /\ hs = [h \in Handlers |-> Idle]

\* The agent server: jobs finish one after the other, and are written down a while later.
FinishJob(j) ==
  /\ at[j] = 0 /\ \A k \in Jobs : at[k] # now /\ (k < j => at[k] # 0)
  /\ at' = [at EXCEPT ![j] = now]
  /\ UNCHANGED <<now, written, card, cursor, partial, pull, cut, gone, hs, fails>>

WriteJob(j) ==
  /\ at[j] # 0 /\ j \notin written
  /\ written' = written \cup {j}
  /\ UNCHANGED <<now, at, card, cursor, partial, pull, cut, gone, hs, fails>>

Tick ==
  /\ now < MaxTime /\ \A j \in Jobs \ written : at[j] # 0 => now < at[j] + Late
  /\ pull.pc = "page" => now < pull.begun + PullTime
  /\ now' = now + 1
  /\ UNCHANGED <<at, written, card, cursor, partial, pull, cut, gone, hs, fails>>
-----------------------------------------------------------------------------
(* The pull                                                                *)

\* What the server gives from a time on: the earliest first, no more than a page.
Hits(since) == {j \in written : at[j] >= since}
Pages(since) ==
  {P \in SUBSET Hits(since) :
     /\ Cardinality(P) = IF Cardinality(Hits(since)) < Limit THEN Cardinality(Hits(since)) ELSE Limit
     /\ \A p \in P, q \in Hits(since) \ P : at[p] < at[q]}
\* The time of the last item, or the one asked for when there is none.
IsNextSince(next, P, since) ==
  since <= next /\ \A j \in P : at[j] <= next

Overlapped == IF cursor < Overlap THEN 0 ELSE cursor - Overlap
Begun(start) ==
  [pc |-> "page", begun |-> now, start |-> start, pages |-> 0, full |-> ~ partial, done |-> FALSE,
   due |-> written]

\* Pulls go on from the cursor as it is.
BeginAtCursor ==
  /\ pull.pc = "idle"
  /\ pull' = Begun(cursor)
  /\ UNCHANGED <<now, at, written, card, cursor, partial, cut, gone, hs, fails>>

\* A pull begins before the cursor, at the cursor if the last one stopped at its limit.
Begin ==
  /\ pull.pc = "idle"
  /\ pull' = Begun(IF partial THEN cursor ELSE Overlapped)
  /\ UNCHANGED <<now, at, written, card, cursor, partial, cut, gone, hs, fails>>

\* A card that is there, withdrawn or not, is left alone; without a confirmed subject a new
\* one waits.
Ingest(P) ==
  \E as \in {"waiting", "draft"} :
    card' = [j \in Jobs |-> IF j \in P /\ card[j] = "none" THEN as ELSE card[j]]

\* A page comes, its cards are stored, then the cursor.
Page ==
  /\ pull.pc = "page"
  /\ \E P \in Pages(pull.start) : \E next \in {at[j] : j \in P} \cup {pull.start} :
       LET done == P = Hits(pull.start) \/ next <= pull.start
           last == pull.pages + 1 = PagesMax IN
       /\ IsNextSince(next, P, pull.start)
       /\ Ingest(P)
       /\ cursor' = IF next > cursor THEN next ELSE cursor
       /\ partial' = IF done THEN FALSE ELSE IF last THEN TRUE ELSE partial
       /\ cut' = (cut \/ (last /\ ~ done))
       /\ pull' = IF done \/ last THEN [pull EXCEPT !.pc = "idle", !.done = done]
                  ELSE [pull EXCEPT !.start = next, !.pages = pull.pages + 1]
  /\ UNCHANGED <<now, at, written, gone, hs, fails>>

\* The server does not answer, or the portal dies with a page stored and the cursor not.
FailPull ==
  /\ pull.pc = "page" /\ fails < MaxFails /\ fails' = fails + 1
  /\ \E P \in Pages(pull.start) \cup {{}} : Ingest(P)
  /\ pull' = [pull EXCEPT !.pc = "idle"]
  /\ UNCHANGED <<now, at, written, cursor, partial, cut, gone, hs>>
-----------------------------------------------------------------------------
(* Requests on a card                                                      *)

\* A request reads the card and, as it stands, may go on: confirm a draft, give a waiting
\* card its subject, dispute a shared card, correct any card's claim or round, withdraw it.
Read(h, j) ==
  /\ hs[h].pc = "idle"
  /\ \E op \in {"confirm", "subject", "dispute", "edit", "withdraw"} :
       /\ CASE op = "confirm" -> card[j] = "draft"
            [] op = "subject" -> card[j] = "waiting"
            [] op = "dispute" -> card[j] \in Shared
            [] OTHER -> card[j] \notin {"none", "withdrawn"}
       /\ hs' = [hs EXCEPT ![h] = [pc |-> op, of |-> {j}]]
  /\ UNCHANGED <<now, at, written, card, cursor, partial, pull, cut, gone, fails>>

After(op, state) ==
  CASE op = "confirm" -> "confirmed" [] op = "subject" -> "draft" [] op = "dispute" -> "disputed"
    [] op = "withdraw" -> "withdrawn" [] OTHER -> state

\* The card is saved, unless it was withdrawn since.
Save(h) ==
  /\ hs[h].pc # "idle"
  /\ card' = [j \in Jobs |-> IF j \in hs[h].of /\ card[j] # "withdrawn"
                             THEN After(hs[h].pc, card[j]) ELSE card[j]]
  /\ gone' = IF hs[h].pc = "withdraw" THEN gone \cup hs[h].of ELSE gone
  /\ hs' = [hs EXCEPT ![h] = Idle]
  /\ UNCHANGED <<now, at, written, cursor, partial, pull, cut, fails>>

\* What keeps the request from its end: the gateway's tools or the subject are not to be had.
GiveUp(h) ==
  /\ hs[h].pc \in {"confirm", "subject"}
  /\ hs' = [hs EXCEPT ![h] = Idle]
  /\ UNCHANGED <<now, at, written, card, cursor, partial, pull, cut, gone, fails>>

Next ==
  \/ \E j \in Jobs : FinishJob(j) \/ WriteJob(j)
  \/ Tick \/ Begin \/ Page \/ FailPull
  \/ \E h \in Handlers : Save(h) \/ GiveUp(h) \/ \E j \in Jobs : Read(h, j)

Spec == Init /\ [][Next]_vars
-----------------------------------------------------------------------------
(* Properties                                                              *)

\* The cards, the cursor and the pull keep the shapes of intake.py, and a request is about
\* cards there are.
TypeOK ==
  /\ now \in Nat \ {0} /\ at \in [Jobs -> Nat] /\ written \subseteq Jobs
  /\ card \in [Jobs -> Cards] /\ cursor \in Nat /\ cut \in BOOLEAN /\ partial \in BOOLEAN
  /\ pull \in [pc : {"idle", "page"}, begun : Nat, start : Nat, pages : Nat, full : BOOLEAN,
               done : BOOLEAN, due : SUBSET Jobs]
  /\ gone \subseteq Jobs /\ fails \in 0 .. MaxFails
  /\ hs \in [Handlers -> [pc : {"idle", "confirm", "subject", "dispute", "edit", "withdraw"},
                          of : SUBSET Jobs]]

\* A pull that read the overlap again and came to the end has missed no job it could see.
NoCardIsMissed ==
  (pull.pc = "idle" /\ pull.full /\ pull.done) => \A j \in pull.due : card[j] # "none"

\* So it is at least as long as no pull stopped at its limit of pages.
NoCardIsPassed == ~ cut => NoCardIsMissed

\* A card that was withdrawn stays withdrawn: neither a pull that reads its job again nor a
\* request that read it earlier brings it back.
WithdrawnStay == \A j \in gone : card[j] = "withdrawn"
=============================================================================
