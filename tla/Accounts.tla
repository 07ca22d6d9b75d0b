------------------------------ MODULE Accounts ------------------------------
(***************************************************************************)
(* The ledger of accounts and the requests that change who administers the *)
(* portal (UserStore in auth/user_store.py, auth/routes/local.py, PATCH of *)
(* access/routes.py, complete_login in auth/routes/session.py).  A method  *)
(* of the ledger that writes holds its lock from its first statement to    *)
(* its last and is one action.  A row is read through a cache, which is    *)
(* looked up before the lock is taken and filled after it is given back.   *)
(* Handlers declared async run on the event loop, one at a time; who asks  *)
(* is looked up on threads before, and sign-ups and approvals run there.   *)
(***************************************************************************)
EXTENDS Naturals

CONSTANTS
  People,    \* addresses of accounts
  SabunOf,   \* of an address: what the sign-on says of who it is, or NoSabun
  NoSabun,
  BySabun,   \* the box looks at sabuns (saml_attr_sabun)
  Pinned,    \* PORTAL_ADMIN_EMAILS
  Founders,  \* local_bootstrap_admin_list
  Ledgers,   \* ledgers the portal may be opened with
  Handlers,  \* requests
  Nobody,
  MaxAsks    \* bound: requests

VARIABLES
  row,    \* the rows of the ledger
  shown,  \* the rows of the cache that are of this epoch (_row_cache)
  hs,     \* what each request is at
  asks    \* requests so far

vars == <<row, shown, hs, asks>>

\* `admin` is the mark in groups, `local` a password; `sabun`: what was noted is SabunOf.
Rows == [status : {"none", "pending", "active", "disabled"},
         admin : BOOLEAN, local : BOOLEAN, sabun : BOOLEAN]
NoRow == [status |-> "none", admin |-> FALSE, local |-> FALSE, sabun |-> FALSE]
Uncached == [NoRow EXCEPT !.status = "uncached"]

AdminOps == {"mark", "unmark", "suspend", "revive", "approve"}
Free == [pc |-> "idle", op |-> "none", by |-> Nobody, of |-> Nobody, saw |-> NoRow]

Requests ==
  {Free} \cup [pc : {"who", "whoput", "row", "rowput", "do"}, op : AdminOps \cup {"sign on"},
               by : People, of : People, saw : Rows]

TypeOK ==
  /\ row \in [People -> Rows] /\ shown \in [People -> Rows \cup {Uncached}]
  /\ hs \in [Handlers -> Requests]
  /\ asks \in 0 .. MaxAsks

Exists(e) == row[e].status # "none"
Sabun(e) == IF row[e].sabun THEN SabunOf[e] ELSE NoSabun
Active == {e \in People : row[e].status = "active"}

\* Who may open the screens of administrators: also who awaits approval, never who is
\* suspended.
IsAdmin(e, r) == r.status \in {"pending", "active"} /\ (r.admin \/ e \in Pinned)

\* Those who count as administrators that remain.
Admins == {e \in Active : row[e].admin \/ e \in Pinned}

\* Suspending e shuts out, at the next sign-on, every active row of its sabun.
ShutOutWith(e) ==
  {e} \cup {a \in Active : BySabun /\ Sabun(e) # NoSabun /\ Sabun(a) = Sabun(e)}
DisabledBySabun(e) ==
  /\ BySabun /\ SabunOf[e] # NoSabun
  /\ \E a \in People : row[a].status = "disabled" /\ Sabun(a) = SabunOf[e]

\* A handler that has the event loop: others of the loop wait.
OnLoop(h) ==
  \/ hs[h].op = "sign on"
  \/ hs[h].op \in {"mark", "unmark"} /\ hs[h].pc \in {"rowput", "do"}
LoopIsFree(h) == \A k \in Handlers \ {h} : ~ OnLoop(k)
-----------------------------------------------------------------------------
Init ==
  /\ row \in Ledgers
  /\ shown = [e \in People |-> Uncached]
  /\ hs = [h \in Handlers |-> Free]
  /\ asks = 0

\* A write ends with a new epoch: what is cached counts no more.
NewEpoch == shown' = [a \in People |-> Uncached]
Write(e, r) == row' = [row EXCEPT ![e] = r] /\ NewEpoch
Refuse == UNCHANGED <<row, shown>>

End(h) == hs' = [hs EXCEPT ![h] = Free]
Go(h, pc) == hs' = [hs EXCEPT ![h].pc = pc, ![h].saw = NoRow]
Does(h, op) == hs[h].pc = "do" /\ hs[h].op = op /\ End(h) /\ UNCHANGED asks
Enter(h, op, by, of, pc) ==
  /\ hs[h].pc = "idle" /\ asks < MaxAsks /\ asks' = asks + 1
  /\ hs' = [hs EXCEPT ![h] = [pc |-> pc, op |-> op, by |-> by, of |-> of, saw |-> NoRow]]

\* What a method that holds the lock reads of a row: the cached one, though it may be old.
Looked(e) == IF shown[e] # Uncached THEN shown[e] ELSE row[e]
-----------------------------------------------------------------------------
(* Reading a row                                                           *)

\* Whose row is read: of the one who asks, then of the one it is about.
Subject(h) == IF hs[h].pc \in {"who", "whoput"} THEN hs[h].by ELSE hs[h].of

\* How a request goes on once it has the row r.
Then(h, r) ==
  LET k == hs[h]
      refused ==
        IF k.pc \in {"who", "whoput"} THEN ~ IsAdmin(k.by, r) \/ (k.op = "suspend" /\ k.of = k.by)
        ELSE \/ k.op # "sign on" /\ r.status = "none"
             \/ k.op = "mark" /\ r.status # "active"
             \/ k.op = "unmark" /\ (k.of = k.by \/ k.of \in Pinned)
      next == IF k.pc \in {"who", "whoput"} /\ k.op \in {"mark", "unmark"} THEN "row" ELSE "do"
  IN IF refused THEN End(h) ELSE Go(h, next)

\* The row is in the cache, or is read under the lock.
Get(h) ==
  LET e == Subject(h)
  IN /\ hs[h].pc = "who" \/ (hs[h].pc = "row" /\ LoopIsFree(h))
     /\ IF shown[e] # Uncached THEN Then(h, shown[e])
        ELSE hs' = [hs EXCEPT ![h].pc = IF hs[h].pc = "who" THEN "whoput" ELSE "rowput",
                              ![h].saw = row[e]]
     /\ UNCHANGED <<row, shown, asks>>

\* After the lock, what was read is cached under the epoch of now.
Fill(h) ==
  /\ hs[h].pc \in {"whoput", "rowput"}
  /\ shown' = [shown EXCEPT ![Subject(h)] = hs[h].saw]
  /\ Then(h, hs[h].saw)
  /\ UNCHANGED <<row, asks>>

\* A cached row gets too old.
Expire(e) ==
  /\ shown[e] # Uncached
  /\ shown' = [shown EXCEPT ![e] = Uncached]
  /\ UNCHANGED <<row, hs, asks>>
-----------------------------------------------------------------------------
(* People                                                                  *)

\* Who signs up awaits approval; a founder who is the first with a password is an
\* administrator.  On a row the cache does not know of, the insertion fails.
SignUp(e) ==
  LET first == e \in Founders /\ \A a \in People : ~ row[a].local
  IN /\ asks < MaxAsks /\ asks' = asks + 1
     /\ CASE Looked(e).status # "none" -> row' = row /\ shown' = [shown EXCEPT ![e] = Looked(e)]
          [] Looked(e).status = "none" /\ Exists(e) -> Refuse
          [] OTHER -> Write(e, [status |-> IF first THEN "active" ELSE "pending",
                                admin |-> first, local |-> TRUE, sabun |-> FALSE])
     /\ UNCHANGED hs

\* Who comes by sign-on is turned away if a row of the same sabun is suspended.
SignOn(h, e) ==
  /\ LoopIsFree(h) /\ ~ DisabledBySabun(e)
  /\ Enter(h, "sign on", e, e, "row")
  /\ UNCHANGED <<row, shown>>

\* A new row is active at once, a row that is there keeps its status; the sabun is noted.
\* Of a row the cache does not know of nothing is noted, and the sign-on goes on.
NoteSignOn(h) ==
  LET e == hs[h].of  known == BySabun /\ SabunOf[e] # NoSabun
  IN /\ Does(h, "sign on")
     /\ CASE Looked(e).status # "none" -> Write(e, [row[e] EXCEPT !.sabun = @ \/ known])
          [] Looked(e).status = "none" /\ Exists(e) -> Refuse
          [] OTHER -> Write(e, [NoRow EXCEPT !.status = "active", !.sabun = known])
-----------------------------------------------------------------------------
(* Administrators                                                          *)

Ask(h, op, by, of) == Enter(h, op, by, of, "who") /\ UNCHANGED <<row, shown>>

Mark(h) ==
  LET e == hs[h].of
  IN /\ Does(h, "mark")
     /\ IF row[e].admin THEN Refuse ELSE Write(e, [row[e] EXCEPT !.admin = TRUE])

\* Fault: whoever has the mark remains, suspended ones too.
UnmarkBesideAny(h) ==
  LET e == hs[h].of
  IN /\ Does(h, "unmark")
     /\ IF ~ row[e].admin \/ {a \in People \ {e} : row[a].admin \/ a \in Pinned} = {} THEN Refuse
        ELSE Write(e, [row[e] EXCEPT !.admin = FALSE])

\* The last active administrator keeps the mark.
Unmark(h) ==
  LET e == hs[h].of
  IN /\ Does(h, "unmark")
     /\ IF ~ row[e].admin \/ Admins \ {e} = {} THEN Refuse
        ELSE Write(e, [row[e] EXCEPT !.admin = FALSE])

\* Refused if it shuts out the one who asks, or the last administrators.
Suspend(h) ==
  LET e == hs[h].of  out == ShutOutWith(e)
  IN /\ LoopIsFree(h) /\ Does(h, "suspend")
     /\ IF \/ ~ Exists(e) \/ hs[h].by \in out
           \/ Admins \cap out # {} /\ Admins \subseteq out
        THEN Refuse
        ELSE Write(e, [row[e] EXCEPT !.status = "disabled"])

\* Who is made active again has the mark it had; who was never approved is active too.
Revive(h) ==
  /\ LoopIsFree(h) /\ Does(h, "revive")
  /\ IF Exists(hs[h].of) THEN Write(hs[h].of, [row[hs[h].of] EXCEPT !.status = "active"])
     ELSE row' = row /\ NewEpoch

\* The groups of who is approved are replaced, by some with the mark or without, or kept.
Approve(h) ==
  LET e == hs[h].of
  IN /\ Does(h, "approve")
     /\ IF row[e].status = "pending"
        THEN \E mark \in BOOLEAN : Write(e, [row[e] EXCEPT !.status = "active", !.admin = mark])
        ELSE row' = row /\ NewEpoch
-----------------------------------------------------------------------------
Next ==
  \/ \E e \in People : SignUp(e) \/ Expire(e)
  \/ \E h \in Handlers :
       \/ \E e \in People : SignOn(h, e)
       \/ \E op \in AdminOps, by, of \in People : Ask(h, op, by, of)
       \/ NoteSignOn(h) \/ Get(h) \/ Fill(h) \/ Mark(h) \/ Unmark(h) \/ Suspend(h)
       \/ Revive(h) \/ Approve(h)

Spec == Init /\ [][Next]_vars
-----------------------------------------------------------------------------
(* Properties                                                              *)

\* Once somebody who may open the screens of administrators is active, somebody always is,
\* though two of them take each other's mark or suspend each other at once, on what they saw
\* of rows that have changed (set_admin and suspend judge and write under one lock).
AnAdministratorRemains == [][Admins # {} => Admins' # {}]_vars

\* A row that is looked up in the cache is the row of the ledger: a change is seen from the
\* moment it is made (user_store.py:69).
ChangesAreSeenAtOnce == \A e \in People : shown[e] \in {Uncached, row[e]}
=============================================================================
