-------------------------- MODULE Accounts_proofs --------------------------
(***************************************************************************)
(* Theorems about Accounts, for any people, sabuns, ledgers and requests:  *)
(* the ledger keeps its shape, and an administrator remains.               *)
(***************************************************************************)
EXTENDS Accounts, TLAPS

-----------------------------------------------------------------------------
(* What the steps of a request do to its record and to the ledger.           *)

\* A request that is not free is about somebody.
LEMMA AtWork ==
  ASSUME TypeOK, NEW h \in Handlers, hs[h].pc # "idle"
  PROVE  /\ hs[h].by \in People /\ hs[h].of \in People /\ hs[h].saw \in Rows
         /\ hs[h] \in [pc : {"who", "whoput", "row", "rowput", "do"},
                       op : AdminOps \cup {"sign on"}, by : People, of : People, saw : Rows]
<1>1. hs[h] \in Requests
  BY DEF TypeOK
<1>2. Free.pc = "idle"
  BY DEF Free
<1> QED
  BY <1>1, <1>2 DEF Requests

LEMMA RowsOfConstants == NoRow \in Rows /\ Free \in Requests
BY DEF NoRow, Rows, Free, Requests

LEMMA EndsType ==
  ASSUME TypeOK, NEW h \in Handlers, End(h)
  PROVE  hs' \in [Handlers -> Requests]
BY RowsOfConstants DEF TypeOK, End

LEMMA GoesType ==
  ASSUME TypeOK, NEW h \in Handlers, hs[h].pc # "idle", NEW pc \in {"row", "do"}, Go(h, pc)
  PROVE  hs' \in [Handlers -> Requests]
<1>1. [hs[h] EXCEPT !.pc = pc, !.saw = NoRow] \in Requests
  BY AtWork, RowsOfConstants DEF Requests
<1>2. hs' = [hs EXCEPT ![h] = [hs[h] EXCEPT !.pc = pc, !.saw = NoRow]]
  BY DEF Go, TypeOK
<1> QED
  BY <1>1, <1>2 DEF TypeOK

LEMMA ThenType ==
  ASSUME TypeOK, NEW h \in Handlers, hs[h].pc # "idle", NEW r, Then(h, r)
  PROVE  hs' \in [Handlers -> Requests]
<1>1. CASE End(h)
  BY <1>1, EndsType
<1>2. CASE \E pc \in {"row", "do"} : Go(h, pc)
  BY <1>2, GoesType
<1>3. End(h) \/ Go(h, "row") \/ Go(h, "do")
  BY DEF Then
<1> QED
  BY <1>1, <1>2, <1>3

LEMMA AsksCounted ==
  ASSUME TypeOK, MaxAsks \in Nat, asks < MaxAsks, asks' = asks + 1
  PROVE  asks' \in 0 .. MaxAsks
BY DEF TypeOK

LEMMA EntersType ==
  ASSUME TypeOK, NEW h \in Handlers, NEW op \in AdminOps \cup {"sign on"},
         NEW by \in People, NEW of \in People, NEW pc \in {"who", "row"},
         Enter(h, op, by, of, pc), MaxAsks \in Nat
  PROVE  hs' \in [Handlers -> Requests] /\ asks' \in 0 .. MaxAsks
<1> DEFINE k == [pc |-> pc, op |-> op, by |-> by, of |-> of, saw |-> NoRow]
<1>1. k \in Requests
  BY RowsOfConstants DEF Requests
<1>2. hs' = [hs EXCEPT ![h] = k]
  BY DEF Enter
<1>3. hs' \in [Handlers -> Requests]
  <2> HIDE DEF k
  <2> QED BY <1>1, <1>2 DEF TypeOK
<1>4. asks' \in 0 .. MaxAsks
  BY AsksCounted DEF Enter
<1> QED
  BY <1>3, <1>4

LEMMA WritesType ==
  ASSUME TypeOK, NEW e \in People, NEW r \in Rows, Write(e, r)
  PROVE  row' \in [People -> Rows] /\ shown' \in [People -> Rows \cup {Uncached}]
BY DEF TypeOK, Write, NewEpoch

\* What an action of the ledger leaves of the ledger: it writes no row, or one row.
LedgerIsTyped == row' \in [People -> Rows] /\ shown' \in [People -> Rows \cup {Uncached}]

LEMMA LedgerKept ==
  ASSUME TypeOK, Refuse \/ (row' = row /\ NewEpoch)
  PROVE  LedgerIsTyped
BY DEF TypeOK, Refuse, NewEpoch, LedgerIsTyped

LEMMA LookedIsRow ==
  ASSUME TypeOK, NEW e \in People
  PROVE  Looked(e) \in Rows /\ row[e] \in Rows
BY DEF TypeOK, Looked

\* A request that does what it came for is over.
LEMMA DoesType ==
  ASSUME TypeOK, NEW h \in Handlers, NEW op, Does(h, op)
  PROVE  /\ hs' \in [Handlers -> Requests] /\ asks' \in 0 .. MaxAsks
         /\ hs[h].of \in People
BY EndsType, AtWork DEF Does, TypeOK

-----------------------------------------------------------------------------
(* Types                                                                     *)

LEMMA StepsType ==
  ASSUME TypeOK, [Next]_vars, MaxAsks \in Nat
  PROVE  TypeOK'
<1>1. CASE \E e \in People : SignUp(e)
  <2> PICK e \in People : SignUp(e)
    BY <1>1
  <2> DEFINE first == e \in Founders /\ \A a \in People : ~ row[a].local
             r == [status |-> IF first THEN "active" ELSE "pending",
                   admin |-> first, local |-> TRUE, sabun |-> FALSE]
  <2>1. r \in Rows
    BY DEF Rows
  <2>2. \/ row' = row /\ shown' = [shown EXCEPT ![e] = Looked(e)]
        \/ Refuse \/ Write(e, r)
    BY DEF SignUp
  <2>3. LedgerIsTyped
    <3> HIDE DEF r
    <3> QED BY <2>1, <2>2, WritesType, LedgerKept, LookedIsRow DEF LedgerIsTyped, TypeOK
  <2> QED
    BY <2>3 DEF SignUp, TypeOK, LedgerIsTyped
<1>2. CASE \E e \in People : Expire(e)
  BY <1>2 DEF Expire, TypeOK
<1>3. CASE \E h \in Handlers, e \in People : SignOn(h, e)
  <2> PICK h \in Handlers, e \in People : SignOn(h, e)
    BY <1>3
  <2>1. hs' \in [Handlers -> Requests] /\ asks' \in 0 .. MaxAsks
    BY EntersType DEF SignOn
  <2> QED
    BY <2>1 DEF SignOn, TypeOK
<1>4. CASE \E h \in Handlers, op \in AdminOps, by, of \in People : Ask(h, op, by, of)
  <2> PICK h \in Handlers, op \in AdminOps, by \in People, of \in People : Ask(h, op, by, of)
    BY <1>4
  <2>1. hs' \in [Handlers -> Requests] /\ asks' \in 0 .. MaxAsks
    BY EntersType DEF Ask
  <2> QED
    BY <2>1 DEF Ask, TypeOK
<1>5. CASE \E h \in Handlers : Get(h)
  <2> PICK h \in Handlers : Get(h)
    BY <1>5
  <2> DEFINE e == Subject(h)
             pc == IF hs[h].pc = "who" THEN "whoput" ELSE "rowput"
  <2>1. hs[h].pc # "idle" /\ e \in People
    BY AtWork DEF Get, Subject
  <2>2. CASE Then(h, shown[e])
    BY <2>1, <2>2, ThenType DEF Get, TypeOK
  <2>3. CASE hs' = [hs EXCEPT ![h].pc = pc, ![h].saw = row[e]]
    <3>1. [hs[h] EXCEPT !.pc = pc, !.saw = row[e]] \in Requests
      BY <2>1, AtWork, LookedIsRow DEF Requests
    <3>2. hs' = [hs EXCEPT ![h] = [hs[h] EXCEPT !.pc = pc, !.saw = row[e]]]
      BY <2>3 DEF TypeOK
    <3> HIDE DEF pc
    <3> QED
      BY <3>1, <3>2 DEF Get, TypeOK
  <2> QED
    BY <2>2, <2>3 DEF Get
<1>6. CASE \E h \in Handlers : Fill(h)
  <2> PICK h \in Handlers : Fill(h)
    BY <1>6
  <2>1. hs[h].pc # "idle" /\ hs[h].saw \in Rows /\ hs' \in [Handlers -> Requests]
    BY AtWork, ThenType DEF Fill
  <2> QED
    BY <2>1 DEF Fill, TypeOK
<1>7. CASE \E h \in Handlers : NoteSignOn(h)
  <2> PICK h \in Handlers : NoteSignOn(h)
    BY <1>7
  <2> DEFINE e == hs[h].of
             known == BySabun /\ SabunOf[e] # NoSabun
             r == [row[e] EXCEPT !.sabun = @ \/ known]
             n == [NoRow EXCEPT !.status = "active", !.sabun = known]
  <2>1. e \in People /\ hs' \in [Handlers -> Requests] /\ asks' \in 0 .. MaxAsks
    BY DoesType DEF NoteSignOn
  <2>2. known \in BOOLEAN
    OBVIOUS
  <2>3. n \in Rows
    BY <2>2 DEF NoRow, Rows
  <2>4. r \in Rows
    <3> HIDE DEF known
    <3>1. row[e] \in Rows
      BY <2>1, LookedIsRow
    <3>2. (row[e].sabun \/ known) \in BOOLEAN
      OBVIOUS
    <3> QED
      BY <3>1, <3>2 DEF Rows
  <2>5. Write(e, r) \/ Write(e, n) \/ Refuse
    BY DEF NoteSignOn
  <2>6. LedgerIsTyped
    <3> HIDE DEF r, n, e
    <3> QED BY <2>1, <2>3, <2>4, <2>5, WritesType, LedgerKept DEF LedgerIsTyped
  <2> QED
    BY <2>1, <2>6 DEF TypeOK, LedgerIsTyped
<1>8. CASE \E h \in Handlers : Mark(h) \/ Unmark(h) \/ Suspend(h) \/ Revive(h) \/ Approve(h)
  <2> PICK h \in Handlers : Mark(h) \/ Unmark(h) \/ Suspend(h) \/ Revive(h) \/ Approve(h)
    BY <1>8
  <2> DEFINE e == hs[h].of
  <2>1. e \in People /\ hs' \in [Handlers -> Requests] /\ asks' \in 0 .. MaxAsks
    BY DoesType DEF Mark, Unmark, Suspend, Revive, Approve
  <2>2. \/ Refuse \/ (row' = row /\ NewEpoch)
        \/ \E mark \in BOOLEAN, status \in {"active", "disabled"} :
             \/ Write(e, [row[e] EXCEPT !.admin = mark])
             \/ Write(e, [row[e] EXCEPT !.status = status])
             \/ Write(e, [row[e] EXCEPT !.status = "active", !.admin = mark])
    BY DEF Mark, Unmark, Suspend, Revive, Approve
  <2>3. \A mark \in BOOLEAN, status \in {"active", "disabled"} :
          /\ [row[e] EXCEPT !.admin = mark] \in Rows
          /\ [row[e] EXCEPT !.status = status] \in Rows
          /\ [row[e] EXCEPT !.status = "active", !.admin = mark] \in Rows
    <3>1. row[e] \in Rows
      BY <2>1, LookedIsRow
    <3> HIDE DEF e
    <3> TAKE mark \in BOOLEAN, status \in {"active", "disabled"}
    <3>2. [row[e] EXCEPT !.admin = mark] \in Rows
      BY <3>1 DEF Rows
    <3>3. [row[e] EXCEPT !.status = status] \in Rows
      BY <3>1 DEF Rows
    <3>4. [row[e] EXCEPT !.status = "active", !.admin = mark] \in Rows
      BY <3>1 DEF Rows
    <3> QED
      BY <3>2, <3>3, <3>4
  <2>4. LedgerIsTyped
    <3> HIDE DEF e
    <3> QED BY <2>1, <2>2, <2>3, WritesType, LedgerKept DEF LedgerIsTyped
  <2> QED
    BY <2>1, <2>4 DEF TypeOK, LedgerIsTyped
<1>9. CASE UNCHANGED vars
  BY <1>9 DEF vars, TypeOK
<1> QED
  BY <1>1, <1>2, <1>3, <1>4, <1>5, <1>6, <1>7, <1>8, <1>9 DEF Next

\* The ledger, the cache and the requests keep their shapes, whatever ledger the portal is
\* opened with.
THEOREM TypeCorrect ==
  ASSUME Ledgers \subseteq [People -> Rows], MaxAsks \in Nat
  PROVE  Spec => []TypeOK
<1>1. Init => TypeOK
  BY RowsOfConstants DEF Init, TypeOK
<1>2. TypeOK /\ [Next]_vars => TypeOK'
  BY StepsType
<1> QED
  BY <1>1, <1>2, PTL DEF Spec

-----------------------------------------------------------------------------
(* Administrators                                                            *)

\* A write to a row leaves the administrators of the others.
LEMMA OthersRemain ==
  ASSUME TypeOK, NEW e \in People, NEW r, Write(e, r)
  PROVE  Admins \ {e} \subseteq Admins'
BY DEF TypeOK, Write, Admins, Active

\* A write that leaves a row active with its mark, or one that was no administrator's, takes
\* nobody away.
LEMMA AllRemain ==
  ASSUME TypeOK, NEW e \in People, NEW r, Write(e, r),
         e \in Admins => r.status = "active" /\ (row[e].admin => r.admin)
  PROVE  Admins \subseteq Admins'
BY DEF TypeOK, Write, Admins, Active

LEMMA AdminsOfSameRows ==
  ASSUME row' = row
  PROVE  Admins' = Admins
BY DEF Admins, Active

\* The last administrator is neither unmarked nor suspended, for any people, sabuns and
\* requests, and whatever the requests saw of the rows before (set_admin, suspend).
LEMMA StepsLeaveOne ==
  ASSUME TypeOK, [Next]_vars, Admins # {}
  PROVE  Admins' # {}
<1>1. CASE \E e \in People : SignUp(e)
  <2> PICK e \in People : SignUp(e)
    BY <1>1
  <2>1. CASE row' = row
    BY <2>1, AdminsOfSameRows
  <2>2. CASE row' # row
    <3>1. ~ Exists(e)
      BY <2>2, LookedIsRow DEF SignUp, Refuse, Looked, Exists, TypeOK
    <3>2. e \notin Admins
      BY <3>1 DEF Admins, Active, Exists
    <3>3. \E r : Write(e, r)
      BY <2>2 DEF SignUp, Refuse
    <3> QED
      BY <3>2, <3>3, OthersRemain
  <2> QED
    BY <2>1, <2>2
<1>2. CASE \/ \E e \in People : Expire(e)
           \/ \E h \in Handlers : Get(h) \/ Fill(h) \/ \E e \in People : SignOn(h, e)
           \/ \E h \in Handlers, op \in AdminOps, by, of \in People : Ask(h, op, by, of)
           \/ UNCHANGED vars
  <2>1. row' = row
    BY <1>2 DEF Expire, Get, Fill, SignOn, Ask, vars
  <2> QED
    BY <2>1, AdminsOfSameRows
<1>3. CASE \E h \in Handlers : NoteSignOn(h)
  <2> PICK h \in Handlers : NoteSignOn(h)
    BY <1>3
  <2> DEFINE e == hs[h].of
             r == [row[e] EXCEPT !.sabun = @ \/ (BySabun /\ SabunOf[e] # NoSabun)]
  <2>1. e \in People
    BY DoesType DEF NoteSignOn
  <2>2. CASE Refuse
    BY <2>2, AdminsOfSameRows DEF Refuse
  <2>3. CASE Write(e, r)
    <3>1. r.status = row[e].status /\ r.admin = row[e].admin
      BY <2>1, LookedIsRow DEF Rows
    <3>2. e \in Admins => row[e].status = "active"
      BY DEF Admins, Active
    <3> HIDE DEF r, e
    <3> QED
      BY <2>1, <2>3, <3>1, <3>2, AllRemain
  <2>4. CASE ~ Exists(e) /\ \E n : Write(e, n)
    <3>1. e \notin Admins
      BY <2>4 DEF Admins, Active, Exists
    <3> HIDE DEF e
    <3> QED
      BY <2>1, <2>4, <3>1, OthersRemain
  <2> QED
    BY <2>2, <2>3, <2>4 DEF NoteSignOn
<1>4. CASE \E h \in Handlers : Mark(h)
  <2> PICK h \in Handlers : Mark(h)
    BY <1>4
  <2> DEFINE e == hs[h].of
             r == [row[e] EXCEPT !.admin = TRUE]
  <2>1. e \in People
    BY DoesType DEF Mark
  <2>2. CASE Refuse
    BY <2>2, AdminsOfSameRows DEF Refuse
  <2>3. CASE Write(e, r)
    <3>1. r.status = row[e].status /\ r.admin = TRUE
      BY <2>1, LookedIsRow DEF Rows
    <3>2. e \in Admins => row[e].status = "active"
      BY DEF Admins, Active
    <3> HIDE DEF r, e
    <3> QED
      BY <2>1, <2>3, <3>1, <3>2, AllRemain
  <2> QED
    BY <2>2, <2>3 DEF Mark
<1>5. CASE \E h \in Handlers : Unmark(h)
  <2> PICK h \in Handlers : Unmark(h)
    BY <1>5
  <2> DEFINE e == hs[h].of
  <2>1. e \in People
    BY DoesType DEF Unmark
  <2>2. CASE Refuse
    BY <2>2, AdminsOfSameRows DEF Refuse
  <2>3. CASE Admins \ {e} # {} /\ \E r : Write(e, r)
    <3> HIDE DEF e
    <3> QED
      BY <2>1, <2>3, OthersRemain
  <2> QED
    BY <2>2, <2>3 DEF Unmark
<1>6. CASE \E h \in Handlers : Suspend(h)
  <2> PICK h \in Handlers : Suspend(h)
    BY <1>6
  <2> DEFINE e == hs[h].of
             out == ShutOutWith(e)
  <2>1. e \in People /\ e \in out
    BY DoesType DEF Suspend, ShutOutWith
  <2>2. CASE Refuse
    BY <2>2, AdminsOfSameRows DEF Refuse
  <2>3. CASE ~ (Admins \cap out # {} /\ Admins \subseteq out) /\ \E r : Write(e, r)
    <3>1. Admins \ {e} # {}
      <4> HIDE DEF e, out
      <4> QED BY <2>1, <2>3
    <3> HIDE DEF e, out
    <3> QED
      BY <2>1, <2>3, <3>1, OthersRemain
  <2> QED
    BY <2>2, <2>3 DEF Suspend
<1>7. CASE \E h \in Handlers : Revive(h)
  <2> PICK h \in Handlers : Revive(h)
    BY <1>7
  <2> DEFINE e == hs[h].of
             r == [row[e] EXCEPT !.status = "active"]
  <2>1. e \in People
    BY DoesType DEF Revive
  <2>2. CASE row' = row
    BY <2>2, AdminsOfSameRows
  <2>3. CASE Write(e, r)
    <3>1. r.status = "active" /\ r.admin = row[e].admin
      BY <2>1, LookedIsRow DEF Rows
    <3> HIDE DEF r, e
    <3> QED
      BY <2>1, <2>3, <3>1, AllRemain
  <2> QED
    BY <2>2, <2>3 DEF Revive
<1>8. CASE \E h \in Handlers : Approve(h)
  <2> PICK h \in Handlers : Approve(h)
    BY <1>8
  <2> DEFINE e == hs[h].of
  <2>1. e \in People
    BY DoesType DEF Approve
  <2>2. CASE row' = row
    BY <2>2, AdminsOfSameRows
  <2>3. CASE row[e].status = "pending" /\ \E r : Write(e, r)
    <3>1. e \notin Admins
      BY <2>3 DEF Admins, Active
    <3> HIDE DEF e
    <3> QED
      BY <2>1, <2>3, <3>1, OthersRemain
  <2> QED
    BY <2>2, <2>3 DEF Approve
<1> QED
  BY <1>1, <1>2, <1>3, <1>4, <1>5, <1>6, <1>7, <1>8 DEF Next

THEOREM AdministratorsRemain ==
  ASSUME Ledgers \subseteq [People -> Rows], MaxAsks \in Nat
  PROVE  Spec => AnAdministratorRemains
<1>1. TypeOK /\ [Next]_vars => [Admins # {} => Admins' # {}]_vars
  BY StepsLeaveOne
<1> QED
  BY <1>1, TypeCorrect, PTL DEF Spec, AnAdministratorRemains
=============================================================================
