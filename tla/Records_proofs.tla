--------------------------- MODULE Records_proofs ---------------------------
(***************************************************************************)
(* Theorems about what the portal keeps in records that outlive it: tokens *)
(* (TokenExchange), tickets of uploads (PcTickets), insight cards          *)
(* (Insights) and the index of conversations (ConvIndex), for any people,  *)
(* tokens, requests, messages and limits.                                  *)
(*                                                                         *)
(* That a revoked token takes its children with it rests on four facts of  *)
(* the whole history: what was handed out and has not expired has a row; a *)
(* source that passed the check of its kind is handed out and no child,    *)
(* and stays so while the exchange goes on; the token an exchange has      *)
(* drawn is its own; and no child outlives its parent.                     *)
(***************************************************************************)
EXTENDS TokenExchange, FiniteSetTheorems, SequenceTheorems, WellFoundedInduction, TLAPS

\* What the store knows of tokens that were handed out, and only of them.
RowsAreOut ==
  /\ dead \subseteq out /\ killed \subseteq out
  /\ \A t \in Tokens : row[t] # "none" => t \in out
  /\ \A t \in out \ dead : row[t] # "none"
  /\ \A t \in killed \ dead : row[t] = "revoked"

\* Children are tokens handed out, are not exchanged further and do not outlive their parents.
Families ==
  \A t \in Tokens : from[t] # None =>
    /\ t \in out /\ from[t] \in out /\ from[from[t]] = None
    /\ from[t] \in dead => t \in dead
    /\ from[t] \in killed \ dead => t \in dead \/ row[t] = "revoked"

\* An exchange has a source that was handed out, from its second check on no child, and in
\* the end a token nobody else has.
Drawn(h) == hs[h].pc = "record"
Exchanges ==
  \A h \in Handlers :
    /\ hs[h].pc # "idle" => hs[h].src \in out
    /\ hs[h].pc \in {"room", "mint", "record"} => from[hs[h].src] = None
    /\ Drawn(h) => /\ hs[h].new \in Tokens \ out /\ from[hs[h].new] = None
                   /\ \A g \in Handlers : (g # h /\ Drawn(g)) => hs[g].new # hs[h].new

TokenInv == TypeOK /\ RowsAreOut /\ Families /\ Exchanges
-----------------------------------------------------------------------------
LEMMA TokenInit == ASSUME None \notin Tokens, Init PROVE TokenInv
BY DEF Init, TokenInv, TypeOK, RowsAreOut, Families, Exchanges, Drawn, Idle, Rows, Steps

\* A step that only moves one exchange, to a state in which it is in order.
LEMMA MoveExchange ==
  ASSUME TokenInv, NEW h \in Handlers, UNCHANGED <<out, from, killed, dead>>,
         NEW k \in [pc : Steps, src : Tokens \cup {None}, new : Tokens \cup {None}],
         hs' = [hs EXCEPT ![h] = k],
         k.pc # "idle" => k.src \in out,
         k.pc \in {"room", "mint", "record"} => from[k.src] = None,
         k.pc = "record" =>
           /\ k.new \in Tokens \ out /\ from[k.new] = None
           /\ \A g \in Handlers : hs[g].new # k.new
  PROVE  Exchanges' /\ hs' \in [Handlers -> [pc : Steps, src : Tokens \cup {None},
                                             new : Tokens \cup {None}]]
<1>1. hs \in [Handlers -> [pc : Steps, src : Tokens \cup {None}, new : Tokens \cup {None}]]
  BY DEF TokenInv, TypeOK
<1>2. hs'[h] = k /\ \A g \in Handlers : g # h => hs'[g] = hs[g]
  BY <1>1
<1>3. ASSUME NEW g \in Handlers, g # h
      PROVE  /\ hs'[g].pc # "idle" => hs'[g].src \in out'
             /\ hs'[g].pc \in {"room", "mint", "record"} => from'[hs'[g].src] = None
             /\ Drawn(g)' => /\ hs'[g].new \in Tokens \ out' /\ from'[hs'[g].new] = None
                             /\ \A i \in Handlers : (i # g /\ Drawn(i)') => hs'[i].new # hs'[g].new
  <2>1. hs'[g] = hs[g] /\ (Drawn(g)' <=> Drawn(g))
    BY <1>2, <1>3 DEF Drawn
  <2>2. ASSUME NEW i \in Handlers, i # g, Drawn(i)', Drawn(g) PROVE hs'[i].new # hs'[g].new
    <3>1. CASE i = h
      BY <1>2, <2>1, <2>2, <3>1 DEF Drawn
    <3>2. CASE i # h
      BY <1>2, <2>1, <2>2, <3>2 DEF TokenInv, Exchanges, Drawn
    <3> QED
      BY <3>1, <3>2
  <2> QED
    BY <2>1, <2>2 DEF TokenInv, Exchanges
<1>4. /\ hs'[h].pc # "idle" => hs'[h].src \in out'
      /\ hs'[h].pc \in {"room", "mint", "record"} => from'[hs'[h].src] = None
      /\ Drawn(h)' => /\ hs'[h].new \in Tokens \ out' /\ from'[hs'[h].new] = None
                      /\ \A i \in Handlers : (i # h /\ Drawn(i)') => hs'[i].new # hs'[h].new
  BY <1>2 DEF Drawn
<1>5. Exchanges'
  BY <1>3, <1>4 DEF Exchanges
<1> QED
  BY <1>1, <1>5

\* Expired rows are removed: nothing else depends on them.
LEMMA Purged ==
  ASSUME TokenInv, row' = [t \in Tokens |-> IF t \in dead THEN "none" ELSE row[t]],
         UNCHANGED <<out, from, killed, dead>>
  PROVE  row' \in [Tokens -> Rows] /\ RowsAreOut' /\ Families'
<1>1. row' \in [Tokens -> Rows]
  BY DEF TokenInv, TypeOK, Rows
<1>2. RowsAreOut'
  BY DEF TokenInv, TypeOK, RowsAreOut
<1>3. Families'
  BY DEF TokenInv, TypeOK, Families
<1> QED
  BY <1>1, <1>2, <1>3

LEMMA CreatePatStep ==
  ASSUME None \notin Tokens, TokenInv, NEW t \in Tokens, CreatePat(t) PROVE TokenInv'
<1>1. TypeOK /\ RowsAreOut /\ Families /\ Exchanges
  BY DEF TokenInv
<1>2. t \notin out /\ from[t] = None /\ \A h \in Handlers : hs[h].new # t
  BY DEF CreatePat, Fresh
<1>3. TypeOK'
  BY <1>1 DEF CreatePat, TypeOK, Rows
<1>4. RowsAreOut'
  BY <1>1, <1>2 DEF CreatePat, RowsAreOut, TypeOK
<1>5. Families'
  BY <1>1, <1>2 DEF CreatePat, Families, TypeOK
<1>6. Exchanges'
  BY <1>1, <1>2 DEF CreatePat, Exchanges, Drawn
<1> QED
  BY <1>3, <1>4, <1>5, <1>6 DEF TokenInv

LEMMA CheckStep ==
  ASSUME None \notin Tokens, TokenInv, NEW h \in Handlers,
         Exchangeable(h) \/ HasRoom(h) \/ Mint(h)
  PROVE  TokenInv'
<1>1. TypeOK /\ RowsAreOut /\ Families /\ Exchanges
  BY DEF TokenInv
<1> DEFINE Exchange == [pc : Steps, src : Tokens \cup {None}, new : Tokens \cup {None}]
<1>2. hs[h] \in Exchange /\ hs \in [Handlers -> Exchange]
  BY <1>1 DEF TypeOK
<1>3. UNCHANGED <<row, out, from, killed, dead>>
  BY DEF Exchangeable, HasRoom, Mint
<1>4. Exchanges' /\ hs' \in [Handlers -> Exchange]
  <2>1. CASE hs' = [hs EXCEPT ![h] = Idle]
    <3>1. Idle \in Exchange /\ Idle.pc = "idle"
      BY DEF Idle, Steps
    <3> QED
      BY <1>3, <2>1, <3>1, MoveExchange
  <2>2. CASE hs[h].pc = "source" /\ from[hs[h].src] = None
             /\ hs' = [hs EXCEPT ![h] = [hs[h] EXCEPT !.pc = "room"]]
    <3> DEFINE k == [hs[h] EXCEPT !.pc = "room"]
    <3>1. k \in Exchange /\ k.pc = "room" /\ k.src = hs[h].src
      BY <1>2 DEF Steps
    <3>2. hs[h].src \in out
      BY <1>1, <2>2 DEF Exchanges
    <3> HIDE DEF k
    <3> QED
      BY <1>3, <2>2, <3>1, <3>2, MoveExchange DEF k
  <2>3. CASE hs[h].pc = "room" /\ hs' = [hs EXCEPT ![h] = [hs[h] EXCEPT !.pc = "mint"]]
    <3> DEFINE k == [hs[h] EXCEPT !.pc = "mint"]
    <3>1. k \in Exchange /\ k.pc = "mint" /\ k.src = hs[h].src
      BY <1>2 DEF Steps
    <3>2. hs[h].src \in out /\ from[hs[h].src] = None
      BY <1>1, <2>3 DEF Exchanges
    <3> QED
      BY <1>3, <2>3, <3>1, <3>2, MoveExchange
  <2>4. CASE Mint(h)
    <3>1. PICK t \in Fresh : hs' = [hs EXCEPT ![h].new = t, ![h].pc = "record"]
      BY <2>4 DEF Mint
    <3> DEFINE k == [hs[h] EXCEPT !.new = t, !.pc = "record"]
    <3>2. t \in Tokens \ out /\ from[t] = None /\ \A g \in Handlers : hs[g].new # t
      BY <3>1 DEF Fresh
    <3>3. k \in Exchange /\ k.pc = "record" /\ k.src = hs[h].src /\ k.new = t
      BY <1>2, <3>2 DEF Steps
    <3>4. hs' = [hs EXCEPT ![h] = k]
      BY <1>2, <3>1
    <3>5. hs[h].src \in out /\ from[hs[h].src] = None
      BY <1>1, <2>4 DEF Exchanges, Mint
    <3> HIDE DEF k
    <3> QED
      BY <1>3, <3>2, <3>3, <3>4, <3>5, MoveExchange
  <2> QED
    BY <2>1, <2>2, <2>3, <2>4 DEF Exchangeable, HasRoom
<1> QED
  BY <1>1, <1>3, <1>4 DEF TokenInv, TypeOK, RowsAreOut, Families

LEMMA VerifyStep ==
  ASSUME None \notin Tokens, TokenInv, NEW h \in Handlers, NEW s \in Tokens, Verify(h, s)
  PROVE  TokenInv'
<1> DEFINE k == [pc |-> "source", src |-> s, new |-> None]
<1>1. k \in [pc : Steps, src : Tokens \cup {None}, new : Tokens \cup {None}] /\ k.pc = "source" /\ k.src = s
  BY DEF Steps
<1>2. s \in out /\ UNCHANGED <<out, from, killed, dead>> /\ hs' = [hs EXCEPT ![h] = k]
  BY DEF Verify
<1> HIDE DEF k
<1>3. Exchanges' /\ hs' \in [Handlers -> [pc : Steps, src : Tokens \cup {None}, new : Tokens \cup {None}]]
  BY <1>1, <1>2, MoveExchange
<1>4. row' \in [Tokens -> Rows] /\ RowsAreOut' /\ Families'
  BY <1>2, Purged DEF Verify
<1> QED
  BY <1>2, <1>3, <1>4 DEF TokenInv, TypeOK

\* The child is recorded: its parent is not revoked, or has expired as the child then has.
LEMMA RecordStep ==
  ASSUME None \notin Tokens, TokenInv, NEW h \in Handlers, RecordExchanged(h)
  PROVE  TokenInv'
<1> DEFINE s == hs[h].src
           t == hs[h].new
           Exchange == [pc : Steps, src : Tokens \cup {None}, new : Tokens \cup {None}]
<1>1. TypeOK /\ RowsAreOut /\ Families /\ Exchanges
  BY DEF TokenInv
<1>2. /\ hs[h].pc = "record" /\ s \in out /\ s \in Tokens /\ from[s] = None
      /\ t \in Tokens \ out /\ from[t] = None
      /\ \A g \in Handlers : (g # h /\ Drawn(g)) => hs[g].new # t
  BY <1>1 DEF RecordExchanged, Exchanges, Drawn, TypeOK
<1>3. hs' = [hs EXCEPT ![h] = Idle] /\ hs \in [Handlers -> Exchange] /\ Idle \in Exchange
  BY <1>1 DEF RecordExchanged, TypeOK, Idle, Steps
<1>4. hs' \in [Handlers -> Exchange] /\ Idle.pc = "idle"
  BY <1>3 DEF Idle
<1>5. CASE UNCHANGED <<row, from, out, dead>>
  <2>1. Exchanges'
    BY <1>3, <1>4, <1>5, MoveExchange DEF RecordExchanged
  <2> QED
    BY <1>1, <1>4, <1>5, <2>1 DEF RecordExchanged, TokenInv, TypeOK, RowsAreOut, Families
<1>6. CASE /\ row[s] # "revoked"
           /\ row' = [row EXCEPT ![t] = "live"]
           /\ from' = [from EXCEPT ![t] = s]
           /\ out' = out \cup {t}
           /\ dead' = IF s \in dead THEN dead \cup {t} ELSE dead
  <2>1. killed' = killed /\ t # s
    BY <1>2 DEF RecordExchanged
  <2>2. TypeOK'
    BY <1>1, <1>2, <1>4, <1>6, <2>1 DEF TypeOK, Rows
  <2>3. RowsAreOut'
    BY <1>1, <1>2, <1>6, <2>1 DEF RowsAreOut, TypeOK
  <2>4. Families'
    <3> SUFFICES ASSUME NEW u \in Tokens, from'[u] # None
                 PROVE  /\ u \in out' /\ from'[u] \in out' /\ from'[from'[u]] = None
                        /\ from'[u] \in dead' => u \in dead'
                        /\ from'[u] \in killed' \ dead' => u \in dead' \/ row'[u] = "revoked"
      BY DEF Families
    <3>1. CASE u = t
      <4>1. from'[u] = s /\ from'[s] = None
        BY <1>1, <1>2, <1>6, <2>1, <3>1 DEF TypeOK
      <4>2. s \in dead' => s \in dead
        BY <1>6, <2>1
      <4>3. s \in killed \ dead => row[s] = "revoked"
        BY <1>1 DEF RowsAreOut
      <4> QED
        BY <1>2, <1>6, <2>1, <3>1, <4>1, <4>2, <4>3
    <3>2. CASE u # t
      <4>1. from'[u] = from[u] /\ from[u] # None /\ from[u] # t /\ u \in out /\ from[u] \in out
        BY <1>1, <1>2, <1>6, <3>2 DEF Families, TypeOK
      <4>2. from[u] \in Tokens /\ from'[from[u]] = from[from[u]] /\ row'[u] = row[u]
        BY <1>1, <1>6, <3>2, <4>1 DEF TypeOK
      <4>3. from[u] \in dead' <=> from[u] \in dead
        BY <1>6, <4>1
      <4> QED
        BY <1>1, <1>6, <2>1, <4>1, <4>2, <4>3 DEF Families
    <3> QED
      BY <3>1, <3>2
  <2>5. Exchanges'
    <3> SUFFICES ASSUME NEW g \in Handlers, hs'[g].pc # "idle"
                 PROVE  /\ hs'[g].src \in out'
                        /\ hs'[g].pc \in {"room", "mint", "record"} => from'[hs'[g].src] = None
                        /\ Drawn(g)' =>
                             /\ hs'[g].new \in Tokens \ out' /\ from'[hs'[g].new] = None
                             /\ \A i \in Handlers : (i # g /\ Drawn(i)') => hs'[i].new # hs'[g].new
      BY DEF Exchanges, Drawn
    <3>1. g # h /\ hs'[g] = hs[g]
      BY <1>3, <1>4
    <3>2. hs[g].src \in out /\ hs[g].src \in Tokens /\ hs[g].src # t
      BY <1>1, <1>2, <3>1 DEF Exchanges, TypeOK
    <3>3. from'[hs[g].src] = from[hs[g].src]
      BY <1>1, <1>6, <3>2 DEF TypeOK
    <3>4. ASSUME Drawn(g)
          PROVE  /\ hs[g].new \in Tokens \ out' /\ from'[hs[g].new] = None
                 /\ \A i \in Handlers : (i # g /\ Drawn(i)') => hs'[i].new # hs[g].new
      <4>1. hs[g].new \in Tokens \ out /\ from[hs[g].new] = None /\ hs[g].new # t
        BY <1>1, <1>2, <3>1, <3>4 DEF Exchanges
      <4>2. from'[hs[g].new] = None
        BY <1>1, <1>6, <4>1 DEF TypeOK
      <4>3. ASSUME NEW i \in Handlers, i # g, Drawn(i)' PROVE hs'[i].new # hs[g].new
        <5>1. i # h /\ hs'[i] = hs[i] /\ Drawn(i)
          BY <1>3, <1>4, <4>3 DEF Drawn
        <5> QED
          BY <1>1, <3>4, <4>3, <5>1 DEF Exchanges
      <4> QED
        BY <1>6, <4>1, <4>2, <4>3
    <3> QED
      BY <1>1, <1>6, <3>1, <3>2, <3>3, <3>4 DEF Exchanges, Drawn
  <2> QED
    BY <2>2, <2>3, <2>4, <2>5 DEF TokenInv
<1> QED
  BY <1>5, <1>6 DEF RecordExchanged

LEMMA RevokeStep ==
  ASSUME None \notin Tokens, TokenInv,
         RevokeAll \/ \E t \in Tokens : RevokePat(t)
  PROVE  TokenInv'
<1>1. TypeOK /\ RowsAreOut /\ Families /\ Exchanges
  BY DEF TokenInv
<1>2. UNCHANGED <<out, from, dead, hs>>
  BY DEF RevokeAll, RevokePat
<1>3. Exchanges'
  BY <1>1, <1>2 DEF Exchanges, Drawn
<1>4. CASE RevokeAll
  <2>1. TypeOK'
    BY <1>1, <1>2, <1>4 DEF RevokeAll, TypeOK, Rows
  <2>2. \A t \in Tokens : row'[t] = IF row[t] = "live" THEN "revoked" ELSE row[t]
    BY <1>4 DEF RevokeAll
  <2>3. killed' = killed \cup {t \in Tokens : row[t] # "none"}
    BY <1>4 DEF RevokeAll
  <2>4. \A t \in out \ dead : t \in Tokens /\ row'[t] = "revoked"
    BY <1>1, <2>2 DEF RowsAreOut, TypeOK, Rows
  <2>5. RowsAreOut'
    BY <1>1, <1>2, <2>2, <2>3, <2>4 DEF RowsAreOut, TypeOK
  <2>6. Families'
    BY <1>1, <1>2, <2>4 DEF Families
  <2> QED
    BY <1>3, <2>1, <2>5, <2>6 DEF TokenInv
<1>5. ASSUME NEW t \in Tokens, RevokePat(t) PROVE TokenInv'
  <2>1. \A u \in Tokens :
          row'[u] = IF u = t \/ (from[u] = t /\ row[u] = "live") THEN "revoked" ELSE row[u]
    BY <1>5 DEF RevokePat
  <2>2. killed' = killed \cup {t} /\ row[t] # "none"
    BY <1>5 DEF RevokePat
  <2>3. TypeOK'
    BY <1>1, <1>2, <1>5 DEF RevokePat, TypeOK, Rows
  <2>4. RowsAreOut'
    BY <1>1, <1>2, <2>1, <2>2 DEF RowsAreOut, TypeOK
  <2>5. Families'
    BY <1>1, <1>2, <2>1, <2>2 DEF Families, RowsAreOut, TypeOK, Rows
  <2> QED
    BY <1>3, <2>3, <2>4, <2>5 DEF TokenInv
<1> QED
  BY <1>4, <1>5

LEMMA ExpireStep ==
  ASSUME None \notin Tokens, TokenInv, NEW t \in Tokens, Expire(t)
  PROVE  TokenInv'
<1>1. TypeOK /\ RowsAreOut /\ Families /\ Exchanges
  BY DEF TokenInv
<1>2. /\ t \in out \ dead /\ dead' = dead \cup {t} /\ UNCHANGED <<row, out, from, killed, hs>>
      /\ \A u \in Tokens : from[u] = t => u \in dead
  BY DEF Expire, Children
<1>3. TypeOK'
  BY <1>1, <1>2 DEF TypeOK
<1>4. RowsAreOut' /\ Families'
  BY <1>1, <1>2 DEF RowsAreOut, Families
<1>5. Exchanges'
  BY <1>1, <1>2 DEF Exchanges, Drawn
<1> QED
  BY <1>3, <1>4, <1>5 DEF TokenInv

LEMMA TokenStep == ASSUME None \notin Tokens, TokenInv, [Next]_vars PROVE TokenInv'
<1>1. CASE UNCHANGED vars
  BY <1>1 DEF vars, TokenInv, TypeOK, RowsAreOut, Families, Exchanges, Drawn
<1>2. CASE RevokedList
  <2>1. Exchanges'
    BY <1>2 DEF RevokedList, TokenInv, Exchanges, Drawn
  <2> QED
    BY <1>2, <2>1, Purged DEF RevokedList, TokenInv, TypeOK
<1> QED
  BY <1>1, <1>2, CreatePatStep, CheckStep, VerifyStep, RecordStep, RevokeStep, ExpireStep DEF Next

LEMMA TokensAlways == ASSUME None \notin Tokens PROVE Spec => []TokenInv
<1>1. Init => TokenInv
  BY TokenInit
<1>2. TokenInv /\ [Next]_vars => TokenInv'
  BY TokenStep
<1> QED
  BY <1>1, <1>2, PTL DEF Spec

\* What the store keeps and what an exchange is at have their shapes (token_store.py, pat.py).
THEOREM TokensHaveTypes == ASSUME None \notin Tokens PROVE Spec => []TypeOK
<1>1. TokenInv => TypeOK
  BY DEF TokenInv
<1> QED
  BY <1>1, TokensAlways, PTL

\* Whatever exchanges, revocations and expiries come together, a revoked token and all that
\* was exchanged from it stay on the list of the revoked until they expire.
THEOREM RevokedFamilies ==
  ASSUME None \notin Tokens PROVE Spec => []RevokedTakeTheirChildren
<1>1. TokenInv => RevokedTakeTheirChildren
  <2> SUFFICES ASSUME TokenInv, NEW t \in out \ dead,
                      \/ t \in killed
                      \/ from[t] \in killed
                      \/ from[t] # None /\ from[from[t]] \in killed
               PROVE  row[t] = "revoked"
    BY DEF RevokedTakeTheirChildren
  <2>1. t \in Tokens /\ killed \subseteq Tokens
    BY DEF TokenInv, TypeOK
  <2>2. CASE t \in killed
    BY <2>2 DEF TokenInv, RowsAreOut
  <2>3. CASE from[t] \in killed
    BY <2>1, <2>3 DEF TokenInv, Families
  <2>4. CASE from[t] # None /\ from[from[t]] \in killed
    BY <2>1, <2>4 DEF TokenInv, Families
  <2> QED
    BY <2>2, <2>3, <2>4
<1> QED
  BY <1>1, TokensAlways, PTL
-----------------------------------------------------------------------------
(* The limit                                                               *)

\* Only the record of an exchange adds to the live children of a token.
LEMMA OthersAddNoChild ==
  ASSUME None \notin Tokens, TokenInv, [Next]_vars, NEW p \in Tokens,
         \A h \in Handlers : ~ RecordExchanged(h)
  PROVE  LiveChildren(p)' \subseteq LiveChildren(p)
<1>1. TypeOK /\ from' = from /\ dead \subseteq dead'
  BY DEF TokenInv, Next, CreatePat, RevokePat, Expire, Exchangeable, HasRoom, Mint, Verify,
         RevokeAll, RevokedList, vars
<1>2. \A t \in Tokens : (row'[t] = "live" /\ from[t] # None) => row[t] = "live"
  <2>1. CASE UNCHANGED row
    BY <2>1
  <2>2. ASSUME NEW t \in Tokens, CreatePat(t)
        PROVE  \A u \in Tokens : (row'[u] = "live" /\ from[u] # None) => row[u] = "live"
    BY <1>1, <2>2 DEF CreatePat, Fresh, TypeOK
  <2>3. ASSUME NEW t \in Tokens, RevokePat(t)
        PROVE  \A u \in Tokens : (row'[u] = "live" /\ from[u] # None) => row[u] = "live"
    BY <2>3 DEF RevokePat
  <2>4. CASE row' = [t \in Tokens |-> IF t \in dead THEN "none" ELSE row[t]]
    BY <2>4
  <2>5. CASE RevokeAll
    BY <2>5 DEF RevokeAll
  <2> QED
    BY <2>1, <2>2, <2>3, <2>4, <2>5
       DEF Next, Expire, Exchangeable, HasRoom, Mint, Verify, RevokedList, vars
<1> QED
  BY <1>1, <1>2 DEF LiveChildren, Children

\* However many exchanges run at once, the live children of a token keep to the limit: the
\* record counts them again under the lock of the store.
THEOREM ChildrenKeepToTheLimit ==
  ASSUME None \notin Tokens, IsFiniteSet(Tokens), MaxLive \in Nat
  PROVE  Spec => []ChildrenWithinLimit
<1> DEFINE Within(p) == Cardinality(LiveChildren(p)) <= MaxLive
<1>1. ASSUME NEW p \in Tokens PROVE IsFiniteSet(LiveChildren(p)) /\ Cardinality(LiveChildren(p)) \in Nat
  <2>1. LiveChildren(p) \subseteq Tokens
    BY DEF LiveChildren, Children
  <2> QED
    BY <2>1, FS_Subset, FS_CardinalityType
<1>2. Init => ChildrenWithinLimit
  <2> SUFFICES ASSUME Init, NEW p \in Tokens PROVE Within(p)
    BY DEF ChildrenWithinLimit
  <2>1. LiveChildren(p) = {}
    BY DEF Init, LiveChildren, Children
  <2> QED
    BY <2>1, FS_EmptySet
<1>3. ASSUME NEW p \in Tokens, Within(p), LiveChildren(p)' \subseteq LiveChildren(p) PROVE Within(p)'
  <2>1. Cardinality(LiveChildren(p)') <= Cardinality(LiveChildren(p)) /\ Cardinality(LiveChildren(p)') \in Nat
    BY <1>1, <1>3, FS_Subset, FS_CardinalityType
  <2> QED
    BY <1>1, <1>3, <2>1
<1>4. ASSUME TokenInv, NEW h \in Handlers, RecordExchanged(h), NEW p \in Tokens, Within(p) PROVE Within(p)'
  <2> DEFINE s == hs[h].src
             t == hs[h].new
  <2>1. TypeOK /\ hs[h].pc = "record" /\ t \in Tokens \ out /\ from[t] = None
    BY <1>4 DEF RecordExchanged, TokenInv, Exchanges, Drawn
  <2>2. CASE UNCHANGED <<row, from, out, dead>>
    <3>1. LiveChildren(p)' = LiveChildren(p)
      BY <2>2 DEF LiveChildren, Children
    <3> QED
      BY <1>4, <3>1
  <2>3. CASE /\ Cardinality(LiveChildren(s)) < MaxLive /\ s \in Tokens
             /\ row' = [row EXCEPT ![t] = "live"]
             /\ from' = [from EXCEPT ![t] = s]
             /\ dead \subseteq dead'
    <3>1. \A u \in Tokens : u # t => row'[u] = row[u] /\ from'[u] = from[u]
      BY <2>1, <2>3 DEF TypeOK
    <3>2. from'[t] = s
      BY <2>1, <2>3 DEF TypeOK
    <3>3. CASE p # s
      <4>1. LiveChildren(p)' \subseteq LiveChildren(p)
        BY <2>1, <2>3, <3>1, <3>2, <3>3 DEF LiveChildren, Children
      <4> QED
        BY <1>3, <1>4, <4>1
    <3>4. CASE p = s
      <4>1. LiveChildren(p)' \subseteq LiveChildren(p) \cup {t}
        BY <2>3, <3>1 DEF LiveChildren, Children
      <4>2. t \notin LiveChildren(p) /\ IsFiniteSet(LiveChildren(p))
        BY <1>1, <2>1 DEF LiveChildren, Children
      <4>3. IsFiniteSet(LiveChildren(p) \cup {t})
            /\ Cardinality(LiveChildren(p) \cup {t}) = Cardinality(LiveChildren(p)) + 1
        BY <4>2, FS_AddElement
      <4>4. Cardinality(LiveChildren(p)') <= Cardinality(LiveChildren(p)) + 1
            /\ Cardinality(LiveChildren(p)') \in Nat
        BY <4>1, <4>3, FS_Subset, FS_CardinalityType
      <4>5. Cardinality(LiveChildren(p)) \in Nat /\ Cardinality(LiveChildren(p)) < MaxLive
        BY <1>1, <2>3, <3>4
      <4> QED
        BY <4>4, <4>5
    <3> QED
      BY <3>3, <3>4
  <2>4. s \in Tokens
    BY <1>4, <2>1 DEF TokenInv, Exchanges, TypeOK
  <2>5. Cardinality(LiveChildren(s)) \in Nat
    BY <1>1, <2>4
  <2> QED
    BY <1>4, <2>2, <2>3, <2>4, <2>5 DEF RecordExchanged
<1>5. TokenInv /\ ChildrenWithinLimit /\ [Next]_vars => ChildrenWithinLimit'
  BY <1>3, <1>4, OthersAddNoChild DEF ChildrenWithinLimit
<1> QED
  BY <1>2, <1>5, TokensAlways, PTL DEF Spec
-----------------------------------------------------------------------------
(* Tickets of uploads (PcTickets)                                          *)

CONSTANTS People, Uploads, OpenMax, MaxTickets, MaxDeaths
VARIABLES trec, up, brought, deaths

Tickets == INSTANCE PcTickets WITH rec <- trec

\* Records of tickets and what uploads are at.
TicketTypes ==
  /\ trec \in [Tickets!Tickets -> Tickets!Record \cup {Tickets!NoRecord}]
  /\ up \in [Uploads -> [pc : {"idle", "reading", "stored", "refused"}, of : Tickets!Tickets \cup {0}]]
  /\ brought \in [Tickets!Tickets -> Nat]

\* A ticket that somebody may claim, or that is at another end, has brought nothing.
Served(t) ==
  /\ brought[t] \in {0, 1}
  /\ brought[t] = 1 => trec[t].state \in {"none", "receiving", "received"}

\* An upload has a ticket that nobody else may claim, and has staged nothing before it has.
Serves(u) ==
  up[u].pc # "idle" =>
    /\ up[u].of \in Tickets!Tickets /\ trec[up[u].of].state \in {"none", "receiving"}
    /\ up[u].pc \in {"reading", "refused"} => brought[up[u].of] = 0

ServeOnce ==
  /\ TicketTypes
  /\ \A t \in Tickets!Tickets : Served(t)
  /\ \A u \in Uploads : Serves(u)
  /\ \A u, v \in Uploads :
       (u # v /\ up[u].pc # "idle" /\ up[v].pc # "idle") => up[u].of # up[v].of

\* What other requests and time do to the records: they leave those of the uploads as they
\* are, or remove them, and put none at an end that says it brought something.
LEMMA TicketsMoveOn ==
  ASSUME ServeOnce, UNCHANGED <<up, brought>>, TicketTypes',
         \A t \in Tickets!Tickets :
           \/ trec'[t].state = trec[t].state
           \/ trec[t].state \notin {"none", "receiving"} /\ (brought[t] = 0 \/ trec'[t].state = "none")
           \/ trec[t].state = "receiving" /\ trec'[t].state = "none"
           \/ brought[t] = 0 /\ \A u \in Uploads : up[u].of # t
  PROVE  ServeOnce'
BY DEF ServeOnce, TicketTypes, Served, Serves

LEMMA TicketsStay ==
  ASSUME ServeOnce, [Tickets!Next]_(Tickets!vars)
  PROVE  ServeOnce'
<1> USE DEF Tickets!Tickets, Tickets!NoRecord
<1>0. TicketTypes /\ \A t \in Tickets!Tickets : Served(t) /\ (Tickets!Open(t) => brought[t] = 0)
  BY DEF ServeOnce, Served, Tickets!Open, Tickets!OpenStates
<1>rec. ASSUME NEW t \in Tickets!Tickets, trec[t].state # "none"
        PROVE  trec[t] \in Tickets!Record
  BY <1>0, <1>rec DEF TicketTypes
<1>set. ASSUME NEW t \in Tickets!Tickets, NEW s \in Tickets!OpenStates \cup {"receiving"} \cup Tickets!Ends,
               trec[t].state # "none"
        PROVE  [trec[t] EXCEPT !.state = s] \in Tickets!Record /\ [trec[t] EXCEPT !.state = s].state = s
  BY <1>rec, <1>set DEF Tickets!Record
<1>1. ASSUME NEW p \in People, Tickets!Issue(p) PROVE ServeOnce'
  <2> DEFINE New == [owner |-> p, state |-> "waiting", age |-> "young"]
  <2>1. PICK t \in Tickets!Tickets, Surplus \in SUBSET Tickets!OpenOf(p) :
          /\ trec[t].state = "none" /\ brought[t] = 0 /\ \A u \in Uploads : up[u].of # t
          /\ trec' = [s \in Tickets!Tickets |->
               IF s = t THEN New
               ELSE IF s \in Surplus THEN [trec[s] EXCEPT !.state = "closed"] ELSE trec[s]]
    BY <1>1 DEF Tickets!Issue
  <2>2. UNCHANGED <<up, brought>>
    BY <1>1 DEF Tickets!Issue
  <2>3. \A s \in Surplus : s \in Tickets!Tickets /\ Tickets!Open(s) /\ trec[s].state # "none"
    BY DEF Tickets!OpenOf, Tickets!Open, Tickets!OpenStates
  <2>4. New \in Tickets!Record
    BY DEF Tickets!Record, Tickets!OpenStates, Tickets!Ages
  <2>5. \A s \in Surplus : /\ [trec[s] EXCEPT !.state = "closed"] \in Tickets!Record
                           /\ [trec[s] EXCEPT !.state = "closed"].state = "closed"
    BY <1>set, <2>3 DEF Tickets!Ends
  <2>6. TicketTypes'
    BY <1>0, <2>1, <2>2, <2>4, <2>5 DEF TicketTypes
  <2>7. \A s \in Tickets!Tickets :
           \/ trec'[s].state = trec[s].state
           \/ trec[s].state \notin {"none", "receiving"} /\ brought[s] = 0
           \/ brought[s] = 0 /\ \A u \in Uploads : up[u].of # s
    <3> TAKE s \in Tickets!Tickets
    <3>1. CASE s = t
      BY <2>1, <3>1
    <3>2. CASE s # t /\ s \in Surplus
      BY <1>0, <2>3, <3>2 DEF Tickets!Open, Tickets!OpenStates
    <3>3. CASE s # t /\ s \notin Surplus
      BY <2>1, <3>3
    <3> QED
      BY <3>1, <3>2, <3>3
  <2> HIDE DEF New
  <2> QED
    BY <2>2, <2>6, <2>7, TicketsMoveOn
<1>2. ASSUME NEW t \in Tickets!Tickets, Tickets!HelperOpen(t) \/ Tickets!HelperCancel(t) PROVE ServeOnce'
  <2>1. PICK s \in {"opened", "cancelled"} : trec' = [trec EXCEPT ![t].state = s]
    BY <1>2 DEF Tickets!HelperOpen, Tickets!HelperCancel
  <2>2. UNCHANGED <<up, brought>> /\ Tickets!Open(t)
    BY <1>2 DEF Tickets!HelperOpen, Tickets!HelperCancel
  <2>3. trec[t].state \notin {"none", "receiving"} /\ brought[t] = 0
    BY <1>0, <2>2 DEF Tickets!Open, Tickets!OpenStates
  <2>4. trec' = [trec EXCEPT ![t] = [trec[t] EXCEPT !.state = s]] /\ [trec[t] EXCEPT !.state = s] \in Tickets!Record
    BY <2>1, <1>set, <2>3 DEF Tickets!OpenStates, Tickets!Ends
  <2> QED
    BY <1>0, <2>2, <2>3, <2>4, TicketsMoveOn DEF TicketTypes
<1>3. ASSUME NEW t \in Tickets!Tickets, Tickets!Pass(t) PROVE ServeOnce'
  <2>1. PICK a \in Tickets!Ages : trec' = [trec EXCEPT ![t].age = a]
    BY <1>3 DEF Tickets!Pass, Tickets!Ages
  <2>2. UNCHANGED <<up, brought>> /\ trec[t] \in Tickets!Record
    BY <1>3, <1>rec DEF Tickets!Pass
  <2>3. trec' = [trec EXCEPT ![t] = [trec[t] EXCEPT !.age = a]] /\ [trec[t] EXCEPT !.age = a] \in Tickets!Record
        /\ [trec[t] EXCEPT !.age = a].state = trec[t].state
    BY <2>1, <2>2 DEF Tickets!Record
  <2> QED
    BY <1>0, <2>2, <2>3, TicketsMoveOn DEF TicketTypes
<1>4. ASSUME Tickets!Sweep PROVE ServeOnce'
  <2>1. UNCHANGED <<up, brought>> /\ DOMAIN trec' = Tickets!Tickets
    BY <1>4 DEF Tickets!Sweep
  <2>2. ASSUME NEW t \in Tickets!Tickets
        PROVE  /\ trec'[t] \in Tickets!Record \cup {Tickets!NoRecord}
               /\ \/ trec'[t].state = trec[t].state
                  \/ trec[t].state \in Tickets!OpenStates
                  \/ trec[t].state # "none" /\ trec'[t].state = "none"
    <3>1. CASE trec[t].state = "none"
      BY <1>4, <3>1 DEF Tickets!Sweep
    <3>2. CASE trec[t].state \in Tickets!OpenStates
      <4>1. [trec[t] EXCEPT !.state = "expired", !.age = "young"] \in Tickets!Record
        BY <1>rec, <3>2 DEF Tickets!Record, Tickets!OpenStates, Tickets!Ends, Tickets!Ages
      <4>2. trec'[t] \in {trec[t], [trec[t] EXCEPT !.state = "expired", !.age = "young"]}
        BY <1>4, <3>2 DEF Tickets!Sweep, Tickets!OpenStates
      <4> QED
        BY <1>rec, <3>2, <4>1, <4>2 DEF Tickets!OpenStates
    <3>3. CASE trec[t].state \notin {"none"} \cup Tickets!OpenStates
      <4>1. trec'[t] \in {trec[t], Tickets!NoRecord}
        BY <1>4, <3>3 DEF Tickets!Sweep
      <4> QED
        BY <1>rec, <3>3, <4>1
    <3> QED
      BY <3>1, <3>2, <3>3
  <2>3. TicketTypes'
    BY <1>0, <1>4, <2>1, <2>2 DEF TicketTypes, Tickets!Sweep
  <2>4. \A t \in Tickets!Tickets : trec[t].state \in Tickets!OpenStates => brought[t] = 0
    BY <1>0 DEF Served, Tickets!OpenStates
  <2> QED
    BY <2>1, <2>2, <2>3, <2>4, TicketsMoveOn DEF Tickets!OpenStates
<1>5. ASSUME NEW u \in Uploads, NEW t \in Tickets!Tickets, Tickets!Claim(u, t) PROVE ServeOnce'
  <2>1. /\ up[u].pc = "idle" /\ Tickets!Open(t) /\ UNCHANGED brought
        /\ up' = [up EXCEPT ![u] = [pc |-> "reading", of |-> t]]
        /\ trec' = [trec EXCEPT ![t] = [trec[t] EXCEPT !.state = "receiving"]]
    BY <1>5 DEF Tickets!Claim
  <2>2. trec[t].state \in Tickets!OpenStates /\ brought[t] = 0
    BY <1>0, <2>1 DEF Tickets!Open
  <2>3. [trec[t] EXCEPT !.state = "receiving"] \in Tickets!Record /\ [trec[t] EXCEPT !.state = "receiving"].state = "receiving"
    BY <1>set, <2>2 DEF Tickets!OpenStates
  <2>4. TicketTypes'
    BY <1>0, <2>1, <2>3 DEF TicketTypes
  <2>5. \A v \in Uploads : up[v].pc # "idle" => up[v].of # t
    BY <2>2 DEF ServeOnce, Serves, Tickets!OpenStates
  <2> QED
    BY <1>0, <2>1, <2>2, <2>3, <2>4, <2>5 DEF ServeOnce, Served, Serves, TicketTypes
<1>6. ASSUME NEW u \in Uploads, Tickets!Store(u) \/ Tickets!Refuse(u) PROVE ServeOnce'
  <2>0. PICK t \in Tickets!Tickets : t = up[u].of
    BY <1>6 DEF Tickets!Store, Tickets!Refuse, ServeOnce, Serves
  <2>1. /\ up[u].pc = "reading" /\ UNCHANGED trec
        /\ \/ up' = [up EXCEPT ![u].pc = "stored"] /\ brought' = [brought EXCEPT ![t] = brought[t] + 1]
           \/ up' = [up EXCEPT ![u].pc = "refused"] /\ UNCHANGED brought
    BY <1>6, <2>0 DEF Tickets!Store, Tickets!Refuse
  <2>2. brought[t] = 0 /\ trec[t].state \in {"none", "receiving"}
    BY <2>0, <2>1 DEF ServeOnce, Serves
  <2>a. /\ up' = [up EXCEPT ![u].pc = up'[u].pc] /\ up'[u].pc \in {"stored", "refused"}
        /\ up' \in [Uploads -> [pc : {"idle", "reading", "stored", "refused"}, of : Nat]]
        /\ up'[u].of = t
    <3>1. PICK s \in {"stored", "refused"} : up' = [up EXCEPT ![u].pc = s]
      BY <2>1
    <3>2. up \in [Uploads -> [pc : {"idle", "reading", "stored", "refused"}, of : Nat]]
      BY <1>0 DEF TicketTypes
    <3>3. up' = [up EXCEPT ![u] = [up[u] EXCEPT !.pc = s]] /\ up'[u] = [up[u] EXCEPT !.pc = s]
      BY <3>1, <3>2
    <3>4. up'[u].pc = s /\ up'[u].of = up[u].of
      BY <3>2, <3>3
    <3>5. [up[u] EXCEPT !.pc = s] \in [pc : {"idle", "reading", "stored", "refused"}, of : Nat]
      BY <3>2
    <3>6. up' \in [Uploads -> [pc : {"idle", "reading", "stored", "refused"}, of : Nat]]
      BY <3>2, <3>3, <3>5
    <3> QED
      BY <2>0, <3>1, <3>4, <3>6
  <2>b. /\ brought' \in [Tickets!Tickets -> Nat] /\ brought'[t] \in {0, 1}
        /\ up'[u].pc = "refused" => brought'[t] = 0
    <3>1. CASE up' = [up EXCEPT ![u].pc = "stored"] /\ brought' = [brought EXCEPT ![t] = brought[t] + 1]
      <4>1. brought' = [brought EXCEPT ![t] = 1] /\ up'[u].pc = "stored"
        BY <1>0, <2>2, <3>1 DEF TicketTypes
      <4> QED
        BY <1>0, <4>1 DEF TicketTypes
    <3>2. CASE UNCHANGED brought
      BY <1>0, <2>2, <3>2 DEF TicketTypes
    <3> QED
      BY <2>1, <3>1, <3>2
  <2>3. TicketTypes'
    BY <1>0, <2>1, <2>a, <2>b DEF TicketTypes
  <2>4. \A v \in Uploads : v # u => up'[v] = up[v] /\ (up[v].pc # "idle" => up[v].of # t)
    BY <1>0, <2>0, <2>1 DEF ServeOnce, TicketTypes
  <2>5. up'[u].of = t /\ up'[u].pc \in {"stored", "refused"} /\ (up'[u].pc = "refused" => brought'[t] = 0)
    BY <2>a, <2>b
  <2>6. \A s \in Tickets!Tickets : s # t => brought'[s] = brought[s]
    BY <1>0, <2>1 DEF TicketTypes
  <2>7. brought'[t] \in {0, 1}
    BY <2>b
  <2>8. \A s \in Tickets!Tickets : Served(s)'
    BY <1>0, <2>1, <2>2, <2>6, <2>7 DEF Served
  <2>9. \A v \in Uploads : Serves(v)'
    BY <2>1, <2>2, <2>4, <2>5, <2>6 DEF ServeOnce, Serves
  <2> QED
    BY <2>1, <2>3, <2>4, <2>5, <2>8, <2>9 DEF ServeOnce
<1>7. ASSUME NEW u \in Uploads, Tickets!Finish(u) PROVE ServeOnce'
  <2>0. PICK t \in Tickets!Tickets : t = up[u].of
    BY <1>7 DEF Tickets!Finish, ServeOnce, Serves
  <2> DEFINE to == IF up[u].pc = "stored" THEN "received" ELSE "failed"
  <2>1. /\ up[u].pc \in {"stored", "refused"} /\ UNCHANGED brought
        /\ up' = [up EXCEPT ![u] = Tickets!Idle]
        /\ trec' = [trec EXCEPT ![t] = IF trec[t].state = "none" THEN Tickets!NoRecord
                                       ELSE [trec[t] EXCEPT !.state = to, !.age = "young"]]
    BY <1>7, <2>0 DEF Tickets!Finish
  <2>2. (up[u].pc = "refused" => brought[t] = 0)
    BY <2>0, <2>1 DEF ServeOnce, Serves
  <2>3. trec[t].state # "none" =>
          /\ [trec[t] EXCEPT !.state = to, !.age = "young"] \in Tickets!Record
          /\ [trec[t] EXCEPT !.state = to, !.age = "young"].state = to
    BY <1>rec, <2>2 DEF Tickets!Record, Tickets!Ends, Tickets!Ages
  <2>4. TicketTypes'
    BY <1>0, <2>1, <2>2, <2>3 DEF TicketTypes, Tickets!Idle
  <2>5. \A v \in Uploads : v # u => up'[v] = up[v] /\ (up[v].pc # "idle" => up[v].of # t)
    BY <1>0, <2>0, <2>1 DEF ServeOnce, TicketTypes
  <2>6. up'[u].pc = "idle"
    BY <1>0, <2>1 DEF TicketTypes, Tickets!Idle
  <2>7. \A s \in Tickets!Tickets : s # t => trec'[s] = trec[s]
    BY <1>0, <2>1 DEF TicketTypes
  <2>8. trec'[t].state = "none" \/ (up[u].pc = "stored" /\ trec'[t].state = "received")
        \/ (up[u].pc = "refused" /\ trec'[t].state = "failed")
    BY <1>0, <2>1, <2>2, <2>3 DEF TicketTypes
  <2>9. Served(t)'
    BY <1>0, <2>1, <2>2, <2>8 DEF Served
  <2>10. \A s \in Tickets!Tickets : Served(s)'
    BY <1>0, <2>1, <2>7, <2>9 DEF Served
  <2>11. \A v \in Uploads : Serves(v)'
    BY <2>1, <2>5, <2>6, <2>7 DEF ServeOnce, Serves
  <2> HIDE DEF to
  <2> QED
    BY <2>4, <2>5, <2>6, <2>10, <2>11 DEF ServeOnce
<1>8. CASE Tickets!Die
  <2>1. up' = [u \in Uploads |-> Tickets!Idle] /\ UNCHANGED <<trec, brought>>
    BY <1>8 DEF Tickets!Die
  <2> QED
    BY <2>1 DEF ServeOnce, TicketTypes, Served, Serves, Tickets!Idle
<1>9. CASE UNCHANGED Tickets!vars
  BY <1>9 DEF Tickets!vars, ServeOnce, TicketTypes, Served, Serves
<1> QED
  BY <1>1, <1>2, <1>3, <1>4, <1>5, <1>6, <1>7, <1>8, <1>9 DEF Tickets!Next

LEMMA TicketsAlways == Tickets!Spec => []ServeOnce
<1>1. Tickets!Init => ServeOnce
  BY DEF Tickets!Init, ServeOnce, TicketTypes, Served, Serves, Tickets!Idle
<1>2. ServeOnce /\ [Tickets!Next]_(Tickets!vars) => ServeOnce'
  BY TicketsStay
<1> QED
  BY <1>1, <1>2, PTL DEF Tickets!Spec

\* A ticket brings one document at most, and none if it says that it failed, was cancelled,
\* closed or expired: who uploads claims the ticket before reading, and from then on nobody
\* else finds it open.
THEOREM TicketsBringOne == Tickets!Spec => []Tickets!TicketsServeOnce
<1>1. ServeOnce => Tickets!TicketsServeOnce
  BY DEF ServeOnce, Served, Tickets!TicketsServeOnce
<1> QED
  BY <1>1, TicketsAlways, PTL

\* A ticket's record and an upload keep their shapes through any collision of requests and
\* any death of the portal (pc_upload.py).
THEOREM TicketsHaveTypes == ASSUME MaxDeaths \in Nat PROVE Tickets!Spec => []Tickets!TypeOK
<1> DEFINE Deaths == deaths \in 0 .. MaxDeaths
<1>1. Tickets!Init => Deaths
  BY DEF Tickets!Init
<1>2. Deaths /\ [Tickets!Next]_(Tickets!vars) => Deaths'
  <2> SUFFICES ASSUME Deaths, [Tickets!Next]_(Tickets!vars) PROVE Deaths'
    OBVIOUS
  <2>1. CASE Tickets!Die
    <3>1. deaths < MaxDeaths /\ deaths' = deaths + 1
      BY <2>1 DEF Tickets!Die
    <3> QED
      BY <3>1
  <2>2. CASE ~ Tickets!Die
    <3>1. deaths' = deaths
      BY <2>2, Zenon DEF Tickets!Next, Tickets!vars, Tickets!Issue, Tickets!HelperOpen,
         Tickets!HelperCancel, Tickets!Pass, Tickets!Store, Tickets!Refuse, Tickets!Finish,
         Tickets!Claim, Tickets!Sweep
    <3> QED
      BY <3>1
  <2> QED
    BY <2>1, <2>2
<1>3. ServeOnce /\ Deaths => Tickets!TypeOK
  BY DEF ServeOnce, TicketTypes, Tickets!TypeOK
<1> QED
  BY <1>1, <1>2, <1>3, TicketsAlways, PTL DEF Tickets!Spec
-----------------------------------------------------------------------------
(* Cards of deliberations (Insights)                                       *)

CONSTANTS CardJobs, Limit, PagesMax, Overlap, Late, PullTime, CardHandlers, MaxTime, MaxFails
VARIABLES now, at, written, card, cursor, partial, pull, cut, gone, ihs, fails

Cards == INSTANCE Insights WITH Jobs <- CardJobs, Handlers <- CardHandlers, hs <- ihs

\* The module of the cards and this one count alike.
LEMMA SameCount == \A S : Cards!Cardinality(S) = Cardinality(S)
BY DEF Cardinality, Cards!Cardinality

LEMMA SameFinite == \A S : Cards!IsFiniteSet(S) <=> IsFiniteSet(S)
BY DEF IsFiniteSet, Cards!IsFiniteSet

CardTypes ==
  /\ now \in Nat \ {0} /\ at \in [CardJobs -> Nat] /\ written \subseteq CardJobs
  /\ card \in [CardJobs -> Cards!Cards] /\ cursor \in Nat /\ cut \in BOOLEAN /\ partial \in BOOLEAN
  /\ pull \in [pc : {"idle", "page"}, begun : Nat, start : Nat, pages : Nat, full : BOOLEAN,
               done : BOOLEAN, due : SUBSET CardJobs]

\* When jobs finish and are written, and that a pull does not outrun the time.
Times ==
  /\ \A j \in CardJobs : at[j] <= now
  /\ \A j, k \in CardJobs : (j # k /\ at[j] # 0) => at[j] # at[k]
  /\ \A j \in written : at[j] # 0
  /\ \A j \in CardJobs \ written : at[j] # 0 => now <= at[j] + Late
  /\ cursor <= now /\ pull.start <= now /\ pull.due \subseteq written

\* What a pull under way did not find written when it began finished too late to have to.
PullTimes ==
  pull.pc = "page" =>
    /\ pull.begun <= now /\ now <= pull.begun + PullTime /\ ~ pull.done
    /\ \A j \in CardJobs \ pull.due : at[j] # 0 => pull.begun <= at[j] + Late

\* No written job is further behind the cursor than the overlap without its card, nor one
\* behind the pages of a pull that was there when the pull began.
Seen ==
  ~ cut =>
    /\ ~ partial
    /\ \A j \in written : at[j] + Overlap < cursor => card[j] # "none"
    /\ pull.pc = "page" => \A j \in pull.due : at[j] < pull.start => card[j] # "none"
    /\ (pull.pc = "idle" /\ pull.done) => \A j \in pull.due : card[j] # "none"

CardsKept == CardTypes /\ Times /\ PullTimes /\ Seen

\* Nothing takes a card away.
CardsRemain == \A j \in CardJobs : card[j] # "none" => card'[j] # "none"

\* A page that has not all the jobs from its time on has those before the next time, and the
\* next time is later; for that the page must hold two jobs, of which no two are of one time.
LEMMA PagesHoldTheEarliest ==
  ASSUME Cards!PullConstants, CardTypes, Times, NEW P \in Cards!Pages(pull.start),
         NEW next \in {at[j] : j \in P} \cup {pull.start}, Cards!IsNextSince(next, P, pull.start)
  PROVE  /\ P \subseteq written
         /\ \A j \in written : (pull.start <= at[j] /\ at[j] < next) => j \in P
         /\ P # Cards!Hits(pull.start) => pull.start < next
<1> DEFINE H == Cards!Hits(pull.start)
<1>0. /\ P \subseteq H /\ H = {j \in written : at[j] >= pull.start} /\ H \subseteq CardJobs
      /\ Cardinality(P) = IF Cardinality(H) < Limit THEN Cardinality(H) ELSE Limit
      /\ \A p \in P, q \in H \ P : at[p] < at[q]
  BY SameCount DEF Cards!Pages, Cards!Hits, CardTypes
<1>1. IsFiniteSet(H) /\ IsFiniteSet(P) /\ Cardinality(H) \in Nat /\ Cardinality(P) \in Nat
  BY <1>0, SameFinite, FS_Subset, FS_CardinalityType DEF Cards!PullConstants
<1>n. next \in Nat
  <2>1. CASE next = pull.start
    BY <2>1 DEF CardTypes
  <2>2. CASE next # pull.start
    <3>1. PICK p \in P : next = at[p]
      BY <2>2
    <3> QED
      BY <1>0, <3>1 DEF CardTypes
  <2> QED
    BY <2>1, <2>2
<1>2. P # H => pull.start < next
  <2>1. SUFFICES ASSUME P # H PROVE pull.start < next
    OBVIOUS
  <2>2. Cardinality(P) # Cardinality(H)
    BY <1>0, <1>1, <2>1, FS_Subset
  <2>3. Cardinality(P) > 1
    BY <1>0, <1>1, <2>2 DEF Cards!PullConstants
  <2>4. PICK p \in P : TRUE
    BY <2>3, <1>1, FS_EmptySet
  <2>5. P # {p}
    BY <2>3, FS_Singleton
  <2>6. PICK q \in P : q # p
    BY <2>4, <2>5
  <2>7. at[p] # at[q] /\ at[p] \in Nat /\ at[q] \in Nat /\ at[p] >= pull.start /\ at[q] >= pull.start
    BY <1>0, <2>4, <2>6 DEF Times, CardTypes
  <2> QED
    BY <1>n, <2>4, <2>6, <2>7 DEF Cards!IsNextSince, CardTypes
<1>3. ASSUME NEW j \in written, pull.start <= at[j], at[j] < next PROVE j \in P
  <2>1. at[j] \in Nat /\ pull.start \in Nat /\ j \in H
    BY <1>0, <1>3 DEF CardTypes
  <2>2. next # pull.start
    BY <1>3, <2>1
  <2>3. PICK p \in P : next = at[p]
    BY <2>2
  <2>4. at[p] \in Nat
    BY <1>0, <2>3 DEF CardTypes
  <2> QED
    BY <1>0, <1>3, <2>1, <2>3, <2>4
<1> QED
  BY <1>0, <1>2, <1>3

LEMMA CardsOfPages ==
  ASSUME CardTypes, NEW P, Cards!Ingest(P)
  PROVE  /\ card' \in [CardJobs -> Cards!Cards] /\ CardsRemain
         /\ \A j \in CardJobs : j \in P => card'[j] # "none"
<1>1. PICK as \in {"waiting", "draft"} :
        card' = [j \in CardJobs |-> IF j \in P /\ card[j] = "none" THEN as ELSE card[j]]
  BY DEF Cards!Ingest
<1> QED
  BY <1>1 DEF CardTypes, CardsRemain, Cards!Cards

LEMMA PullsKeepCards ==
  ASSUME Cards!PullConstants, CardsKept, Cards!Begin \/ Cards!Page \/ Cards!FailPull
  PROVE  CardsKept'
<1>0. /\ CardTypes /\ Times /\ PullTimes /\ Seen
      /\ Late \in Nat /\ PullTime \in Nat /\ Overlap \in Nat /\ Late + PullTime <= Overlap
  BY DEF CardsKept, Cards!PullConstants
<1>1. CASE Cards!Begin
  <2> DEFINE start == IF partial THEN cursor ELSE Cards!Overlapped
  <2>1. /\ pull.pc = "idle" /\ UNCHANGED <<now, at, written, card, cursor, partial, cut>>
        /\ pull' = [pc |-> "page", begun |-> now, start |-> start, pages |-> 0,
                    full |-> ~ partial, done |-> FALSE, due |-> written]
    BY <1>1 DEF Cards!Begin, Cards!Begun
  <2>2. start \in Nat /\ start <= cursor
    BY <1>0 DEF CardTypes, Cards!Overlapped
  <2>3. ~ partial => \A t \in Nat : t < start => t + Overlap < cursor
    BY <1>0 DEF CardTypes, Cards!Overlapped
  <2> HIDE DEF start
  <2>4. CardTypes'
    BY <1>0, <2>1, <2>2 DEF CardTypes
  <2>5. Times' /\ PullTimes'
    BY <1>0, <2>1, <2>2 DEF Times, PullTimes, CardTypes
  <2>6. Seen'
    BY <1>0, <2>1, <2>3 DEF Seen, CardTypes
  <2> QED
    BY <2>4, <2>5, <2>6 DEF CardsKept
<1>2. CASE Cards!Page
  <2>1. PICK P, next :
          /\ P \in Cards!Pages(pull.start) /\ next \in {at[j] : j \in P} \cup {pull.start}
          /\ LET done == P = Cards!Hits(pull.start) \/ next <= pull.start
                 last == pull.pages + 1 = PagesMax IN
             /\ Cards!IsNextSince(next, P, pull.start)
             /\ Cards!Ingest(P)
             /\ cursor' = IF next > cursor THEN next ELSE cursor
             /\ partial' = IF done THEN FALSE ELSE IF last THEN TRUE ELSE partial
             /\ cut' = (cut \/ (last /\ ~ done))
             /\ pull' = IF done \/ last THEN [pull EXCEPT !.pc = "idle", !.done = done]
                        ELSE [pull EXCEPT !.start = next, !.pages = pull.pages + 1]
    BY <1>2 DEF Cards!Page
  <2>2. pull.pc = "page" /\ UNCHANGED <<now, at, written>>
    BY <1>2 DEF Cards!Page
  <2> DEFINE done == P = Cards!Hits(pull.start) \/ next <= pull.start
             last == pull.pages + 1 = PagesMax
  <2>3. /\ P \subseteq written
        /\ \A j \in written : (pull.start <= at[j] /\ at[j] < next) => j \in P
        /\ P # Cards!Hits(pull.start) => pull.start < next
    BY <1>0, <2>1, PagesHoldTheEarliest
  <2>4. next \in Nat /\ next <= now /\ pull.start \in Nat
    <3>1. pull.start \in Nat /\ pull.start <= now
      BY <1>0 DEF CardTypes, Times
    <3>2. \A j \in P : at[j] \in Nat /\ at[j] <= now
      BY <1>0, <2>3 DEF CardTypes, Times
    <3>3. next # pull.start => \E j \in P : next = at[j]
      BY <2>1
    <3> QED
      BY <3>1, <3>2, <3>3
  <2>5. done => P = Cards!Hits(pull.start)
    BY <2>3, <2>4
  <2>6. /\ card' \in [CardJobs -> Cards!Cards] /\ CardsRemain
        /\ \A j \in CardJobs : j \in P => card'[j] # "none"
    BY <1>0, <2>1, CardsOfPages
  <2>7. /\ cut' = (cut \/ (last /\ ~ done)) /\ partial' = IF done THEN FALSE ELSE IF last THEN TRUE ELSE partial
        /\ cursor' = IF next > cursor THEN next ELSE cursor
        /\ \/ (done \/ last) /\ pull' = [pull EXCEPT !.pc = "idle", !.done = done]
           \/ ~ done /\ ~ last /\ pull' = [pull EXCEPT !.start = next, !.pages = pull.pages + 1]
    BY <2>1
  <2> HIDE DEF last
  <2>8. /\ pull'.due = pull.due /\ pull'.begun = pull.begun /\ pull'.start \in {pull.start, next}
        /\ CardTypes' /\ (pull'.pc = "page" => ~ pull'.done)
        /\ pull'.pc = "idle" => (done \/ last) /\ pull'.done = done
        /\ pull'.pc = "page" => ~ done /\ ~ last /\ pull'.start = next
    <3>1. /\ now' \in Nat \ {0} /\ at' \in [CardJobs -> Nat] /\ written' \subseteq CardJobs
          /\ card' \in [CardJobs -> Cards!Cards] /\ cursor' \in Nat /\ cut' \in BOOLEAN
          /\ partial' \in BOOLEAN
      BY <1>0, <2>2, <2>4, <2>6, <2>7 DEF CardTypes, last
    <3> HIDE DEF done
    <3>2. done \in BOOLEAN /\ ~ pull.done
      BY <1>0, <2>2 DEF done, PullTimes
    <3>3. CASE (done \/ last) /\ pull' = [pull EXCEPT !.pc = "idle", !.done = done]
      BY <1>0, <3>1, <3>2, <3>3 DEF CardTypes
    <3>4. CASE ~ done /\ ~ last /\ pull' = [pull EXCEPT !.start = next, !.pages = pull.pages + 1]
      <4> DEFINE n == pull.pages + 1
      <4>1. n \in Nat /\ pull' = [pull EXCEPT !.start = next, !.pages = n]
        <5>1. pull.pages \in Nat
          BY <1>0 DEF CardTypes
        <5> QED
          BY <3>4, <5>1
      <4> HIDE DEF n
      <4>2. /\ pull'.pc = pull.pc /\ pull'.done = pull.done /\ pull'.due = pull.due
            /\ pull'.begun = pull.begun /\ pull'.start = next
        BY <1>0, <4>1 DEF CardTypes
      <4>3. CardTypes'
        BY <1>0, <2>4, <3>1, <4>1 DEF CardTypes
      <4> QED
        BY <2>2, <3>2, <3>4, <4>2, <4>3
    <3> QED
      BY <2>7, <3>3, <3>4
  <2>9. Times'
    BY <1>0, <2>2, <2>4, <2>7, <2>8 DEF Times, CardTypes
  <2>11. PullTimes'
    BY <1>0, <2>2, <2>8 DEF PullTimes
  <2>12. ASSUME ~ cut, NEW j \in pull.due, at[j] < next \/ done PROVE card'[j] # "none"
    <3>1. j \in written /\ j \in CardJobs /\ at[j] \in Nat
      BY <1>0 DEF Times, CardTypes
    <3>2. CASE at[j] < pull.start
      BY <1>0, <2>2, <2>6, <2>12, <3>1, <3>2 DEF Seen, CardsRemain
    <3>3. CASE pull.start <= at[j]
      <4>1. j \in P
        BY <2>3, <2>5, <2>12, <3>1, <3>3 DEF Cards!Hits
      <4> QED
        BY <2>6, <3>1, <4>1
    <3> QED
      BY <2>4, <3>1, <3>2, <3>3
  <2>13. ASSUME ~ cut, NEW j \in written, at[j] + Overlap < cursor' PROVE card'[j] # "none"
    <3>1. j \in CardJobs /\ at[j] \in Nat /\ at[j] # 0 /\ cursor \in Nat /\ cursor <= now
      BY <1>0 DEF Times, CardTypes
    <3>2. CASE j \in pull.due /\ at[j] + Overlap < next
      BY <1>0, <2>4, <2>12, <2>13, <3>1, <3>2
    <3>3. CASE at[j] + Overlap < cursor
      BY <1>0, <2>6, <2>13, <3>1, <3>3 DEF Seen, CardsRemain
    <3>4. CASE j \notin pull.due
      <4>1. pull.begun <= at[j] + Late /\ now <= pull.begun + PullTime /\ pull.begun \in Nat /\ now \in Nat
        BY <1>0, <2>2, <3>1, <3>4 DEF PullTimes, CardTypes
      <4>2. cursor' <= now
        BY <2>4, <2>7, <3>1
      <4>3. cursor' \in Nat
        BY <2>4, <2>7, <3>1
      <4> QED
        BY <1>0, <2>13, <3>1, <4>1, <4>2, <4>3
    <3> QED
      BY <2>4, <2>7, <2>13, <3>1, <3>2, <3>3, <3>4
  <2>14. ASSUME ~ cut' PROVE ~ cut /\ ~ partial' /\ (pull'.pc = "idle" => done) /\ (pull'.pc = "page" => pull'.start = next)
    BY <1>0, <2>2, <2>7, <2>8, <2>14 DEF Seen, CardTypes
  <2>15. Seen'
    BY <2>2, <2>8, <2>12, <2>13, <2>14 DEF Seen
  <2> QED
    BY <2>8, <2>9, <2>11, <2>15 DEF CardsKept
<1>3. CASE Cards!FailPull
  <2>1. /\ pull.pc = "page" /\ UNCHANGED <<now, at, written, cursor, partial, cut>>
        /\ pull' = [pull EXCEPT !.pc = "idle"] /\ \E P : Cards!Ingest(P)
    BY <1>3 DEF Cards!FailPull
  <2>2. card' \in [CardJobs -> Cards!Cards] /\ CardsRemain
    BY <1>0, <2>1, CardsOfPages
  <2>3. /\ pull'.pc = "idle" /\ pull'.due = pull.due /\ pull'.start = pull.start
        /\ ~ pull'.done /\ CardTypes'
    BY <1>0, <2>1, <2>2 DEF CardTypes, PullTimes
  <2>4. Times' /\ PullTimes'
    BY <1>0, <2>1, <2>3 DEF Times, PullTimes
  <2>5. Seen'
    BY <1>0, <2>1, <2>2, <2>3 DEF Seen, CardsRemain, CardTypes
  <2> QED
    BY <2>3, <2>4, <2>5 DEF CardsKept
<1> QED
  BY <1>1, <1>2, <1>3

LEMMA CardsStayKept ==
  ASSUME Cards!PullConstants, CardsKept, [Cards!Next]_(Cards!vars)
  PROVE  CardsKept'
<1>0. /\ CardTypes /\ Times /\ PullTimes /\ Seen
      /\ Late \in Nat /\ PullTime \in Nat /\ Overlap \in Nat /\ Late + PullTime <= Overlap
  BY DEF CardsKept, Cards!PullConstants
<1>1. ASSUME NEW j \in CardJobs, Cards!FinishJob(j) PROVE CardsKept'
  <2>1. /\ at[j] = 0 /\ (\A k \in CardJobs : at[k] # now) /\ at' = [at EXCEPT ![j] = now]
        /\ UNCHANGED <<now, written, card, cursor, partial, pull, cut>>
    BY <1>1 DEF Cards!FinishJob
  <2>2. j \notin written /\ j \notin pull.due
    BY <1>0, <2>1 DEF Times
  <2>3. /\ at' \in [CardJobs -> Nat] /\ at'[j] = now /\ now \in Nat /\ pull.begun \in Nat
        /\ \A k \in CardJobs : k # j => at'[k] = at[k]
    BY <1>0, <2>1 DEF CardTypes
  <2>4. CardTypes' /\ Times'
    BY <1>0, <2>1, <2>2, <2>3 DEF CardTypes, Times
  <2>5. PullTimes'
    BY <1>0, <2>1, <2>3 DEF PullTimes
  <2>6. Seen'
    <3>1. \A k \in written : k # j /\ k \in CardJobs
      BY <1>0, <2>2 DEF CardTypes
    <3>2. \A k \in pull.due : k # j /\ k \in CardJobs
      BY <1>0, <2>2, <3>1 DEF Times
    <3> QED
      BY <1>0, <2>1, <2>3, <3>1, <3>2 DEF Seen
  <2> QED
    BY <2>4, <2>5, <2>6 DEF CardsKept
<1>2. ASSUME NEW j \in CardJobs, Cards!WriteJob(j) PROVE CardsKept'
  <2>1. /\ at[j] # 0 /\ j \notin written /\ written' = written \cup {j}
        /\ UNCHANGED <<now, at, card, cursor, partial, pull, cut>>
    BY <1>2 DEF Cards!WriteJob
  <2>2. ~ (at[j] + Overlap < cursor)
    BY <1>0, <2>1 DEF Times, CardTypes
  <2>3. CardTypes' /\ Times' /\ PullTimes'
    BY <1>0, <2>1 DEF CardTypes, Times, PullTimes
  <2>4. Seen'
    BY <1>0, <2>1, <2>2 DEF Seen
  <2> QED
    BY <2>3, <2>4 DEF CardsKept
<1>3. CASE Cards!Tick
  <2>1. /\ \A j \in CardJobs \ written : at[j] # 0 => now < at[j] + Late
        /\ pull.pc = "page" => now < pull.begun + PullTime
        /\ now' = now + 1 /\ UNCHANGED <<at, written, card, cursor, partial, pull, cut>>
    BY <1>3 DEF Cards!Tick
  <2>2. now' \in Nat \ {0} /\ now \in Nat /\ at \in [CardJobs -> Nat] /\ cursor \in Nat
        /\ pull.start \in Nat /\ pull.begun \in Nat /\ pull.due \subseteq CardJobs
    BY <1>0, <2>1 DEF CardTypes
  <2>3. CardTypes' /\ Seen'
    BY <1>0, <2>1, <2>2 DEF CardTypes, Seen
  <2>4. Times'
    BY <1>0, <2>1, <2>2 DEF Times
  <2>5. PullTimes'
    BY <1>0, <2>1, <2>2 DEF PullTimes
  <2> QED
    BY <2>3, <2>4, <2>5 DEF CardsKept
<1>4. CASE Cards!Begin \/ Cards!Page \/ Cards!FailPull
  BY <1>4, PullsKeepCards
<1>5. ASSUME NEW h \in CardHandlers, Cards!Save(h) PROVE CardsKept'
  <2>1. /\ UNCHANGED <<now, at, written, cursor, partial, pull, cut>>
        /\ card' = [j \in CardJobs |-> IF j \in ihs[h].of /\ card[j] # "withdrawn"
                                       THEN Cards!After(ihs[h].pc, card[j]) ELSE card[j]]
    BY <1>5 DEF Cards!Save
  <2>2. \A op, c : /\ c \in Cards!Cards => Cards!After(op, c) \in Cards!Cards
                   /\ c # "none" => Cards!After(op, c) # "none"
    BY DEF Cards!After, Cards!Cards, Cards!Shared
  <2>3. card' \in [CardJobs -> Cards!Cards] /\ CardsRemain
    BY <1>0, <2>1, <2>2 DEF CardTypes, CardsRemain
  <2>4. CardTypes' /\ Times' /\ PullTimes'
    BY <1>0, <2>1, <2>3 DEF CardTypes, Times, PullTimes
  <2>5. Seen'
    BY <1>0, <2>1, <2>3 DEF Seen, CardsRemain, CardTypes
  <2> QED
    BY <2>4, <2>5 DEF CardsKept
<1>6. ASSUME \/ \E h \in CardHandlers : Cards!GiveUp(h) \/ \E j \in CardJobs : Cards!Read(h, j)
             \/ UNCHANGED Cards!vars
      PROVE  CardsKept'
  <2>1. UNCHANGED <<now, at, written, card, cursor, partial, pull, cut>>
    BY <1>6 DEF Cards!GiveUp, Cards!Read, Cards!vars
  <2> QED
    BY <2>1 DEF CardsKept, CardTypes, Times, PullTimes, Seen
<1> QED
  BY <1>1, <1>2, <1>3, <1>4, <1>5, <1>6 DEF Cards!Next

LEMMA CardsAlwaysKept == ASSUME Cards!PullConstants PROVE Cards!Spec => []CardsKept
<1>1. Cards!Init => CardsKept
  <2> SUFFICES ASSUME Cards!Init PROVE CardsKept
    OBVIOUS
  <2>1. /\ now = 1 /\ at = [j \in CardJobs |-> 0] /\ written = {} /\ card = [j \in CardJobs |-> "none"]
        /\ cursor = 0 /\ partial = FALSE /\ cut = FALSE
        /\ pull = [pc |-> "idle", begun |-> 0, start |-> 0, pages |-> 0, full |-> FALSE, done |-> FALSE,
                   due |-> {}]
    BY DEF Cards!Init
  <2>2. CardTypes
    <3>1. pull \in [pc : {"idle", "page"}, begun : Nat, start : Nat, pages : Nat, full : BOOLEAN,
                    done : BOOLEAN, due : SUBSET CardJobs]
      BY <2>1
    <3>2. card \in [CardJobs -> Cards!Cards] /\ at \in [CardJobs -> Nat] /\ now \in Nat \ {0}
      BY <2>1 DEF Cards!Cards
    <3> QED
      BY <2>1, <3>1, <3>2 DEF CardTypes
  <2>3. Times /\ PullTimes /\ Seen
    BY <2>1 DEF Times, PullTimes, Seen
  <2> QED
    BY <2>2, <2>3 DEF CardsKept
<1>2. CardsKept /\ [Cards!Next]_(Cards!vars) => CardsKept'
  BY CardsStayKept
<1> QED
  BY <1>1, <1>2, PTL DEF Cards!Spec

\* A pull that comes to its end has the cards of all the jobs that were written when it began,
\* unless some pull stopped at its limit of pages: the overlap covers what is written late,
\* if it is as long as that and a pull together.
THEOREM NoCardIsLost == ASSUME Cards!PullConstants PROVE Cards!Spec => []Cards!NoCardIsPassed
<1>1. CardsKept => Cards!NoCardIsPassed
  BY DEF CardsKept, Seen, Cards!NoCardIsPassed, Cards!NoCardIsMissed
<1> QED
  BY <1>1, CardsAlwaysKept, PTL

\* Requests are about cards, and what was withdrawn is.
Withdrawn ==
  /\ DOMAIN card = CardJobs /\ gone \subseteq CardJobs /\ Cards!WithdrawnStay
  /\ ihs \in [CardHandlers -> [pc : {"idle", "confirm", "subject", "dispute", "edit", "withdraw"},
                               of : SUBSET CardJobs]]

LEMMA AlwaysWithdrawn == Cards!Spec => []Withdrawn
<1>1. Cards!Init => Withdrawn
  BY DEF Cards!Init, Withdrawn, Cards!WithdrawnStay, Cards!Idle
<1>2. Withdrawn /\ [Cards!Next]_(Cards!vars) => Withdrawn'
  <2> SUFFICES ASSUME Withdrawn, [Cards!Next]_(Cards!vars) PROVE Withdrawn'
    OBVIOUS
  <2>0. \A j \in gone : j \in CardJobs /\ card[j] = "withdrawn"
    BY DEF Withdrawn, Cards!WithdrawnStay
  <2>1. ASSUME NEW h \in CardHandlers, Cards!Save(h) PROVE Withdrawn'
    <3>1. /\ card' = [j \in CardJobs |-> IF j \in ihs[h].of /\ card[j] # "withdrawn"
                                         THEN Cards!After(ihs[h].pc, card[j]) ELSE card[j]]
          /\ gone' = IF ihs[h].pc = "withdraw" THEN gone \cup ihs[h].of ELSE gone
          /\ ihs' = [ihs EXCEPT ![h] = Cards!Idle] /\ ihs[h].of \subseteq CardJobs
      BY <2>1 DEF Cards!Save, Withdrawn
    <3>2. \A j \in gone : card'[j] = "withdrawn"
      BY <2>0, <3>1
    <3>3. ihs[h].pc = "withdraw" => \A j \in ihs[h].of : card'[j] = "withdrawn"
      BY <3>1 DEF Cards!After
    <3> QED
      BY <3>1, <3>2, <3>3 DEF Withdrawn, Cards!WithdrawnStay, Cards!Idle
  <2>2. ASSUME NEW h \in CardHandlers, NEW j \in CardJobs, Cards!Read(h, j) PROVE Withdrawn'
    BY <2>2 DEF Cards!Read, Withdrawn, Cards!WithdrawnStay
  <2>3. ASSUME NEW h \in CardHandlers, Cards!GiveUp(h) PROVE Withdrawn'
    BY <2>3 DEF Cards!GiveUp, Withdrawn, Cards!WithdrawnStay, Cards!Idle
  <2>4. ASSUME Cards!Page \/ Cards!FailPull PROVE Withdrawn'
    <3>1. UNCHANGED <<gone, ihs>> /\ \E P : Cards!Ingest(P)
      BY <2>4 DEF Cards!Page, Cards!FailPull
    <3>2. PICK P, as : card' = [j \in CardJobs |-> IF j \in P /\ card[j] = "none" THEN as ELSE card[j]]
      BY <3>1 DEF Cards!Ingest
    <3> QED
      BY <2>0, <3>1, <3>2 DEF Withdrawn, Cards!WithdrawnStay
  <2>5. ASSUME \/ \E j \in CardJobs : Cards!FinishJob(j) \/ Cards!WriteJob(j)
               \/ Cards!Tick \/ Cards!Begin \/ UNCHANGED Cards!vars
        PROVE  Withdrawn'
    <3>1. UNCHANGED <<card, gone, ihs>>
      BY <2>5 DEF Cards!FinishJob, Cards!WriteJob, Cards!Tick, Cards!Begin, Cards!vars
    <3> QED
      BY <3>1 DEF Withdrawn, Cards!WithdrawnStay
  <2> QED
    BY <2>1, <2>2, <2>3, <2>4, <2>5 DEF Cards!Next
<1> QED
  BY <1>1, <1>2, PTL DEF Cards!Spec

\* A card that was withdrawn stays withdrawn: a page leaves the cards alone that are there,
\* and a request saves a card only if it has not been withdrawn since it read it.
THEOREM WithdrawnForGood == Cards!Spec => []Cards!WithdrawnStay
<1>1. Withdrawn => Cards!WithdrawnStay
  BY DEF Withdrawn
<1> QED
  BY <1>1, AlwaysWithdrawn, PTL

\* Cards, pulls and the requests on cards keep their shapes (intake.py, routes.py).
THEOREM CardsHaveTypes ==
  ASSUME Cards!PullConstants, MaxFails \in Nat PROVE Cards!Spec => []Cards!TypeOK
<1> DEFINE Fails == fails \in 0 .. MaxFails
<1>1. Cards!Init => Fails
  BY DEF Cards!Init
<1>2. Fails /\ [Cards!Next]_(Cards!vars) => Fails'
  <2> SUFFICES ASSUME Fails, [Cards!Next]_(Cards!vars) PROVE Fails'
    OBVIOUS
  <2>1. CASE Cards!FailPull
    <3>1. fails < MaxFails /\ fails' = fails + 1
      BY <2>1 DEF Cards!FailPull
    <3> QED
      BY <3>1
  <2>2. CASE ~ Cards!FailPull
    <3>1. fails' = fails
      BY <2>2, Zenon DEF Cards!Next, Cards!vars, Cards!FinishJob, Cards!WriteJob, Cards!Tick,
         Cards!Begin, Cards!Page, Cards!Read, Cards!Save, Cards!GiveUp
    <3> QED
      BY <3>1
  <2> QED
    BY <2>1, <2>2
<1>3. CardsKept /\ Withdrawn /\ Fails => Cards!TypeOK
  BY DEF CardsKept, CardTypes, Withdrawn, Cards!TypeOK
<1> QED
  BY <1>1, <1>2, <1>3, CardsAlwaysKept, AlwaysWithdrawn, PTL DEF Cards!Spec
-----------------------------------------------------------------------------
(***************************************************************************)
(* The index of a person's conversations (ConvIndex).  How many chunks a   *)
(* set of messages has is a sum over a set, computed by recursion; that it *)
(* is the number of the chunks themselves (Pieces) is proved by a smallest *)
(* set for which it fails (SmallestSet), and the library's facts about     *)
(* finite sets then say what sums do.                                      *)
(***************************************************************************)
CONSTANTS Searches, Tasks, N, Size, Batch, Spaces, MaxSearches, MaxEmbedFails, MaxRestarts
VARIABLES space, tag, known, indexed, outside, w, searches, efails, restarts

Index == INSTANCE ConvIndex WITH
  MaxFails <- MaxEmbedFails, row <- indexed, fails <- efails
Messages == Index!Messages

\* Among sets of elements of a finite set there is one that contains no other.
LEMMA SmallestSet ==
  ASSUME NEW M, IsFiniteSet(M), NEW B, B \subseteq SUBSET M, B # {}
  PROVE  \E s \in B : \A u \in B : ~ (u \subseteq s /\ u # s)
<1>1. IsWellFoundedOn(StrictSubsetOrdering(M), SUBSET M)
  BY FS_StrictSubsetOrderingWellFounded, FS_FiniteSubsetsOfFinite
<1>2. PICK s \in B : \A u \in B : ~ (<<u, s>> \in StrictSubsetOrdering(M))
  BY <1>1, WFMin
<1> QED
  BY <1>2 DEF StrictSubsetOrdering

\* Numbers up to N have a least and a greatest among them.
LEMMA LeastNumber ==
  ASSUME N \in Nat, NEW A \in SUBSET (1 .. N), A # {}
  PROVE  \E x \in A : \A y \in A : x <= y
<1> DEFINE B == {1 .. a : a \in A}
           M == 1 .. N
<1>1. IsFiniteSet(M)
  BY FS_Interval
<1>2. B \subseteq SUBSET M /\ B # {}
  <2>1. \A a \in A : 1 .. a \subseteq 1 .. N
    OBVIOUS
  <2> QED
    BY <2>1
<1>3. \A s \in B : \E a \in A : s = 1 .. a
  OBVIOUS
<1>a. \A a \in A : 1 .. a \in B
  OBVIOUS
<1> HIDE DEF B, M
<1>b. PICK s \in B : \A u \in B : ~ (u \subseteq s /\ u # s)
  BY <1>1, <1>2, SmallestSet
<1>4. PICK x \in A : s = 1 .. x
  BY <1>3
<1>5. ASSUME NEW y \in A, y < x PROVE FALSE
  <2>1. 1 .. y \in B /\ 1 .. y \subseteq 1 .. x /\ x \in 1 .. x /\ x \notin 1 .. y
    BY <1>5, <1>a
  <2> QED
    BY <1>b, <1>4, <2>1
<1> QED
  BY <1>5

LEMMA GreatestNumber ==
  ASSUME N \in Nat, NEW A \in SUBSET (1 .. N), A # {}
  PROVE  \E x \in A : \A y \in A : y <= x
<1> DEFINE B == {a .. N : a \in A}
           M == 1 .. N
<1>1. IsFiniteSet(M)
  BY FS_Interval
<1>2. B \subseteq SUBSET M /\ B # {}
  <2>1. \A a \in A : a .. N \subseteq 1 .. N
    OBVIOUS
  <2> QED
    BY <2>1
<1>3. \A s \in B : \E a \in A : s = a .. N
  OBVIOUS
<1>a. \A a \in A : a .. N \in B
  OBVIOUS
<1> HIDE DEF B, M
<1>b. PICK s \in B : \A u \in B : ~ (u \subseteq s /\ u # s)
  BY <1>1, <1>2, SmallestSet
<1>4. PICK x \in A : s = x .. N
  BY <1>3
<1>5. ASSUME NEW y \in A, x < y PROVE FALSE
  <2>1. y .. N \in B /\ y .. N \subseteq x .. N /\ x \in x .. N /\ x \notin y .. N
    BY <1>5, <1>a
  <2> QED
    BY <1>b, <1>4, <2>1
<1> QED
  BY <1>5

\* The chunks of messages, one by one.
Pieces(S) == {p \in Messages \X Nat : p[1] \in S /\ p[2] \in 1 .. Size[p[1]]}

\* One message more: its chunks are none of the others'.
LEMMA PiecesAdd ==
  ASSUME Index!IndexConstants, NEW S \in SUBSET Messages, NEW m \in Messages \ S,
         IsFiniteSet(Pieces(S))
  PROVE  /\ IsFiniteSet(Pieces(S \cup {m}))
         /\ Cardinality(Pieces(S \cup {m})) = Cardinality(Pieces(S)) + Size[m]
<1> DEFINE mine == {m} \X (1 .. Size[m])
<1>1. Size[m] \in Nat
  BY DEF Messages, Index!Messages, Index!IndexConstants
<1>2. IsFiniteSet({m}) /\ Cardinality({m}) = 1
  BY FS_Singleton
<1>3. IsFiniteSet(1 .. Size[m]) /\ Cardinality(1 .. Size[m]) = Size[m]
  BY <1>1, FS_Interval
<1>4. IsFiniteSet(mine) /\ Cardinality(mine) = Size[m]
  <2>1. IsFiniteSet(mine) /\ Cardinality(mine) = Cardinality({m}) * Cardinality(1 .. Size[m])
    BY <1>2, <1>3, FS_Product
  <2> QED
    BY <1>1, <1>2, <1>3, <2>1
<1>5. Pieces(S \cup {m}) = Pieces(S) \cup mine /\ Pieces(S) \cap mine = {}
  BY <1>1 DEF Pieces
<1>6. Cardinality(Pieces(S)) \in Nat /\ Cardinality({}) = 0
  BY FS_CardinalityType, FS_EmptySet
<1>7. /\ IsFiniteSet(Pieces(S) \cup mine)
      /\ Cardinality(Pieces(S) \cup mine) = Cardinality(Pieces(S)) + Cardinality(mine)
                                              - Cardinality(Pieces(S) \cap mine)
  BY <1>4, FS_Union
<1> HIDE DEF mine
<1>8. Cardinality(Pieces(S) \cap mine) = 0
  BY <1>5, <1>6
<1>9. Cardinality(Pieces(S) \cup mine) = Cardinality(Pieces(S)) + Size[m]
  BY <1>1, <1>4, <1>6, <1>7, <1>8
<1> QED
  BY <1>5, <1>7, <1>9

LEMMA PiecesAreFinite ==
  ASSUME Index!IndexConstants, NEW S \in SUBSET Messages PROVE IsFiniteSet(Pieces(S))
<1> DEFINE B == {s \in SUBSET Messages : ~ IsFiniteSet(Pieces(s))}
<1>1. SUFFICES ASSUME B # {} PROVE FALSE
  OBVIOUS
<1>2. IsFiniteSet(Messages)
  BY FS_Interval DEF Messages, Index!Messages, Index!IndexConstants
<1>3. PICK s \in B : \A u \in B : ~ (u \subseteq s /\ u # s)
  <2>1. B \subseteq SUBSET Messages
    OBVIOUS
  <2> HIDE DEF B
  <2> QED
    BY <1>1, <1>2, <2>1, SmallestSet
<1>4. CASE s = {}
  <2>1. Pieces(s) = {}
    BY <1>4 DEF Pieces
  <2> QED
    BY <2>1, FS_EmptySet
<1>5. CASE s # {}
  <2>1. PICK m \in s : TRUE
    BY <1>5
  <2>2. IsFiniteSet(Pieces(s \ {m}))
    BY <1>3, <2>1
  <2>3. s = (s \ {m}) \cup {m} /\ s \ {m} \in SUBSET Messages /\ m \in Messages \ (s \ {m})
    BY <2>1
  <2> QED
    BY <2>2, <2>3, PiecesAdd
<1> QED
  BY <1>4, <1>5

\* The sum over messages counts their chunks.
LEMMA ChunksAreCounted ==
  ASSUME Index!IndexConstants, NEW S \in SUBSET Messages
  PROVE  Index!Chunks(S) = Cardinality(Pieces(S))
<1> DEFINE F(f) == [s \in SUBSET S |-> IF s = {} THEN 0
                                       ELSE LET x == CHOOSE x \in s : TRUE IN Size[x] + f[s \ {x}]]
           G == [s \in SUBSET S |-> Cardinality(Pieces(s))]
           iter == CHOOSE f : f = F(f)
<1>1. ASSUME NEW s \in SUBSET S, s # {}, NEW x \in s
      PROVE  Cardinality(Pieces(s)) = Size[x] + Cardinality(Pieces(s \ {x}))
  <2>1. IsFiniteSet(Pieces(s \ {x})) /\ s \ {x} \in SUBSET Messages /\ x \in Messages \ (s \ {x})
    BY <1>1, PiecesAreFinite
  <2>2. Cardinality(Pieces(s \ {x})) \in Nat /\ Size[x] \in Nat
    BY <2>1, FS_CardinalityType DEF Messages, Index!Messages, Index!IndexConstants
  <2>3. s = (s \ {x}) \cup {x}
    BY <1>1
  <2> QED
    BY <2>1, <2>2, <2>3, PiecesAdd
<1>2. G = F(G)
  <2>1. ASSUME NEW s \in SUBSET S PROVE G[s] = F(G)[s]
    <3>1. CASE s = {}
      <4>1. Pieces(s) = {}
        BY <3>1 DEF Pieces
      <4> QED
        BY <3>1, <4>1, FS_EmptySet
    <3>2. CASE s # {}
      <4> DEFINE x == CHOOSE x \in s : TRUE
      <4>1. x \in s /\ s \ {x} \in SUBSET S
        BY <3>2
      <4> QED
        BY <1>1, <3>2, <4>1
    <3> QED
      BY <3>1, <3>2
  <2> QED
    BY <2>1
<1>3. iter = F(iter)
  BY <1>2
<1>4. Index!Chunks(S) = iter[S]
  BY DEF Index!Chunks, Index!MapThenSumSet, Index!MapThenFoldSet
<1> HIDE DEF iter
<1>5. ASSUME NEW s \in SUBSET S, iter[s] # G[s] PROVE FALSE
  <2> DEFINE B == {u \in SUBSET S : iter[u] # G[u]}
  <2>1. IsFiniteSet(Messages)
    BY FS_Interval DEF Messages, Index!Messages, Index!IndexConstants
  <2>2. B \subseteq SUBSET Messages /\ B # {}
    BY <1>5
  <2>3. PICK u \in B : \A v \in B : ~ (v \subseteq u /\ v # u)
    <3> HIDE DEF B
    <3> QED
      BY <2>1, <2>2, SmallestSet
  <2>4. u \in SUBSET S /\ iter[u] = F(iter)[u] /\ G[u] = F(G)[u]
    BY <1>2, <1>3, <2>3
  <2>5. CASE u = {}
    BY <2>3, <2>4, <2>5
  <2>6. CASE u # {}
    <3> DEFINE x == CHOOSE x \in u : TRUE
    <3>1. x \in u /\ u \ {x} \in SUBSET S /\ u \ {x} \notin B
      BY <2>3, <2>6
    <3>2. iter[u \ {x}] = G[u \ {x}]
      BY <3>1
    <3> QED
      BY <2>3, <2>4, <2>6, <3>2
  <2> QED
    BY <2>5, <2>6
<1> QED
  BY <1>4, <1>5

\* Sums of chunks: a number, none of nothing, at least those of a part and one more message.
LEMMA ChunksAdd ==
  ASSUME Index!IndexConstants, NEW S \in SUBSET Messages
  PROVE  /\ Index!Chunks(S) \in Nat /\ Index!Chunks({}) = 0
         /\ \A T \in SUBSET S : Index!Chunks(T) <= Index!Chunks(S)
         /\ \A m \in Messages \ S : Index!Chunks(S \cup {m}) = Index!Chunks(S) + Size[m]
<1>1. Index!Chunks(S) = Cardinality(Pieces(S)) /\ IsFiniteSet(Pieces(S))
  BY ChunksAreCounted, PiecesAreFinite
<1>2. Index!Chunks(S) \in Nat
  BY <1>1, FS_CardinalityType
<1>3. Index!Chunks({}) = 0
  <2>1. Pieces({}) = {} /\ {} \in SUBSET Messages
    BY DEF Pieces
  <2> QED
    BY <2>1, ChunksAreCounted, FS_EmptySet
<1>4. ASSUME NEW T \in SUBSET S PROVE Index!Chunks(T) <= Index!Chunks(S)
  <2>1. Pieces(T) \in SUBSET Pieces(S) /\ T \in SUBSET Messages
    BY DEF Pieces
  <2>2. Cardinality(Pieces(T)) <= Cardinality(Pieces(S))
    BY <1>1, <2>1, FS_Subset
  <2> QED
    BY <1>1, <2>1, <2>2, ChunksAreCounted
<1>5. ASSUME NEW m \in Messages \ S
      PROVE  Index!Chunks(S \cup {m}) = Index!Chunks(S) + Size[m]
  <2>1. S \cup {m} \in SUBSET Messages
    OBVIOUS
  <2>2. Index!Chunks(S \cup {m}) = Cardinality(Pieces(S \cup {m}))
    BY <2>1, ChunksAreCounted
  <2> QED
    BY <1>1, <2>2, PiecesAdd
<1> QED
  BY <1>2, <1>3, <1>4, <1>5

\* The newest messages that fill a batch are some of those there are to choose from: the
\* choice is of something.
LEMMA LeastIsPart ==
  ASSUME Index!IndexConstants, NEW S \in SUBSET Messages, NEW n \in Nat \ {0}
  PROVE  Index!Least(S, n) \subseteq S
<1> DEFINE Up(k) == {m \in S : m <= k}
           Filled(T) == Index!Chunks(T) >= n /\ Index!Chunks(T \ {Index!Max(T)}) < n
<1>1. N \in Nat /\ S \in SUBSET (1 .. N)
  BY DEF Messages, Index!Messages, Index!IndexConstants
<1>2. CASE Index!Chunks(S) <= n
  BY <1>2 DEF Index!Least
<1>3. CASE ~ Index!Chunks(S) <= n
  <2>0. /\ Index!Chunks(S) \in Nat /\ Index!Chunks({}) = 0
        /\ \A k \in S : Up(k) \in SUBSET Messages
    BY ChunksAdd
  <2> DEFINE K == {k \in S : Index!Chunks(Up(k)) >= n}
  <2>1. S # {} /\ Index!Chunks(S) >= n
    BY <1>3, <2>0
  <2>2. K # {}
    <3>1. PICK x \in S : \A y \in S : y <= x
      BY <1>1, <2>1, GreatestNumber
    <3>2. Up(x) = S
      BY <3>1
    <3> QED
      BY <2>1, <3>1, <3>2
  <2>3. PICK k \in K : \A y \in K : k <= y
    <3>1. K \in SUBSET (1 .. N)
      BY <1>1
    <3> HIDE DEF K
    <3> QED
      BY <1>1, <2>2, <3>1, LeastNumber
  <2>4. k \in S /\ k \in Nat /\ Index!Chunks(Up(k)) >= n
    BY <1>1, <2>3
  <2>5. Index!Max(Up(k)) = k
    <3>1. k \in Up(k) /\ \A y \in Up(k) : k >= y /\ y \in Nat
      BY <1>1, <2>4
    <3>2. \A x \in Up(k) : (\A y \in Up(k) : x >= y) => x = k
      BY <2>4, <3>1
    <3> QED
      BY <3>1, <3>2 DEF Index!Max
  <2>6. Index!Chunks(Up(k) \ {k}) < n
    <3> DEFINE L == Up(k) \ {k}
    <3>1. CASE L = {}
      BY <2>0, <3>1
    <3>2. CASE L # {}
      <4>1. L \in SUBSET (1 .. N)
        BY <1>1
      <4>2. PICK x \in L : \A y \in L : y <= x
        <5> HIDE DEF L
        <5> QED
          BY <1>1, <3>2, <4>1, GreatestNumber
      <4>3. x \in S /\ x < k
        BY <1>1, <2>4, <4>2
      <4>4. L = Up(x)
        <5>1. \A m \in S : m \in Nat
          BY <1>1
        <5>2. \A m \in L : m \in S /\ m <= x
          BY <4>2
        <5>3. \A m \in S : m <= x => m <= k /\ m # k
          BY <2>4, <4>3, <5>1
        <5> QED
          BY <5>2, <5>3
      <4>5. x \notin K
        BY <1>1, <2>3, <2>4, <4>3
      <4>6. Index!Chunks(Up(x)) \in Nat
        BY <2>0, <4>3, ChunksAdd
      <4> QED
        BY <4>3, <4>4, <4>5, <4>6
    <3> QED
      BY <3>1, <3>2
  <2>7. Filled(Up(k)) /\ Up(k) \in {Up(j) : j \in S}
    BY <2>4, <2>5, <2>6
  <2>8. Index!Least(S, n) = CHOOSE T \in {Up(j) : j \in S} : Filled(T)
    BY <1>3 DEF Index!Least
  <2>9. Index!Least(S, n) \in {Up(j) : j \in S}
    <3> HIDE DEF Filled
    <3> QED
      BY <2>7, <2>8
  <2> QED
    BY <2>9
<1> QED
  BY <1>2, <1>3

\* What a search or a task is at.
IndexPCs == {"idle", "learn", "look", "sort", "mark", "gather", "batch", "wait", "put", "query"}
Worker == [pc : IndexPCs, all : SUBSET Messages, todo : SUBSET Messages, group : SUBSET Messages,
           got : Seq(1 .. Spaces), of : 0 .. Spaces, name : 0 .. Spaces, embedded : Nat]

\* No more vectors have come than the group has chunks, and all of them when it is put; what
\* is only marked has none.
WorkerFits(k) ==
  /\ k.pc \in {"batch", "wait", "put"} => Len(k.got) <= Index!Chunks(k.group)
  /\ k.pc = "put" => Len(k.got) = Index!Chunks(k.group)
  /\ k.pc = "mark" => \A m \in k.group : Size[m] = 0

IndexTypes ==
  /\ space \in 1 .. Spaces /\ tag \in 1 .. Spaces /\ known \in BOOLEAN
  /\ indexed \in [Messages -> [name : 0 .. Spaces, of : Seq(1 .. Spaces)]]
  /\ outside \subseteq Messages /\ w \in [Index!Workers -> Worker]

\* What was handed over is with a task, and nothing was handed to a search.
InHands(o, v) == \A m \in o : \E t \in Tasks : v[t].pc # "idle" /\ m \in v[t].all
IndexFits ==
  /\ IndexTypes
  /\ \A x \in Index!Workers : WorkerFits(w[x])
  /\ \A h \in Searches : w[h].all = {}
  /\ InHands(outside, w) /\ Index!IndexedIsWhole

\* A change of one worker to k that keeps what it was handed; k may also give all back.
Holds(x, k, o) ==
  /\ k \in Worker /\ WorkerFits(k) /\ w' = [w EXCEPT ![x] = k] /\ o \subseteq outside
  /\ x \in Searches => k.all = {}
  /\ \/ k.all = w[x].all /\ (w[x].pc # "idle" => k.pc # "idle")
     \/ o \cap w[x].all = {}

LEMMA OneWorks ==
  ASSUME Index!IndexConstants, IndexFits, NEW x \in Index!Workers, NEW k, NEW o, Holds(x, k, o)
  PROVE  /\ w' \in [Index!Workers -> Worker] /\ \A y \in Index!Workers : WorkerFits(w'[y])
         /\ (\A h \in Searches : w'[h].all = {}) /\ InHands(o, w')
<1>1. w \in [Index!Workers -> Worker] /\ w' = [w EXCEPT ![x] = k] /\ k \in Worker
  BY DEF IndexFits, IndexTypes, Holds
<1>2. w' \in [Index!Workers -> Worker]
  BY <1>1
<1>3. \A y \in Index!Workers : w'[y] = IF y = x THEN k ELSE w[y]
  BY <1>1
<1>4. \A y \in Index!Workers : WorkerFits(w'[y])
  BY <1>3 DEF IndexFits, Holds
<1>5. \A h \in Searches : w'[h].all = {}
  BY <1>3 DEF IndexFits, Holds, Index!Workers
<1>6. ASSUME NEW m \in o PROVE \E t \in Tasks : w'[t].pc # "idle" /\ m \in w'[t].all
  <2>1. PICK t \in Tasks : w[t].pc # "idle" /\ m \in w[t].all
    BY <1>6 DEF IndexFits, InHands, Holds
  <2>2. CASE t # x
    BY <1>3, <2>1, <2>2 DEF Index!Workers
  <2>3. CASE t = x
    BY <1>3, <1>6, <2>1, <2>3 DEF Holds
  <2> QED
    BY <2>2, <2>3
<1> QED
  BY <1>2, <1>4, <1>5, <1>6 DEF InHands

\* Fields of a worker that changes.
LEMMA WorkerFields ==
  ASSUME NEW k \in Worker
  PROVE  /\ k.pc \in IndexPCs /\ k.all \subseteq Messages /\ k.todo \subseteq Messages
         /\ k.group \subseteq Messages /\ k.got \in Seq(1 .. Spaces) /\ k.of \in 0 .. Spaces
         /\ k.name \in 0 .. Spaces /\ k.embedded \in Nat
BY DEF Worker

\* Idle, or about to begin with the name n or without one.
IdleOr(pc, n) ==
  {Index!Idle, [Index!Idle EXCEPT !.pc = pc], [Index!Idle EXCEPT !.pc = pc, !.name = n]}

LEMMA IdleWorks ==
  ASSUME Index!IndexConstants, NEW pc \in {"idle", "learn", "look", "query"}, NEW n \in 0 .. Spaces,
         NEW k \in IdleOr(pc, n)
  PROVE  k \in Worker /\ WorkerFits(k) /\ k.all = {} /\ k.pc \in {"idle", pc}
<1>1. <<>> \in Seq(1 .. Spaces) /\ Spaces \in Nat /\ 0 \in 0 .. Spaces /\ 0 \in Nat
  BY DEF Index!IndexConstants
<1>2. {} \in SUBSET Messages /\ pc \in IndexPCs /\ "idle" \in IndexPCs
  BY DEF IndexPCs
<1>3. /\ Index!Idle \in Worker /\ Index!Idle.pc = "idle" /\ Index!Idle.all = {}
      /\ DOMAIN Index!Idle = {"pc", "all", "todo", "group", "got", "of", "name", "embedded"}
  BY <1>1, <1>2 DEF Index!Idle, Worker
<1>4. [Index!Idle EXCEPT !.pc = pc] \in Worker
  BY <1>2, <1>3 DEF Worker
<1>5. [Index!Idle EXCEPT !.pc = pc, !.name = n] \in Worker
  BY <1>2, <1>3 DEF Worker
<1>6. k \in Worker
  BY <1>3, <1>4, <1>5 DEF IdleOr
<1>7. k.pc \in {"idle", pc} /\ k.all = {}
  BY <1>3 DEF IdleOr
<1> QED
  BY <1>6, <1>7 DEF WorkerFits

\* A step of one worker keeps what holds of all, when what it leaves in the store is whole.
LEMMA OneStep ==
  ASSUME Index!IndexConstants, IndexFits, NEW x \in Index!Workers, NEW k, Holds(x, k, outside'),
         space' \in 1 .. Spaces, tag' \in 1 .. Spaces, known' \in BOOLEAN,
         indexed' \in [Messages -> [name : 0 .. Spaces, of : Seq(1 .. Spaces)]],
         \A m \in Messages : indexed'[m].name # 0 => Len(indexed'[m].of) = Size[m]
  PROVE  IndexFits'
<1>1. /\ w' \in [Index!Workers -> Worker] /\ \A y \in Index!Workers : WorkerFits(w'[y])
      /\ (\A h \in Searches : w'[h].all = {}) /\ InHands(outside', w')
  BY OneWorks
<1>2. outside' \subseteq Messages
  BY DEF IndexFits, IndexTypes, Holds
<1>3. Index!IndexedIsWhole'
  BY DEF Index!IndexedIsWhole, Messages
<1>4. IndexTypes'
  BY <1>1, <1>2 DEF IndexTypes
<1> QED
  BY <1>1, <1>3, <1>4 DEF IndexFits

\* The same when the store is not touched.
LEMMA OneStepAside ==
  ASSUME Index!IndexConstants, IndexFits, NEW x \in Index!Workers, NEW k, Holds(x, k, outside'),
         space' = space, tag' \in 1 .. Spaces, known' \in BOOLEAN, indexed' = indexed
  PROVE  IndexFits'
<1>1. /\ space \in 1 .. Spaces /\ indexed \in [Messages -> [name : 0 .. Spaces, of : Seq(1 .. Spaces)]]
      /\ \A m \in Messages : indexed[m].name # 0 => Len(indexed[m].of) = Size[m]
  BY DEF IndexFits, IndexTypes, Index!IndexedIsWhole, Messages
<1> QED
  BY <1>1, OneStep

\* Searches that ask, look and end; the service may fail anybody.
LEMMA WorkersIdle ==
  ASSUME Index!IndexConstants, IndexFits, NEW x \in Index!Workers,
         \/ x \in Searches /\ (Index!Search(x) \/ Index!Learned(x) \/ Index!Indexed(x)
                               \/ Index!Answered(x))
         \/ Index!EmbedFails(x)
  PROVE  IndexFits'
<1>1. IndexTypes /\ w[x] \in Worker /\ (x \in Searches => w[x].all = {})
  BY DEF IndexFits, IndexTypes
<1>0. Spaces \in Nat /\ tag \in 1 .. Spaces /\ known \in BOOLEAN /\ tag \in 0 .. Spaces
      /\ w[x].of \in 0 .. Spaces /\ 0 \in 0 .. Spaces
      /\ outside \subseteq Messages
  BY <1>1, WorkerFields DEF IndexTypes, Index!IndexConstants
<1>f. w[x].of # 0 => w[x].of \in 1 .. Spaces
  BY <1>0
<1> SUFFICES \E pc \in {"idle", "learn", "look", "query"}, n \in 0 .. Spaces :
               \E k \in IdleOr(pc, n) :
                 w' = [w EXCEPT ![x] = k] /\ outside' \subseteq outside \ w[x].all
                 /\ indexed' = indexed /\ space' = space /\ tag' \in 1 .. Spaces /\ known' \in BOOLEAN
  <2>1. PICK pc \in {"idle", "learn", "look", "query"}, n \in 0 .. Spaces :
               \E k \in IdleOr(pc, n) :
                 w' = [w EXCEPT ![x] = k] /\ outside' \subseteq outside \ w[x].all
                 /\ indexed' = indexed /\ space' = space /\ tag' \in 1 .. Spaces /\ known' \in BOOLEAN
    OBVIOUS
  <2>2. PICK k \in IdleOr(pc, n) :
                 w' = [w EXCEPT ![x] = k] /\ outside' \subseteq outside \ w[x].all
                 /\ indexed' = indexed /\ space' = space /\ tag' \in 1 .. Spaces /\ known' \in BOOLEAN
    BY <2>1
  <2>3. k \in Worker /\ WorkerFits(k) /\ k.all = {}
    BY <2>1, <2>2, IdleWorks
  <2>4. Holds(x, k, outside')
    BY <2>2, <2>3 DEF Holds
  <2> QED
    BY <2>2, <2>4, OneStepAside
<1>2. CASE x \in Searches /\ Index!Search(x)
  <2>1. PICK pc \in {"learn", "look"} : w' = [w EXCEPT ![x] = [Index!Idle EXCEPT !.pc = pc, !.name = tag]]
    BY <1>2, <1>0 DEF Index!Search, Index!Set
  <2>2. outside' = outside /\ indexed' = indexed /\ space' = space /\ tag' = tag /\ known' = known
    BY <1>2 DEF Index!Search
  <2> QED
    BY <1>0, <1>1, <1>2, <2>1, <2>2 DEF IdleOr
<1>3. CASE x \in Searches /\ Index!Learned(x)
  <2>1. w' = [w EXCEPT ![x] = [Index!Idle EXCEPT !.pc = "look", !.name = w[x].of]]
    BY <1>3 DEF Index!Learned, Index!Set
  <2>2. outside' = outside /\ indexed' = indexed /\ space' = space /\ tag' = w[x].of /\ known' = TRUE /\ w[x].of # 0
    BY <1>3 DEF Index!Learned
  <2> QED
    BY <1>0, <1>f, <1>1, <1>3, <2>1, <2>2 DEF IdleOr
<1>4. CASE x \in Searches /\ Index!Indexed(x)
  <2>1. w' = [w EXCEPT ![x] = [Index!Idle EXCEPT !.pc = "query"]]
    BY <1>4 DEF Index!Indexed, Index!Set
  <2>2. outside' = outside /\ indexed' = indexed /\ space' = space /\ tag' = tag /\ known' = known
    BY <1>4 DEF Index!Indexed, Index!Counts
  <2> QED
    BY <1>0, <1>1, <1>4, <2>1, <2>2 DEF IdleOr
<1>5. CASE x \in Searches /\ Index!Answered(x)
  <2>1. w' = [w EXCEPT ![x] = Index!Idle]
    BY <1>5 DEF Index!Answered, Index!Set
  <2>2. outside' = outside /\ indexed' = indexed /\ space' = space /\ tag' = w[x].of /\ known' = TRUE /\ w[x].of # 0
    BY <1>5 DEF Index!Answered
  <2> QED
    BY <1>0, <1>f, <1>1, <1>5, <2>1, <2>2 DEF IdleOr
<1>6. CASE Index!EmbedFails(x)
  <2>1. w' = [w EXCEPT ![x] = Index!Idle]
    BY <1>6 DEF Index!EmbedFails, Index!Set
  <2>2. outside' = outside \ w[x].all /\ indexed' = indexed /\ space' = space /\ tag' = tag /\ known' = known
    BY <1>6 DEF Index!EmbedFails
  <2> QED
    BY <1>0, <1>1, <2>1, <2>2 DEF IdleOr
<1> QED
  BY <1>2, <1>3, <1>4, <1>5, <1>6

\* Searches that look, sort, gather and ask change only what they are at.
LEMMA SearchesRead ==
  ASSUME Index!IndexConstants, IndexFits, NEW h \in Searches,
         Index!Look(h) \/ Index!Sort(h) \/ Index!Gather(h) \/ Index!AskBatch(h)
  PROVE  IndexFits'
<1>1. /\ w[h] \in Worker /\ h \in Index!Workers /\ w[h].all = {} /\ WorkerFits(w[h])
      /\ tag \in 1 .. Spaces /\ known \in BOOLEAN /\ Spaces \in Nat
  BY DEF IndexFits, IndexTypes, Index!Workers, Index!IndexConstants
<1>2. tag \in 0 .. Spaces /\ <<>> \in Seq(1 .. Spaces) /\ Len(<<>>) = 0
  BY <1>1
<1>3. /\ w[h].todo \subseteq Messages /\ w[h].group \subseteq Messages
      /\ Index!Chunks(w[h].group) \in Nat
  BY <1>1, WorkerFields, ChunksAdd
<1> SUFFICES ASSUME NEW k, k \in Worker, WorkerFits(k), k.all = {}, k.pc # "idle",
                    w' = [w EXCEPT ![h] = k]
             PROVE  IndexFits'
  <2>1. CASE Index!Look(h)
    <3> DEFINE k == [w[h] EXCEPT !.pc = "sort", !.todo = {m \in Messages : indexed[m].name # w[h].name}]
    <3>1. k \in Worker
      BY <1>1 DEF Worker, IndexPCs
    <3>2. k.pc = "sort" /\ k.all = {}
      BY <1>1 DEF Worker
    <3>3. w' = [w EXCEPT ![h] = k]
      BY <2>1 DEF Index!Look, Index!Set, Messages
    <3> HIDE DEF k
    <3> QED
      BY <3>1, <3>2, <3>3 DEF WorkerFits
  <2>2. CASE Index!Sort(h)
    <3> DEFINE marks == {m \in w[h].todo \ outside : Size[m] = 0}
               pc == IF marks = {} THEN "gather" ELSE "mark"
               k == [w[h] EXCEPT !.pc = pc, !.todo = (w[h].todo \ outside) \ marks, !.group = marks,
                                 !.name = tag]
    <3>0. pc \in {"gather", "mark"} /\ marks \subseteq Messages /\ pc \in IndexPCs
      BY <1>3 DEF IndexPCs
    <3>3. w' = [w EXCEPT ![h] = k]
      BY <2>2 DEF Index!Sort, Index!Set
    <3>4. \A m \in marks : Size[m] = 0
      OBVIOUS
    <3> HIDE DEF marks, pc
    <3>1. k \in Worker
      BY <1>1, <1>2, <1>3, <3>0 DEF Worker
    <3>2. k.pc = pc /\ k.all = {} /\ k.group = marks
      BY <1>1 DEF Worker
    <3> HIDE DEF k
    <3> QED
      BY <3>0, <3>1, <3>2, <3>3, <3>4 DEF WorkerFits
  <2>3. CASE Index!Gather(h)
    <3> DEFINE part == Index!Least(w[h].todo, Batch)
               k == [w[h] EXCEPT !.pc = "batch", !.group = part, !.got = <<>>]
    <3>0. part \subseteq Messages /\ Index!Chunks(part) \in Nat
      <4>1. part \subseteq w[h].todo
        BY <1>3, LeastIsPart DEF Index!IndexConstants
      <4> QED
        BY <1>3, <4>1, ChunksAdd
    <3>3. w' = [w EXCEPT ![h] = k]
      BY <2>3 DEF Index!Gather, Index!Set
    <3> HIDE DEF part
    <3>1. k \in Worker
      BY <1>1, <1>2, <3>0 DEF Worker, IndexPCs
    <3>2. k.pc = "batch" /\ k.all = {} /\ k.group = part /\ k.got = <<>>
      BY <1>1 DEF Worker
    <3> HIDE DEF k
    <3>4. WorkerFits(k)
      <4>1. Len(k.got) = 0
        BY <1>2, <3>2
      <4> QED
        BY <3>0, <3>2, <4>1 DEF WorkerFits
    <3> QED
      BY <3>1, <3>2, <3>3, <3>4
  <2>4. CASE Index!AskBatch(h)
    <3> DEFINE k == [w[h] EXCEPT !.pc = "wait"]
    <3>0. w[h].pc = "batch" /\ w' = [w EXCEPT ![h] = k]
      BY <2>4 DEF Index!AskBatch, Index!Set
    <3>1. k \in Worker
      BY <1>1 DEF Worker, IndexPCs
    <3>2. k.pc = "wait" /\ k.all = {} /\ k.group = w[h].group /\ k.got = w[h].got
      BY <1>1 DEF Worker
    <3> HIDE DEF k
    <3> QED
      BY <1>1, <3>0, <3>1, <3>2 DEF WorkerFits
  <2> QED
    BY <2>1, <2>2, <2>3, <2>4
<1>4. outside' = outside /\ indexed' = indexed /\ space' = space /\ tag' = tag /\ known' = known
  BY DEF Index!Look, Index!Sort, Index!Gather, Index!AskBatch
<1>5. Holds(h, k, outside')
  BY <1>1, <1>4 DEF Holds
<1> QED
  BY <1>1, <1>4, <1>5, OneStepAside

\* The same element n times.
LEMMA ManyOfOne ==
  ASSUME NEW V, NEW v \in V, NEW n \in Nat
  PROVE  [i \in 1 .. n |-> v] \in Seq(V) /\ Len([i \in 1 .. n |-> v]) = n
OBVIOUS

\* The service embeds, and its vectors come back: no more than the group has chunks.
LEMMA ServiceAnswers ==
  ASSUME Index!IndexConstants, IndexFits, NEW x \in Index!Workers,
         Index!Serve(x) \/ Index!Received(x)
  PROVE  IndexFits'
<1>1. /\ w[x] \in Worker /\ WorkerFits(w[x]) /\ (x \in Searches => w[x].all = {})
      /\ tag \in 1 .. Spaces /\ known \in BOOLEAN /\ space \in 1 .. Spaces /\ Spaces \in Nat
      /\ Batch \in Nat \ {0}
  BY DEF IndexFits, IndexTypes, Index!Workers, Index!IndexConstants
<1>2. /\ w[x].got \in Seq(1 .. Spaces) /\ w[x].of \in 0 .. Spaces /\ w[x].embedded \in Nat
      /\ Index!Chunks(w[x].group) \in Nat /\ Len(w[x].got) \in Nat
  BY <1>1, WorkerFields, ChunksAdd
<1>3. CASE Index!Serve(x)
  <2> DEFINE k == [w[x] EXCEPT !.of = space]
  <2>0. w' = [w EXCEPT ![x] = k]
    BY <1>3 DEF Index!Serve, Index!Set
  <2>1. k \in Worker
    <3>1. space \in 0 .. Spaces
      BY <1>1
    <3> QED
      BY <1>1, <3>1 DEF Worker
  <2>2. k.pc = w[x].pc /\ k.all = w[x].all /\ k.group = w[x].group /\ k.got = w[x].got
    BY <1>1 DEF Worker
  <2> HIDE DEF k
  <2>3. WorkerFits(k)
    BY <1>1, <2>2 DEF WorkerFits
  <2>4. outside' = outside /\ indexed' = indexed /\ space' = space /\ tag' = tag /\ known' = known
    BY <1>3 DEF Index!Serve, Index!Counts
  <2>5. Holds(x, k, outside')
    BY <1>1, <2>0, <2>1, <2>2, <2>3, <2>4 DEF Holds
  <2> QED
    BY <1>1, <2>4, <2>5, OneStepAside
<1>4. CASE Index!Received(x)
  <2> DEFINE left == Index!Chunks(w[x].group) - Len(w[x].got)
             n == IF left < Batch THEN left ELSE Batch
             come == [i \in 1 .. n |-> w[x].of]
             pc == IF n = left THEN "put" ELSE IF x \in Searches THEN "batch" ELSE "wait"
             k == [w[x] EXCEPT !.of = 0, !.got = w[x].got \o come, !.embedded = w[x].embedded + n,
                               !.name = w[x].of, !.pc = pc]
  <2>0. /\ w' = [w EXCEPT ![x] = k]
        /\ w[x].pc = "wait" /\ w[x].of # 0
    BY <1>4 DEF Index!Received, Index!Set
  <2>1. w[x].of \in 1 .. Spaces
    BY <1>1, <1>2, <2>0
  <2>2. left \in Nat /\ n \in Nat /\ n <= left /\ Len(w[x].got) + left = Index!Chunks(w[x].group)
    <3>1. Len(w[x].got) <= Index!Chunks(w[x].group)
      BY <1>1, <2>0 DEF WorkerFits
    <3>2. left \in Nat /\ Len(w[x].got) + left = Index!Chunks(w[x].group)
      BY <1>2, <3>1
    <3> HIDE DEF left
    <3> QED
      BY <1>1, <3>2
  <2>3. pc \in {"put", "batch", "wait"} /\ (pc = "put" => n = left)
    OBVIOUS
  <2>6. outside' = outside /\ indexed' = indexed /\ space' = space /\ tag' = w[x].of /\ known' = TRUE
    BY <1>4 DEF Index!Received, Index!Counts
  <2> HIDE DEF n, pc, left
  <2>4. come \in Seq(1 .. Spaces) /\ Len(come) = n
    BY <2>1, <2>2, ManyOfOne
  <2> HIDE DEF come
  <2>5. /\ w[x].got \o come \in Seq(1 .. Spaces)
        /\ Len(w[x].got \o come) = Len(w[x].got) + n
    BY <1>2, <2>2, <2>4
  <2>7. 0 \in 0 .. Spaces /\ pc \in IndexPCs /\ w[x].embedded + n \in Nat
    BY <1>1, <1>2, <2>2, <2>3 DEF IndexPCs
  <2> DEFINE got == w[x].got \o come
             e == w[x].embedded + n
  <2>8. k = [w[x] EXCEPT !.of = 0, !.got = got, !.embedded = e, !.name = w[x].of, !.pc = pc]
    OBVIOUS
  <2> HIDE DEF k
  <2>9. got \in Seq(1 .. Spaces) /\ e \in Nat
    BY <2>5, <2>7
  <2> HIDE DEF got, e
  <2>10. k \in Worker
    BY <1>1, <1>2, <2>7, <2>8, <2>9 DEF Worker
  <2>11. k.pc = pc /\ k.all = w[x].all /\ k.group = w[x].group /\ k.got = got
    BY <1>1, <2>8 DEF Worker
  <2>12. Len(got) = Len(w[x].got) + n
    BY <2>5 DEF got
  <2>13. WorkerFits(k)
    BY <1>2, <2>2, <2>3, <2>11, <2>12 DEF WorkerFits
  <2>14. Holds(x, k, outside')
    BY <1>1, <2>0, <2>3, <2>6, <2>10, <2>11, <2>13 DEF Holds
  <2> QED
    BY <2>1, <2>6, <2>14, OneStepAside
<1> QED
  BY <1>3, <1>4

\* Messages too short to be found are marked with no row: that is all of them.
LEMMA MarksFit ==
  ASSUME Index!IndexConstants, IndexFits, NEW h \in Searches, Index!Mark(h)
  PROVE  IndexFits'
<1> DEFINE k == [w[h] EXCEPT !.pc = "gather", !.group = {}]
<1>1. /\ w[h] \in Worker /\ h \in Index!Workers /\ w[h].all = {} /\ WorkerFits(w[h])
      /\ space \in 1 .. Spaces /\ tag \in 1 .. Spaces /\ known \in BOOLEAN /\ Spaces \in Nat
      /\ indexed \in [Messages -> [name : 0 .. Spaces, of : Seq(1 .. Spaces)]]
      /\ \A m \in Messages : indexed[m].name # 0 => Len(indexed[m].of) = Size[m]
  BY DEF IndexFits, IndexTypes, Index!Workers, Index!IndexConstants, Index!IndexedIsWhole,
         Messages
<1>2. /\ w[h].pc = "mark" /\ w' = [w EXCEPT ![h] = k]
      /\ indexed' = [m \in Messages |-> IF m \in w[h].group THEN [name |-> w[h].name, of |-> <<>>]
                                    ELSE indexed[m]]
      /\ outside' = outside /\ space' = space /\ tag' = tag /\ known' = known
  BY DEF Index!Mark, Index!Set, Messages
<1>3. k \in Worker /\ k.pc = "gather" /\ k.all = {}
  BY <1>1 DEF Worker, IndexPCs
<1>4. Holds(h, k, outside')
  <2> HIDE DEF k
  <2> QED
    BY <1>1, <1>2, <1>3 DEF Holds, WorkerFits
<1>5. w[h].name \in 0 .. Spaces /\ <<>> \in Seq(1 .. Spaces) /\ Len(<<>>) = 0
  BY <1>1, WorkerFields
<1>6. \A m \in w[h].group : Size[m] = 0
  BY <1>1, <1>2 DEF WorkerFits
<1>7. indexed' \in [Messages -> [name : 0 .. Spaces, of : Seq(1 .. Spaces)]]
  BY <1>1, <1>2, <1>5
<1>8. \A m \in Messages : indexed'[m].name # 0 => Len(indexed'[m].of) = Size[m]
  BY <1>1, <1>2, <1>5, <1>6
<1> HIDE DEF k
<1> QED
  BY <1>1, <1>2, <1>4, <1>7, <1>8, OneStep

\* The n elements behind the first b of a sequence.
LEMMA PartOfSeq ==
  ASSUME NEW V, NEW s \in Seq(V), NEW b \in Nat, NEW n \in Nat, b + n <= Len(s)
  PROVE  SubSeq(s, b + 1, b + n) \in Seq(V) /\ Len(SubSeq(s, b + 1, b + n)) = n
<1>1. b + 1 \in Int /\ b + n \in Int
  OBVIOUS
<1>2. \A i \in b + 1 .. b + n : i \in 1 .. Len(s)
  OBVIOUS
<1>3. \A i \in b + 1 .. b + n : s[i] \in V
  BY <1>2, ElementOfSeq
<1>4. /\ SubSeq(s, b + 1, b + n) \in Seq(V)
      /\ Len(SubSeq(s, b + 1, b + n)) = IF b + 1 <= b + n THEN (b + n) - (b + 1) + 1 ELSE 0
  BY <1>1, <1>3, SubSeqProperties
<1>5. (IF b + 1 <= b + n THEN (b + n) - (b + 1) + 1 ELSE 0) = n
  OBVIOUS
<1> QED
  BY <1>4, <1>5

\* What is put are the rows of whole messages: the vectors of a group are as many as its
\* chunks, so those of one message and of the messages before it are among them.
LEMMA WrittenIsWhole ==
  ASSUME Index!IndexConstants, IndexFits, NEW x \in Index!Workers, w[x].pc = "put",
         indexed' = Index!Written(x)
  PROVE  /\ indexed' \in [Messages -> [name : 0 .. Spaces, of : Seq(1 .. Spaces)]]
         /\ \A m \in Messages : indexed'[m].name # 0 => Len(indexed'[m].of) = Size[m]
<1>1. /\ w[x] \in Worker /\ WorkerFits(w[x]) /\ N \in Nat
      /\ indexed \in [Messages -> [name : 0 .. Spaces, of : Seq(1 .. Spaces)]]
      /\ \A m \in Messages : indexed[m].name # 0 => Len(indexed[m].of) = Size[m]
      /\ \A m \in Messages : Size[m] \in Nat /\ m \in Nat
  <2>1. /\ w[x] \in Worker /\ WorkerFits(w[x])
        /\ indexed \in [Messages -> [name : 0 .. Spaces, of : Seq(1 .. Spaces)]]
        /\ \A m \in Messages : indexed[m].name # 0 => Len(indexed[m].of) = Size[m]
    BY DEF IndexFits, IndexTypes, Index!IndexedIsWhole, Messages
  <2>2. N \in Nat /\ Size \in [1 .. N -> Nat] /\ Messages = 1 .. N
    BY DEF Index!IndexConstants, Messages, Index!Messages
  <2> QED
    BY <2>1, <2>2
<1>2. /\ w[x].got \in Seq(1 .. Spaces) /\ w[x].name \in 0 .. Spaces
      /\ w[x].group \subseteq Messages /\ Len(w[x].got) = Index!Chunks(w[x].group)
  BY <1>1, WorkerFields DEF WorkerFits
<1> DEFINE got == w[x].got
           before(m) == Index!Chunks({k \in w[x].group : k < m})
           part(m) == SubSeq(got, before(m) + 1, before(m) + Size[m])
<1>3. ASSUME NEW m \in w[x].group
      PROVE  part(m) \in Seq(1 .. Spaces) /\ Len(part(m)) = Size[m]
  <2> DEFINE less == {k \in w[x].group : k < m}
  <2>1. m \in Messages \ less /\ less \in SUBSET Messages /\ less \cup {m} \in SUBSET w[x].group
    BY <1>1, <1>2
  <2> HIDE DEF less
  <2>2. Index!Chunks(less \cup {m}) = Index!Chunks(less) + Size[m] /\ Index!Chunks(less) \in Nat
    BY <2>1, ChunksAdd
  <2>3. Index!Chunks(less \cup {m}) <= Index!Chunks(w[x].group)
    BY <1>2, <2>1, ChunksAdd
  <2>4. Size[m] \in Nat /\ before(m) = Index!Chunks(less)
    BY <1>1, <2>1 DEF less
  <2> DEFINE b == Index!Chunks(less)
             c == b + Size[m]
  <2>5. b \in Nat /\ Size[m] \in Nat /\ b + Size[m] <= Len(got)
    BY <1>2, <2>2, <2>3, <2>4
  <2>6. part(m) = SubSeq(got, b + 1, b + Size[m])
    BY <2>4
  <2> HIDE DEF b, got
  <2>7. got \in Seq(1 .. Spaces)
    BY <1>2 DEF got
  <2>8. SubSeq(got, b + 1, b + Size[m]) \in Seq(1 .. Spaces)
        /\ Len(SubSeq(got, b + 1, b + Size[m])) = Size[m]
    BY <2>5, <2>7, PartOfSeq
  <2> QED
    BY <2>6, <2>8
<1>4. indexed' = [m \in Messages |-> IF m \in w[x].group THEN [name |-> w[x].name, of |-> part(m)]
                                 ELSE indexed[m]]
  BY DEF Index!Written, Messages
<1> HIDE DEF part
<1>5. indexed' \in [Messages -> [name : 0 .. Spaces, of : Seq(1 .. Spaces)]]
  BY <1>1, <1>2, <1>3, <1>4
<1>6. \A m \in Messages : indexed'[m].name # 0 => Len(indexed'[m].of) = Size[m]
  BY <1>1, <1>3, <1>4
<1> QED
  BY <1>5, <1>6

\* A search that has put goes on; a task goes on or gives back what it was handed.
LEMMA PutsFit ==
  ASSUME Index!IndexConstants, IndexFits, NEW x \in Index!Workers,
         (x \in Searches /\ Index!Put(x)) \/ (x \in Tasks /\ Index!PutOutside(x))
  PROVE  IndexFits'
<1>1. /\ w[x] \in Worker /\ (x \in Searches => w[x].all = {}) /\ Searches \cap Tasks = {}
      /\ space \in 1 .. Spaces /\ tag \in 1 .. Spaces /\ known \in BOOLEAN /\ Spaces \in Nat
      /\ outside \subseteq Messages
  BY DEF IndexFits, IndexTypes, Index!IndexConstants
<1>2. w[x].pc = "put" /\ indexed' = Index!Written(x) /\ space' = space /\ tag' = tag /\ known' = known
  BY DEF Index!Put, Index!PutOutside
<1>3. /\ indexed' \in [Messages -> [name : 0 .. Spaces, of : Seq(1 .. Spaces)]]
      /\ \A m \in Messages : indexed'[m].name # 0 => Len(indexed'[m].of) = Size[m]
  BY <1>2, WrittenIsWhole
<1>4. w[x].todo \subseteq Messages /\ <<>> \in Seq(1 .. Spaces) /\ Len(<<>>) = 0
  BY <1>1, WorkerFields
<1> SUFFICES \E k : Holds(x, k, outside')
  BY <1>1, <1>2, <1>3, OneStep
<1>5. CASE x \in Searches /\ Index!Put(x)
  <2> DEFINE k == [w[x] EXCEPT !.pc = "gather", !.todo = w[x].todo \ w[x].group, !.group = {},
                               !.got = <<>>]
  <2>1. w' = [w EXCEPT ![x] = k] /\ outside' = outside
    BY <1>5 DEF Index!Put, Index!Set
  <2>2. k \in Worker /\ k.pc = "gather" /\ k.all = w[x].all
    BY <1>1, <1>4 DEF Worker, IndexPCs
  <2> HIDE DEF k
  <2>3. Holds(x, k, outside')
    BY <1>1, <1>5, <2>1, <2>2 DEF Holds, WorkerFits
  <2> QED
    BY <2>3
<1>6. CASE x \in Tasks /\ Index!PutOutside(x)
  <2> DEFINE rest == w[x].todo \ w[x].group
             part == Index!Least(rest, 1)
  <2>1. CASE rest = {}
    <3>1. w' = [w EXCEPT ![x] = Index!Idle] /\ outside' = outside \ w[x].all
      BY <1>6, <2>1 DEF Index!PutOutside, Index!Set
    <3>2. "idle" \in {"idle", "learn", "look", "query"} /\ 0 \in 0 .. Spaces
          /\ Index!Idle \in IdleOr("idle", 0)
      BY <1>1 DEF IdleOr
    <3>3. Index!Idle \in Worker /\ WorkerFits(Index!Idle) /\ Index!Idle.all = {}
      BY <3>2, IdleWorks
    <3>4. Holds(x, Index!Idle, outside')
      BY <3>1, <3>3 DEF Holds
    <3> QED
      BY <3>4
  <2>2. CASE rest # {}
    <3> DEFINE k == [w[x] EXCEPT !.pc = "wait", !.todo = rest, !.group = part, !.got = <<>>]
    <3>1. w' = [w EXCEPT ![x] = k] /\ outside' = outside
      BY <1>6, <2>2 DEF Index!PutOutside, Index!Set
    <3>2. part \subseteq Messages /\ Index!Chunks(part) \in Nat /\ rest \subseteq Messages
      <4>1. rest \in SUBSET Messages
        BY <1>4
      <4>2. part \subseteq rest
        BY <4>1, LeastIsPart
      <4> QED
        BY <4>1, <4>2, ChunksAdd
    <3> HIDE DEF rest, part
    <3>3. k \in Worker /\ k.pc = "wait" /\ k.all = w[x].all /\ k.group = part /\ k.got = <<>>
      BY <1>1, <1>4, <3>2 DEF Worker, IndexPCs
    <3> HIDE DEF k
    <3>4. WorkerFits(k)
      <4>1. Len(k.got) = 0
        BY <1>4, <3>3
      <4> QED
        BY <3>2, <3>3, <4>1 DEF WorkerFits
    <3>5. Holds(x, k, outside')
      BY <1>1, <1>6, <3>1, <3>3, <3>4 DEF Holds
    <3> QED
      BY <3>5
  <2> QED
    BY <2>1, <2>2
<1> QED
  BY <1>5, <1>6

\* A search that stops hands over what is too large for it to a task that was idle, which
\* had nothing in hands.
LEMMA StopsHandOver ==
  ASSUME Index!IndexConstants, IndexFits, NEW h \in Searches, Index!Stop(h)
  PROVE  IndexFits'
<1> DEFINE big == IF w[h].embedded = 0 THEN {} ELSE {m \in w[h].todo : Size[m] > w[h].embedded}
           query == [Index!Idle EXCEPT !.pc = "query"]
           part == Index!Least(big, 1)
           k == [Index!Idle EXCEPT !.pc = "wait", !.all = big, !.todo = big, !.group = part]
<1>1. /\ w \in [Index!Workers -> Worker] /\ h \in Index!Workers /\ w[h] \in Worker
      /\ space \in 1 .. Spaces /\ tag \in 1 .. Spaces /\ known \in BOOLEAN /\ Spaces \in Nat
      /\ indexed \in [Messages -> [name : 0 .. Spaces, of : Seq(1 .. Spaces)]]
      /\ outside \subseteq Messages /\ Searches \cap Tasks = {} /\ w[h].all = {}
  BY DEF IndexFits, IndexTypes, Index!Workers, Index!IndexConstants
<1>2. big \in SUBSET Messages
  BY <1>1, WorkerFields
<1>3. part \subseteq Messages /\ Index!Chunks(part) \in Nat
  <2> HIDE DEF big
  <2>1. part \subseteq big
    BY <1>2, LeastIsPart
  <2> QED
    BY <1>2, <2>1, ChunksAdd
<1>4. /\ outside' = outside \cup big /\ space' = space /\ tag' = tag /\ known' = known
      /\ indexed' = indexed
  BY DEF Index!Stop, Index!Counts
<1>5. \/ big = {} /\ w' = [w EXCEPT ![h] = query]
      \/ big # {} /\ \E t \in Tasks : w[t].pc = "idle" /\ w' = [w EXCEPT ![h] = query, ![t] = k]
  BY DEF Index!Stop, Index!Set
<1>6. query \in Worker /\ WorkerFits(query) /\ query.all = {} /\ query.pc = "query"
  <2>1. "query" \in {"idle", "learn", "look", "query"} /\ 0 \in 0 .. Spaces
        /\ query \in IdleOr("query", 0)
    BY <1>1 DEF IdleOr
  <2>2. query.pc = "query"
    BY DEF Index!Idle
  <2> HIDE DEF query
  <2> QED
    BY <2>1, <2>2, IdleWorks
<1>7. k \in Worker /\ WorkerFits(k) /\ k.all = big /\ k.pc = "wait"
  <2>1. "idle" \in {"idle", "learn", "look", "query"} /\ 0 \in 0 .. Spaces
        /\ Index!Idle \in IdleOr("idle", 0)
    BY <1>1 DEF IdleOr
  <2>2. Index!Idle \in Worker
    BY <2>1, IdleWorks
  <2>3. Index!Idle.got = <<>> /\ Len(<<>>) = 0
    BY DEF Index!Idle
  <2> HIDE DEF big, part
  <2>4. /\ k \in Worker /\ k.all = big /\ k.pc = "wait" /\ k.group = part
        /\ k.got = Index!Idle.got
    BY <1>2, <1>3, <2>2 DEF Worker, IndexPCs
  <2> HIDE DEF k
  <2>5. WorkerFits(k)
    <3>1. Len(k.got) = 0
      BY <2>3, <2>4
    <3> QED
      BY <1>3, <2>4, <3>1 DEF WorkerFits
  <2> QED
    BY <2>4, <2>5
<1> HIDE DEF big, query, k
<1>8. CASE big = {}
  <2>1. Holds(h, query, outside')
    BY <1>1, <1>4, <1>5, <1>6, <1>8 DEF Holds
  <2> QED
    BY <1>1, <1>4, <2>1, OneStepAside
<1>9. CASE big # {}
  <2>1. PICK t \in Tasks : w[t].pc = "idle" /\ w' = [w EXCEPT ![h] = query, ![t] = k]
    BY <1>5, <1>9
  <2>2. t \in Index!Workers /\ t # h
    BY <1>1 DEF Index!Workers
  <2>3. \A y \in Index!Workers : w'[y] = IF y = t THEN k ELSE IF y = h THEN query ELSE w[y]
    BY <1>1, <2>1, <2>2
  <2>4. w' \in [Index!Workers -> Worker]
    BY <1>1, <1>6, <1>7, <2>1, <2>2
  <2>5. \A y \in Index!Workers : WorkerFits(w'[y])
    BY <1>6, <1>7, <2>3 DEF IndexFits
  <2>6. \A g \in Searches : w'[g].all = {}
    <3> TAKE g \in Searches
    <3>1. g # t /\ g \in Index!Workers /\ w[g].all = {}
      BY <1>1, <2>1 DEF Index!Workers, IndexFits
    <3> QED
      BY <1>6, <2>3, <3>1
  <2>7. ASSUME NEW m \in outside' PROVE \E u \in Tasks : w'[u].pc # "idle" /\ m \in w'[u].all
    <3>1. CASE m \in big
      BY <1>7, <2>2, <2>3, <3>1
    <3>2. CASE m \in outside
      <4>1. PICK u \in Tasks : w[u].pc # "idle" /\ m \in w[u].all
        BY <3>2 DEF IndexFits, InHands
      <4>2. u # t /\ u # h /\ u \in Index!Workers
        BY <1>1, <2>1, <4>1 DEF Index!Workers
      <4> QED
        BY <2>3, <4>1, <4>2
    <3> QED
      BY <1>4, <3>1, <3>2
  <2>8. InHands(outside', w')
    BY <2>7 DEF InHands
  <2>9. outside' \subseteq Messages
    BY <1>1, <1>2, <1>4
  <2>10. IndexTypes'
    BY <1>1, <1>4, <2>4, <2>9 DEF IndexTypes
  <2>11. Index!IndexedIsWhole'
    BY <1>4 DEF IndexFits, Index!IndexedIsWhole
  <2> QED
    BY <2>5, <2>6, <2>8, <2>10, <2>11 DEF IndexFits
<1> QED
  BY <1>8, <1>9

\* At the start, and after a restart, nobody works on anything; the store may hold rows.
LEMMA AllIdle ==
  ASSUME Index!IndexConstants
  PROVE  (Index!Init => IndexFits) /\ (IndexFits /\ Index!Restart => IndexFits')
<1>1. Spaces \in Nat \ {0} /\ 1 \in 1 .. Spaces /\ 0 \in 0 .. Spaces /\ <<>> \in Seq(1 .. Spaces)
  BY DEF Index!IndexConstants
<1>2. Index!Idle \in Worker /\ WorkerFits(Index!Idle) /\ Index!Idle.all = {}
  <2>1. "idle" \in {"idle", "learn", "look", "query"} /\ Index!Idle \in IdleOr("idle", 0)
    BY DEF IdleOr
  <2> QED
    BY <1>1, <2>1, IdleWorks
<1>3. ASSUME Index!Init PROVE IndexFits
  <2>1. /\ space = 1 /\ tag = 1 /\ known = FALSE /\ outside = {}
        /\ indexed = [m \in Messages |-> Index!NoRow] /\ w = [x \in Index!Workers |-> Index!Idle]
    BY <1>3 DEF Index!Init, Messages
  <2>2. indexed \in [Messages -> [name : 0 .. Spaces, of : Seq(1 .. Spaces)]]
    BY <1>1, <2>1 DEF Index!NoRow
  <2>3. Index!IndexedIsWhole
    BY <2>1 DEF Index!IndexedIsWhole, Index!NoRow, Messages
  <2>4. IndexTypes
    BY <1>1, <1>2, <2>1, <2>2 DEF IndexTypes
  <2>5. /\ \A x \in Index!Workers : WorkerFits(w[x])
        /\ \A h \in Searches : w[h].all = {}
    BY <1>2, <2>1 DEF Index!Workers
  <2> QED
    BY <2>1, <2>3, <2>4, <2>5 DEF IndexFits, InHands
<1>4. ASSUME IndexFits, Index!Restart PROVE IndexFits'
  <2>1. /\ space' = space /\ tag' = 1 /\ known' = FALSE /\ outside' = {}
        /\ indexed' = indexed /\ w' = [x \in Index!Workers |-> Index!Idle]
    BY <1>4 DEF Index!Restart
  <2>2. IndexTypes'
    BY <1>1, <1>2, <1>4, <2>1 DEF IndexTypes, IndexFits
  <2>3. Index!IndexedIsWhole'
    BY <1>4, <2>1 DEF Index!IndexedIsWhole, IndexFits
  <2>4. /\ \A x \in Index!Workers : WorkerFits(w'[x])
        /\ \A h \in Searches : w'[h].all = {}
    BY <1>2, <2>1 DEF Index!Workers
  <2> QED
    BY <2>1, <2>2, <2>3, <2>4 DEF IndexFits, InHands
<1> QED
  BY <1>3, <1>4

LEMMA IndexSteps ==
  ASSUME Index!IndexConstants, IndexFits, [Index!Next]_(Index!vars) PROVE IndexFits'
<1>1. CASE UNCHANGED Index!vars
  BY <1>1 DEF Index!vars, IndexFits, IndexTypes, InHands, Index!IndexedIsWhole
<1>2. CASE Index!Switch
  <2>1. /\ space' \in 1 .. Spaces /\ tag' = tag /\ known' = known /\ outside' = outside
        /\ indexed' = indexed /\ w' = w
    BY <1>2 DEF Index!Switch, IndexFits, IndexTypes, Index!IndexConstants
  <2> QED
    BY <2>1 DEF IndexFits, IndexTypes, InHands, Index!IndexedIsWhole
<1>3. CASE Index!Restart
  BY <1>3, AllIdle
<1>4. ASSUME NEW h \in Searches,
             Index!Search(h) \/ Index!Learned(h) \/ Index!Look(h) \/ Index!Sort(h) \/ Index!Mark(h)
             \/ Index!Gather(h) \/ Index!AskBatch(h) \/ Index!Stop(h) \/ Index!Put(h)
             \/ Index!Indexed(h) \/ Index!Answered(h)
      PROVE  IndexFits'
  <2>1. h \in Index!Workers
    BY DEF Index!Workers
  <2> QED
    BY <1>4, <2>1, WorkersIdle, SearchesRead, MarksFit, StopsHandOver, PutsFit
<1>5. ASSUME NEW t \in Tasks, Index!PutOutside(t) PROVE IndexFits'
  <2>1. t \in Index!Workers
    BY DEF Index!Workers
  <2> QED
    BY <1>5, <2>1, PutsFit
<1>6. ASSUME NEW x \in Index!Workers, Index!Serve(x) \/ Index!Received(x) \/ Index!EmbedFails(x)
      PROVE  IndexFits'
  BY <1>6, ServiceAnswers, WorkersIdle
<1> QED
  BY <1>1, <1>2, <1>3, <1>4, <1>5, <1>6 DEF Index!Next

LEMMA IndexAlwaysFits ==
  ASSUME Index!IndexConstants PROVE Index!Spec => []IndexFits
<1>1. Index!Init => IndexFits
  BY AllIdle
<1>2. IndexFits /\ [Index!Next]_(Index!vars) => IndexFits'
  BY IndexSteps
<1> QED
  BY <1>1, <1>2, PTL DEF Index!Spec

\* The rows of the index, what searches left to tasks and the workers keep their shapes.
THEOREM IndexHasTypes ==
  ASSUME Index!IndexConstants PROVE Index!Spec => []Index!TypeOK
<1>1. IndexFits => Index!TypeOK
  BY DEF IndexFits, IndexTypes, Index!TypeOK, Messages
<1> QED
  BY <1>1, IndexAlwaysFits, PTL

\* A message that counts as indexed has a vector of every chunk, whoever wrote it and whatever
\* stopped, failed or overlapped (conv_search: flush, reindex, _index_outside).
THEOREM WholeOrNotIndexed ==
  ASSUME Index!IndexConstants PROVE Index!Spec => []Index!IndexedIsWhole
<1>1. IndexFits => Index!IndexedIsWhole
  BY DEF IndexFits
<1> QED
  BY <1>1, IndexAlwaysFits, PTL

\* What a search left to a task is with a task that is at work (conv_search: _OUTSIDE).
THEOREM HandedOverIsWithATask ==
  ASSUME Index!IndexConstants PROVE Index!Spec => []Index!HandedOverIsUnderWay
<1>1. IndexFits => Index!HandedOverIsUnderWay
  BY DEF IndexFits, InHands, Index!HandedOverIsUnderWay
<1> QED
  BY <1>1, IndexAlwaysFits, PTL
=============================================================================
