---------------------------- MODULE TokenExchange ----------------------------
(***************************************************************************)
(* Personal access tokens of the portal (auth/token_store.py and           *)
(* auth/routes/pat.py): a person's token can be exchanged for narrower     *)
(* ones, its children, which die with it.  Requests are served by threads; *)
(* each call of the store holds its lock, between two calls anything may   *)
(* happen.  A child never expires later than its parent.                   *)
(***************************************************************************)
EXTENDS Naturals, FiniteSets

CONSTANTS
  Tokens,     \* ids of tokens
  Handlers,   \* exchanges under way at the same time
  MaxLive,    \* live children of one token (MAX_LIVE_CHILDREN)
  None        \* no token

VARIABLES
  row,     \* what the store holds of each token
  out,     \* tokens that were handed out
  from,    \* history: the token each was exchanged from
  killed,  \* history: tokens that were revoked
  dead,    \* expired tokens
  hs       \* what each exchange is at

vars == <<row, out, from, killed, dead, hs>>

Rows == {"none", "live", "revoked"}
Steps == {"idle", "source", "room", "mint", "record"}
Idle == [pc |-> "idle", src |-> None, new |-> None]

Children(p) == {t \in Tokens : from[t] = p}
LiveChildren(p) == {t \in Children(p) : row[t] = "live" /\ t \notin dead}
\* Ids that were not drawn yet.
Fresh == {t \in Tokens : t \notin out /\ row[t] = "none" /\ from[t] = None
                         /\ \A h \in Handlers : hs[h].new # t}
-----------------------------------------------------------------------------
Init ==
  /\ row = [t \in Tokens |-> "none"]
  /\ out = {} /\ killed = {} /\ dead = {}
  /\ from = [t \in Tokens |-> None]
  /\ hs = [h \in Handlers |-> Idle]

\* A person makes a token on the token screen.
CreatePat(t) ==
  /\ t \in Fresh
  /\ row' = [row EXCEPT ![t] = "live"]
  /\ out' = out \cup {t}
  /\ UNCHANGED <<from, killed, dead, hs>>

\* An exchange begins: the source is verified against the list of the revoked, for which
\* rows of expired tokens are removed; just after its end a token still passes.
Verify(h, s) ==
  /\ hs[h].pc = "idle" /\ s \in out /\ (row[s] = "revoked" => s \in dead)
  /\ row' = [t \in Tokens |-> IF t \in dead THEN "none" ELSE row[t]]
  /\ hs' = [hs EXCEPT ![h] = [pc |-> "source", src |-> s, new |-> None]]
  /\ UNCHANGED <<out, from, killed, dead>>

\* A source must be live in the store, and not be a child itself (pat_is_exchangeable).
Exchangeable(h) ==
  LET s == hs[h].src IN
  /\ hs[h].pc = "source"
  /\ hs' = [hs EXCEPT ![h] =
       IF row[s] = "live" /\ from[s] = None THEN [hs[h] EXCEPT !.pc = "room"] ELSE Idle]
  /\ UNCHANGED <<row, out, from, killed, dead>>

\* Not too many children, as far as one can see before a token is made.
HasRoom(h) ==
  /\ hs[h].pc = "room"
  /\ hs' = [hs EXCEPT ![h] =
       IF Cardinality(LiveChildren(hs[h].src)) >= MaxLive THEN Idle ELSE [hs[h] EXCEPT !.pc = "mint"]]
  /\ UNCHANGED <<row, out, from, killed, dead>>

\* The child is signed; it is not recorded yet.
Mint(h) ==
  /\ hs[h].pc = "mint"
  /\ \E t \in Fresh : hs' = [hs EXCEPT ![h].new = t, ![h].pc = "record"]
  /\ UNCHANGED <<row, out, from, killed, dead>>

\* The child is recorded on the strength of the earlier checks.
RecordUnseen(h) ==
  LET s == hs[h].src  t == hs[h].new IN
  /\ hs[h].pc = "record"
  /\ row' = [row EXCEPT ![t] = "live"]
  /\ from' = [from EXCEPT ![t] = s]
  /\ out' = out \cup {t}
  /\ dead' = IF s \in dead THEN dead \cup {t} ELSE dead
  /\ hs' = [hs EXCEPT ![h] = Idle]
  /\ UNCHANGED killed

\* The child is recorded and handed out unless the source was revoked since, or others took
\* the room (record_exchanged_pat).
RecordExchanged(h) ==
  LET s == hs[h].src  t == hs[h].new IN
  /\ hs[h].pc = "record"
  /\ IF row[s] = "revoked" \/ Cardinality(LiveChildren(s)) >= MaxLive
     THEN UNCHANGED <<row, from, out, dead>>
     ELSE /\ row' = [row EXCEPT ![t] = "live"]
          /\ from' = [from EXCEPT ![t] = s]
          /\ out' = out \cup {t}
          /\ dead' = IF s \in dead THEN dead \cup {t} ELSE dead
  /\ hs' = [hs EXCEPT ![h] = Idle]
  /\ UNCHANGED killed

\* A token is revoked, by its owner, an administrator or its holder, and its children are.
RevokePat(t) ==
  /\ row[t] # "none"
  /\ row' = [u \in Tokens |-> IF u = t \/ (from[u] = t /\ row[u] = "live") THEN "revoked" ELSE row[u]]
  /\ killed' = killed \cup {t}
  /\ UNCHANGED <<out, from, dead, hs>>

\* The person's account is suspended: all that is recorded is revoked.
RevokeAll ==
  /\ row' = [t \in Tokens |-> IF row[t] = "live" THEN "revoked" ELSE row[t]]
  /\ killed' = killed \cup {t \in Tokens : row[t] # "none"}
  /\ UNCHANGED <<out, from, dead, hs>>

\* The gateway asks for the list of the revoked.
RevokedList ==
  /\ row' = [t \in Tokens |-> IF t \in dead THEN "none" ELSE row[t]]
  /\ UNCHANGED <<out, from, killed, dead, hs>>

\* A token expires, no earlier than its children.
Expire(t) ==
  /\ t \in out \ dead /\ Children(t) \subseteq dead
  /\ dead' = dead \cup {t}
  /\ UNCHANGED <<row, out, from, killed, hs>>

Next ==
  \/ \E t \in Tokens : CreatePat(t) \/ RevokePat(t) \/ Expire(t)
  \/ \E h \in Handlers :
       \/ Exchangeable(h) \/ HasRoom(h) \/ Mint(h) \/ RecordExchanged(h)
       \/ \E s \in Tokens : Verify(h, s)
  \/ RevokeAll \/ RevokedList

Spec == Init /\ [][Next]_vars
-----------------------------------------------------------------------------
(* Properties                                                              *)

\* The store, the handed-out tokens and the exchanges have the shapes of their code.
TypeOK ==
  /\ row \in [Tokens -> Rows] /\ from \in [Tokens -> Tokens \cup {None}]
  /\ out \subseteq Tokens /\ killed \subseteq Tokens /\ dead \subseteq Tokens
  /\ hs \in [Handlers -> [pc : Steps, src : Tokens \cup {None}, new : Tokens \cup {None}]]

\* A token that was revoked is good for nothing, and neither is what was exchanged from it,
\* in however many steps, before or while it was revoked: each is on the list of the revoked
\* until it expires (record_exchanged_pat, revoke_pat).
RevokedTakeTheirChildren ==
  \A t \in out \ dead :
    (\/ t \in killed
     \/ from[t] \in killed
     \/ from[t] # None /\ from[from[t]] \in killed) => row[t] = "revoked"

\* However many exchanges run at once, the live children of a token keep to the limit.
ChildrenWithinLimit == \A p \in Tokens : Cardinality(LiveChildren(p)) <= MaxLive
=============================================================================
