---------------------------- MODULE ChatAndDecks ----------------------------
(***************************************************************************)
(* Two components that write to one conversation and know little of each   *)
(* other: the relay of its chat turns (ChatRelay) and the notices of decks *)
(* that are made beside it (DeckJobs).  A notice is to stay out of the gap *)
(* between a question and its answer; the relay counts the turns under way *)
(* and the notice looks at that count.                                     *)
(***************************************************************************)
EXTENDS ChatRelay

CONSTANTS Handlers, People, Crews, Jobs, Orders, NoOrder, Max, BoxMax, MaxAsks, MaxCrashes

ASSUME DeckAssumption ==
  /\ Crews \subseteq [Handlers -> People] /\ IsFiniteSet(Jobs)
  /\ Max \in Nat /\ BoxMax \in Nat
  /\ MaxAsks \in Nat /\ MaxCrashes \in Nat /\ Nobody \notin Handlers \cup People
  /\ NoOrder \notin Orders /\ Jobs \cap Turns = {}

VARIABLES who, rec, maker, hs, creating, joblock, sent, astray, again, asks, crashes

\* The turns of the conversation the relay counts (turn_active).
turn_active == \E t \in Turns : turn[t].counted

Decks == INSTANCE DeckJobs WITH lock <- joblock, turns <- turn_active

deckVars == <<who, rec, maker, hs, creating, joblock, sent, astray, again, asks, crashes>>
chatVars == <<kind, turn, gone, relays, by, lock, stop, stopped, unheard, lost, fails>>
-----------------------------------------------------------------------------
\* Both components start with the conversation empty and no turn counted.
BothInit ==
  /\ Init
  /\ who \in Crews
  /\ rec = [j \in Jobs |-> Decks!NoRecord]
  /\ maker = [j \in Jobs |-> "none"]
  /\ hs = [h \in Handlers |-> Decks!Idle]
  /\ creating = Nobody /\ joblock = [j \in Jobs |-> Nobody]
  /\ sent = [j \in Jobs |-> NoOrder] /\ astray = {} /\ again = {} /\ asks = 0 /\ crashes = 0

\* A death of the portal would take the turns with it: here it does not die.
BothNext ==
  \/ Next /\ UNCHANGED deckVars
  \/ /\ \/ \E j \in Jobs : Decks!Age(j) \/ Decks!Make(j) \/ Decks!Expire(j)
        \/ \E h \in Handlers : Decks!Handle(h)
     /\ UNCHANGED chatVars

BothSpec == BothInit /\ [][BothNext]_<<vars, deckVars>>
-----------------------------------------------------------------------------
(* Properties                                                              *)

\* A person's deck jobs keep to their limit, and the records to their types, though steps on
\* them are put off while a chat is under way (DeckJobs!LimitHolds).
LimitHolds == Decks!TypeOK /\ Decks!LimitHolds

\* An order is not made twice (DeckJobs!OrdersAreMadeOnce).
OrdersAreMadeOnce == Decks!OrdersAreMadeOnce

\* The end of a deck job is told once, whatever else is written to the conversation, and an end
\* that counts as told is there until the conversation is deleted (_post_notice, append_message).
DeckEndsAreTold ==
  /\ \A i, k \in DOMAIN conv : (conv[i].of \in Jobs /\ conv[k].of = conv[i].of) => i = k
  /\ Decks!ToldEndsAreThere

\* A stored question whose answer may still come.
Open(t) ==
  /\ \E i \in DOMAIN conv : conv[i].role = "user" /\ conv[i].of = t
  /\ ~ \E i \in DOMAIN conv : conv[i].role = "assistant" /\ conv[i].of = t
  /\ turn[t].keep /\ turn[t].resp \notin {"idle", "out"} /\ turn[t].pump # "done"

\* A notice is let through only when no stored question waits for its answer, from the
\* moment the question is stored, whatever the relay has heard of that (_turn_begin).
NoticesKeepToTheGaps ==
  [][\A h \in Handlers :
       (hs[h].pc = "post" /\ hs'[h].pc = "append") => \A t \in Turns : ~ Open(t)]_<<vars, deckVars>>
=============================================================================
