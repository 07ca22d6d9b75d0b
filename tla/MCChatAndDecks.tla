--------------------------- MODULE MCChatAndDecks ---------------------------
(* Instances of ChatAndDecks for TLC, in one run: `part` is chosen at the    *)
(* start.  Two turns of a conversation without decks, one chat and a deck, or *)
(* decks ordered by two requests, of one person who orders one deck twice     *)
(* and looks at it, and deaths of the portal.                                 *)
EXTENDS ChatAndDecks, TLC

CONSTANTS t1, t2, x1, x2, r1, h1, h2, p1, j1, j2, o1

VARIABLE part

OneRun == [t \in Turns |-> r1]

\* A deliberation beside a chat; two tabs on one routine run; chats.
Kinds3 == {[t \in Turns |-> IF t = t1 THEN "delib" ELSE "plain"],
           [t \in Turns |-> "routine"], [t \in Turns |-> "plain"]}
One == {[h \in Handlers |-> p1]}

PartInit ==
  /\ BothInit /\ part \in {"turns", "both", "decks"}
  /\ part = "turns" <=> kind # [t \in Turns |-> "plain"]

\* One chat, and one request at a time about one deck.
OneEach ==
  /\ turn[t2].resp = "idle" /\ hs[h2] = Decks!Idle
  /\ sent[j2] = NoOrder /\ hs[h1].job # j2

\* Jobs are alike: the first that is drawn is j1.
InOrder == (\E h \in Handlers : hs[h].job = j2) =>
  sent[j1] # NoOrder \/ \E h \in Handlers : hs[h].job = j1

PartNext ==
  /\ \/ part = "turns" /\ Next /\ UNCHANGED deckVars
     \/ part = "both" /\ BothNext /\ OneEach'
     \/ part = "decks" /\ Decks!DeckNext /\ InOrder' /\ UNCHANGED chatVars
  /\ UNCHANGED part

PartSpec == PartInit /\ [][PartNext]_<<vars, deckVars, part>>
=============================================================================
