----------------------------- MODULE MCLiveness -----------------------------
(* What must come about at the router and in a conversation, for TLC in one  *)
(* run: `part` is chosen at the start and says which component moves, under  *)
(* the fairness that component states.                                       *)
EXTENDS Naturals

CONSTANTS t1, t2, r1, s1, q1, m, NoModel, Nobody

VARIABLES
  part,
  life, alive, gen, ups, srv, checks, req, total, arrived, lost, troubles, reloads,
  kind, turn, conv, gone, relays, by, lock, stop, stopped, unheard, unsaved, fails

\* A server that is lost and comes back, and a request that meets it.
Router == INSTANCE LlmRouter WITH
  Servers <- {s1}, Requests <- {q1}, FirstList <- {}, Models <- {m},
  Offer <- [l \in 1 .. 2 |-> [x \in {m} |-> 1]], Wants <- [q \in {q1} |-> NoModel], Keyed <- {},
  Rank <- [q \in {q1} |-> [s \in {s1} |-> 1]], StickySlack <- 2, KeepFails <- 2,
  TimeoutsDown <- 1, OtherLoad <- 0, Lives <- 2, Troubles <- 2, Reloads <- 1

\* Two turns of a conversation: a deliberation beside a chat, or two tabs on one routine run.
Turns == {t1, t2}
Chat == INSTANCE ChatRelay WITH
  Mixes <- {[t \in Turns |-> IF t = t1 THEN "delib" ELSE "plain"], [t \in Turns |-> "routine"]},
  RunOf <- [t \in Turns |-> r1], Stoppers <- {}, Permits <- 2, Cap <- 1, MaxDetached <- 1,
  Deletes <- FALSE, MaxFails <- 0, lost <- unsaved

routerVars == <<life, alive, gen, ups, srv, checks, req, total, arrived, lost, troubles, reloads>>
chatVars == <<kind, turn, conv, gone, relays, by, lock, stop, stopped, unheard, unsaved, fails>>
vars == <<part, routerVars, chatVars>>

Init ==
  \/ part = "router" /\ Router!Init /\ Chat!Init /\ kind[t1] = "routine"
  \/ part = "chat" /\ Router!Init /\ Chat!Init

Next ==
  /\ \/ part = "router" /\ Router!Next /\ UNCHANGED chatVars
     \/ part = "chat" /\ Chat!Next /\ UNCHANGED routerVars
  /\ UNCHANGED part

\* The fairness of each component (Fairness in its module) while it is the one that moves.
RouterFairness ==
  /\ WF_routerVars(part = "router" /\ Router!CheckModels)
  /\ WF_routerVars(part = "router" /\ Router!Scrape(s1))
  /\ WF_routerVars(part = "router" /\ Router!CoolDownEnds(s1))
  /\ WF_routerVars(part = "router" /\ Router!CheckStep(s1))
  /\ WF_routerVars(/\ part = "router" /\ Router!Choose(q1)
                   /\ UNCHANGED <<life, alive, ups, checks, reloads>>)
  /\ WF_routerVars(/\ part = "router" /\ Router!Abandon(q1)
                   /\ UNCHANGED <<life, alive, ups, checks, reloads>>)

ChatFairness ==
  \A t \in Turns :
    /\ WF_chatVars(part = "chat" /\ Chat!Pump(t)) /\ WF_chatVars(part = "chat" /\ Chat!Respond(t))
    /\ SF_chatVars(part = "chat" /\ Chat!TakeLock(t))

Spec == Init /\ [][Next]_vars /\ RouterFairness /\ ChatFairness
-----------------------------------------------------------------------------
\* A server that stays up and in the list is used again (LlmRouter!HealthyComesBack).
ServersComeBack == <>[](part = "router" /\ alive[s1] /\ s1 \in ups) => <>[]Router!Up(s1)

\* A request whose client left ends, and with it the generation (LlmRouter!LeftIsReleased).
LeftRequestsAreReleased == (part = "router" /\ req[q1].gone) ~> req[q1].pc = "ended"

\* A turn whose browser left comes to its end, one that waited for room included
\* (ChatRelay!LeftTurnsEnd).
LeftTurnsEnd ==
  \A t \in Turns :
    (part = "chat" /\ (turn[t].resp = "leave" \/ turn[t].detached)) ~> Chat!Over(t)
=============================================================================
