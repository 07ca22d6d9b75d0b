------------------------------- MODULE MCParts -------------------------------
(* Components that do not touch each other, for TLC in one run: `part` is    *)
(* chosen at the start and says which of them moves (procedures of several   *)
(* shapes are in MCProcedureShapes).                                         *)
EXTENDS RoutineRuns, MCProcedureShapes, TLC

CONSTANTS h1, h2, h3, g1, g2, j1, j2, j3, p1, o1, e1, e2, a1, a2, b1, Unset

VARIABLES
  part,
  box, step, pstage, prun,
  trec, up, brought, deaths,
  row, out, from, killed, dead, xhs,
  now, at, written, card, cursor, partial, pull, cut, gone, ihs, fails,
  call, sem, streams, left, seen, said,
  space, tag, known, indexed, outside, w, searches, embedFails, restarts,
  accounts, shown, requests, aasks

\* A routine: the executor, a second call of the same executor, the person.  The executor
\* that was told the run waits ends its turn; the next one, with the person's answer, comes
\* while it waits.
Roles == [h \in Handlers |->
  CASE h = h1 -> {"call", "close", "report", "ra"}
    [] h = h2 -> {"call"}
    [] OTHER -> {"pick", "close", "resume", "cancel"}]
Turns == [h \in Handlers |-> IF h = h1 THEN {"running"} ELSE {"waiting"}]
StopAtFirst == [s \in Steps |-> IF s = 1 THEN {"denied"} ELSE {}]

\* Two backends, of one of which one tool has the name of one that writes; no tool is listed
\* both as writing and as reading.
Plan == INSTANCE RoutinePlan WITH
  Backends <- {e1, e2}, Tools <- {a1, a2, b1},
  BackendOf <- [t \in {a1, a2, b1} |-> IF t = b1 THEN e2 ELSE e1],
  Writey <- {a2}, Stoppers <- {"denied"}, stage <- pstage, run <- prun

Tickets == INSTANCE PcTickets WITH
  People <- {p1}, Uploads <- {g1, g2}, OpenMax <- 2, MaxTickets <- 3, MaxDeaths <- 1, rec <- trec

Tokens == INSTANCE TokenExchange WITH
  Tokens <- {j1, j2, j3}, Handlers <- {g1, g2}, MaxLive <- 1, None <- Unset, hs <- xhs

\* Five jobs, more in one overlap than a pull takes.
Pulls == INSTANCE Insights WITH
  Jobs <- 1 .. 5, Limit <- 2, PagesMax <- 2, Overlap <- 2, Late <- 1, PullTime <- 1,
  Handlers <- {}, MaxTime <- 6, MaxFails <- 1, hs <- ihs

\* One card, two requests.
Owners == INSTANCE Insights WITH
  Jobs <- {1}, Limit <- 2, PagesMax <- 2, Overlap <- 1, Late <- 1, PullTime <- 0,
  Handlers <- {g1, g2}, MaxTime <- 3, MaxFails <- 1, hs <- ihs

\* The constants are such that no card is missed.
ASSUME CardAssumption == Pulls!PullConstants /\ Owners!PullConstants

\* Two calls for one place.
Reviews == INSTANCE CardReview WITH Calls <- {g1, g2}, Places <- 1, up <- streams

\* Messages of two chunks, of one and of none, in batches of one.
Index == INSTANCE ConvIndex WITH
  Searches <- {g1, g2}, Tasks <- {j1, j2}, N <- 3, Size <- [m \in 1 .. 3 |-> 3 - m], Batch <- 1,
  Spaces <- 2, MaxSearches <- 2, MaxFails <- 1, MaxRestarts <- 1, row <- indexed,
  fails <- embedFails

ASSUME IndexAssumption == Index!IndexConstants

\* An empty ledger with a founder, or two administrators of one sabun beside a pinned one.
NotEntered == [status |-> "none", admin |-> FALSE, local |-> FALSE, sabun |-> FALSE]
Entered(mark) == [status |-> "active", admin |-> mark, local |-> mark, sabun |-> mark]
Portal == INSTANCE Accounts WITH
  People <- {e1, e2, p1}, SabunOf <- [e \in {e1, e2, p1} |-> IF e = p1 THEN Unset ELSE o1],
  NoSabun <- Unset, BySabun <- TRUE, Pinned <- {p1}, Founders <- {e1},
  Ledgers <- {[e \in {e1, e2, p1} |-> NotEntered], [e \in {e1, e2, p1} |-> Entered(e # p1)]},
  Handlers <- {g1, g2}, Nobody <- Unset, MaxAsks <- 3,
  row <- accounts, hs <- requests, asks <- aasks

planVars == <<box, step, pstage, prun>>
ticketVars == <<trec, up, brought, deaths>>
tokenVars == <<row, out, from, killed, dead, xhs>>
cardVars == <<now, at, written, card, cursor, partial, pull, cut, gone, ihs, fails>>
reviewVars == <<call, sem, streams, left, seen, said>>
indexVars == <<space, tag, known, indexed, outside, w, searches, embedFails, restarts>>
accountVars == <<accounts, shown, requests, aasks>>
partVars == <<part, vars, shapeVars, planVars, ticketVars, tokenVars, cardVars, reviewVars, indexVars,
             accountVars>>
-----------------------------------------------------------------------------
\* The other parts stand still, with no values.
PartInit ==
  /\ part \in {"routine", "procedure", "plan", "tickets", "tokens", "pulls", "owners", "reviews",
              "index", "accounts"}
  /\ Init
  /\ IF part = "procedure" THEN ShapeInit
     ELSE /\ shape = Unset /\ srun = Unset /\ smode = Unset /\ sinputs = Unset
          /\ srow = Unset /\ sack = Unset /\ stask = Unset /\ ssem = Unset
          /\ slock = Unset /\ scredit = Unset /\ slate = Unset /\ sasks = Unset
          /\ srestarts = Unset
  /\ IF part = "plan" THEN Plan!Init /\ box.writes \cap box.reads = {}
     ELSE /\ box = Unset /\ step = Unset /\ pstage = Unset /\ prun = Unset
  /\ IF part = "tickets" THEN Tickets!Init
     ELSE /\ trec = Unset /\ up = Unset /\ brought = Unset /\ deaths = Unset
  /\ IF part = "tokens" THEN Tokens!Init
     ELSE /\ row = Unset /\ out = Unset /\ from = Unset /\ killed = Unset
          /\ dead = Unset /\ xhs = Unset
  /\ IF part = "reviews" THEN Reviews!Init
     ELSE /\ call = Unset /\ sem = Unset /\ streams = Unset /\ left = Unset
          /\ seen = Unset /\ said = Unset
  /\ IF part = "index" THEN Index!Init
     ELSE /\ space = Unset /\ tag = Unset /\ known = Unset /\ indexed = Unset
          /\ outside = Unset /\ w = Unset /\ searches = Unset /\ embedFails = Unset
          /\ restarts = Unset
  /\ IF part = "accounts" THEN Portal!Init
     ELSE /\ accounts = Unset /\ shown = Unset /\ requests = Unset /\ aasks = Unset
  /\ CASE part = "pulls" -> Pulls!Init
       [] part = "owners" -> Owners!Init
       [] OTHER ->
          /\ now = Unset /\ at = Unset /\ written = Unset /\ card = Unset
          /\ cursor = Unset /\ partial = Unset /\ pull = Unset /\ cut = Unset
          /\ gone = Unset /\ ihs = Unset /\ fails = Unset

PartNext ==
  /\ IF part = "routine" THEN Next ELSE UNCHANGED vars
  /\ IF part = "procedure" THEN ShapeNext ELSE UNCHANGED shapeVars
  /\ IF part = "plan" THEN Plan!Next ELSE UNCHANGED planVars
  /\ IF part = "tickets" THEN Tickets!Next ELSE UNCHANGED ticketVars
  /\ IF part = "tokens" THEN Tokens!Next ELSE UNCHANGED tokenVars
  /\ IF part = "reviews" THEN Reviews!Next ELSE UNCHANGED reviewVars
  /\ IF part = "index" THEN Index!Next ELSE UNCHANGED indexVars
  /\ IF part = "accounts" THEN Portal!Next ELSE UNCHANGED accountVars
  /\ CASE part = "pulls" -> Pulls!Next
       [] part = "owners" -> Owners!Next
       [] OTHER -> UNCHANGED cardVars
  /\ UNCHANGED part

PartSpec == PartInit /\ [][PartNext]_partVars

\* What is interchangeable in every part.
PartSymmetry == Permutations({g1, g2}) \cup Permutations({j1, j2})
-----------------------------------------------------------------------------
\* A step the screen shows as ready starts, and may call the tools the screen offered
\* (RoutinePlan!ReadyStepsStart, PlanAgreesWithTheScreen).
ScreensAgree == part = "plan" => Plan!ReadyStepsStart /\ Plan!PlanAgreesWithTheScreen

\* A ticket brings one document, or none (PcTickets!TypeOK, TicketsServeOnce).
TicketsServeOnce == part = "tickets" => Tickets!TypeOK /\ Tickets!TicketsServeOnce

\* No token outlives the one it was exchanged from, and the children of one keep to the limit
\* (TokenExchange!TypeOK, RevokedTakeTheirChildren, ChildrenWithinLimit).
RevokedTakeTheirChildren ==
  part = "tokens" =>
    Tokens!TypeOK /\ Tokens!RevokedTakeTheirChildren /\ Tokens!ChildrenWithinLimit

\* A pull misses no card for its moving on, and a withdrawn card stays withdrawn
\* (Insights!TypeOK, NoCardIsPassed, WithdrawnStay).
CardsAreKept ==
  /\ part = "pulls" => Pulls!TypeOK /\ Pulls!NoCardIsPassed
  /\ part = "owners" => Owners!TypeOK /\ Owners!WithdrawnStay

\* A run of the card review gives its place back, is recorded and is told once
\* (CardReview!PlacesMatchRuns, EndsAreRecordedOnce, AppIsTold).
ReviewsEndOnce ==
  part = "reviews" =>
    /\ Reviews!TypeOK /\ Reviews!PlacesMatchRuns
    /\ Reviews!EndsAreRecordedOnce /\ Reviews!AppIsTold

\* What counts as indexed is indexed to its end, and what is left to a task is with one
\* (ConvIndex!IndexedIsWhole, HandedOverIsUnderWay).
IndexIsWhole ==
  part = "index" => Index!TypeOK /\ Index!IndexedIsWhole /\ Index!HandedOverIsUnderWay

\* Once somebody administers the portal, somebody always does, and accounts keep their types
\* (Accounts!AnAdministratorRemains, TypeOK).
AnAdministratorRemains ==
  [][part = "accounts" => Portal!TypeOK /\ (Portal!Admins # {} => Portal!Admins' # {})]_accountVars
=============================================================================
