-------------------------- MODULE LlmRouter_proofs --------------------------
(***************************************************************************)
(* Theorems about LlmRouter, for every value of its constants: any number  *)
(* of servers, requests, processes, mishaps and changes of the list.       *)
(*                                                                         *)
(* `inflight` goes down in the finally clause without a look at its value. *)
(* That it is a natural number is no matter of types: it follows from the  *)
(* counts being true.  So the typing is proved in two parts, a first one   *)
(* with integers for the counts, which the counts are proved from.  After  *)
(* it comes what the router promises of requests and outages: where a      *)
(* request has been, who works for it, what ends an outage, and which      *)
(* server is tried first.                                                  *)
(***************************************************************************)
EXTENDS LlmRouter, FiniteSetTheorems, TLAPS

\* An Upstream object whose counts are integers.
Object ==
  [cool : BOOLEAN, noted : BOOLEAN, downs : Nat, models : 0 .. Lives,
   timeouts : 0 .. TimeoutsDown, metrics : Nat \cup {NoMetrics}, fails : 0 .. KeepFails,
   inflight : Int, atScrape : Int]

Objects == [Servers -> Object]

Typing ==
  /\ life \in [Servers -> 1 .. Lives] /\ alive \in [Servers -> BOOLEAN]
  /\ gen \in [Servers -> SUBSET Requests]
  /\ ups \subseteq Servers
  /\ srv \in Objects
  /\ checks \subseteq Checks
  /\ req \in [Requests -> RequestRecords]
  /\ total \in Int
  /\ arrived \in [Requests -> Nat]
  /\ lost \in [Servers -> [noted : 0 .. Lives, last : 0 .. Lives]]
  /\ troubles \in 0 .. Troubles /\ reloads \in 0 .. Reloads

\* Between two states of the objects no list was taken and no outage noted.
SameOutages(u, v) ==
  \A s \in Servers : v[s].models = u[s].models /\ v[s].downs = u[s].downs

\* Between two states of the objects no request came or went; a probe may have
\* kept the count.
SameCounts(u, v) ==
  \A s \in Servers : /\ v[s].inflight = u[s].inflight
                     /\ v[s].atScrape \in {u[s].atScrape, u[s].inflight}

\* Between two states of the objects requests came or went, and nothing else.
OnlyCounts(u, v) == SameOutages(u, v) /\ \A s \in Servers : v[s].atScrape = u[s].atScrape

-----------------------------------------------------------------------------
(* What the helpers do to the objects.                                       *)

LEMMA FreshType == Fresh \in Object
BY KnobAssumption DEF Fresh, Object, NoMetrics

LEMMA MarkDownType ==
  ASSUME NEW u \in Objects, NEW s \in Servers
  PROVE  MarkDown(u, s) \in Objects /\ SameCounts(u, MarkDown(u, s))
<1> DEFINE d == IF u[s].noted THEN u[s].downs ELSE u[s].downs + 1
           l == IF u[s].noted THEN u[s].models ELSE 0
           o == [u[s] EXCEPT !.cool = TRUE, !.noted = TRUE, !.downs = d, !.models = l]
<1>1. u[s] \in Object /\ u \in [Servers -> Object]
  BY DEF Objects
<1>2. d \in Nat /\ l \in 0 .. Lives
  BY <1>1, KnobAssumption DEF Object
<1>3. MarkDown(u, s) = [u EXCEPT ![s] = o]
  BY <1>1 DEF MarkDown
<1> HIDE DEF d, l
<1>4. o \in Object /\ o.inflight = u[s].inflight /\ o.atScrape = u[s].atScrape
  BY <1>1, <1>2 DEF Object
<1> HIDE DEF o
<1> QED
  BY <1>1, <1>3, <1>4 DEF Objects, SameCounts, SameOutages

LEMMA AnsweredType ==
  ASSUME NEW u \in Objects, NEW s \in Servers
  PROVE  /\ Answered(u, s) \in Objects
         /\ SameCounts(u, Answered(u, s)) /\ SameOutages(u, Answered(u, s))
<1> DEFINE o == [u[s] EXCEPT !.timeouts = 0]
<1>1. u[s] \in Object /\ u \in [Servers -> Object]
  BY DEF Objects
<1>2. 0 \in 0 .. TimeoutsDown
  BY <1>1, KnobAssumption DEF Object
<1>3. Answered(u, s) = [u EXCEPT ![s] = o]
  BY <1>1 DEF Answered
<1>4. o \in Object /\ o.inflight = u[s].inflight
     /\ o.atScrape \in {u[s].atScrape, u[s].inflight}
     /\ o.models = u[s].models /\ o.downs = u[s].downs
  BY <1>1, <1>2 DEF Object
<1> HIDE DEF o
<1> QED
  BY <1>1, <1>3, <1>4 DEF Objects, SameCounts, SameOutages

LEMMA TimedOutType ==
  ASSUME NEW u \in Objects, NEW s \in Servers
  PROVE  /\ TimedOut(u, s) \in Objects
         /\ SameCounts(u, TimedOut(u, s)) /\ SameOutages(u, TimedOut(u, s))
<1> DEFINE n == IF u[s].timeouts < TimeoutsDown THEN u[s].timeouts + 1 ELSE u[s].timeouts
           o == [u[s] EXCEPT !.timeouts = n]
<1>1. u[s] \in Object /\ u \in [Servers -> Object]
  BY DEF Objects
<1>2. n \in 0 .. TimeoutsDown
  BY <1>1, KnobAssumption DEF Object
<1>3. TimedOut(u, s) = [u EXCEPT ![s] = o]
  BY <1>1 DEF TimedOut
<1> HIDE DEF n
<1>4. o \in Object /\ o.inflight = u[s].inflight
     /\ o.atScrape \in {u[s].atScrape, u[s].inflight}
     /\ o.models = u[s].models /\ o.downs = u[s].downs
  BY <1>1, <1>2 DEF Object
<1> HIDE DEF o
<1> QED
  BY <1>1, <1>3, <1>4 DEF Objects, SameCounts, SameOutages

LEMMA MetricsMissType ==
  ASSUME NEW u \in Objects, NEW s \in Servers
  PROVE  /\ MetricsMiss(u, s) \in Objects
         /\ SameCounts(u, MetricsMiss(u, s)) /\ SameOutages(u, MetricsMiss(u, s))
<1> DEFINE n == IF u[s].fails < KeepFails THEN u[s].fails + 1 ELSE KeepFails
           l == IF n < KeepFails THEN u[s].metrics ELSE NoMetrics
           o == [u[s] EXCEPT !.fails = n, !.metrics = l]
<1>1. u[s] \in Object /\ u \in [Servers -> Object]
  BY DEF Objects
<1>2. n \in 0 .. KeepFails /\ l \in Nat \cup {NoMetrics}
  BY <1>1, KnobAssumption DEF Object
<1>3. MetricsMiss(u, s) = [u EXCEPT ![s] = o]
  BY <1>1 DEF MetricsMiss
<1> HIDE DEF n, l
<1>4. o \in Object /\ o.inflight = u[s].inflight
     /\ o.atScrape \in {u[s].atScrape, u[s].inflight}
     /\ o.models = u[s].models /\ o.downs = u[s].downs
  BY <1>1, <1>2 DEF Object
<1> HIDE DEF o
<1> QED
  BY <1>1, <1>3, <1>4 DEF Objects, SameCounts, SameOutages

LEMMA MetricsNoneType ==
  ASSUME NEW u \in Objects, NEW s \in Servers
  PROVE  /\ MetricsNone(u, s) \in Objects
         /\ SameCounts(u, MetricsNone(u, s)) /\ SameOutages(u, MetricsNone(u, s))
<1> DEFINE o == [u[s] EXCEPT !.metrics = NoMetrics, !.fails = 0]
<1>1. u[s] \in Object /\ u \in [Servers -> Object]
  BY DEF Objects
<1>2. 0 \in 0 .. KeepFails
  BY <1>1, KnobAssumption DEF Object
<1>3. MetricsNone(u, s) = [u EXCEPT ![s] = o]
  BY <1>1 DEF MetricsNone
<1>4. o \in Object /\ o.inflight = u[s].inflight
     /\ o.atScrape \in {u[s].atScrape, u[s].inflight}
     /\ o.models = u[s].models /\ o.downs = u[s].downs
  BY <1>1, <1>2 DEF Object
<1> HIDE DEF o
<1> QED
  BY <1>1, <1>3, <1>4 DEF Objects, SameCounts, SameOutages

LEMMA MetricsOkType ==
  ASSUME NEW u \in Objects, NEW s \in Servers, NEW load \in Nat
  PROVE  /\ MetricsOk(u, s, load) \in Objects
         /\ SameCounts(u, MetricsOk(u, s, load)) /\ SameOutages(u, MetricsOk(u, s, load))
<1> DEFINE o == [u[s] EXCEPT !.metrics = load, !.fails = 0,
                         !.atScrape = u[s].inflight]
<1>1. u[s] \in Object /\ u \in [Servers -> Object]
  BY DEF Objects
<1>2. 0 \in 0 .. KeepFails
  BY <1>1, KnobAssumption DEF Object
<1>3. MetricsOk(u, s, load) = [u EXCEPT ![s] = o]
  BY <1>1 DEF MetricsOk
<1>4. o \in Object /\ o.inflight = u[s].inflight
     /\ o.atScrape \in {u[s].atScrape, u[s].inflight}
     /\ o.models = u[s].models /\ o.downs = u[s].downs
  BY <1>1, <1>2 DEF Object
<1> HIDE DEF o
<1> QED
  BY <1>1, <1>3, <1>4 DEF Objects, SameCounts, SameOutages

LEMMA LetGoType ==
  ASSUME Typing, NEW u \in Objects, NEW q \in Requests
  PROVE  LetGo(u, q) \in Objects /\ OnlyCounts(u, LetGo(u, q))
<1>1. req[q].at \in Servers
  BY DEF Typing, RequestRecords
<1> QED
  BY <1>1 DEF LetGo, Objects, Object, OnlyCounts, SameOutages

LEMMA CheckType ==
  ASSUME Typing, NEW u \in Objects, NEW s \in Servers, NEW kind \in {"round", "again"}
  PROVE  Check(u, s, kind) \in Checks
BY DEF Check, Checks, Objects, Object, Typing

LEMMA LoseType ==
  ASSUME Typing, NEW s \in Servers, Lose(s)
  PROVE  lost' \in [Servers -> [noted : 0 .. Lives, last : 0 .. Lives]]
<1>1. DeadAt(s) \in 0 .. Lives
  BY KnobAssumption DEF DeadAt, Typing
<1>2. lost[s].noted \in 0 .. Lives /\ lost \in [Servers -> [noted : 0 .. Lives, last : 0 .. Lives]]
  BY DEF Typing
<1> QED
  BY <1>1, <1>2 DEF Lose

-----------------------------------------------------------------------------
(* The choice of a server.                                                   *)

LEMMA CandidatesType ==
  ASSUME NEW q, NEW u, NEW tried
  PROVE  Candidates(q, u, tried) \subseteq ups \ tried
BY Zenon DEF Candidates, SomeOf

LEMMA ChoicesType ==
  ASSUME NEW q, NEW u, NEW tried
  PROVE  Choices(q, u, tried) \subseteq Candidates(q, u, tried)
<1> DEFINE cands == Candidates(q, u, tried)
<1> HIDE DEF cands
<1> SUFFICES ASSUME NEW x \in Choices(q, u, tried) PROVE x \in cands
  BY DEF cands
<1> QED
  BY DEF Choices, cands

-----------------------------------------------------------------------------
(* What the statements of a request do to it.                                *)

Outcomes == {"none", "reply", "complete", "cut", "error", "noservers", "left"}

LEMMA EndType ==
  ASSUME Typing, NEW q \in Requests, NEW outcome \in Outcomes, End(q, outcome)
  PROVE  /\ req' \in [Requests -> RequestRecords]
         /\ total' \in Int
         /\ gen' \in [Servers -> SUBSET Requests]
<1>1. req \in [Requests -> RequestRecords] /\ req[q] \in RequestRecords
  BY DEF Typing
<1>2. [req[q] EXCEPT !.pc = "ended", !.outcome = outcome] \in RequestRecords
  BY <1>1 DEF RequestRecords, Outcomes
<1> QED
  BY <1>1, <1>2 DEF End, Typing

LEMMA TryNextType ==
  ASSUME Typing, NEW q \in Requests, NEW u \in Objects, NEW tried \in SUBSET Servers,
         TryNext(q, u, tried)
  PROVE  /\ srv' \in Objects
         /\ req' \in [Requests -> RequestRecords]
         /\ total' \in Int
         /\ gen' \in [Servers -> SUBSET Requests]
<1>1. CASE srv' = u /\ End(q, IF ups = {} THEN "noservers" ELSE "error")
  BY <1>1, EndType DEF Outcomes
<1>2. ASSUME NEW s \in Choices(q, u, tried),
             srv' = [u EXCEPT ![s].inflight = @ + 1],
             req' = [req EXCEPT ![q] = [@ EXCEPT !.pc = "connect", !.at = s, !.cur = TRUE,
                                                 !.tried = tried \cup {s}]],
             UNCHANGED <<total, gen>>
      PROVE  /\ srv' \in Objects
             /\ req' \in [Requests -> RequestRecords]
             /\ total' \in Int
             /\ gen' \in [Servers -> SUBSET Requests]
  <2>1. s \in Servers
    BY <1>2, ChoicesType, CandidatesType DEF Typing
  <2>2. srv' \in Objects
    BY <1>2, <2>1 DEF Objects, Object
  <2>3. req \in [Requests -> RequestRecords] /\ req[q] \in RequestRecords
    BY DEF Typing
  <2>4. [req[q] EXCEPT !.pc = "connect", !.at = s, !.cur = TRUE, !.tried = tried \cup {s}]
          \in RequestRecords
    BY <2>1, <2>3 DEF RequestRecords
  <2>5. req' \in [Requests -> RequestRecords]
    BY <1>2, <2>3, <2>4
  <2> QED
    BY <1>2, <2>2, <2>5 DEF Typing
<1> QED
  BY <1>1, <1>2 DEF TryNext

LEMMA RequestTyping ==
  ASSUME Typing, NEW q \in Requests, RequestStep(q)
  PROVE  Typing'
<1> USE DEF Outcomes
<1>1. /\ srv \in Objects /\ req[q].at \in Servers /\ req[q].tried \in SUBSET Servers
      /\ req \in [Requests -> RequestRecords] /\ req[q] \in RequestRecords
  BY DEF Typing, RequestRecords
<1> DEFINE down == IF req[q].cur THEN MarkDown(srv, req[q].at) ELSE srv
<1>3. /\ down \in Objects
      /\ LetGo(down, q) \in Objects /\ LetGo(srv, q) \in Objects
  BY <1>1, MarkDownType, LetGoType
<1>4. ASSUME IF req[q].cur THEN Lose(req[q].at) ELSE UNCHANGED lost
      PROVE  lost' \in [Servers -> [noted : 0 .. Lives, last : 0 .. Lives]]
  BY <1>1, <1>4, LoseType DEF Typing
<1>5. ASSUME Trouble \/ UNCHANGED troubles PROVE troubles' \in 0 .. Troubles
  BY <1>5, KnobAssumption DEF Typing, Trouble
<1>2. /\ \A pc \in {"parse", "connect", "wait", "stream", "ended"} :
            [req[q] EXCEPT !.pc = pc] \in RequestRecords
      /\ [req[q] EXCEPT !.pc = "stream", !.outcome = "reply"] \in RequestRecords
  BY <1>1 DEF RequestRecords
<1> HIDE DEF down
<1> SUFFICES /\ srv' \in Objects /\ req' \in [Requests -> RequestRecords]
             /\ total' \in Int /\ gen' \in [Servers -> SUBSET Requests]
             /\ arrived' \in [Requests -> Nat]
             /\ lost' \in [Servers -> [noted : 0 .. Lives, last : 0 .. Lives]]
             /\ troubles' \in 0 .. Troubles
  BY DEF RequestStep, Typing, world
<1>6. CASE Receive(q)
  <2>1. req' \in [Requests -> RequestRecords]
    BY <1>1, <1>2, <1>6 DEF Receive
  <2> QED
    BY <1>5, <1>6, <2>1 DEF Receive, Typing
<1>7. CASE Choose(q)
  BY <1>1, <1>5, <1>7, TryNextType DEF Choose, Typing
<1>8. CASE ConnectFails(q)
  <2>1. TryNext(q, LetGo(down, q), req[q].tried)
    BY <1>8 DEF ConnectFails, down
  <2>2. IF req[q].cur THEN Lose(req[q].at) ELSE UNCHANGED lost
    BY <1>8 DEF ConnectFails
  <2>3. UNCHANGED arrived /\ (Trouble \/ UNCHANGED troubles)
    BY <1>8 DEF ConnectFails
  <2> QED
    <3>1. lost' \in [Servers -> [noted : 0 .. Lives, last : 0 .. Lives]]
      BY <1>4, <2>2
    <3>2. troubles' \in 0 .. Troubles
      BY <1>5, <2>3
    <3> QED
      BY <1>1, <1>3, <2>1, <2>3, <3>1, <3>2, TryNextType DEF Typing
<1>9. CASE Connect(q)
  <2>1. req' \in [Requests -> RequestRecords]
    BY <1>1, <1>2, <1>9 DEF Connect
  <2> QED
    BY <1>1, <1>5, <1>9, <2>1 DEF Connect, Typing
<1>10. CASE Broken(q)
  BY <1>3, <1>5, <1>10, EndType DEF Broken, Cut, Typing
<1>11. CASE Unexpected(q)
  <2>1. srv' = LetGo(down, q) /\ End(q, "error")
    BY <1>11 DEF Unexpected, down
  <2>2. IF req[q].cur THEN Lose(req[q].at) ELSE UNCHANGED lost
    BY <1>11 DEF Unexpected
  <2>3. UNCHANGED arrived /\ Trouble
    BY <1>11 DEF Unexpected
  <2> QED
    BY <1>3, <1>4, <1>5, <2>1, <2>2, <2>3, EndType DEF Typing
<1>12. CASE Headers(q)
  <2>1. req' \in [Requests -> RequestRecords]
    BY <1>1, <1>2, <1>12 DEF Headers
  <2> QED
    BY <1>5, <1>12, <2>1 DEF Headers, Typing
<1>13. CASE RelayEnds(q)
  BY <1>3, <1>5, <1>13, EndType DEF RelayEnds, Typing
<1>14. CASE RelayBroken(q)
  BY <1>3, <1>5, <1>14, EndType DEF RelayBroken, Cut, Typing
<1>15. CASE Abandon(q)
  BY <1>3, <1>5, <1>15, EndType DEF Abandon, Typing
<1> QED
  BY <1>6, <1>7, <1>8, <1>9, <1>10, <1>11, <1>12, <1>13, <1>14, <1>15 DEF RequestStep

-----------------------------------------------------------------------------
(* What the probes, the checks, the list and the servers do.                 *)

LEMMA ReachedType ==
  ASSUME Typing, NEW u \in Objects, NEW s \in Servers, Reached(u, s)
  PROVE  srv' \in Objects /\ checks' \subseteq Checks
<1>1. Check(u, s, "again") \in Checks
  BY CheckType
<1>2. u \in [Servers -> Object] /\ u[s] \in Object
  BY DEF Objects
<1>3. [u[s] EXCEPT !.noted = FALSE] \in Object
  BY <1>2 DEF Object
<1>4. srv' \in Objects
  <2>1. srv' \in {u, [u EXCEPT ![s] = [u[s] EXCEPT !.noted = FALSE]]}
    BY <1>2 DEF Reached
  <2> QED
    BY <1>2, <1>3, <2>1 DEF Objects
<1>5. checks' \subseteq Checks
  BY <1>1 DEF Reached, Typing
<1> QED
  BY <1>4, <1>5

LEMMA ScrapeTyping ==
  ASSUME Typing, NEW s \in Servers, Scrape(s)
  PROVE  Typing'
<1>1. srv \in Objects /\ gen[s] \subseteq Requests
  BY DEF Typing
<1> SUFFICES /\ srv' \in Objects /\ checks' \subseteq Checks
             /\ lost' \in [Servers -> [noted : 0 .. Lives, last : 0 .. Lives]]
             /\ troubles' \in 0 .. Troubles
  BY DEF Scrape, Typing, world
<1>2. ASSUME Trouble \/ UNCHANGED troubles PROVE troubles' \in 0 .. Troubles
  BY <1>2, KnobAssumption DEF Typing, Trouble
<1>3. CASE ScrapeRefused(s)
  BY <1>1, <1>2, <1>3, MarkDownType, LoseType DEF ScrapeRefused, Typing
<1>4. CASE ScrapeRead(s)
  <2>1. Cardinality(gen[s]) \in Nat
    BY <1>1, SetAssumption, FS_Subset, FS_CardinalityType
  <2>2. PICK load \in 0 .. Cardinality(gen[s]) + OtherLoad :
          Reached(MetricsOk(Answered(srv, s), s, load), s)
    BY <1>4 DEF ScrapeRead
  <2>3. load \in Nat
    BY <2>1, KnobAssumption
  <2>4. MetricsOk(Answered(srv, s), s, load) \in Objects
    BY <1>1, <2>3, AnsweredType, MetricsOkType
  <2> QED
    BY <1>2, <1>4, <2>2, <2>4, ReachedType DEF ScrapeRead, Typing
<1>5. CASE ScrapePoor(s)
  <2>1. /\ MetricsNone(Answered(srv, s), s) \in Objects
        /\ MetricsMiss(Answered(srv, s), s) \in Objects
        /\ MetricsMiss(TimedOut(srv, s), s) \in Objects
        /\ MetricsMiss(srv, s) \in Objects
    BY <1>1, AnsweredType, TimedOutType, MetricsNoneType, MetricsMissType
  <2> QED
    BY <1>2, <1>5, <2>1, ReachedType DEF ScrapePoor, Typing
<1> QED
  BY <1>3, <1>4, <1>5 DEF Scrape

LEMMA CheckTyping ==
  ASSUME Typing, NEW s \in Servers, CheckStep(s)
  PROVE  Typing'
<1>1. PICK c \in checks : c.s = s /\ (AnswerCheck(c) \/ Checked(c) \/ Unanswered(c))
  BY DEF CheckStep
<1>2. c \in Checks /\ srv \in Objects
  BY DEF Typing
<1>3. ASSUME Trouble \/ UNCHANGED troubles PROVE troubles' \in 0 .. Troubles
  BY <1>3, KnobAssumption DEF Typing, Trouble
<1>4. CASE AnswerCheck(c)
  <2>1. [c EXCEPT !.ans = c.to] \in Checks /\ [c EXCEPT !.ans = 0] \in Checks
    BY <1>2, KnobAssumption DEF Checks
  <2> QED
    BY <1>3, <1>4, <2>1 DEF AnswerCheck, Typing, world, history
<1>5. CASE Checked(c)
  <2>1. c.ans \in 0 .. Lives
    BY <1>2, <1>5 DEF Checked, Checks
  <2>2. Answered(srv, c.s) \in Objects
    BY <1>1, <1>2, AnsweredType
  <2>3. [Answered(srv, c.s) EXCEPT ![c.s].models = c.ans] \in Objects
    BY <1>1, <2>1, <2>2 DEF Objects, Object
  <2> QED
    BY <1>2, <1>5, <2>3 DEF Checked, Typing, world, history
<1>6. CASE Unanswered(c)
  BY <1>1, <1>2, <1>3, <1>6, TimedOutType DEF Unanswered, Typing, world, history
<1> QED
  BY <1>1, <1>4, <1>5, <1>6

LEMMA ReloadTyping == ASSUME Typing, Reload PROVE Typing'
<1>1. ups' \subseteq Servers /\ reloads' \in 0 .. Reloads
  <2>1. PICK L \in SUBSET Servers : ups' = SomeOf(L, ups)
    BY DEF Reload
  <2>2. ups' \subseteq Servers
    BY <2>1 DEF Typing, SomeOf
  <2> QED
    <3>1. reloads \in 0 .. Reloads /\ reloads < Reloads /\ reloads' = reloads + 1
      BY DEF Reload, Typing
    <3> QED
      BY <2>2, <3>1, KnobAssumption
<1>2. srv' \in Objects
  BY FreshType DEF Reload, Typing, Objects
<1>3. ASSUME NEW q \in Requests PROVE req'[q] \in RequestRecords
  <2>1. req[q] \in RequestRecords /\ (req[q].cur /\ req[q].at \notin ups \ ups') \in BOOLEAN
    BY DEF Typing, RequestRecords
  <2>2. req[q].tried \ (ups \ ups') \in SUBSET Servers
    BY <2>1 DEF RequestRecords
  <2>3. ASSUME NEW c \in BOOLEAN, NEW T \in SUBSET Servers
        PROVE  [req[q] EXCEPT !.cur = c, !.tried = T] \in RequestRecords
    BY <2>1 DEF RequestRecords
  <2>4. req'[q] = [req[q] EXCEPT !.cur = req[q].cur /\ req[q].at \notin ups \ ups',
                                 !.tried = req[q].tried \ (ups \ ups')]
    BY <2>1 DEF Reload
  <2> QED
    BY <2>1, <2>2, <2>3, <2>4
<1>4. req' \in [Requests -> RequestRecords]
  <2>1. req' = [q \in Requests |-> req'[q]]
    BY DEF Reload
  <2> QED
    BY <1>3, <2>1
<1> QED
  BY <1>1, <1>2, <1>4 DEF Reload, Typing, world, history

LEMMA TypingStep == ASSUME Typing, [Next]_vars PROVE Typing'
<1>1. ASSUME NEW s \in Servers, Scrape(s) PROVE Typing'
  BY <1>1, ScrapeTyping
<1>2. ASSUME NEW s \in Servers, CoolDownEnds(s) PROVE Typing'
  <2>1. srv \in [Servers -> Object] /\ srv[s] \in Object
    BY DEF Typing, Objects
  <2>2. [srv[s] EXCEPT !.cool = FALSE] \in Object
    BY <2>1 DEF Object
  <2>3. srv' \in Objects
    BY <1>2, <2>1, <2>2 DEF CoolDownEnds, Objects
  <2> QED
    BY <1>2, <2>3 DEF CoolDownEnds, Typing, world, history
<1>3. ASSUME NEW s \in Servers, CheckStep(s) PROVE Typing'
  BY <1>3, CheckTyping
<1>4. ASSUME NEW s \in Servers, Die(s) PROVE Typing'
  BY <1>4, KnobAssumption DEF Die, Trouble, Typing, history
<1>5. ASSUME NEW s \in Servers, Start(s) PROVE Typing'
  BY <1>5, KnobAssumption DEF Start, Typing, history
<1>6. ASSUME NEW q \in Requests, RequestStep(q) PROVE Typing'
  BY <1>6, RequestTyping
<1>7. ASSUME NEW q \in Requests, Finish(q) PROVE Typing'
  <2>1. req \in [Requests -> RequestRecords] /\ req[q] \in RequestRecords
    BY DEF Typing
  <2>2. [req[q] EXCEPT !.whole = TRUE] \in RequestRecords
    BY <2>1 DEF RequestRecords
  <2>3. req' \in [Requests -> RequestRecords]
    BY <1>7, <2>1, <2>2 DEF Finish
  <2>4. gen' \in [Servers -> SUBSET Requests]
    BY <1>7 DEF Finish, Typing
  <2> QED
    BY <1>7, <2>3, <2>4 DEF Finish, Typing, history
<1>8. ASSUME NEW q \in Requests, Leave(q) PROVE Typing'
  <2>1. req \in [Requests -> RequestRecords] /\ req[q] \in RequestRecords
    BY DEF Typing
  <2>2. [req[q] EXCEPT !.gone = TRUE] \in RequestRecords
    BY <2>1 DEF RequestRecords
  <2>3. req' \in [Requests -> RequestRecords]
    BY <1>8, <2>1, <2>2 DEF Leave
  <2> QED
    BY <1>8, <2>3 DEF Leave, Typing, world, history
<1>9. CASE CheckModels
  <2>1. \A s \in ups : Check(srv, s, "round") \in Checks
    BY CheckType DEF Typing
  <2> QED
    BY <1>9, <2>1 DEF CheckModels, Typing, world, history
<1>10. CASE Reload
  BY <1>10, ReloadTyping
<1>11. CASE UNCHANGED vars
  BY <1>11 DEF vars, Typing, world, history
<1> QED
  BY <1>1, <1>2, <1>3, <1>4, <1>5, <1>6, <1>7, <1>8, <1>9, <1>10, <1>11 DEF Next

LEMMA TypingInit == ASSUME Init PROVE Typing
<1>1. (CHOOSE s \in Servers : TRUE) \in Servers
  BY SetAssumption
<1>2. srv \in Objects
  BY FreshType DEF Init, Objects
<1> QED
  BY <1>1, <1>2, SetAssumption, KnobAssumption DEF Init, Typing, RequestRecords

-----------------------------------------------------------------------------
(* The counts.  They are true of every server's object, also of one that the *)
(* list does not name: it is a fresh one, and no request has it for its own. *)

On(s) == {q \in Requests : req[q].pc \in Relayed /\ req[q].cur /\ req[q].at = s}
Held == {q \in Requests : req[q].pc \in Counted}

Counts ==
  /\ total = Cardinality(Held)
  /\ \A s \in Servers : srv[s].inflight = Cardinality(On(s))

LEMMA FiniteCounts ==
  ASSUME NEW s
  PROVE  /\ IsFiniteSet(On(s)) /\ Cardinality(On(s)) \in Nat
         /\ IsFiniteSet(Held) /\ Cardinality(Held) \in Nat
<1>1. On(s) \subseteq Requests /\ Held \subseteq Requests
  BY DEF On, Held
<1> QED
  BY <1>1, SetAssumption, FS_Subset, FS_CardinalityType

\* A step that moves no request to a server or away from one keeps the counts.
LEMMA CountsStay ==
  ASSUME Counts, total' = total, SameCounts(srv, srv'),
         \A q \in Requests :
           /\ req'[q].pc \in Relayed <=> req[q].pc \in Relayed
           /\ req'[q].pc \in Counted <=> req[q].pc \in Counted
           /\ req[q].pc \in Relayed => req'[q].cur = req[q].cur /\ req'[q].at = req[q].at
  PROVE  Counts'
<1>1. Held' = Held
  BY DEF Held
<1>2. \A s : On(s)' = On(s)
  BY DEF On
<1> QED
  BY <1>1, <1>2 DEF Counts, SameCounts

\* The finally clause takes a request off its server's count, whatever else was
\* written of the server.
LEMMA LetGoCounts ==
  ASSUME Typing, Counts, NEW q \in Requests, req[q].pc \in Relayed,
         NEW u \in Objects, SameCounts(srv, u)
  PROVE  \A s \in Servers : LetGo(u, q)[s].inflight = Cardinality(On(s) \ {q})
<1> SUFFICES ASSUME NEW s \in Servers
             PROVE  LetGo(u, q)[s].inflight = Cardinality(On(s) \ {q})
  OBVIOUS
<1>1. u[s].inflight = Cardinality(On(s)) /\ Cardinality(On(s)) \in Nat
  BY FiniteCounts DEF Counts, SameCounts
<1>2. Cardinality(On(s) \ {q}) = IF q \in On(s) THEN Cardinality(On(s)) - 1 ELSE Cardinality(On(s))
  BY FiniteCounts, FS_RemoveElement
<1>3. q \in On(s) <=> req[q].cur /\ req[q].at = s
  BY DEF On
<1>4. u[s] \in Object /\ req[q].at \in Servers
  BY DEF Objects, Typing, RequestRecords
<1>5. LetGo(u, q)[s].inflight =
        IF req[q].cur /\ req[q].at = s THEN u[s].inflight - 1 ELSE u[s].inflight
  BY <1>4 DEF LetGo, Objects, Object
<1> QED
  BY <1>1, <1>2, <1>3, <1>5

LEMMA EndCounts ==
  ASSUME Typing, Counts, NEW q \in Requests, req[q].pc \in Counted, NEW outcome, End(q, outcome),
         \A s \in Servers : srv'[s].inflight = Cardinality(On(s) \ {q})
  PROVE  Counts'
<1>1. \A p \in Requests : req'[p] = IF p = q THEN [req[q] EXCEPT !.pc = "ended", !.outcome = outcome]
                                             ELSE req[p]
  BY DEF End, Typing
<1>2. req'[q].pc = "ended" /\ \A p \in Requests : p # q => req'[p] = req[p]
  BY <1>1 DEF Typing, RequestRecords
<1>3. Held' = Held \ {q} /\ q \in Held
  BY <1>2 DEF Held, Counted, Relayed
<1>4. \A s : On(s)' = On(s) \ {q}
  BY <1>2 DEF On, Relayed
<1>5. total' = Cardinality(Held')
  BY <1>3, FiniteCounts, FS_RemoveElement DEF End, Counts
<1> QED
  BY <1>4, <1>5 DEF Counts

LEMMA TryNextCounts ==
  ASSUME Typing, Counts, NEW q \in Requests, req[q].pc \in Counted,
         NEW u \in Objects, NEW tried, TryNext(q, u, tried),
         \A s \in Servers : u[s].inflight = Cardinality(On(s) \ {q})
  PROVE  Counts'
<1>1. CASE srv' = u /\ End(q, IF ups = {} THEN "noservers" ELSE "error")
  BY <1>1, EndCounts
<1>2. ASSUME NEW s \in Choices(q, u, tried),
             srv' = [u EXCEPT ![s].inflight = @ + 1],
             req' = [req EXCEPT ![q] = [@ EXCEPT !.pc = "connect", !.at = s, !.cur = TRUE,
                                                 !.tried = tried \cup {s}]],
             UNCHANGED <<total, gen>>
      PROVE  Counts'
  <2>1. s \in Servers
    BY <1>2, ChoicesType, CandidatesType DEF Typing
  <2>2. req[q] \in RequestRecords /\ req \in [Requests -> RequestRecords]
    BY DEF Typing
  <2>3. req'[q].pc = "connect" /\ req'[q].cur /\ req'[q].at = s
    BY <1>2, <2>2 DEF RequestRecords
  <2>4. \A p \in Requests : p # q => req'[p] = req[p]
    BY <1>2, <2>2
  <2>5. Held' = Held
    BY <2>3, <2>4 DEF Held, Counted, Relayed
  <2>6. ASSUME NEW t \in Servers PROVE srv'[t].inflight = Cardinality(On(t)')
    <3>1. CASE t = s
      <4>1. On(t)' = (On(t) \ {q}) \cup {q}
        BY <2>3, <2>4, <3>1 DEF On, Relayed
      <4>2. IsFiniteSet(On(t) \ {q})
        BY FiniteCounts, FS_RemoveElement
      <4>3. Cardinality(On(t)') = Cardinality(On(t) \ {q}) + 1
        BY <4>1, <4>2, FS_AddElement
      <4>4. srv'[t].inflight = u[t].inflight + 1
        BY <1>2, <2>1, <3>1 DEF Objects, Object
      <4> QED
        BY <4>3, <4>4
    <3>2. CASE t # s
      <4>1. On(t)' = On(t) \ {q}
        BY <2>3, <2>4, <3>2 DEF On
      <4>2. srv'[t].inflight = u[t].inflight
        BY <1>2, <3>2 DEF Objects, Object
      <4> QED
        BY <4>1, <4>2
    <3> QED
      BY <3>1, <3>2
  <2> QED
    BY <1>2, <2>5, <2>6 DEF Counts
<1> QED
  BY <1>1, <1>2 DEF TryNext

LEMMA RequestCounts ==
  ASSUME Typing, Counts, NEW q \in Requests, RequestStep(q)
  PROVE  Counts'
<1>1. srv \in Objects /\ req[q].at \in Servers /\ req[q] \in RequestRecords
      /\ req \in [Requests -> RequestRecords]
  BY DEF Typing, RequestRecords
<1> DEFINE down == IF req[q].cur THEN MarkDown(srv, req[q].at) ELSE srv
<1>2. down \in Objects /\ SameCounts(srv, down) /\ SameCounts(srv, srv)
  BY <1>1, MarkDownType DEF SameCounts
<1>3. LetGo(down, q) \in Objects
  BY <1>2, LetGoType
<1>4. ASSUME req[q].pc \in Relayed
      PROVE  /\ \A s \in Servers : LetGo(down, q)[s].inflight = Cardinality(On(s) \ {q})
             /\ \A s \in Servers : LetGo(srv, q)[s].inflight = Cardinality(On(s) \ {q})
             /\ req[q].pc \in Counted
  BY <1>1, <1>2, <1>4, LetGoCounts DEF Counted
<1> HIDE DEF down
<1>5. ASSUME req[q].pc \in Relayed, srv' = LetGo(srv, q), NEW outcome, End(q, outcome)
      PROVE  Counts'
  BY <1>4, <1>5, EndCounts
<1>6. CASE Receive(q)
  <2>1. req'[q].pc = "parse" /\ \A p \in Requests : p # q => req'[p] = req[p]
    BY <1>1, <1>6 DEF Receive, RequestRecords
  <2>2. Held' = Held \cup {q} /\ q \notin Held
    BY <1>6, <2>1 DEF Receive, Held, Counted, Relayed
  <2>3. total' = Cardinality(Held')
    BY <1>6, <2>2, FiniteCounts, FS_AddElement DEF Receive, Counts
  <2>4. \A s : On(s)' = On(s)
    BY <1>6, <2>1 DEF Receive, On, Relayed
  <2> QED
    BY <1>6, <2>3, <2>4 DEF Receive, Counts
<1>7. CASE Choose(q)
  <2>1. req[q].pc = "parse" /\ TryNext(q, srv, {})
    BY <1>7 DEF Choose
  <2>2. \A s \in Servers : srv[s].inflight = Cardinality(On(s) \ {q})
    <3>1. \A s : On(s) \ {q} = On(s)
      BY <2>1 DEF On, Relayed
    <3> QED
      BY <3>1 DEF Counts
  <2> QED
    BY <1>1, <2>1, <2>2, TryNextCounts DEF Counted
<1>8. CASE ConnectFails(q)
  <2>1. req[q].pc \in Relayed /\ TryNext(q, LetGo(down, q), req[q].tried)
    BY <1>8 DEF ConnectFails, down, Relayed
  <2> QED
    BY <1>3, <1>4, <2>1, TryNextCounts
<1>9. CASE Connect(q)
  <2>1. req'[q] = [req[q] EXCEPT !.pc = "wait"] /\ \A p \in Requests : p # q => req'[p] = req[p]
    BY <1>1, <1>9 DEF Connect
  <2>2. req'[q].pc = "wait" /\ req'[q].cur = req[q].cur /\ req'[q].at = req[q].at
    BY <1>1, <2>1 DEF RequestRecords
  <2> QED
    BY <1>2, <1>9, <2>1, <2>2, CountsStay DEF Connect, Relayed, Counted
<1>10. CASE Broken(q)
  BY <1>5, <1>10 DEF Broken, Relayed
<1>11. CASE Unexpected(q)
  <2>1. srv' = LetGo(down, q) /\ End(q, "error") /\ req[q].pc \in Relayed
    BY <1>11 DEF Unexpected, down, Relayed
  <2> QED
    BY <1>4, <2>1, EndCounts
<1>12. CASE Headers(q)
  <2>1. /\ req'[q] = [req[q] EXCEPT !.pc = "stream", !.outcome = "reply"]
        /\ \A p \in Requests : p # q => req'[p] = req[p]
    BY <1>1, <1>12 DEF Headers
  <2>2. req'[q].pc = "stream" /\ req'[q].cur = req[q].cur /\ req'[q].at = req[q].at
    BY <1>1, <2>1 DEF RequestRecords
  <2> QED
    BY <1>2, <1>12, <2>1, <2>2, CountsStay DEF Headers, Relayed, Counted
<1>13. CASE RelayEnds(q)
  BY <1>5, <1>13 DEF RelayEnds, Relayed
<1>14. CASE RelayBroken(q)
  BY <1>5, <1>14 DEF RelayBroken, Relayed
<1>15. CASE Abandon(q)
  BY <1>5, <1>15 DEF Abandon
<1> QED
  BY <1>6, <1>7, <1>8, <1>9, <1>10, <1>11, <1>12, <1>13, <1>14, <1>15 DEF RequestStep

\* What comes back from a server leaves the counts alone.
LEMMA ReachedCounts ==
  ASSUME Typing, NEW u \in Objects, SameCounts(srv, u), NEW s \in Servers, Reached(u, s)
  PROVE  SameCounts(srv, srv')
BY DEF Reached, SameCounts, Objects, Object

LEMMA SameCountsTrans ==
  ASSUME NEW u, NEW v, NEW w, SameCounts(u, v), SameCounts(v, w)
  PROVE  SameCounts(u, w)
BY DEF SameCounts

LEMMA ScrapeCounts ==
  ASSUME Typing, NEW s \in Servers, Scrape(s)
  PROVE  SameCounts(srv, srv') /\ UNCHANGED <<req, total>>
<1>1. srv \in Objects /\ gen[s] \subseteq Requests
  BY DEF Typing
<1> SUFFICES SameCounts(srv, srv')
  BY DEF Scrape
<1>2. CASE ScrapeRefused(s)
  BY <1>1, <1>2, MarkDownType DEF ScrapeRefused
<1>3. CASE ScrapeRead(s)
  <2>1. Cardinality(gen[s]) \in Nat
    BY <1>1, SetAssumption, FS_Subset, FS_CardinalityType
  <2>2. PICK load \in 0 .. Cardinality(gen[s]) + OtherLoad :
          Reached(MetricsOk(Answered(srv, s), s, load), s)
    BY <1>3 DEF ScrapeRead
  <2>3. load \in Nat
    BY <2>1, KnobAssumption
  <2>4. /\ MetricsOk(Answered(srv, s), s, load) \in Objects
        /\ SameCounts(srv, MetricsOk(Answered(srv, s), s, load))
    BY <1>1, <2>3, AnsweredType, MetricsOkType, SameCountsTrans
  <2> QED
    BY <2>2, <2>4, ReachedCounts
<1>4. CASE ScrapePoor(s)
  <2>1. /\ MetricsNone(Answered(srv, s), s) \in Objects
        /\ MetricsMiss(Answered(srv, s), s) \in Objects
        /\ MetricsMiss(TimedOut(srv, s), s) \in Objects
        /\ MetricsMiss(srv, s) \in Objects
    BY <1>1, AnsweredType, TimedOutType, MetricsNoneType, MetricsMissType
  <2>2. /\ SameCounts(srv, MetricsNone(Answered(srv, s), s))
        /\ SameCounts(srv, MetricsMiss(Answered(srv, s), s))
        /\ SameCounts(srv, MetricsMiss(TimedOut(srv, s), s))
        /\ SameCounts(srv, MetricsMiss(srv, s))
    BY <1>1, AnsweredType, TimedOutType, MetricsNoneType, MetricsMissType, SameCountsTrans
  <2> QED
    BY <1>4, <2>1, <2>2, ReachedCounts DEF ScrapePoor
<1> QED
  BY <1>2, <1>3, <1>4 DEF Scrape

LEMMA CheckCounts ==
  ASSUME Typing, NEW s \in Servers, CheckStep(s)
  PROVE  SameCounts(srv, srv') /\ UNCHANGED <<req, total>>
<1>1. PICK c \in checks : c.s = s /\ (AnswerCheck(c) \/ Checked(c) \/ Unanswered(c))
  BY DEF CheckStep
<1>2. srv \in Objects
  BY DEF Typing
<1>3. SameCounts(srv, Answered(srv, s)) /\ SameCounts(srv, TimedOut(srv, s)) /\ SameCounts(srv, srv)
  BY <1>2, AnsweredType, TimedOutType DEF SameCounts
<1>4. CASE AnswerCheck(c)
  BY <1>3, <1>4 DEF AnswerCheck
<1>5. CASE Checked(c)
  <2>1. Answered(srv, s) \in Objects
    BY <1>2, AnsweredType
  <2>2. SameCounts(Answered(srv, s), [Answered(srv, s) EXCEPT ![s].models = c.ans])
    BY <2>1 DEF SameCounts, Objects, Object
  <2> QED
    BY <1>1, <1>3, <1>5, <2>2, SameCountsTrans DEF Checked
<1>6. CASE Unanswered(c)
  BY <1>1, <1>3, <1>6 DEF Unanswered
<1> QED
  BY <1>1, <1>4, <1>5, <1>6

LEMMA ReloadCounts == ASSUME Typing, Counts, Reload PROVE Counts'
<1> DEFINE away == ups \ ups'
<1>1. ASSUME NEW q \in Requests
      PROVE  /\ req'[q].pc = req[q].pc /\ req'[q].at = req[q].at
             /\ req'[q].cur <=> req[q].cur /\ req[q].at \notin away
  <2>1. req[q] \in RequestRecords
    BY DEF Typing
  <2>2. req'[q] = [req[q] EXCEPT !.cur = req[q].cur /\ req[q].at \notin away,
                                 !.tried = req[q].tried \ away]
    BY <2>1 DEF Reload
  <2> QED
    BY <2>1, <2>2 DEF RequestRecords
<1>2. \A s \in Servers : srv'[s] = IF s \in away THEN Fresh ELSE srv[s]
  BY DEF Reload
<1> HIDE DEF away
<1>3. Held' = Held /\ total' = total
  BY <1>1 DEF Held, Reload
<1>4. ASSUME NEW s \in Servers, s \in away PROVE srv'[s].inflight = Cardinality(On(s)')
  <2>1. On(s)' = {}
    BY <1>1, <1>4 DEF On
  <2> QED
    BY <1>2, <1>4, <2>1, FS_EmptySet DEF Fresh
<1>5. ASSUME NEW s \in Servers, s \notin away PROVE srv'[s].inflight = Cardinality(On(s)')
  <2>1. On(s)' = On(s)
    BY <1>1, <1>5 DEF On
  <2> QED
    BY <1>2, <1>5, <2>1 DEF Counts
<1> QED
  BY <1>3, <1>4, <1>5 DEF Counts

LEMMA CountsInit == ASSUME Init PROVE Counts
<1>1. Held = {} /\ \A s \in Servers : On(s) = {}
  BY DEF Init, Held, On, Counted, Relayed
<1> QED
  BY <1>1, FS_EmptySet DEF Init, Counts, Fresh

LEMMA CountsStep == ASSUME Typing, Counts, [Next]_vars PROVE Counts'
<1>1. ASSUME SameCounts(srv, srv'), UNCHANGED <<req, total>> PROVE Counts'
  BY <1>1, CountsStay
<1>2. ASSUME NEW s \in Servers, Scrape(s) \/ CheckStep(s) PROVE Counts'
  BY <1>1, <1>2, ScrapeCounts, CheckCounts
<1>3. ASSUME NEW s \in Servers, CoolDownEnds(s) PROVE Counts'
  <2>1. SameCounts(srv, srv')
    BY <1>3 DEF CoolDownEnds, SameCounts, Typing, Objects, Object
  <2> QED
    BY <1>1, <1>3, <2>1 DEF CoolDownEnds
<1>4. ASSUME NEW s \in Servers, Die(s) \/ Start(s) PROVE Counts'
  BY <1>1, <1>4 DEF Die, Start, SameCounts
<1>5. ASSUME NEW q \in Requests, RequestStep(q) PROVE Counts'
  BY <1>5, RequestCounts
<1>6. ASSUME NEW q \in Requests, Finish(q) \/ Leave(q) PROVE Counts'
  <2>1. req \in [Requests -> RequestRecords]
    BY DEF Typing
  <2>2. \A p \in Requests :
          req'[p].pc = req[p].pc /\ req'[p].cur = req[p].cur /\ req'[p].at = req[p].at
    BY <1>6, <2>1 DEF Finish, Leave, RequestRecords
  <2>3. SameCounts(srv, srv') /\ total' = total
    BY <1>6 DEF Finish, Leave, SameCounts
  <2> QED
    BY <2>2, <2>3, CountsStay
<1>7. CASE CheckModels
  BY <1>1, <1>7 DEF CheckModels, SameCounts
<1>8. CASE Reload
  BY <1>8, ReloadCounts
<1>9. CASE UNCHANGED vars
  BY <1>1, <1>9 DEF vars, SameCounts
<1> QED
  BY <1>2, <1>3, <1>4, <1>5, <1>6, <1>7, <1>8, <1>9 DEF Next

\* /health and the load balance: every server's count is the requests on it and
\* the router's count the requests it holds, however many servers and requests
\* there are, whatever fails and however often the list changes.
THEOREM CountsStayTrue == Spec => []CountsAreTrue
<1>1. Init => Typing /\ Counts
  BY TypingInit, CountsInit
<1>2. Typing /\ Counts /\ [Next]_vars => (Typing /\ Counts)'
  BY TypingStep, CountsStep
<1>3. Typing /\ Counts => CountsAreTrue
  BY DEF Typing, Counts, CountsAreTrue, Held, On
<1> QED
  BY <1>1, <1>2, <1>3, PTL DEF Spec

-----------------------------------------------------------------------------
(* The typing, with natural numbers for the counts.                          *)

Naturals == \A s \in Servers : srv[s].atScrape \in Nat /\ srv[s].inflight \in Nat

LEMMA TryNextObjects ==
  ASSUME NEW q, NEW u \in Objects, NEW tried, TryNext(q, u, tried)
  PROVE  OnlyCounts(u, srv')
<1>1. CASE srv' = u
  BY <1>1 DEF OnlyCounts, SameOutages
<1>2. ASSUME NEW s, srv' = [u EXCEPT ![s].inflight = @ + 1]
      PROVE  OnlyCounts(u, srv')
  BY <1>2 DEF OnlyCounts, SameOutages, Objects, Object
<1> QED
  BY <1>1, <1>2 DEF TryNext

LEMMA RequestObjects ==
  ASSUME Typing, NEW q \in Requests, RequestStep(q)
  PROVE  \/ OnlyCounts(srv, srv') /\ UNCHANGED lost
         \/ OnlyCounts(MarkDown(srv, req[q].at), srv') /\ Lose(req[q].at)
<1>1. srv \in Objects /\ req[q].at \in Servers
  BY DEF Typing, RequestRecords
<1> DEFINE down == IF req[q].cur THEN MarkDown(srv, req[q].at) ELSE srv
<1>2. down \in Objects
  BY <1>1, MarkDownType
<1>3. /\ LetGo(down, q) \in Objects /\ OnlyCounts(down, LetGo(down, q))
      /\ OnlyCounts(srv, LetGo(srv, q)) /\ OnlyCounts(srv, srv)
  BY <1>1, <1>2, LetGoType DEF OnlyCounts, SameOutages
<1>4. ASSUME NEW u, NEW v, NEW w, OnlyCounts(u, v), OnlyCounts(v, w) PROVE OnlyCounts(u, w)
  BY <1>4 DEF OnlyCounts, SameOutages
<1>5. ASSUME OnlyCounts(down, srv'), IF req[q].cur THEN Lose(req[q].at) ELSE UNCHANGED lost
      PROVE  \/ OnlyCounts(srv, srv') /\ UNCHANGED lost
             \/ OnlyCounts(MarkDown(srv, req[q].at), srv') /\ Lose(req[q].at)
  BY <1>5
<1> HIDE DEF down
<1>6. CASE ConnectFails(q)
  <2>1. TryNext(q, LetGo(down, q), req[q].tried)
    BY <1>6 DEF ConnectFails, down
  <2>2. OnlyCounts(down, srv')
    BY <1>3, <1>4, <2>1, TryNextObjects
  <2> QED
    BY <1>5, <1>6, <2>2 DEF ConnectFails
<1>7. CASE Unexpected(q)
  <2>1. srv' = LetGo(down, q)
    BY <1>7 DEF Unexpected, down
  <2> QED
    BY <1>3, <1>5, <1>7, <2>1 DEF Unexpected
<1>8. CASE Choose(q)
  BY <1>1, <1>8, TryNextObjects DEF Choose
<1>9. CASE Receive(q) \/ Connect(q) \/ Headers(q)
  BY <1>3, <1>9 DEF Receive, Connect, Headers
<1>10. CASE Broken(q) \/ RelayEnds(q) \/ RelayBroken(q) \/ Abandon(q)
  BY <1>3, <1>10 DEF Broken, RelayEnds, RelayBroken, Abandon
<1> QED
  BY <1>6, <1>7, <1>8, <1>9, <1>10 DEF RequestStep

LEMMA NaturalsStep ==
  ASSUME Typing, Counts, Naturals, [Next]_vars
  PROVE  Naturals'
<1>1. \A s \in Servers : srv'[s].inflight \in Nat
  <2>1. \A s \in Servers : On(s)' \in SUBSET Requests
    BY DEF On
  <2>2. \A s \in Servers : Cardinality(On(s)') \in Nat
    BY <2>1, SetAssumption, FS_Subset, FS_CardinalityType
  <2> QED
    BY <2>2, CountsStep DEF Counts
<1>2. \A s \in Servers : srv[s].inflight \in Nat /\ srv[s].atScrape \in Nat
  BY DEF Naturals
<1> SUFFICES \A s \in Servers : srv'[s].atScrape \in Nat
  BY <1>1 DEF Naturals
<1>3. ASSUME SameCounts(srv, srv') PROVE \A s \in Servers : srv'[s].atScrape \in Nat
  BY <1>2, <1>3 DEF SameCounts
<1>4. ASSUME NEW s \in Servers, Scrape(s) \/ CheckStep(s)
      PROVE  \A t \in Servers : srv'[t].atScrape \in Nat
  BY <1>3, <1>4, ScrapeCounts, CheckCounts
<1>5. ASSUME NEW s \in Servers, CoolDownEnds(s) \/ Die(s) \/ Start(s)
      PROVE  \A t \in Servers : srv'[t].atScrape \in Nat
  <2>1. CASE CoolDownEnds(s)
    <3>1. srv' = [srv EXCEPT ![s] = [srv[s] EXCEPT !.cool = FALSE]]
      BY <2>1 DEF CoolDownEnds
    <3>2. [srv[s] EXCEPT !.cool = FALSE].atScrape = srv[s].atScrape
      BY DEF Typing, Objects, Object
    <3>3. srv \in [Servers -> Object]
      BY DEF Typing, Objects
    <3> QED
      BY <1>2, <3>1, <3>2, <3>3
  <2>2. CASE Die(s) \/ Start(s)
    BY <1>2, <2>2 DEF Die, Start
  <2> QED
    BY <1>5, <2>1, <2>2
<1>6. ASSUME NEW q \in Requests, RequestStep(q)
      PROVE  \A s \in Servers : srv'[s].atScrape \in Nat
  <2>1. SameCounts(srv, MarkDown(srv, req[q].at))
    BY MarkDownType DEF Typing, RequestRecords
  <2> QED
    BY <1>2, <1>6, <2>1, RequestObjects DEF OnlyCounts, SameCounts
<1>7. ASSUME NEW q \in Requests, Finish(q) \/ Leave(q)
      PROVE  \A s \in Servers : srv'[s].atScrape \in Nat
  BY <1>2, <1>7 DEF Finish, Leave
<1>8. CASE CheckModels \/ UNCHANGED vars
  BY <1>2, <1>8 DEF CheckModels, vars
<1>9. CASE Reload
  BY <1>2, <1>9 DEF Reload, Fresh
<1> QED
  BY <1>4, <1>5, <1>6, <1>7, <1>8, <1>9 DEF Next

\* Every variable keeps its type, and in particular no server's count and not the
\* router's ever falls below zero, though nothing in the code stops it there.
THEOREM RouterTypeCorrect == Spec => []TypeOK
<1>1. Init => Typing /\ Counts /\ Naturals
  BY TypingInit, CountsInit DEF Init, Naturals, Fresh
<1>2. Typing /\ Counts /\ Naturals /\ [Next]_vars => (Typing /\ Counts /\ Naturals)'
  BY TypingStep, CountsStep, NaturalsStep
<1>3. Typing /\ Counts /\ Naturals => TypeOK
  <2> SUFFICES ASSUME Typing, Counts, Naturals PROVE TypeOK
    OBVIOUS
  <2>1. total \in Nat
    BY FiniteCounts DEF Counts
  <2>2. ASSUME NEW s \in Servers PROVE srv[s] \in Upstreams
    <3>1. srv[s] \in Object /\ srv[s].inflight \in Nat /\ srv[s].atScrape \in Nat
      BY DEF Typing, Objects, Naturals
    <3> QED
      BY <3>1 DEF Object, Upstreams
  <2>3. srv \in [Servers -> Upstreams]
    BY <2>2 DEF Typing, Objects
  <2> QED
    BY <2>1, <2>3 DEF Typing, TypeOK
<1> QED
  BY <1>1, <1>2, <1>3, PTL DEF Spec

-----------------------------------------------------------------------------
(* Where a request has been, and who works for it.                           *)

\* What one turn of a request does to it and to the servers' work: it is on its
\* way to a server; it reaches one; its reply begins; it is over.
LEMMA RequestMoves ==
  ASSUME Typing, NEW q \in Requests, RequestStep(q)
  PROVE  /\ \A p \in Requests : p # q => req'[p] = req[p]
         /\ req'[q].whole = req[q].whole
         /\ \/ /\ req[q].pc \in {"idle", "parse", "connect"} /\ req'[q].pc \in {"parse", "connect"}
               /\ req'[q].outcome = req[q].outcome
               /\ UNCHANGED <<gen, arrived>>
            \/ /\ req[q].pc = "connect" /\ req'[q].pc = "wait"
               /\ req'[q].at = req[q].at /\ req'[q].outcome = req[q].outcome
               /\ gen' = [gen EXCEPT ![req[q].at] = @ \cup {q}]
               /\ arrived' = [arrived EXCEPT ![q] = @ + 1]
            \/ /\ req[q].pc = "wait" /\ req'[q].pc = "stream"
               /\ req'[q].at = req[q].at /\ req'[q].outcome = "reply"
               /\ UNCHANGED <<gen, arrived>>
            \/ /\ req'[q].pc = "ended"
               /\ req'[q].outcome = "complete" => req[q].whole
               /\ gen' = [s \in Servers |-> gen[s] \ {q}]
               /\ UNCHANGED arrived
<1>1. req[q] \in RequestRecords /\ req \in [Requests -> RequestRecords]
  BY DEF Typing
<1>2. ASSUME NEW outcome, End(q, outcome), outcome = "complete" => req[q].whole
      PROVE  /\ \A p \in Requests : p # q => req'[p] = req[p]
             /\ req'[q].whole = req[q].whole
             /\ req'[q].pc = "ended"
             /\ req'[q].outcome = "complete" => req[q].whole
             /\ gen' = [s \in Servers |-> gen[s] \ {q}]
  <2>1. req' = [req EXCEPT ![q] = [req[q] EXCEPT !.pc = "ended", !.outcome = outcome]]
    BY <1>2 DEF End
  <2> QED
    BY <1>1, <1>2, <2>1 DEF End, RequestRecords
<1>3. ASSUME NEW u, NEW tried, TryNext(q, u, tried), req[q].pc \in {"parse", "connect"},
             UNCHANGED arrived
      PROVE  /\ \A p \in Requests : p # q => req'[p] = req[p]
             /\ req'[q].whole = req[q].whole
             /\ \/ /\ req'[q].pc = "connect" /\ req'[q].outcome = req[q].outcome
                   /\ UNCHANGED gen
                \/ /\ req'[q].pc = "ended"
                   /\ req'[q].outcome = "complete" => req[q].whole
                   /\ gen' = [s \in Servers |-> gen[s] \ {q}]
  <2>1. CASE End(q, IF ups = {} THEN "noservers" ELSE "error")
    BY <1>2, <2>1
  <2>2. ASSUME NEW s, UNCHANGED gen,
               req' = [req EXCEPT ![q] = [@ EXCEPT !.pc = "connect", !.at = s, !.cur = TRUE,
                                                   !.tried = tried \cup {s}]]
        PROVE  /\ \A p \in Requests : p # q => req'[p] = req[p]
               /\ req'[q].whole = req[q].whole
               /\ req'[q].pc = "connect" /\ req'[q].outcome = req[q].outcome
               /\ UNCHANGED gen
    BY <1>1, <2>2 DEF RequestRecords
  <2> QED
    BY <1>3, <2>1, <2>2 DEF TryNext
<1>4. CASE Receive(q)
  BY <1>1, <1>4 DEF Receive, RequestRecords
<1>5. CASE Choose(q)
  BY <1>3, <1>5 DEF Choose
<1>6. CASE ConnectFails(q)
  BY <1>3, <1>6 DEF ConnectFails
<1>7. CASE Connect(q)
  BY <1>1, <1>7 DEF Connect, RequestRecords
<1>8. CASE Headers(q)
  BY <1>1, <1>8 DEF Headers, RequestRecords
<1>9. CASE Broken(q) \/ Unexpected(q) \/ RelayBroken(q) \/ Abandon(q)
  <2>1. PICK outcome : End(q, outcome) /\ outcome # "complete"
    BY <1>9 DEF Broken, Unexpected, RelayBroken, Abandon
  <2>2. UNCHANGED arrived
    BY <1>9 DEF Broken, Unexpected, RelayBroken, Abandon
  <2> QED
    BY <1>2, <2>1, <2>2
<1>10. CASE RelayEnds(q)
  BY <1>2, <1>10 DEF RelayEnds
<1> QED
  BY <1>4, <1>5, <1>6, <1>7, <1>8, <1>9, <1>10 DEF RequestStep

\* Every other step leaves a request where it is, and no server more work.
LEMMA OtherMoves ==
  ASSUME Typing, Next, \A q \in Requests : ~RequestStep(q)
  PROVE  /\ \A q \in Requests : /\ req'[q].pc = req[q].pc /\ req'[q].at = req[q].at
                                /\ req'[q].outcome = req[q].outcome
                                /\ req[q].whole => req'[q].whole
         /\ \A s \in Servers : gen'[s] \subseteq gen[s]
         /\ UNCHANGED arrived
<1>1. req \in [Requests -> RequestRecords] /\ gen \in [Servers -> SUBSET Requests]
  BY DEF Typing
<1>2. ASSUME UNCHANGED <<req, gen, arrived>>
      PROVE  /\ \A q \in Requests : /\ req'[q].pc = req[q].pc /\ req'[q].at = req[q].at
                                    /\ req'[q].outcome = req[q].outcome
                                    /\ req[q].whole => req'[q].whole
             /\ \A s \in Servers : gen'[s] \subseteq gen[s]
             /\ UNCHANGED arrived
  BY <1>2
<1>3. ASSUME NEW s \in Servers, Scrape(s) \/ CoolDownEnds(s) \/ CheckStep(s) \/ Start(s)
      PROVE  UNCHANGED <<req, gen, arrived>>
  BY <1>3 DEF Scrape, CoolDownEnds, CheckStep, AnswerCheck, Checked, Unanswered, Start, world, history
<1>4. ASSUME NEW s \in Servers, Die(s)
      PROVE  /\ UNCHANGED <<req, arrived>> /\ \A t \in Servers : gen'[t] \subseteq gen[t]
  BY <1>1, <1>4 DEF Die, history
<1>5. ASSUME NEW q \in Requests, Finish(q) \/ Leave(q)
      PROVE  /\ \A p \in Requests : /\ req'[p].pc = req[p].pc /\ req'[p].at = req[p].at
                                    /\ req'[p].outcome = req[p].outcome
                                    /\ req[p].whole => req'[p].whole
             /\ \A s \in Servers : gen'[s] \subseteq gen[s]
             /\ UNCHANGED arrived
  BY <1>1, <1>5 DEF Finish, Leave, RequestRecords, world, history
<1>6. CASE CheckModels
  BY <1>2, <1>6 DEF CheckModels, world, history
<1>7. CASE Reload
  <2>1. UNCHANGED <<gen, arrived>>
    BY <1>7 DEF Reload, world, history
  <2>2. ASSUME NEW q \in Requests
        PROVE  /\ req'[q].pc = req[q].pc /\ req'[q].at = req[q].at
               /\ req'[q].outcome = req[q].outcome
               /\ req[q].whole => req'[q].whole
    <3>1. req[q] \in RequestRecords
      BY <1>1
    <3>2. req'[q] = [req[q] EXCEPT !.cur = req[q].cur /\ req[q].at \notin ups \ ups',
                                   !.tried = req[q].tried \ (ups \ ups')]
      BY <1>7, <3>1 DEF Reload
    <3> QED
      BY <3>1, <3>2 DEF RequestRecords
  <2> QED
    BY <2>1, <2>2
<1> QED
  BY <1>2, <1>3, <1>4, <1>5, <1>6, <1>7 DEF Next

\* A request that is still on its way has reached no server.
Arrivals ==
  \A q \in Requests :
    arrived[q] <= IF req[q].pc \in {"idle", "parse", "connect"} THEN 0 ELSE 1

Journey == Arrivals /\ NoOrphans /\ CompleteIsWhole

LEMMA JourneyStep == ASSUME Typing, Journey, [Next]_vars PROVE Journey'
<1>1. req \in [Requests -> RequestRecords] /\ gen \in [Servers -> SUBSET Requests]
      /\ arrived \in [Requests -> Nat]
  BY DEF Typing
<1>2. ASSUME NEW q \in Requests, RequestStep(q) PROVE Journey'
  <2>1. Arrivals'
    BY <1>1, <1>2, RequestMoves DEF Journey, Arrivals
  <2>2. NoOrphans'
    BY <1>1, <1>2, RequestMoves DEF Journey, NoOrphans
  <2>3. CompleteIsWhole'
    BY <1>1, <1>2, RequestMoves DEF Journey, CompleteIsWhole
  <2> QED
    BY <2>1, <2>2, <2>3 DEF Journey
<1>3. CASE Next /\ \A q \in Requests : ~RequestStep(q)
  <2>1. Arrivals'
    BY <1>1, <1>3, OtherMoves DEF Journey, Arrivals
  <2>2. NoOrphans'
    BY <1>1, <1>3, OtherMoves DEF Journey, NoOrphans
  <2>3. CompleteIsWhole'
    BY <1>1, <1>3, OtherMoves DEF Journey, CompleteIsWhole
  <2> QED
    BY <2>1, <2>2, <2>3 DEF Journey
<1>4. CASE UNCHANGED vars
  BY <1>4 DEF vars, world, history, Journey, Arrivals, NoOrphans, CompleteIsWhole
<1> QED
  BY <1>2, <1>3, <1>4

LEMMA JourneyHolds == Spec => [](Typing /\ Journey)
<1>1. Init => Typing /\ Journey
  BY TypingInit DEF Init, Journey, Arrivals, NoOrphans, CompleteIsWhole
<1>2. Typing /\ Journey /\ [Next]_vars => (Typing /\ Journey)'
  BY TypingStep, JourneyStep
<1> QED
  BY <1>1, <1>2, PTL DEF Spec

\* LP-D3: a request reaches at most one server, and that one once, however many
\* servers there are to try.
THEOREM RequestsReachOneServer == Spec => []ReachesOneServer
<1>1. Typing /\ Journey => ReachesOneServer
  BY DEF Typing, Journey, Arrivals, ReachesOneServer
<1> QED
  BY <1>1, JourneyHolds, PTL

\* A server never works for a request the router has let go, and never for one
\* the router has sent to another server.
THEOREM ServersWorkForTheirRequests == Spec => []NoOrphans
<1>1. Typing /\ Journey => NoOrphans
  BY DEF Journey
<1> QED
  BY <1>1, JourneyHolds, PTL

\* A reply that ends as if it were complete is complete.
THEOREM CompleteRepliesAreWhole == Spec => []CompleteIsWhole
<1>1. Typing /\ Journey => CompleteIsWhole
  BY DEF Journey
<1> QED
  BY <1>1, JourneyHolds, PTL

-----------------------------------------------------------------------------
(* Outages.  A list that is held, or that a check of no earlier outage brings, *)
(* is of a process later than the one that was lost with the last outage.      *)

AfterOutages ==
  \A s \in Servers :
    /\ lost[s].noted <= DeadAt(s)
    /\ srv[s].models # 0 => srv[s].models > lost[s].noted

ChecksAfterOutages ==
  \A c \in checks :
    /\ c.downs <= srv[c.s].downs
    /\ (c.ans \notin {Unread, 0} /\ c.downs = srv[c.s].downs) => c.ans > lost[c.s].noted

Outages == AfterOutages /\ ChecksAfterOutages

\* Nothing was learnt and nothing lost; the checks that were added have only been put.
LEMMA OutagesStay ==
  ASSUME Typing, Typing', Outages, SameOutages(srv, srv'), UNCHANGED lost,
         \A s \in Servers : DeadAt(s) <= DeadAt(s)',
         \A c \in checks' : c \in checks \/ (c.ans = Unread /\ c.downs = srv[c.s].downs)
  PROVE  Outages'
<1>1. AfterOutages'
  <2> SUFFICES ASSUME NEW s \in Servers
               PROVE  /\ lost'[s].noted <= DeadAt(s)'
                      /\ srv'[s].models # 0 => srv'[s].models > lost'[s].noted
    BY DEF AfterOutages
  <2>1. lost[s].noted \in Int /\ DeadAt(s) \in Int /\ DeadAt(s)' \in Int
    BY KnobAssumption DEF Typing, DeadAt
  <2> QED
    BY <2>1 DEF Outages, AfterOutages, SameOutages
<1>2. ChecksAfterOutages'
  <2> SUFFICES ASSUME NEW c \in checks'
               PROVE  /\ c.downs <= srv'[c.s].downs
                      /\ (c.ans \notin {Unread, 0} /\ c.downs = srv'[c.s].downs) =>
                           c.ans > lost'[c.s].noted
    BY DEF ChecksAfterOutages
  <2>1. c.s \in Servers /\ c.downs \in Nat
    BY DEF Typing, Checks
  <2> QED
    BY <2>1 DEF Outages, ChecksAfterOutages, SameOutages
<1> QED
  BY <1>1, <1>2 DEF Outages

\* An outage is noted, or goes on.
LEMMA OutageNoted ==
  ASSUME Typing, Outages, NEW s \in Servers, Lose(s), SameOutages(MarkDown(srv, s), srv'),
         UNCHANGED <<life, alive, checks>>
  PROVE  Outages'
<1>1. /\ srv \in [Servers -> Object] /\ srv[s] \in Object
      /\ lost \in [Servers -> [noted : 0 .. Lives, last : 0 .. Lives]]
      /\ lost[s].noted \in 0 .. Lives
  BY DEF Typing, Objects
<1>2. \A t \in Servers : DeadAt(t)' = DeadAt(t) /\ DeadAt(t) \in Int
  BY KnobAssumption DEF DeadAt, Typing
<1>3. ASSUME NEW t \in Servers, t # s
      PROVE  /\ srv'[t].models = srv[t].models /\ srv'[t].downs = srv[t].downs
             /\ lost'[t].noted = lost[t].noted
  BY <1>1, <1>3 DEF SameOutages, MarkDown, Lose
<1>4. CASE srv[s].noted
  <2>1. /\ srv'[s].models = srv[s].models /\ srv'[s].downs = srv[s].downs
        /\ lost'[s].noted = lost[s].noted
    BY <1>1, <1>4 DEF SameOutages, MarkDown, Lose, Object
  <2> QED
    BY <1>2, <1>3, <2>1 DEF Outages, AfterOutages, ChecksAfterOutages, Typing, Checks
<1>5. CASE ~srv[s].noted
  <2>1. /\ srv'[s].models = 0 /\ srv'[s].downs = srv[s].downs + 1
        /\ lost'[s].noted = DeadAt(s)
    BY <1>1, <1>5 DEF SameOutages, MarkDown, Lose, Object
  <2>2. AfterOutages'
    BY <1>2, <1>3, <2>1 DEF Outages, AfterOutages
  <2>3. ASSUME NEW c \in checks
        PROVE  /\ c.downs <= srv'[c.s].downs
               /\ (c.ans \notin {Unread, 0} /\ c.downs = srv'[c.s].downs) =>
                    c.ans > lost'[c.s].noted
    <3>1. c.s \in Servers /\ c.downs \in Nat /\ c.downs <= srv[c.s].downs
      BY DEF Typing, Checks, Outages, ChecksAfterOutages
    <3>2. CASE c.s = s
      BY <1>1, <2>1, <3>1, <3>2 DEF Object
    <3>3. CASE c.s # s
      BY <1>3, <3>1, <3>3 DEF Outages, ChecksAfterOutages
    <3> QED
      BY <3>2, <3>3
  <2> QED
    BY <2>2, <2>3 DEF Outages, ChecksAfterOutages
<1> QED
  BY <1>4, <1>5

LEMMA ReachedOutages ==
  ASSUME Typing, Typing', Outages, NEW u \in Objects, SameOutages(srv, u), NEW s \in Servers,
         Reached(u, s), UNCHANGED <<life, alive, lost>>
  PROVE  Outages'
<1>1. SameOutages(srv, srv')
  BY DEF Reached, SameOutages, Objects, Object
<1>2. \A c \in checks' : c \in checks \/ (c.ans = Unread /\ c.downs = srv[c.s].downs)
  BY DEF Reached, Check, SameOutages
<1>3. \A t \in Servers : DeadAt(t)' = DeadAt(t) /\ DeadAt(t) \in Int
  BY KnobAssumption DEF DeadAt, Typing
<1> QED
  BY <1>1, <1>2, <1>3, OutagesStay

LEMMA ScrapeOutages ==
  ASSUME Typing, Typing', Outages, NEW s \in Servers, Scrape(s)
  PROVE  Outages'
<1>1. srv \in Objects /\ gen[s] \subseteq Requests /\ SameOutages(srv, srv)
      /\ UNCHANGED <<life, alive>>
  BY DEF Typing, SameOutages, Scrape, world
<1>2. ASSUME NEW u, NEW v, NEW w, SameOutages(u, v), SameOutages(v, w) PROVE SameOutages(u, w)
  BY <1>2 DEF SameOutages
<1>3. CASE ScrapeRefused(s)
  BY <1>1, <1>3, OutageNoted DEF ScrapeRefused, SameOutages
<1>4. CASE ScrapeRead(s)
  <2>1. Cardinality(gen[s]) \in Nat
    BY <1>1, SetAssumption, FS_Subset, FS_CardinalityType
  <2>2. PICK load \in 0 .. Cardinality(gen[s]) + OtherLoad :
          Reached(MetricsOk(Answered(srv, s), s, load), s)
    BY <1>4 DEF ScrapeRead
  <2>3. load \in Nat
    BY <2>1, KnobAssumption
  <2>4. /\ MetricsOk(Answered(srv, s), s, load) \in Objects
        /\ SameOutages(srv, MetricsOk(Answered(srv, s), s, load))
    BY <1>1, <1>2, <2>3, AnsweredType, MetricsOkType
  <2> QED
    BY <1>1, <1>4, <2>2, <2>4, ReachedOutages DEF ScrapeRead
<1>5. CASE ScrapePoor(s)
  <2>1. /\ MetricsNone(Answered(srv, s), s) \in Objects
        /\ MetricsMiss(Answered(srv, s), s) \in Objects
        /\ MetricsMiss(TimedOut(srv, s), s) \in Objects
        /\ MetricsMiss(srv, s) \in Objects
    BY <1>1, AnsweredType, TimedOutType, MetricsNoneType, MetricsMissType
  <2>2. /\ SameOutages(srv, MetricsNone(Answered(srv, s), s))
        /\ SameOutages(srv, MetricsMiss(Answered(srv, s), s))
        /\ SameOutages(srv, MetricsMiss(TimedOut(srv, s), s))
        /\ SameOutages(srv, MetricsMiss(srv, s))
    BY <1>1, <1>2, AnsweredType, TimedOutType, MetricsNoneType, MetricsMissType
  <2> QED
    BY <1>1, <1>5, <2>1, <2>2, ReachedOutages DEF ScrapePoor
<1> QED
  BY <1>3, <1>4, <1>5 DEF Scrape

LEMMA CheckOutages ==
  ASSUME Typing, Typing', Outages, NEW s \in Servers, CheckStep(s)
  PROVE  Outages'
<1>1. PICK c \in checks : c.s = s /\ (AnswerCheck(c) \/ Checked(c) \/ Unanswered(c))
  BY DEF CheckStep
<1>2. srv \in Objects /\ SameOutages(srv, srv) /\ c \in Checks
  BY DEF Typing, SameOutages
<1>3. SameOutages(srv, Answered(srv, s)) /\ SameOutages(srv, TimedOut(srv, s))
  BY <1>2, AnsweredType, TimedOutType
<1>4. UNCHANGED <<life, alive, lost>>
  BY <1>1 DEF AnswerCheck, Checked, Unanswered, world, history
<1>5. \A t \in Servers : DeadAt(t)' = DeadAt(t) /\ DeadAt(t) \in Int /\ lost[t].noted \in Int
  BY <1>4, KnobAssumption DEF DeadAt, Typing
<1>6. CASE AnswerCheck(c)
  <2>1. PICK a \in {c.to, 0} : checks' = (checks \ {c}) \cup {[c EXCEPT !.ans = a]}
    BY <1>6 DEF AnswerCheck
  <2> DEFINE d == [c EXCEPT !.ans = a]
  <2>2. d.s = s /\ d.downs = c.downs /\ d.ans = a
    BY <1>1, <1>2 DEF Checks
  <2>3. a # 0 => a = life[s] /\ alive[s]
    BY <1>1, <1>6 DEF AnswerCheck, Asked
  <2>4. a # 0 => a > lost[s].noted
    <3>1. lost[s].noted <= DeadAt(s) /\ life[s] \in Int
      BY DEF Outages, AfterOutages, Typing
    <3> QED
      BY <1>5, <2>3, <3>1 DEF DeadAt
  <2> HIDE DEF d
  <2>5. srv' = srv /\ checks' = (checks \ {c}) \cup {d}
    BY <1>6, <2>1 DEF AnswerCheck, d
  <2>6. AfterOutages'
    BY <1>4, <1>5, <2>5 DEF Outages, AfterOutages
  <2>7. ChecksAfterOutages'
    BY <1>1, <1>4, <2>2, <2>4, <2>5 DEF Outages, ChecksAfterOutages
  <2> QED
    BY <2>6, <2>7 DEF Outages
<1>7. CASE Checked(c)
  <2>1. checks' \subseteq checks
    BY <1>7 DEF Checked
  <2>2. CASE srv[s].downs # c.downs
    BY <1>1, <1>2, <1>4, <1>5, <1>7, <2>1, <2>2, OutagesStay DEF Checked
  <2>3. CASE srv[s].downs = c.downs
    <3>1. srv' = [Answered(srv, s) EXCEPT ![s].models = c.ans] /\ c.ans # Unread
      BY <1>1, <1>7, <2>3 DEF Checked
    <3>2. Answered(srv, s) \in Objects
      BY <1>2, AnsweredType
    <3>3. /\ srv'[s].models = c.ans /\ srv'[s].downs = srv[s].downs
          /\ \A t \in Servers : t # s => srv'[t].models = srv[t].models /\ srv'[t].downs = srv[t].downs
      BY <1>3, <3>1, <3>2 DEF SameOutages, Objects, Object
    <3>4. c.ans # 0 => c.ans > lost[s].noted
      BY <1>1, <2>3, <3>1 DEF Outages, ChecksAfterOutages
    <3>5. AfterOutages'
      BY <1>4, <1>5, <3>3, <3>4 DEF Outages, AfterOutages
    <3>6. \A d \in checks' : d \in checks /\ d.s \in Servers
      BY <2>1 DEF Typing, Checks
    <3>7. ChecksAfterOutages'
      BY <1>4, <3>3, <3>6 DEF Outages, ChecksAfterOutages
    <3> QED
      BY <3>5, <3>7 DEF Outages
  <2> QED
    BY <2>2, <2>3
<1>8. CASE Unanswered(c)
  <2>1. checks' \subseteq checks /\ SameOutages(srv, srv')
    BY <1>1, <1>2, <1>3, <1>8 DEF Unanswered
  <2> QED
    BY <1>4, <1>5, <2>1, OutagesStay
<1> QED
  BY <1>1, <1>6, <1>7, <1>8

LEMMA ReloadOutages == ASSUME Typing, Outages, Reload PROVE Outages'
<1> DEFINE away == ups \ ups'
<1>1. /\ \A s \in Servers : srv'[s] = IF s \in away THEN Fresh ELSE srv[s]
      /\ checks' = {c \in checks : c.s \notin away}
      /\ UNCHANGED <<life, alive, lost>>
  BY DEF Reload, world, history
<1>2. \A t \in Servers : DeadAt(t)' = DeadAt(t)
  BY <1>1 DEF DeadAt
<1> HIDE DEF away
<1>3. AfterOutages'
  BY <1>1, <1>2 DEF Outages, AfterOutages, Fresh
<1>4. ChecksAfterOutages'
  BY <1>1 DEF Outages, ChecksAfterOutages, Typing, Checks
<1> QED
  BY <1>3, <1>4 DEF Outages

LEMMA OutagesStep == ASSUME Typing, Typing', Outages, [Next]_vars PROVE Outages'
<1>1. \A t \in Servers : DeadAt(t) \in Int /\ DeadAt(t)' \in Int
  BY KnobAssumption DEF DeadAt, Typing
<1>2. SameOutages(srv, srv)
  BY DEF SameOutages
<1>3. ASSUME SameOutages(srv, srv'), UNCHANGED <<life, alive, lost, checks>> PROVE Outages'
  <2>1. \A t \in Servers : DeadAt(t)' = DeadAt(t)
    BY <1>3 DEF DeadAt
  <2> QED
    BY <1>1, <1>3, <2>1, OutagesStay
<1>4. ASSUME NEW s \in Servers, Scrape(s) \/ CheckStep(s) PROVE Outages'
  BY <1>4, ScrapeOutages, CheckOutages
<1>5. ASSUME NEW s \in Servers, CoolDownEnds(s) PROVE Outages'
  <2>1. SameOutages(srv, srv')
    BY <1>5 DEF CoolDownEnds, SameOutages, Typing, Objects, Object
  <2> QED
    BY <1>3, <1>5, <2>1 DEF CoolDownEnds, world, history
<1>6. ASSUME NEW s \in Servers, Die(s) \/ Start(s) PROVE Outages'
  <2>1. \A t \in Servers : DeadAt(t) <= DeadAt(t)'
    BY <1>6, KnobAssumption DEF Die, Start, DeadAt, Typing
  <2>2. UNCHANGED <<srv, lost, checks>>
    BY <1>6 DEF Die, Start, history
  <2> QED
    BY <1>2, <2>1, <2>2, OutagesStay
<1>7. ASSUME NEW q \in Requests, RequestStep(q) PROVE Outages'
  <2>1. UNCHANGED <<life, alive, checks>> /\ req[q].at \in Servers
    BY <1>7 DEF RequestStep, Typing, RequestRecords
  <2> QED
    BY <1>3, <1>7, <2>1, RequestObjects, OutageNoted DEF OnlyCounts
<1>8. ASSUME NEW q \in Requests, Finish(q) \/ Leave(q) PROVE Outages'
  BY <1>2, <1>3, <1>8 DEF Finish, Leave, world, history
<1>9. CASE CheckModels
  <2>1. UNCHANGED <<life, alive, lost, srv>>
    BY <1>9 DEF CheckModels, world, history
  <2>2. \A c \in checks' : c \in checks \/ (c.ans = Unread /\ c.downs = srv[c.s].downs)
    BY <1>9 DEF CheckModels, Check
  <2>3. \A t \in Servers : DeadAt(t)' = DeadAt(t)
    BY <2>1 DEF DeadAt
  <2> QED
    BY <1>1, <1>2, <2>1, <2>2, <2>3, OutagesStay
<1>10. CASE Reload
  BY <1>10, ReloadOutages
<1>11. CASE UNCHANGED vars
  BY <1>2, <1>3, <1>11 DEF vars, world, history
<1> QED
  BY <1>4, <1>5, <1>6, <1>7, <1>8, <1>9, <1>10, <1>11 DEF Next

\* M-B: a server that was lost is up again only on the word of a process that was
\* started after the outage was noted, however many checks are under way and in
\* whatever order they come back.
THEOREM OutagesEndOnNewProcesses == Spec => []UpOutlivesOutage
<1>1. Init => Typing /\ Outages
  <2>1. ASSUME Init PROVE AfterOutages
    BY <2>1 DEF Init, AfterOutages, DeadAt, Fresh
  <2>2. ASSUME Init PROVE ChecksAfterOutages
    BY <2>2 DEF Init, ChecksAfterOutages
  <2> QED
    BY <2>1, <2>2, TypingInit DEF Outages
<1>2. Typing /\ Outages /\ [Next]_vars => (Typing /\ Outages)'
  BY TypingStep, OutagesStep
<1>3. Typing /\ Outages => UpOutlivesOutage
  BY DEF Typing, Outages, AfterOutages, UpOutlivesOutage, Up, Confirmed
<1> QED
  BY <1>1, <1>2, <1>3, PTL DEF Spec

-----------------------------------------------------------------------------
(* The fittest server is tried first.                                        *)

\* How fit a server is for a request, in a given state of the objects.
FitnessIn(u, q, s) ==
  IF ~(s \in ups /\ ~u[s].cool /\ Confirmed(u[s])) THEN 0
  ELSE IF Serves(u[s].models, Wants[q]) THEN 2 ELSE 1

\* No server left to try is fitter than a candidate.
LEMMA CandidatesAreFit ==
  ASSUME NEW q, NEW u, NEW tried, NEW s \in Candidates(q, u, tried), NEW t \in ups \ tried
  PROVE  FitnessIn(u, q, t) <= FitnessIn(u, q, s)
<1> DEFINE rest == ups \ tried
           fresh == {x \in rest : ~u[x].cool}
           live == SomeOf(fresh, rest)
           up == {x \in live : Confirmed(u[x])}
           serving == {x \in up : Serves(u[x].models, Wants[q])}
<1>1. s \in rest /\ s \in ups /\ t \in rest /\ t \in ups
  BY CandidatesType
<1>2. CASE u[t].cool \/ ~Confirmed(u[t])
  BY <1>2 DEF FitnessIn
<1>3. CASE ~u[t].cool /\ Confirmed(u[t])
  <2>1. t \in fresh /\ live = fresh /\ t \in up
    BY <1>1, <1>3 DEF SomeOf
  <2>2. s \in SomeOf(serving, up)
    BY <2>1 DEF Candidates
  <2>3. s \in up /\ (serving # {} => s \in serving)
    BY <2>2 DEF SomeOf
  <2>4. ~u[s].cool /\ Confirmed(u[s])
    BY <2>1, <2>3
  <2>5. Serves(u[t].models, Wants[q]) => Serves(u[s].models, Wants[q])
    BY <2>1, <2>3
  <2> QED
    BY <1>1, <2>4, <2>5 DEF FitnessIn
<1> QED
  BY <1>2, <1>3

\* A request on its way, to an object in use, has that server among those it tried.
Tracked ==
  \A q \in Requests : (req[q].pc = "connect" /\ req[q].cur) => req[q].at \in req[q].tried

\* What a turn of a request does to the servers it tried: nothing, or one is added.
LEMMA TriedMoves ==
  ASSUME Typing, Tracked, NEW q \in Requests, RequestStep(q)
  PROVE  /\ \A p \in Requests : p # q => req'[p] = req[p]
         /\ \/ req'[q].pc # "connect" /\ req'[q].tried = req[q].tried
            \/ \E u, T, s : /\ T \subseteq req[q].tried /\ \A x \in Servers \ T : u[x] = srv[x]
                            /\ s \in Choices(q, u, T)
                            /\ req'[q].at = s /\ req'[q].tried = T \cup {s}
<1>1. req[q] \in RequestRecords /\ req \in [Requests -> RequestRecords] /\ srv \in [Servers -> Object]
  BY DEF Typing, Objects
<1>2. ASSUME NEW outcome, End(q, outcome)
      PROVE  /\ \A p \in Requests : p # q => req'[p] = req[p]
             /\ req'[q].pc # "connect" /\ req'[q].tried = req[q].tried
  BY <1>1, <1>2 DEF End, RequestRecords
<1>3. ASSUME NEW u, NEW T, TryNext(q, u, T), \A x \in Servers \ T : u[x] = srv[x]
      PROVE  /\ \A p \in Requests : p # q => req'[p] = req[p]
             /\ \/ req'[q].pc # "connect" /\ req'[q].tried = req[q].tried
                \/ \E s : /\ s \in Choices(q, u, T)
                          /\ req'[q].at = s /\ req'[q].tried = T \cup {s}
  <2>1. CASE End(q, IF ups = {} THEN "noservers" ELSE "error")
    BY <1>2, <2>1
  <2>2. ASSUME NEW s \in Choices(q, u, T),
               req' = [req EXCEPT ![q] = [@ EXCEPT !.pc = "connect", !.at = s, !.cur = TRUE,
                                                   !.tried = T \cup {s}]]
        PROVE  /\ \A p \in Requests : p # q => req'[p] = req[p]
               /\ req'[q].at = s /\ req'[q].tried = T \cup {s}
    BY <1>1, <2>2 DEF RequestRecords
  <2> QED
    BY <1>3, <2>1, <2>2 DEF TryNext
<1>4. CASE Receive(q) \/ Connect(q) \/ Headers(q)
  <2>1. PICK r \in {[req[q] EXCEPT !.pc = "parse"], [req[q] EXCEPT !.pc = "wait"],
                    [req[q] EXCEPT !.pc = "stream", !.outcome = "reply"]} :
          req' = [req EXCEPT ![q] = r]
    BY <1>1, <1>4 DEF Receive, Connect, Headers
  <2>2. r.pc # "connect" /\ r.tried = req[q].tried
    BY <1>1 DEF RequestRecords
  <2> QED
    BY <1>1, <2>1, <2>2
<1>5. CASE Choose(q)
  BY <1>3, <1>5 DEF Choose
<1>6. CASE ConnectFails(q)
  <2> DEFINE down == IF req[q].cur THEN MarkDown(srv, req[q].at) ELSE srv
             u == LetGo(down, q)
  <2>1. TryNext(q, u, req[q].tried)
    BY <1>6 DEF ConnectFails
  <2>2. ASSUME NEW x \in Servers \ req[q].tried PROVE u[x] = srv[x]
    <3>1. req[q].cur => x # req[q].at
      BY <1>6, <2>2 DEF ConnectFails, Tracked
    <3> QED
      BY <1>1, <3>1 DEF MarkDown, LetGo
  <2> HIDE DEF u
  <2> QED
    BY <1>3, <2>1, <2>2
<1>7. CASE Broken(q) \/ Unexpected(q) \/ RelayEnds(q) \/ RelayBroken(q) \/ Abandon(q)
  BY <1>2, <1>7 DEF Broken, Unexpected, RelayEnds, RelayBroken, Abandon
<1> QED
  BY <1>4, <1>5, <1>6, <1>7 DEF RequestStep

\* No other step adds a server to those a request tried.
LEMMA OtherTried ==
  ASSUME Typing, Tracked, [Next]_vars, \A q \in Requests : ~RequestStep(q)
  PROVE  Tracked' /\ \A q \in Requests : req'[q].tried \subseteq req[q].tried
<1>1. req \in [Requests -> RequestRecords]
  BY DEF Typing
<1>2. ASSUME UNCHANGED req
      PROVE  Tracked' /\ \A q \in Requests : req'[q].tried \subseteq req[q].tried
  BY <1>2 DEF Tracked
<1>3. ASSUME NEW s \in Servers,
             Scrape(s) \/ CoolDownEnds(s) \/ CheckStep(s) \/ Die(s) \/ Start(s)
      PROVE  UNCHANGED req
  BY <1>3 DEF Scrape, CoolDownEnds, CheckStep, AnswerCheck, Checked, Unanswered, Die, Start
<1>4. ASSUME NEW q \in Requests, Finish(q) \/ Leave(q)
      PROVE  Tracked' /\ \A p \in Requests : req'[p].tried \subseteq req[p].tried
  <2>1. \A p \in Requests : /\ req'[p].pc = req[p].pc /\ req'[p].cur = req[p].cur
                            /\ req'[p].at = req[p].at /\ req'[p].tried = req[p].tried
    BY <1>1, <1>4 DEF Finish, Leave, RequestRecords
  <2> QED
    BY <2>1 DEF Tracked
<1>5. CASE CheckModels \/ UNCHANGED vars
  BY <1>2, <1>5 DEF CheckModels, vars
<1>6. CASE Reload
  <2> DEFINE away == ups \ ups'
  <2>1. ASSUME NEW q \in Requests
        PROVE  /\ req'[q].pc = req[q].pc /\ req'[q].at = req[q].at
               /\ req'[q].cur <=> req[q].cur /\ req[q].at \notin away
               /\ req'[q].tried = req[q].tried \ away
    <3>1. req[q] \in RequestRecords
      BY <1>1
    <3>2. req'[q] = [req[q] EXCEPT !.cur = req[q].cur /\ req[q].at \notin away,
                                   !.tried = req[q].tried \ away]
      BY <1>6, <3>1 DEF Reload
    <3> QED
      BY <3>1, <3>2 DEF RequestRecords
  <2> HIDE DEF away
  <2> QED
    BY <2>1 DEF Tracked
<1> QED
  BY <1>2, <1>3, <1>4, <1>5, <1>6 DEF Next

LEMMA TrackedStep == ASSUME Typing, Tracked, [Next]_vars PROVE Tracked'
<1>1. ASSUME NEW q \in Requests, RequestStep(q) PROVE Tracked'
  BY <1>1, TriedMoves DEF Tracked
<1> QED
  BY <1>1, OtherTried

LEMMA FittestStep ==
  ASSUME Typing, Tracked, [Next]_vars, NEW q \in Requests, NEW s \in req'[q].tried \ req[q].tried,
         NEW t \in ups \ req'[q].tried
  PROVE  Fitness(q, t) <= Fitness(q, s)
<1>1. RequestStep(q)
  BY OtherTried, TriedMoves
<1>2. PICK u, T, c : /\ T \subseteq req[q].tried /\ \A x \in Servers \ T : u[x] = srv[x]
                     /\ c \in Choices(q, u, T)
                     /\ req'[q].tried = T \cup {c}
  BY <1>1, TriedMoves
<1>3. c \in ups \ T /\ c \in Candidates(q, u, T)
  BY <1>2, ChoicesType, CandidatesType
<1>4. t \in ups \ T /\ u[t] = srv[t] /\ u[c] = srv[c]
  BY <1>2, <1>3 DEF Typing
<1>5. FitnessIn(u, q, t) <= FitnessIn(u, q, c)
  BY <1>3, <1>4, CandidatesAreFit
<1>6. FitnessIn(u, q, t) = Fitness(q, t) /\ FitnessIn(u, q, c) = Fitness(q, c)
  BY <1>4 DEF FitnessIn, Fitness, Up
<1>7. CASE s = c
  BY <1>5, <1>6, <1>7
<1>8. CASE s # c
  BY <1>1, <1>2, <1>8
<1> QED
  BY <1>7, <1>8

\* M1, M5: whatever the loads, the windows, the sticky keys and the failures so far,
\* no request is sent to a server that is not up, or not known to have its model,
\* while a fitter one is left to try.
THEOREM FittestServersFirst == Spec => FittestServerFirst
<1>1. Init => Typing /\ Tracked
  BY TypingInit DEF Init, Tracked
<1>2. Typing /\ Tracked /\ [Next]_vars => (Typing /\ Tracked)'
  BY TypingStep, TrackedStep
<1>3. Typing /\ Tracked /\ [Next]_vars =>
        [\A q \in Requests :
           \A s \in req'[q].tried \ req[q].tried :
             \A t \in ups \ req'[q].tried : Fitness(q, t) <= Fitness(q, s)]_vars
  BY FittestStep
<1> QED
  BY <1>1, <1>2, <1>3, PTL DEF Spec, FittestServerFirst

=============================================================================
