----------------------------- MODULE LlmRouter -----------------------------
(***************************************************************************)
(* The router in front of the language-model servers (infra/llm-router/    *)
(* llm_router.py): which server is up, which server a request goes to,     *)
(* when a request may go to another one, and what happens when a server,   *)
(* a client or the configured list goes away.                              *)
(*                                                                         *)
(* The router is one event loop.  Its actions are the stretches between    *)
(* two awaits: a metrics probe or a model check that comes back, the       *)
(* choice of a server, each turn a forwarded request takes.  The servers,  *)
(* their processes and the clients are the environment.  A model check is  *)
(* cut in two, because the process that answered it may be gone by the     *)
(* time the answer is read.                                                *)
(*                                                                         *)
(* Time is left out: a cool-down ends at some point, a probe or a check    *)
(* comes back at some point.  What can go wrong (a process that dies, and  *)
(* of one that runs a refused connection, a probe over its limit, a 5xx, a *)
(* reset) costs one of `Troubles`; a dead process refuses for free.        *)
(***************************************************************************)
EXTENDS Integers, FiniteSets

CONSTANTS
  Servers, Requests,
  Models, NoModel,
  Offer,        \* by process and model: the window it serves, 0 if it does not
  Wants,        \* by request: the model its body names, or NoModel
  Keyed, Rank,  \* requests with a sticky key, and their ranking of the servers
  StickySlack,  \* LLM_ROUTER_STICKY_SLACK
  KeepFails,    \* METRICS_KEEP_FAILS
  TimeoutsDown, \* PROBE_TIMEOUTS_DOWN
  OtherLoad,    \* requests of others a server may report
  FirstList,    \* the list at the start; empty if the file's is empty or invalid
  Lives, Troubles, Reloads  \* bounds: processes per server, mishaps, reloads

ASSUME SetAssumption ==
  /\ Servers # {} /\ IsFiniteSet(Requests)
  /\ FirstList \subseteq Servers /\ Keyed \subseteq Requests /\ NoModel \notin Models
ASSUME OfferAssumption == Offer \in [1 .. Lives -> [Models -> Nat]]
ASSUME RequestAssumption ==
  Wants \in [Requests -> Models \cup {NoModel}] /\ Rank \in [Requests -> [Servers -> Nat]]
ASSUME KnobAssumption ==
  /\ StickySlack \in Nat /\ OtherLoad \in Nat /\ Lives \in Nat \ {0} /\ Troubles \in Nat /\ Reloads \in Nat
  /\ KeepFails \in Nat \ {0} /\ TimeoutsDown \in Nat \ {0}

NoMetrics == -1
Unread == -1    \* a check that was not answered yet

\* An Upstream object.  `models` is the process whose model list it holds, 0 for
\* none; `downs` the outages noted so far, `noted` that one is going on.
Upstreams ==
  [cool : BOOLEAN, noted : BOOLEAN, downs : Nat, models : 0 .. Lives,
   timeouts : 0 .. TimeoutsDown, metrics : Nat \cup {NoMetrics}, fails : 0 .. KeepFails,
   inflight : Nat, atScrape : Nat]

Fresh == [cool |-> FALSE, noted |-> FALSE, downs |-> 0, models |-> 0, timeouts |-> 0,
          metrics |-> NoMetrics, fails |-> 0, inflight |-> 0, atScrape |-> 0]

\* A request in _forward.  `cur` says that the object it was sent on is still the
\* one the list holds for that server; `whole` that the server sent all of it.
RequestRecords ==
  [pc : {"idle", "parse", "connect", "wait", "stream", "ended"}, at : Servers, cur : BOOLEAN,
   tried : SUBSET Servers, whole : BOOLEAN, gone : BOOLEAN,
   outcome : {"none", "reply", "complete", "cut", "error", "noservers", "left"}]

\* A model check under way, of the regular round or after a server came back: the
\* process it was put to and the outages noted when it was.
Checks == [s : Servers, kind : {"round", "again"}, to : 1 .. Lives, downs : Nat,
           ans : {Unread} \cup (0 .. Lives)]

VARIABLES
  life, alive, \* the servers' processes: how many there were, whether one runs
  gen,         \* requests a server generates for
  ups,         \* the servers of the list in use
  srv,         \* their Upstream objects
  checks,      \* model checks under way
  req, total,  \* the requests, and the router's own count of them (/health)
  arrived,     \* history: how often a request reached a server
  lost,        \* history: the last process that was dead when an outage was noted
               \* (noted) and when a connection failed (last)
  troubles, reloads

world == <<life, alive, gen>>
history == <<arrived, lost>>
vars == <<world, ups, srv, checks, req, total, history, troubles, reloads>>

Init ==
  /\ life = [s \in Servers |-> 1] /\ alive = [s \in Servers |-> TRUE]
  /\ gen = [s \in Servers |-> {}]
  /\ ups = FirstList
  /\ srv = [s \in Servers |-> Fresh]
  /\ checks = {}
  /\ req = [q \in Requests |->
              [pc |-> "idle", at |-> CHOOSE s \in Servers : TRUE, cur |-> FALSE, tried |-> {},
               whole |-> FALSE, gone |-> FALSE, outcome |-> "none"]]
  /\ total = 0
  /\ arrived = [q \in Requests |-> 0]
  /\ lost = [s \in Servers |-> [noted |-> 0, last |-> 0]]
  /\ troubles = 0 /\ reloads = 0

Trouble == troubles < Troubles /\ troubles' = troubles + 1

-----------------------------------------------------------------------------
(* Which server is up, how busy it is, and which one a request goes to.      *)

Confirmed(u) == u.models # 0 /\ u.timeouts < TimeoutsDown
Up(s) == s \in ups /\ ~srv[s].cool /\ Confirmed(srv[s])

Serves(list, m) == list # 0 /\ m # NoModel /\ Offer[list][m] > 0

\* The largest window of a list, of one model if that is named.
Window(list, m) ==
  LET of == {Offer[list][x] : x \in IF m = NoModel THEN Models ELSE {m}}
  IN CHOOSE w \in of : \A v \in of : v <= w

Larger(a, b) == IF a > b THEN a ELSE b

Load(u) ==
  IF u.metrics = NoMetrics THEN u.inflight
  ELSE Larger(u.metrics + Larger(0, u.inflight - u.atScrape), u.inflight)

SomeOf(S, T) == IF S # {} THEN S ELSE T

\* Fault: a server is as good as any other as soon as it can be connected to.
ReachableCandidates(q, u, tried) ==
  SomeOf({s \in ups \ tried : ~u[s].cool}, ups \ tried)

Candidates(q, u, tried) ==
  LET rest == ups \ tried
      live == SomeOf({s \in rest : ~u[s].cool}, rest)
      up == {s \in live : Confirmed(u[s])}
      serving == {s \in up : Serves(u[s].models, Wants[q])}
      pool == SomeOf(serving, up)
      width == [s \in pool |-> Window(u[s].models, IF serving # {} THEN Wants[q] ELSE NoModel)]
      others == SomeOf({s \in live : u[s].timeouts < TimeoutsDown}, live)
  IN IF up # {} THEN {s \in pool : \A t \in pool : width[t] <= width[s]}
     ELSE SomeOf({s \in others : Serves(u[s].models, Wants[q])}, others)

\* The least busy candidate (ties, broken in the code by the cache use and by the
\* order of the list, are left open), or the preferred one if it is hardly busier.
Choices(q, u, tried) ==
  LET cands == Candidates(q, u, tried)
      least == {s \in cands : \A t \in cands : Load(u[s]) <= Load(u[t])}
      preferred == {s \in cands : \A t \in cands : Rank[q][t] <= Rank[q][s]}
  IN IF q \notin Keyed THEN least
     ELSE {IF pref = best \/ Load(u[pref]) - Load(u[best]) < StickySlack THEN pref ELSE best :
             pref \in preferred, best \in least}

-----------------------------------------------------------------------------
(* Outages.  DeadAt is the last process of a server that is known to be gone. *)

DeadAt(s) == IF alive[s] THEN life[s] - 1 ELSE life[s]

MarkDown(u, s) ==
  [u EXCEPT ![s] = [@ EXCEPT !.cool = TRUE, !.noted = TRUE,
                             !.downs = IF u[s].noted THEN u[s].downs ELSE u[s].downs + 1,
                             !.models = IF u[s].noted THEN u[s].models ELSE 0]]

Lose(s) ==
  lost' = [lost EXCEPT ![s] = [noted |-> IF srv[s].noted THEN @.noted ELSE DeadAt(s),
                               last |-> DeadAt(s)]]

\* Fault: an answer does not clear the probes that came back without one.
AnswerNoted(u, s) == u

Answered(u, s) == [u EXCEPT ![s].timeouts = 0]

TimedOut(u, s) ==
  [u EXCEPT ![s].timeouts = IF @ < TimeoutsDown THEN @ + 1 ELSE @]

MetricsMiss(u, s) ==
  LET n == IF u[s].fails < KeepFails THEN u[s].fails + 1 ELSE KeepFails
  IN [u EXCEPT ![s] = [@ EXCEPT !.fails = n,
                                !.metrics = IF n < KeepFails THEN u[s].metrics ELSE NoMetrics]]

MetricsNone(u, s) == [u EXCEPT ![s] = [@ EXCEPT !.metrics = NoMetrics, !.fails = 0]]

MetricsOk(u, s, load) ==
  [u EXCEPT ![s] = [@ EXCEPT !.metrics = load, !.fails = 0, !.atScrape = u[s].inflight]]

Check(u, s, kind) ==
  [s |-> s, kind |-> kind, to |-> life[s], downs |-> u[s].downs, ans |-> Unread]

\* The end of a probe that reached the server: an outage is over if the cool-down
\* is, and the server is asked for its models at once.
Reached(u, s) ==
  LET back == u[s].noted /\ ~u[s].cool
  IN /\ srv' = IF back THEN [u EXCEPT ![s].noted = FALSE] ELSE u
     /\ checks' = IF back THEN checks \cup {Check(u, s, "again")} ELSE checks

ScrapeRefused(s) ==
  /\ IF alive[s] THEN Trouble ELSE UNCHANGED troubles
  /\ srv' = MarkDown(srv, s) /\ Lose(s)
  /\ UNCHANGED checks

ScrapeRead(s) ==
  /\ alive[s]
  /\ \E load \in 0 .. Cardinality(gen[s]) + OtherLoad :
       Reached(MetricsOk(Answered(srv, s), s, load), s)
  /\ UNCHANGED <<lost, troubles>>

\* No vLLM metrics (404, other text); a 5xx; over the read limit; cut off.
ScrapePoor(s) ==
  /\ Trouble
  /\ \/ alive[s] /\ Reached(MetricsNone(Answered(srv, s), s), s)
     \/ alive[s] /\ Reached(MetricsMiss(Answered(srv, s), s), s)
     \/ alive[s] /\ Reached(MetricsMiss(TimedOut(srv, s), s), s)
     \/ Reached(MetricsMiss(srv, s), s)
  /\ UNCHANGED lost

Scrape(s) ==
  /\ s \in ups
  /\ ScrapeRefused(s) \/ ScrapeRead(s) \/ ScrapePoor(s)
  /\ UNCHANGED <<world, ups, req, total, arrived, reloads>>

CoolDownEnds(s) ==
  /\ s \in ups /\ srv[s].cool
  /\ srv' = [srv EXCEPT ![s].cool = FALSE]
  /\ UNCHANGED <<world, ups, checks, req, total, history, troubles, reloads>>

-----------------------------------------------------------------------------
(* Model checks.                                                             *)

CheckModels ==
  /\ \A c \in checks : c.kind # "round"
  /\ ups # {}
  /\ checks' = checks \cup {Check(srv, s, "round") : s \in ups}
  /\ UNCHANGED <<world, ups, srv, req, total, history, troubles, reloads>>

Asked(c) == alive[c.s] /\ life[c.s] = c.to

\* The process's answer leaves it: its list, or something that is no list.
AnswerCheck(c) ==
  /\ c.ans = Unread /\ Asked(c)
  /\ \/ checks' = (checks \ {c}) \cup {[c EXCEPT !.ans = c.to]} /\ UNCHANGED troubles
     \/ checks' = (checks \ {c}) \cup {[c EXCEPT !.ans = 0]} /\ Trouble
  /\ UNCHANGED <<world, ups, srv, req, total, history, reloads>>

\* Fault: the answer is taken although the server went down since it was asked.
CheckedLate(c) ==
  /\ c.ans # Unread
  /\ checks' = checks \ {c}
  /\ srv' = [Answered(srv, c.s) EXCEPT ![c.s].models = c.ans]
  /\ UNCHANGED <<world, ups, req, total, history, troubles, reloads>>

Checked(c) ==
  /\ c.ans # Unread
  /\ checks' = checks \ {c}
  /\ srv' = IF srv[c.s].downs = c.downs
            THEN [Answered(srv, c.s) EXCEPT ![c.s].models = c.ans] ELSE srv
  /\ UNCHANGED <<world, ups, req, total, history, troubles, reloads>>

\* No answer: nothing is learnt, except that a server that runs did not answer.
Unanswered(c) ==
  /\ c.ans = Unread
  /\ checks' = checks \ {c}
  /\ \/ ~Asked(c) /\ UNCHANGED <<srv, troubles>>
     \/ Trouble /\ srv' \in {srv, IF srv[c.s].downs = c.downs THEN TimedOut(srv, c.s) ELSE srv}
  /\ UNCHANGED <<world, ups, req, total, history, reloads>>

CheckStep(s) ==
  \E c \in checks : c.s = s /\ (AnswerCheck(c) \/ Checked(c) \/ Unanswered(c))

-----------------------------------------------------------------------------
(* The list.  An empty or invalid list never replaces one in use.  A server   *)
(* that leaves the list takes its object along; if it comes back it gets a    *)
(* new one, and the requests still running on the old one are not its own.    *)

Reload ==
  /\ reloads < Reloads /\ reloads' = reloads + 1
  /\ \E L \in SUBSET Servers : ups' = SomeOf(L, ups)
  /\ srv' = [s \in Servers |-> IF s \in ups \ ups' THEN Fresh ELSE srv[s]]
  /\ checks' = {c \in checks : c.s \notin ups \ ups'}
  /\ req' = [q \in Requests |->
               [req[q] EXCEPT !.cur = @ /\ req[q].at \notin ups \ ups',
                              !.tried = @ \ (ups \ ups')]]
  /\ UNCHANGED <<world, total, history, troubles>>

-----------------------------------------------------------------------------
(* A request.                                                                *)

Relayed == {"connect", "wait", "stream"}
Counted == {"parse"} \cup Relayed

\* The finally clause of _forward.
LetGo(u, q) == IF req[q].cur THEN [u EXCEPT ![req[q].at].inflight = @ - 1] ELSE u

\* The request is over for the client and for the router, and the connection to
\* its server is closed.
End(q, outcome) ==
  /\ req' = [req EXCEPT ![q] = [@ EXCEPT !.pc = "ended", !.outcome = outcome]]
  /\ total' = total - 1
  /\ gen' = [s \in Servers |-> gen[s] \ {q}]

\* _forward's loop: the next server, or none that is left to try.
TryNext(q, u, tried) ==
  \/ /\ Choices(q, u, tried) = {}
     /\ srv' = u
     /\ End(q, IF ups = {} THEN "noservers" ELSE "error")
  \/ \E s \in Choices(q, u, tried) :
       /\ srv' = [u EXCEPT ![s].inflight = @ + 1]
       /\ req' = [req EXCEPT ![q] = [@ EXCEPT !.pc = "connect", !.at = s, !.cur = TRUE,
                                              !.tried = tried \cup {s}]]
       /\ UNCHANGED <<total, gen>>

Receive(q) ==
  /\ req[q].pc = "idle"
  /\ req' = [req EXCEPT ![q].pc = "parse"]
  /\ total' = total + 1
  /\ UNCHANGED <<gen, srv, lost, arrived, troubles>>

Choose(q) ==
  /\ req[q].pc = "parse"
  /\ TryNext(q, srv, {})
  /\ UNCHANGED <<lost, arrived, troubles>>

ConnectFails(q) ==
  LET k == req[q] IN
  /\ k.pc = "connect"
  /\ IF alive[k.at] THEN Trouble ELSE UNCHANGED troubles
  /\ TryNext(q, LetGo(IF k.cur THEN MarkDown(srv, k.at) ELSE srv, q), k.tried)
  /\ IF k.cur THEN Lose(k.at) ELSE UNCHANGED lost
  /\ UNCHANGED arrived

Connect(q) ==
  LET k == req[q] IN
  /\ k.pc = "connect" /\ alive[k.at]
  /\ req' = [req EXCEPT ![q].pc = "wait"]
  /\ gen' = [gen EXCEPT ![k.at] = @ \cup {q}]
  /\ arrived' = [arrived EXCEPT ![q] = @ + 1]
  /\ UNCHANGED <<srv, total, lost, troubles>>

\* The connection is gone: the process died, or it was reset.
Cut(q) == IF q \in gen[req[q].at] \/ req[q].whole THEN Trouble ELSE UNCHANGED troubles

\* Fault: a request that broke before its reply is sent to the next server.
Resent(q) ==
  /\ req[q].pc = "wait" /\ q \notin gen[req[q].at]
  /\ TryNext(q, LetGo(srv, q), req[q].tried)
  /\ UNCHANGED <<lost, arrived, troubles>>

Broken(q) ==
  /\ req[q].pc = "wait" /\ Cut(q)
  /\ srv' = LetGo(srv, q)
  /\ End(q, "error")
  /\ UNCHANGED <<lost, arrived>>

\* Any other exception of the send: whether the server got it is not known.
Unexpected(q) ==
  LET k == req[q] IN
  /\ k.pc \in {"connect", "wait"} /\ Trouble
  /\ srv' = LetGo(IF k.cur THEN MarkDown(srv, k.at) ELSE srv, q)
  /\ IF k.cur THEN Lose(k.at) ELSE UNCHANGED lost
  /\ End(q, "error")
  /\ UNCHANGED arrived

Headers(q) ==
  /\ req[q].pc = "wait" /\ (q \in gen[req[q].at] \/ req[q].whole)
  /\ req' = [req EXCEPT ![q] = [@ EXCEPT !.pc = "stream", !.outcome = "reply"]]
  /\ UNCHANGED <<gen, srv, total, lost, arrived, troubles>>

RelayEnds(q) ==
  /\ req[q].pc = "stream" /\ req[q].whole
  /\ srv' = LetGo(srv, q)
  /\ End(q, "complete")
  /\ UNCHANGED <<lost, arrived, troubles>>

\* Fault: a stream that broke is ended like one that is whole.
RelayEndsAnyway(q) ==
  /\ req[q].pc = "stream" /\ Cut(q)
  /\ srv' = LetGo(srv, q)
  /\ End(q, "complete")
  /\ UNCHANGED <<lost, arrived>>

RelayBroken(q) ==
  /\ req[q].pc = "stream" /\ Cut(q)
  /\ srv' = LetGo(srv, q)
  /\ End(q, "cut")
  /\ UNCHANGED <<lost, arrived>>

\* Fault: the router looks out for the client only while it sends to it.
AbandonStream(q) ==
  /\ req[q].gone /\ req[q].pc = "stream"
  /\ srv' = LetGo(srv, q)
  /\ End(q, "left")
  /\ UNCHANGED <<lost, arrived, troubles>>

\* Fault: the request is given up without closing the connection to its server.
AbandonOpen(q) ==
  /\ req[q].gone /\ req[q].pc \in Relayed
  /\ srv' = LetGo(srv, q)
  /\ req' = [req EXCEPT ![q] = [@ EXCEPT !.pc = "ended", !.outcome = "left"]]
  /\ total' = total - 1
  /\ UNCHANGED <<gen, lost, arrived, troubles>>

\* Fault: the counts go down only where the request comes to its own end.
AbandonUncounted(q) ==
  /\ req[q].gone /\ req[q].pc \in Relayed
  /\ End(q, "left")
  /\ UNCHANGED <<srv, lost, arrived, troubles>>

\* The client left and the forwarding task is cancelled.
Abandon(q) ==
  /\ req[q].gone /\ req[q].pc \in Relayed
  /\ srv' = LetGo(srv, q)
  /\ End(q, "left")
  /\ UNCHANGED <<lost, arrived, troubles>>

RequestStep(q) ==
  /\ \/ Receive(q) \/ Choose(q) \/ ConnectFails(q) \/ Connect(q)
     \/ Broken(q) \/ Unexpected(q) \/ Headers(q)
     \/ RelayEnds(q) \/ RelayBroken(q) \/ Abandon(q)
  /\ UNCHANGED <<life, alive, ups, checks, reloads>>

-----------------------------------------------------------------------------
(* The environment.                                                          *)

Die(s) ==
  /\ alive[s] /\ Trouble
  /\ alive' = [alive EXCEPT ![s] = FALSE]
  /\ gen' = [gen EXCEPT ![s] = {}]
  /\ UNCHANGED <<life, ups, srv, checks, req, total, history, reloads>>

Start(s) ==
  /\ ~alive[s] /\ life[s] < Lives
  /\ alive' = [alive EXCEPT ![s] = TRUE]
  /\ life' = [life EXCEPT ![s] = @ + 1]
  /\ UNCHANGED <<gen, ups, srv, checks, req, total, history, troubles, reloads>>

\* The server has sent all of its reply.
Finish(q) ==
  /\ q \in gen[req[q].at] /\ req[q].pc \in {"wait", "stream"}
  /\ gen' = [gen EXCEPT ![req[q].at] = @ \ {q}]
  /\ req' = [req EXCEPT ![q].whole = TRUE]
  /\ UNCHANGED <<life, alive, ups, srv, checks, total, history, troubles, reloads>>

Leave(q) ==
  /\ req[q].pc \in Counted /\ ~req[q].gone
  /\ req' = [req EXCEPT ![q].gone = TRUE]
  /\ UNCHANGED <<world, ups, srv, checks, total, history, troubles, reloads>>

-----------------------------------------------------------------------------
Next ==
  \/ \E s \in Servers : Scrape(s) \/ CoolDownEnds(s) \/ CheckStep(s) \/ Die(s) \/ Start(s)
  \/ \E q \in Requests : RequestStep(q) \/ Finish(q) \/ Leave(q)
  \/ CheckModels \/ Reload

Spec == Init /\ [][Next]_vars

\* The loops of the router run for ever and its probes have limits; a request's
\* own turns and the watch on its client are run by the event loop.  Nothing is
\* asked of the servers: one that generates may do so for ever.
Fairness ==
  /\ WF_vars(CheckModels)
  /\ \A s \in Servers : WF_vars(Scrape(s)) /\ WF_vars(CoolDownEnds(s)) /\ WF_vars(CheckStep(s))
  /\ \A q \in Requests :
       /\ WF_vars(Choose(q) /\ UNCHANGED <<life, alive, ups, checks, reloads>>)
       /\ WF_vars(Abandon(q) /\ UNCHANGED <<life, alive, ups, checks, reloads>>)

LiveSpec == Spec /\ Fairness

-----------------------------------------------------------------------------
(* Properties.                                                               *)

TypeOK ==
  /\ life \in [Servers -> 1 .. Lives] /\ alive \in [Servers -> BOOLEAN]
  /\ gen \in [Servers -> SUBSET Requests]
  /\ ups \subseteq Servers
  /\ srv \in [Servers -> Upstreams]
  /\ checks \subseteq Checks
  /\ req \in [Requests -> RequestRecords]
  /\ total \in Nat
  /\ arrived \in [Requests -> Nat]
  /\ lost \in [Servers -> [noted : 0 .. Lives, last : 0 .. Lives]]
  /\ troubles \in 0 .. Troubles /\ reloads \in 0 .. Reloads

\* LP-D3: a request reaches at most one server, once.  Only a connection that was
\* never made lets it try another one.
ReachesOneServer == \A q \in Requests : arrived[q] <= 1

\* What the choice and /health are made on is true: a server's count is the
\* requests on it, the router's count the requests it holds, whoever left,
\* whatever died and however often the list changed.
CountsAreTrue ==
  /\ total = Cardinality({q \in Requests : req[q].pc \in Counted})
  /\ \A s \in ups :
       srv[s].inflight =
         Cardinality({q \in Requests : req[q].pc \in Relayed /\ req[q].cur /\ req[q].at = s})

\* A server generates for nobody whose request the router has let go.
NoOrphans ==
  \A s \in Servers : \A q \in gen[s] : req[q].pc \in {"wait", "stream"} /\ req[q].at = s

\* A reply that ends as if it were complete is complete.
CompleteIsWhole == \A q \in Requests : req[q].outcome = "complete" => req[q].whole

\* M-B: once an outage is noted, a server is not up again on the word of the
\* process that was lost with it, however late a check comes back.
UpOutlivesOutage == \A s \in ups : Up(s) => srv[s].models > lost[s].noted

\* _mark_down's docstring: no list of before a failed connection makes the server
\* count as up.
UpOutlivesFailure == \A s \in ups : (Up(s) /\ alive[s]) => srv[s].models > lost[s].last

Fitness(q, s) == IF ~Up(s) THEN 0 ELSE IF Serves(srv[s].models, Wants[q]) THEN 2 ELSE 1

\* M1, M5: a server that fails fast or does not answer its probes looks idle.  A
\* request goes to one, or to a server without its model, only if no fitter one is
\* left to try, however the loads are and whatever failed before.
FittestServerFirst ==
  [][\A q \in Requests :
       \A s \in req'[q].tried \ req[q].tried :
         \A t \in ups \ req'[q].tried : Fitness(q, t) <= Fitness(q, s)]_vars

\* A server that keeps running on a list that keeps naming it is up for good in
\* the end, whatever happened before.
HealthyComesBack ==
  \A s \in Servers : <>[](alive[s] /\ s \in ups) => <>[]Up(s)

\* A request whose client left ends, and with it the generation, though a server
\* may hold a reply back for ever.
LeftIsReleased == \A q \in Requests : req[q].gone ~> req[q].pc = "ended"
=============================================================================
