# Verification of HWAXPortal

TLA+ models of the portal's stateful parts, checked with TLC on small instances and,
where a theorem is stated, proved with TLAPS for every instance.  Definitions carry the
names of the source; `PROJECT.json` maps each to the lines it stands for.

Contents: [inventory](#inventory) · [procedure runs](#procedure-runs) · [the
router](#the-router) · [routine runs](#routine-runs) · [chat and decks](#chat-and-decks) ·
[card reviews](#card-reviews) · [tickets, tokens, cards, index](#tickets-tokens-cards-index) ·
[accounts](#accounts) ·
[runs and bounds](#runs-and-bounds) · [fairness](#fairness) · [proofs](#proofs) ·
[disagreements](#disagreements) · [not modelled](#not-modelled) · [plan](#plan)

## Inventory

The portal is one FastAPI process with one event loop (`src/backend/app`).  Coroutine
handlers interleave where they await; plain-function handlers run on the framework's
threads and interleave everywhere.  State is in SQLite files, in the process's memory,
and in services the portal talks to: the MCP gateway, the agent server, Report Archive,
the deck builder, the language-model servers behind the router (`src/infra/llm-router`),
which is a process of its own.

| component | state it keeps | operations | what makes it correct |
|---|---|---|---|
| run ledger `procedures/store.py` | runs, step rows, approvals | conditional state writes, begin/finish step, give/use approval, close stale rows at start | a cancel is final; what looks alive is alive |
| runner `procedures/runner.py` | tasks, semaphore, backend locks, a copy of the carried values | run, plan, loop, gate, publish gate, call, select, one step of an empty run | calls stay within approvals; one runner per run; slots and locks come back |
| run handlers `procedures/routes.py` | what they spawn | start, replay, fan out, pick, ack, resume, add step, cancel | only who takes a resting run starts a runner; resume repeats nothing |
| LLM router `infra/llm-router/llm_router.py` | server objects (cool-down, outage, models, metrics, counts), the list, running requests | forward, probe metrics, check models, reload the list | a request reaches one server; counts are true; stale answers do not make a server up; a healthy one comes back |
| routine runs `procedures/routine_*.py` | runs, stages, calls with budgets | start, add call, close step, pick, resume, report, cancel | an end is final; budgets hold; no step is closed twice |
| chat relay `agent/routes.py` | permits, pumps that outlive their reader, turn counts, relays of deliberations, save locks | chat, deliberate, stop, reattach | permits come back; each answer is saved once and in order; a stop is recorded once |
| deck jobs `agent/wda_deck.py` | job files, per-job locks, reservations | create, step, notice, settle, dismiss | limits hold; one build per job; one notice, outside a turn |
| PC uploads `agent/pc_upload.py` | tickets | issue, open, claim, finish, cancel, sweep | a ticket is used once; an open one ends |
| token store `auth/token_store.py` | tokens, revocations, parents, used ids | record, exchange, revoke, publish the denylist | a child does not outlive its parent's revocation; replay is seen |
| card review relay `agent/routes.py` | places, streams at the engine, records | ask, open, relay, close from two sides | a place comes back; one record of each end; the app is told once |
| insight intake `insights/` | cards, cursor, partial flag | sync, ingest, confirm, withdraw | no card is passed over; a withdrawn one stays so |
| conversations `agent/conv_*.py` | messages, vectors | append, search, index | nothing half indexed |
| accounts, sign-on, access `auth/`, `access/` | users, groups, requests, keys | log in, approve, suspend, compute rights | rights follow groups; an administrator remains |
| the rest | - | data functions, deliveries, status board, workflow scripts, deployment, web client | - |

How they meet: a chat message goes through the relay to the agent server, which calls
the gateway and, through the router, a language-model server.  A procedure is run by the
portal's own runner through the gateway, a routine by an outside executor that writes
its steps through the portal's handlers.  Decks and uploads end in notices in a
conversation, which must not fall inside a turn the relay is counting.  The router and
the procedure runner share nothing but the servers at the far end.

What is hard here: requests for one run that arrive together; `cancel`, which runs on a
thread and falls between any two ledger statements; results read before an await and
used after it; a process that restarts with writes on their way; probes and answers of
servers that died meanwhile; clients that leave; calls of which nobody knows whether they
arrived.  The hazards are listed in `PROJECT.json`, each with its line and the properties
that would show it.

## Procedure runs

`ProcedureRuns` composes ledger, runner and handlers, because every property worth
stating is about their interleaving.  `RunLifecycle` is what a run promises its owner,
without steps, approvals or awaits.  `MCProcedureRuns` names the values of instances,
`MCProcedureShapes` puts three shapes of procedures next to each other, as a part of the run
`Parts`.

| TLA+ | code |
|---|---|
| `run`, `mode`, `inputs` | `runs.state`, `.mode`, the carried value in `.inputs_json` |
| `row[r][ix]` | the `run_steps` row: state, stage, `args_sha256`, whether its notes hold candidates |
| `ack[r][ix]` | the `run_gate_acks` row: none, unused, used, and what for |
| `task[t]` | a task of the runner: where it is (`pc`), its step, its copy of the carried value (`scope`) |
| `sem`, `lock` | the runner's semaphore and `_backend_locks` |
| `credit`, `late` | history: approvals minus gated calls sent; calls sent after a cancel |

**Atomicity.**  A runner is cut into one action per await and per ledger statement that a
cancel or a restart can separate from the next.  Handlers are coroutines without an await
after their dependencies: one action.  `cancel` is one statement of the ledger and may
fall anywhere.  `_spend` and the request it is followed by are one action, as nothing is
awaited between.  `begin_step` and `finish_step` are two, except in `_plan`, which calls
nothing in between: there one action writes the row.

**Data.**  A procedure carries one value, from a `save` or a `select` step or from a
batch, to the steps that name it.  The fingerprint of a call is that value and, of a
publish step, the preview it was approved on.  Candidates are a flag: a pick may take any
value.  A multi-selection (`mode: many`) is a step that asks.  A fan-out takes its
candidates one at a time; several requests reach every state one request for many does.
What a person was shown before a publication is over-approximated: any preview at any
time.  The text of cards, reports, notes and audit is left out.

**Requests** are enabled when the handler would not refuse; refusals change nothing.
`StartRun` stands for replay too, `Resume`'s and `Ack`'s guards are the handlers' early
returns in their order.  `AddStep` is `POST /steps` with a step that needs no approval;
`AdHocRuns` are the runs it is sent for (see [proofs](#proofs)).

**Environment.**  A session may not open, a catalogue may have drifted, the owner may
have been deactivated, a call may end done, failed or unknown, a preview may fail: all at
any time.  `Restart` kills tasks, semaphore and locks and runs `close_stale`.

The properties, each in `ProcedureRuns` with the code it is about: approvals
(`SendsWithinApprovals`, `UsableApprovalsAreUnspent`), cancel (`CancelIsFinal`,
`OneCallAfterCancel`), ownership (`OneRunner`, `RunnersHoldTheirRuns`, `EndsAreKept`,
`RunsKeepTheirLifecycle`), what the ledger shows (`NothingLooksAliveThatIsNot`,
`WaitingRunHasACard`, `DoneIsWhole`, `CallsMatchTheLedger`, `StepsNeverOverwrite`), resume
(`ResumeConfirmsUnknownWrites`, `ResumeNeverRepeatsDone`), backends and slots
(`SlowStepsTakeTurns`, `RunsSettle`).

**Refinement.**  `RunsKeepTheirLifecycle` instantiates `RunLifecycle` with the run states
and, as owners of a run, the tasks that may still call or write for it.  Each step of
`ProcedureRuns` is a step of the contract or a stutter.

## The router

`LlmRouter` models the whole of the router's decisions: which server is up, which one a
request goes to, when it may go to another, what a lost server, a client that leaves and
a changed list do to the counts.

| TLA+ | code |
|---|---|
| `ups`, `srv[s]` | `Router.ups`, the `Upstream` objects |
| `cool`, `noted`, `downs` | `down_until`, `down_noted`, `downs` |
| `models` | `u.models`, as the process whose list it is (0: none) |
| `timeouts`, `metrics`, `fails`, `inflight`, `atScrape` | `probe_timeouts`, running + waiting, `metrics_fail`, `inflight`, `inflight_at_scrape` |
| `checks` | calls of `_check_one` under way, of the round or after an outage |
| `req[q]`, `total` | the locals of `_proxy` and `_forward`, `Router.inflight` |
| `life`, `alive`, `gen` | the servers: processes so far, whether one runs, what it generates |
| `arrived`, `lost` | history: arrivals of a request; the process lost with an outage, with a connection |

An action is a stretch between two awaits.  A model check is asked, answered by the
process and read in three actions, because the process may be gone in between; a metrics
probe is one action, as nothing in its answer outlives it.  Time is left out: a cool-down
ends some time, metrics are as old as they are.  What the metrics report is any number
from 0 to what the server generates plus `OtherLoad`.  Ties in the choice, broken by cache
use and list order, are left open.  Windows are numbers; a list whose windows are not
numbers is left out.  A `Reload` puts any list in use; an empty or invalid one keeps the
old list.  A server that leaves the list takes its object along; requests on it remember
that their object is not the current one (`cur`), and a round of checks may end without
it.  A mishap (a death, a refused or reset connection of a live server, a late probe, a
5xx) costs one of `Troubles`; what a dead process does is free.

## Routine runs

`RoutineRuns` models one run of an analysis routine.  Its handlers are plain functions on
threads and its ledger has no transaction but that of a call, so a handler is cut at each
statement: it reads the run (`Ask`), reads the steps and decides (`LookCall`, `LookClose`,
`LookPick`, `LookReport`), writes the step (`SetStage`), writes the run (`SetRun`).  Anything may
happen in between.

| TLA+ | code |
|---|---|
| `run`, `stage[s]` | the rows of `routine_runs` and `routine_stages` |
| `hs[h]` | a request: what it read (`saw`, `late`), what it is about to write |
| `Accepted` | the states in which each handler does not refuse at once |
| `AddCall` | `routine_store.add_call`, one transaction |
| `job`, `ledger`, `told` | deliberations at the engine, those entered in the ledger, those a stop named as not folded |
| `paid` | history: calls that count for the budget of a step |

`CancelRun`, `OpenDelibs`, `StartedJobs`, `FoldDelibs` are the stop in the order of its
statements.  A deliberation works from before its start is entered, because the gateway
enters a call after it was made; if the ledger refuses it, the gateway folds it.  The
states `queued` and `interrupted` are left out of `Accepted`: no code writes them.

Properties: `BudgetsHold`, `NoDeliberationOutlivesTheStop`, `SettledEndsStay`, and
`StoppedRunsAreNotRevived`, which fails (see [disagreements](#disagreements)).

`RoutinePlan` is a function: three places decide on their own what a step may call and
whether it is ready, the screen that offers tools (`platforms`), the screen that shows a
routine (`readiness_of`), and the start of a run (`plan_steps`, `first_states`).
`ReadyStepsStart` and `PlanAgreesWithTheScreen` compare them for every person, step and
answer of the gateway of a small size.

## Chat and decks

`ChatRelay` models the turns of one conversation.  A turn has a response, which the browser
may leave at any time, and a pump, which reads the agent server to its end and saves.

| TLA+ | code (`agent/routes.py`) |
|---|---|
| `turn[t].resp`, `.pump` | the handler up to its response and the generator; the task that reads |
| `held`, `counted` | the permit of `_sem`; the turn in `_ACTIVE_TURNS` |
| `box`, `room`, `detached` | the queue to the browser, the event a full queue waits for, a pump that is read on |
| `got` | the kinds of frames that came and are to be saved |
| `relays`, `by` | `_DELIB_RELAYS` and its marks |
| `lock` | `_routine_save_lock`, of a routine run or a deliberation |
| `stop[x]` | a request to stop a deliberation |
| `stopped`, `unheard`, `lost` | history: stops the agent server agreed to, agreements that did not reach the portal, what the store did not save |

Everything between two awaits is one action.  `Receive` keeps what a frame says before it
queues the frame; `Close` closes the connection, then gives back the permit, then goes on
to save: the order in the code.  What frames say is reduced to whether there was text, an
utterance of a persona, a stop, an end.  The store may fail at any statement.

`DeckJobs` models the jobs that make decks from reports: orders are reserved under one
lock, sent to the maker under the id of the job, and followed by steps under the job's
lock.  A request may go unanswered, be cut off, or be answered for another owner; the
portal may die.  Time is three ages of a record, the two limits the code looks at.  The
conversation may be deleted: an order needs one that is there, a notice for one that is gone is
marked as told and goes nowhere.

`ChatAndDecks` composes the two over the one conversation both write to and the count of
turns the notice of a deck waits for.  `NoticesKeepToTheGaps` is the composition's: a
notice is let through only while no stored question waits for its answer.

Properties: `PermitsMatchReaders`, `AnswersAreKept`, `AnswersAreSaidOnce`, `StopsAreTold`,
`LeftTurnsEnd`; `LimitHolds`, `OrdersAreMadeOnce`, `EndsAreToldOnce`, `ToldEndsAreThere`.
The deck properties except for jobs the portal lost sight of (`astray`) or sent again after
their place had run out (`again`); the code has no means to keep these within the limits.

## Card reviews

`CardReview` models the relay of the card review (`card_review_run` and what it uses).  A
call takes one of a few places without waiting, opens a stream at the engine and passes
it on.  The generator and the response each close it, as the generator may never have
begun; `closed` and `closing` are the two flags of `_CrRun`.  A stream that was cut ends
with an error and `done` of the relay's own, unless the engine's `done` went by.
Properties: `PlacesMatchRuns`, `EndsAreRecordedOnce`, `AppIsTold`.

## Tickets, tokens, cards, index

- `PcTickets`: the tickets a helper on a PC uploads with.  Each store function is one
  action (one thread lock); an upload claims, reads, stages and finishes in four, and the
  portal may die between them.  `TicketsServeOnce`.
- `TokenExchange`: personal tokens and the narrower ones they are exchanged for.  An
  exchange verifies, looks at its source, counts, signs and records in five actions, the
  last of which looks again.  `RevokedTakeTheirChildren`, `ChildrenWithinLimit`.
- `Insights`: the pull of cards by pages from a cursor that is moved back, and the requests
  of a card's owner, which read, wait and save.  A job is written up to `Late` after it
  finished, and a pull takes up to `PullTime`.  `NoCardIsPassed`, `WithdrawnStay`; and
  `NoCardIsMissed`, which fails once a pull stopped at its limit of pages.
- `ConvIndex`: a search indexes what is not indexed, in batches, within a budget; what is
  too large goes to a task; the embedding service may change to another model between any
  two calls.  A vector is known by the space it is of.  `IndexedIsWhole`,
  `HandedOverIsUnderWay`; and `VectorsAreOfTheirSpace`, which fails.

## Accounts

`Accounts` models who may come in and who administers: the rows of `users`, the cache they
are read through, and the requests that change either.

| TLA+ | code |
|---|---|
| `row[e]` | the row of `users`: status, the mark in `groups`, a password, a noted sabun |
| `shown[e]` | the entry of `_row_cache` that is of the current epoch |
| `hs[h]` | a request: whose row it looks at (`who`, `row`), what it read and is about to cache (`saw`), what it does (`do`) |
| `OnLoop`, `LoopIsFree` | async handlers, of which one runs at a time from its first statement to its next await |

A method of the ledger that writes is one action, since it holds its lock from the first
statement to the last; the judgement on the last administrator is part of it.  `get` is two
(`Get`, `Fill`), as it caches after the lock was given back.  A write makes the cache
count no more (`NewEpoch`); `Expire` is the TTL.  `SignUp` and `NoteSignOn` look a row up through
the cache although they hold the lock: on an outdated "there is no such row" the insertion
fails, which a sign-on passes over.  The portal opens with any ledger of `Ledgers`.
Properties: `AnAdministratorRemains`, and `ChangesAreSeenAtOnce`, which fails.

## Runs and bounds

| run | instance | what it shows |
|---|---|---|
| ProcedureBackends | 2 runs, one slow step that asks, 3 requests, with fairness | one runner, ends, lifecycle, slow steps take turns, runs come to rest |
| ProcedurePublish | 1 run, 2 tasks, warm-up and publish, 2 values, 2 previews, 4 requests, 1 restart, steps added to the same run | an approval lets out one call of what was shown, even with two runners |
| RouterFailover | 2 servers of 2 lives that stop serving the model, 1 request, 1 mishap, 2 reloads | one arrival, true counts, no orphans, no false end, no stale list, the fittest server first |
| Liveness | 1 server of 2 lives, 2 mishaps, 1 reload, from an empty list; or two turns of a conversation; with fairness | a healthy server comes back; an abandoned request ends; a left turn ends |
| Parts | one component at a time: see below | the properties of the components that stand alone; of procedures: approvals and cards through restarts, resume repeats neither done nor unknown writes, steps never overwrite each other |
| ChatAndDecks | 2 turns, 2 requests to stop, 2 permits, a queue of 1, 1 detached pump, 1 failure of the store, deletion; or 1 turn and 1 deck, deletion; or 2 requests of one person for decks, 2 jobs, limits 1 and 2, 3 requests, 1 crash | answers are kept, once, in order; permits come back; notices stay out of turns; decks are made once, within the limits, and told |
| ResumeOntoUnknownWrite, OldListAfterSecondLoss, StoppedRoutineRuns, MixedVectors, LateCards, StaleRow | | see [disagreements](#disagreements) |

Parts chooses one component at the start; the variables of the others have no value.
Routine: 3 handlers (executor, a second call of it, the person), 2 steps of which one
deliberates, budgets 1 and 2, 5 requests.  Procedure: 1 run and 2
tasks, of one of three shapes: select, warm-up, confirmed, write (4 requests, 1 restart);
writes that are resumed (5 requests, 1 restart); a run made step by step (6 requests,
2 restarts).  Plan: 2 backends, 3 tools, every answer of the gateway in which
no tool is listed both as writing and as reading.  Tickets: 2 uploads, 3 tickets, 2 open at
a time, 1 death.  Tokens: 3 tokens, 2 exchanges, 1 live child.  Pulls: 5 jobs, pages of 2, two
pages a pull, an overlap of 2 for jobs written 1 late and pulls that last 1, 1 failure.  Owners: 1
card, 2 requests.  Reviews: 2 calls, 1 place.  Index:
messages of two, one and no chunks, batches of one, 2 spaces, 2 searches, 1 failure, 1 restart.
Accounts: 3 addresses of which two have one sabun and one is pinned, an empty ledger or three
active rows with two marks, 2 requests at once and 3 in all.

Why these are enough.  The properties about two actors are about two at a time, and a third
would have to pass the same guard.  Three steps of a procedure give one before, at and after
the confirmed one; two values and two previews give one that was approved and one that was
not; four to six requests allow start, pick, approve, a second pick or resume, and one
more, which with a restart contains each history the comments in the code tell of (W-105
to W-112).  In the router two servers make a choice, two lives an old and a new list.  A
budget of 1 and of 2 is exceeded by a second and by a third call.  A queue of one frame is
full after one, and a limit of one is exceeded by two.  Two tabs, two requests to stop and
one relay are all that can meet at one record.  Two chunks in batches of one leave a message
half embedded.  The theorems below hold for any of these numbers.

The bounds that cut behaviours are constants and named as such: `MaxAsks`, `MaxRestarts`,
`MaxCrashes`, `MaxDeaths`, `MaxFails`, `MaxSearches`, `MaxTime`, `MaxTickets`, `Lives`,
`Troubles`, `Reloads`, `Spaces`.  No other number is cut, except that the two failure counters
of the router stop at the threshold at which they have their effect.

Symmetry is used for tasks, values and previews, for the interchangeable requests and jobs of
Parts (`PartSymmetry`); jobs of decks, which are alike, are drawn in order (`InOrder`).  It is
never used in a run with a liveness property, nor where an action or a definition of the instance
names a value.  Deadlock is not checked: with requests, mishaps and restarts bounded, the systems
really come to an end.

## Fairness

Procedures: each task of the runner gets its turn (weak fairness: the event loop runs
what is ready; `wait_for` and the client's timeout end a call), and a task that waits for
the semaphore or a backend lock gets it if it is free again and again (strong fairness:
asyncio serves waiters in order).  No request, cancel or restart is obliged to happen.

Router: the probe loop and the check loop go on for ever and each probe ends
(`Scrape`, `CheckModels`, `CheckStep`), a cool-down ends; the choice and the end of an
abandoned request are the event loop's.  The servers are under no obligation: one that
generates may do so for ever, and an abandoned request ends all the same.

Chat: a pump goes on where it can (weak fairness of `Pump`; the stream ends or is cut off
when it is silent for too long, `httpx`'s read timeout), the wait of a response for its
pump ends (`_wait_pump` has a timeout), the save lock is served in order (strong fairness
of `TakeLock`), and so is a request to stop that holds it.  Nothing is asked of browsers:
`LeftTurnsEnd` is about those that left.

## Proofs

The theorems hold for any runs, tasks, steps, values, previews, servers, requests, threads,
tokens, turns, calls and bounds, under the assumptions named in the modules or in the theorem: the
numbers are numbers, sets that are counted are finite.  Each component has one module, except that
`ChatRelay_proofs` is also about the composition `ChatAndDecks`, `RoutineRuns_proofs` about the
plan of a run (`RoutinePlan`), and `Records_proofs` about what else the portal keeps in records:
tokens, tickets, cards and the index.  The last QED of a theorem combines `Init => IInv`, `IInv /\
[Next]_vars => IInv'` and `IInv => Inv`; the second has one lemma for each action, or for each
group of actions that do the same to the invariant.  The invariants that are more than the typing
and the property were checked by TLC on an instance before they were proved.

Of procedures:

| theorem | argument |
|---|---|
| `TypeCorrect` (procedures) | inductive as it is: `TypeOK` includes that a task at a step is at one of the N steps |
| `CallsAreApproved` | `UsableApprovalsAreUnspent` is the invariant: the balance for a fingerprint covers an approval that is still usable.  Only `Send` and `Ack` touch either side; the balance alone is not inductive, as `Send` lowers it on the word of the approval's row |
| `CancelsAreFinal` | every write of a runner's step spares a cancel, every request refuses it, a restart leaves it |
| `RunsHaveOneRunner` | `RunnersHoldTheirRuns`: a run with a runner is running or cancelled, or queued and not an empty one, so a run in a state a request may take has none.  Every state write of a runner comes with its letting go |
| `EndsStay` | from the same invariant: a run that is done or failed has no runner, so a runner's write cannot be what changes it |
| `RunsImplementLifecycle` | initial states map to initial states, and each step to a step of `RunLifecycle` or a stutter, from the same invariant |
| `SlowStepsAreApart` | `HasItsLock`: a runner at `spend` or `calling` of a slow step that is no warm-up holds the lock of the step's backend, and a lock has one holder.  The property is about calls alone and not inductive: what a runner in `spend` holds decides |
| `NothingLooksAlive` | `RowsAreWorkedOn` and `LiveRunsAreHeld`: a running row is that of a step some runner is at, and a run that is running (a run of a procedure: or queued) has a runner.  Each end of a runner writes its row and its run before it lets go |
| `CancelsStopCalls` | `LateRunsAreStopped`: a run no call of which went out late has none, or one did, the run is cancelled, and none of its tasks is past its last look at the ledger (`MaySend`).  With `RunnersHoldTheirRuns`: after a cancel nobody takes the run again, and one runner is all a run has |
| `WaitingRunsHaveCards` | `PausesShowCards`: a runner about to pause has at its step a pending row with a gate or with candidates, and so has a run that is `gated` at some step; a request that changes such a row takes the run in the same action |
| `CallsGoOutAsRecorded` | `CarriesTheLedgers`: between two steps the copy a runner carries is what the ledger holds.  Only a runner of the run changes the one or the other, and there is one.  Assumes `SaveSteps = {}`: a value a `save` step collects may be too long for the ledger, and then the two differ on purpose |
| `DoneRunsAreWhole` | `RunsAreWhole`: a run of a procedure has one open row at most (failed, pending, unknown, running), a runner of it is at that row, and there is none in a run that is to be made, is done, or is only planned.  So the runner that ends the run is past all of them; approvals and resumes start at the open row (`ResumesAtTheOpenStep`).  Where candidates show, no earlier step is open and the runner is not before them, so that a pick starts behind all that is open (`PicksKeepRunsWhole`).  Assumes that no step selects or that there are at most two, and that no warm-up asks or uses a picked value: see below |
| `ResumesSkipDone` | `RunsAreInTurn`, on top of `RunsAreWhole`: the rows of a run are those up to a number, an open one is the last, and a runner that calls is at it or at the next number.  So a resume finds at its step no row that is done, whether it takes the open row or counts the rows.  Assumes that no step selects and none is a warm-up: see below |
| `ResumesAskFirst` | `UnknownWritesAreConfirmed`, on top of the two: a resumed runner that finds the row of an unasked write unknown has an approval of its one call (`Plain`), unused up to the call; only its own runner uses it, and only a request that finds the run at rest replaces it.  Assumes that no step selects, none is a warm-up, and that unasked writes name no carried value: see below |
| `AddedStepsAreNew` | `InOrder`: the rows of an empty run are those up to a number, and a runner of one is at the next free one (`IsNext`); so `begin_step` never finds a row of another step.  The number is read by the request and the row written by the runner later: in between nobody else has one of the same number because the run has no second runner |

All but `TypeCorrect`, `CallsAreApproved`, `CancelsAreFinal` and `SlowStepsAreApart` assume
`AdHocRuns \subseteq EmptyRuns`: `POST /steps` is sent for empty runs only.  The code does not
enforce it.  The handler takes a run in `queued` (`routes.py:610`), and a run of a procedure is
`queued` from its start until its runner wrote `running`; in that window the request starts a
second runner.  The one screen that sends it (`BuildView.tsx:63`) does so for the empty run it
started itself. The run `ProcedurePublish` contains the two runners, and approvals hold with them;
`CallsAreApproved` and `CancelsAreFinal` need no such assumption.

What `DoneRunsAreWhole`, `ResumesSkipDone` and `ResumesAskFirst` assume of steps that select and
of warm-ups is needed: TLC finds each property false without it.  `DoneRunsAreWhole` holds for
procedures of two steps whichever of them select, such as the one that ships with the repository
and selects (`docs/procedures/fixtures/report-add-tags.yaml`, which selects at the first of two
steps).  With more steps it may fail.  With two steps that select, a second pick at the first starts a
runner there; if the step between them fails, the candidates of the second still show, a pick
there goes on behind the failed row, and the run ends as done over it.  With a step that selects, a
resume after such a second pick goes over later rows that are done, or into a write of unknown
result.  A warm-up that asks leaves the card of its approval open, since its call has no row, and
without rows the number of rows is not that of steps.  Only that no warm-up uses a picked value is
for the sake of the proof: a warm-up that was refused leaves a failed row, and that it is refused
again whenever the run comes back to it is not shown. That unasked writes name no carried value is
needed for `ResumesAskFirst`: a value that a save step collected but that was too long for the
ledger is what the person approves the write with, the portal restarts, and the resume sends the
write with the older value the ledger has. One step that selects, with two steps behind it, is
enough: a pick at step 1, step 2 done, the portal restarts while the write of step 3 runs, a
second pick at 1, step 2 fails; the row of step 3 is still unknown, its approval (`ack`, which
looks at that row only) goes on there, and the run ends as done over the failed row of step
2.  `ResumesSkipDone` fails with two steps and a batch: see [disagreements](#disagreements).

Of the router:

| theorem | argument |
|---|---|
| `CountsStayTrue` | `Counts`: the counts are true of every server's object, also of one the list does not name.  The typing cannot come first: `LetGo` subtracts without a look, so that a count is a natural number follows from its being true.  `Typing` therefore has integers for the counts; `RouterTypeCorrect` puts the two together |
| `RequestsReachOneServer` | `Arrivals`: a request that is still on its way has reached no server |
| `ServersWorkForTheirRequests`, `CompleteRepliesAreWhole` | inductive with the typing, by a lemma that says what one turn of a request may do (`RequestMoves`) |
| `OutagesEndOnNewProcesses` | `Outages`: a list that is held is of a process later than the one lost at the last outage, and so is the answer of a check that saw no outage since it was put; a check never counts more outages than its server.  The second part is what the comparison of `downs` in the code is for |
| `FittestServersFirst` | a lemma about `Candidates` for any state of the objects; marking the failed server down changes only one the request has tried already (`Tracked`) |

Of the others:

| theorem | argument |
|---|---|
| `RoutineRuns_proofs!TypeCorrect`, `BudgetsAlwaysHold` | `PaidIsCounted`: the calls that count for the budget are among the calls of the step, which the transaction compares with the budget; what a handler read before does not matter |
| `RoutineRuns_proofs!NothingOutlivesTheStop` | `StopsReachTheRest`: of a stopped run each deliberation that works is named, belongs to a closed step, or is in the hands of a request that is not through (`InHand`): the stop that has yet to read its step or to fold it, or the gateway that was refused and folds it.  It needs `StartsAreKnown` (what works was entered, or its starter is there) and `OnlyAStopCancels`.  Holds for requests of any roles: that a late write opens a step again after the stop looked does not matter, because the same request makes the run one that is not stopped |
| `RoutineRuns_proofs!EndsAreSettled` | `ReadsAdmit`: a request that goes on read a state that admits it, and only a close, a pick, a report and a stop write how the run stands |
| `RoutineRuns_proofs!ScreensTellTheTruth` | about `RoutinePlan`: `AllowedAreOffered` (the plan and the screen of tools pick the same, by the three cases of what the gateway lists; that names were checked when the routine was saved is needed where it lists no reads) and `ReadyStepsHaveTools` (what is left out of a step is a reason the readiness knows).  The gateway may even list a tool both as writing and as reading, which the run leaves out |
| `Records_proofs!RevokedFamilies` | what is recorded as a child has a source that was not revoked when it was recorded, and rows are removed only of tokens that expired; a child is no source, so families have two generations.  Assumes that "no token" is no token |
| `Records_proofs!ChildrenKeepToTheLimit` | the record is the only step that adds a live child, and it counts again; a set of children that may grow by one is counted by the library's theorems on finite sets |
| `CardReview_proofs!EndsRecordedOnce` | `Good`, call by call: a run has its record exactly when its stream is closed and nobody is at closing it.  `Len(said[q]) <= 1` alone is not inductive: that `Closed` finds no record needs it |
| `CardReview_proofs!PlacesAreCounted`, `TypeCorrect` | a step makes one call a holder and takes a place, or the reverse, or neither (`PlainStep`, `StreamStep`); the rest is counting |
| `CardReview_proofs!AppsHearTheEnd` | `Told`: what went to the app has no `done` (`Silent`) or one, at its end (`Over`), and which of the two follows from what the engine said, until the relay adds an end of its own.  That happens in one place only (`Cut`), which looks at whether the engine's `done` went by; the lemmas on sequences say what one more frame makes of it |
| `ChatRelay_proofs!PermitsAreGivenBack` | `Fits`, turn by turn: what a response and its pump may be doing with the permit held, the turn counted and the frames received. A pump past its close holds no permit, and one that is done is not counted |
| `ChatRelay_proofs!AnswersAreWrittenOnce` | who is about to write an answer another could write holds its lock (`SaversHoldLocks`); no answer is there of a turn whose pump is not done, nor the answer of one that is about to write it (`AnswersAreOfDone`, `PutsAreNew`); a request to stop that has the lock finds the pump done (`StopsAreOfDeliberations`), since it left the table of relays under that lock |
| `ChatRelay_proofs!AnswersAreThere` | `RelaysAreBeforeTheirLocks`: a turn that keeps nothing received nothing, and a relay that is listed is a deliberation that runs and whose pump has yet to take its lock, so that whoever takes it off the list finds what is to be saved; the pump that is done has put its answer, found it there, or lost it |
| `ChatRelay_proofs!StopsAreRecorded` | `StopsAreInHand`: a stop that was agreed to and heard is in the conversation or in the hands of the pump or of the request that will put it; `StopsComeLast`: nothing of a deliberation is put after its stop |
| `ChatRelay_proofs!NoticesStayOut` | `Counts`: a turn counts from before its question is stored to the end of its pump; a handler of a deck that is about to append looked at the count in the step that let it through, and that step is what the property is about |
| `ChatRelay_proofs!TypeCorrect` | the same invariant with `Rest` |
| `DeckJobs_proofs!RequestsDoNotCollide` | `Fits`: `OneEach` (one request at a time reserves; no two work on one job), what a request that works on an order finds in its record (`OrderFits`), what one that holds the lock of a job finds (`StepFits`), and what the records themselves promise (`RecordFits`).  Each action is one of a few kinds (`QuietStep`, `JobStep`) that leave the others what they rely on.  Reservations are not under the job's lock: that steps do not touch a record in reservation, and orders no other, is part of `Fits` and not of the locks |
| `DeckJobs_proofs!DecksStayWithinLimit` | `PlaceIsFree`: who has counted and not yet saved has counted fewer than the limit, still.  `RecordsMove` says what any other step may do to a record; it never adds to the jobs that count (`Held`) |
| `DeckJobs_proofs!OrdersStayApart` | `LiveOnce`: of the jobs that may yet be made or sent again no two are for one order, nor is one for an order that is about to be saved; `MadeAreRecorded`: what the maker has, the records know.  The property speaks of the maker, and neither half is inductive without `Fits` |
| `DeckJobs_proofs!EndsStayToldOnce`, `ToldEndsStayThere` | `Notices`: a step that is to mark a notice as told has its message in the conversation, if that is still there |
| `DeckJobs_proofs!DecksHaveTypes` | `Fits` says of every record and request what its step left it with, and the shapes are part of it; the rest is counters |
| `ChatRelay_proofs!TurnsBesideDecks` | a step of the composition is one of the relay, or one of the decks, which adds a notice to the conversation or nothing (`BothSteps`, `OnlyNotices`); a notice is no answer, no stop and about no turn, so it takes nothing from the invariant of the relay (`NoticeComes`) |
| `ChatRelay_proofs!LimitBesideChat`, `OrdersBesideChat` | `BothInv` has the invariant of the decks as a part.  A step of the decks in the composition is one of `DeckJobs` (`SameSteps`), and what the relay does leaves all it speaks of alone (`SoundBeside`): the lemmas of `DeckJobs_proofs` are cited as they are, for an instance of it |
| `ChatRelay_proofs!EndsAreToldInTheChat` | `Notices`, for a conversation of messages that are about no job or are notices (`Written`).  The relay adds messages of turns or empties a conversation that is deleted (`NoticesBeside`); that a turn has not the id of a job is an assumption the module names |
| `Records_proofs!TokensHaveTypes`, `TicketsHaveTypes`, `CardsHaveTypes`, `IndexHasTypes` | from the invariants of the theorems below and above, which have the shapes as a part, and for the bounds an induction of their own |
| `Records_proofs!TicketsBringOne` | `ServeOnce`: a ticket that is being received is in the hands of one upload at most (`Serves`), and what it brought agrees with its record (`Served`).  The record alone does not say who received it |
| `Records_proofs!NoCardIsLost` | `Seen`: a written job that has no card is no further behind the cursor than the overlap, and one that was there when a pull began is not behind the pages of that pull; `PullTimes`: what a pull did not find written finished at most `Late` before it began.  Each page holds the earliest jobs of its time on (`PagesHoldTheEarliest`), so moving on passes none.  Assumes `PullConstants`: see below |
| `Records_proofs!WithdrawnForGood` | `Withdrawn`: what was withdrawn is, and requests are about cards there are; a page leaves these alone |
| `Records_proofs!WholeOrNotIndexed` | `IndexFits`: no more vectors have come for a group than it has chunks, and all of them when it is put (`WorkerFits`); a message's vectors are those behind the chunks of the group's messages before it, which are among them because sums of chunks grow with the set (`ChunksAdd`).  The choice that fills a batch is of something (`LeastIsPart`) |
| `Records_proofs!HandedOverIsWithATask` | the same invariant: what is marked as outside is in the hands of a task that works (`InHands`), nothing is in the hands of a search, and a task ends together with the marks of what it was handed |
| `Accounts_proofs!AdministratorsRemain` | inductive with the typing: a write takes at most the row it is to out of the administrators, and the two that may take one (`Unmark`, `Suspend`) look at the others in the same step.  Assumes that the ledger the portal opens has well-formed rows |

The theorems of `DeckJobs_proofs` are about `DeckJobs` by itself, whose conversation holds notices
only, may be deleted, and has turns that come and go as they like (`Aside`).  They assume
`DeckConstants`, which `DeckAssumption` of the composition contains and TLC evaluates.  The four
theorems about the composition carry them over to a conversation of chats; deaths of the portal are
in the theorems of `DeckJobs_proofs` only, since the composition has none.

`NoCardIsLost` assumes of the constants that a job is written at most `Late` after it finished,
that a pull takes at most `PullTime`, and that the overlap is as long as both.  In the code the
overlap is 600 s and a pull at most five pages of 15 s each (the client's timeout is one of each
operation, so that a page can take longer: an assumption), which leaves 525 s for a late
writing.  The first attempt at the proof had no such assumption and failed for a good reason: while
a pull of several pages goes on, jobs finish, its last page moves the cursor to them, and what
finished earlier and is written only then falls out of the overlap. The instance TLC had checked
took one page a pull, where that cannot happen; `Late` and `PullTime` are constants of the model
since, and the instance has pulls of two pages.

What a sum over messages comes to is defined by recursion over the set, and the prover has no
induction over data.  `ChunksAreCounted` (the sum of the sizes is the number of chunks) is
proved without it: were there sets for which it fails, there would be a smallest one
(`SmallestSet`, from the library's theorem that the subsets of a finite set are well-founded),
and one message less would be a smaller one.

Where a run checks several parts at once, the invariant of the run (`LiveRunsAreTrue`,
`OneCallAfterCancel`, `DoneIsWhole`, `TicketsServeOnce`, ... of `Parts`) says that the invariant
of the component holds in its part, for the numbers of the instance; the theorem is about the
invariant of the component, for any numbers.  Each of these has its theorem.

What is only model-checked:

- liveness (`RunsSettle`, `LeftTurnsEnd` and the rest of `Liveness`): fairness and ENABLED are
  beyond the prover.

Where a theorem assumes more of a procedure than the code does, the table says so, and what the
assumption keeps out is told above or under [disagreements](#disagreements).

## Disagreements

Six runs find the code doing other than what its comments say:

- **ResumeOntoUnknownWrite** — `resume` looks at the row it starts at only.  After a second
  pick whose next step failed, it starts there and runs on into a write whose row is
  unknown, unasked (`routes.py:948`; `routes.py:941` says a write that is unknown runs after
  confirmation only).
- **OldListAfterSecondLoss** — `_mark_down` clears the model list when the outage is first
  noted only.  A process that came up in between stores its list and dies; the next one
  counts as up on it (`llm_router.py:723`; the docstring at 717).
- **StoppedRoutineRuns** — `pick` checks that the run waits in what it read, writes the step,
  and then writes `running` without a guard; a stop in between is overwritten
  (`routine_routes.py:660`; the docstring at 645 says a stopped run is not revived).
- **MixedVectors** — the vectors of one message may come from two batches between which the
  embedding service changed; all are stored under the last one's name and compared with
  questions of that space from then on (`conv_search.py:203`; `conv_search.py:25` calls
  mixed spaces the worst failure).
- **LateCards** — after a pull that stopped at its limit of pages the next one starts at the
  cursor without the overlap, and the one after overlaps a cursor that has moved on; a job
  written late in between is read by none (`intake.py:154`; `intake.py:21` says what the
  overlap is for).
- **StaleRow** — `get` reads a row under the lock and caches it after the lock was given back,
  under the epoch of that moment; a row that was suspended or unmarked in between is shown
  as it was until its TTL ends (`user_store.py:192`; `user_store.py:69` says a change is seen from the
  moment it is made).

Seen while reading, without a run:

- Procedures: the two runners above; with no open row, `resume` starts at the number of
  rows, and warm-up steps leave none, so a step that is done may run again (`routes.py:948`,
  which 939 says it does not); a confirmation card whose warning that the step already went
  out is lost, because the row it is read from was replaced (`runner.py:288`); a run of a batch
  that failed before its first row is resumed at the first step (`routes.py:948`), and one that
  starts behind the step that selects has no rows before its own, so that a resume without an
  open row counts too few and repeats a step that is done (`routes.py:787`, `routes.py:948`; 939
  says it does not); a step that
  is not slow runs beside a slow one on its backend, where the comment says none does
  (`runner.py:171`), and so does the call of a warm-up step, which goes out before the lock
  is taken (`runner.py:919`, `runner.py:934`): `SlowStepsTakeTurns` is about the others.
  After a second pick at an earlier step a run may end as done over a step that failed: by a pick
  at a later step that selects, or by the approval of a later row that was left unknown
  (`routes.py:924`, where `ack` looks at its own row only).
  A write approved with a value that did not reach the ledger goes out, after a restart and a
  resume, with the older value.
- Router: a server that left the list and came back is a new object, so its load misses the
  requests on the old one and one request may try it twice (`llm_router.py:581`).
- Routines: an executor that closes an ambiguous step again while the person picks leaves a
  run waiting with nothing to pick; two reports at once both render and upload; a write of
  a step that read the run before its end may replace that end; a crash between the stop's
  write and its folding leaves the deliberations at work.
- Chat and decks: a notice whose look at the turns came before a question was stored is
  appended after it, between question and answer (`wda_deck.py:1041`, `routes.py:2895`);
  jobs that were cut off or sent again late may exceed the limit; a place is given back for
  a request that did reach the maker (`wda_deck.py:163`).
- Uploads and cards: a ticket stays `receiving` after a death until it is swept; a card that
  was disputed or confirmed meanwhile is written back by a request that read it earlier
  (only a withdrawal is guarded).
- Index: two searches that overlap may hand one message to two tasks, which the comment at
  `conv_search.py:99` excludes; a group that needs one batch more than the budget allows,
  while none of its messages does alone, is started anew by every search
  (`conv_search.py:233`).
- Accounts and tokens: a sign-up on an outdated "there is no such row" ends in an error the
  handler does not expect (`user_store.py:252`); a person's token is checked before it is minted and
  recorded (`pat.py:118`), so one recorded after a suspension outlives it, where an exchange
  looks again; with sabuns, a suspension counts as remaining an administrator whose next
  sign-on is refused because another row of the same sabun was suspended before
  (`user_store.py:307`).
- Card review: a connection that breaks after the engine's `done`, without a result or an
  error before it, would be recorded as left by the client.

## Not modelled

Left out of the modelled components: acknowledging a step of an empty run; versions,
sharing and reading of procedures; in the router the startup wait, header and body rules,
size limits, the texts of `/health` and `/stats`, cache use as a tie break, shutdown; in the
chat relay the echo mode, documents and panels, the entries made from a chat; dismissing a
deck and the removal of old records; uploads without a ticket; the table of used token ids
and signatures; cards from the relay and from workflows; titles, sharing and ranking of
conversations; passwords and their lock-out, sessions, requests for rights, connections to other
services.

Left out as components: pure functions over JSON (procedure validation, verdicts,
templates, access rights), which examples test well and whose content is the wording of
what they accept; protocol libraries of sign-on; single requests to other services;
statistics and formatting; the workflow scripts, whose control is an engine outside the
repository; shell scripts; the web client, on whose order of calls the server does not rely.

The modelled lines are the greater part of those that change shared state, and a small part
of all lines: most of the repository renders, formats, validates and configures, where a
model would repeat the code word by word and check nothing that an example does not.  The
one large program beside the portal, `llm-status/collector.py`, samples counters and shows
them; nothing depends on its answers.

## Plan

What would come next, in order of what a fault would cost and how little tests reach it:

1. The verdict on a tool's result (`procedures/judge.py`) and the access rights as function
   modules, against a reference definition.
2. A crash of the portal in `ChatRelay`, and the composition of the relay with `RoutineRuns`
   through the report that both write.
3. A proof of `DoneIsWhole` for longer procedures whose only step that selects is the last but
   one: that a second pick passes no open step needs the rows before it to be counted, which the
   present invariant does for procedures without such a step only (`RunsAreInTurn`).
