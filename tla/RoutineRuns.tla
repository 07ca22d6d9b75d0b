---------------------------- MODULE RoutineRuns ----------------------------
(***************************************************************************)
(* One run of an analysis routine: the ledger of routine_store.py and the  *)
(* handlers of routine_routes.py.  The handlers are plain functions on the *)
(* framework's threads and each statement of the ledger stands alone: a    *)
(* handler reads the run, reads the steps and decides, writes the step,    *)
(* writes the run, in four actions with anything in between.  Only a call  *)
(* is entered within one transaction.                                      *)
(***************************************************************************)
EXTENDS Naturals, FiniteSets

CONSTANTS
  Handlers,    \* threads, each serving one request at a time
  May,         \* what each of them may be asked for
  Closes,      \* the states of the run in which each of them is asked to close a step
  N,           \* the steps are 1 .. N
  DelibSteps,  \* steps that put a question to the deliberation engine
  Stops,       \* of a step: the outcomes at which the routine is to stop
  StepBudget,  \* calls of one step
  RunBudget,   \* calls of the run
  Jobs,        \* deliberations the executor may start
  NoJob,       \* no deliberation
  Outcomes,    \* what an executor closes a step with
  MaxAsks      \* bound: requests served

Steps == 1 .. N
EnvelopeStates == {"ok", "empty", "ambiguous", "denied", "not_connected", "unavailable",
                   "failed", "skipped"}
CLOSED == EnvelopeStates \ {"ambiguous"}
Ends == {"done", "failed", "cancelled"}
RUN_STATES == {"none", "running", "waiting"} \cup Ends

\* A pick that only asks whether the step is to be picked from.
AcceptedByStep == [call |-> {"running"}, close |-> {"running", "waiting"}, pick |-> RUN_STATES,
                   resume |-> {"running"}, report |-> {"running"}, ra |-> {"done"},
                   cancel |-> {"running", "waiting"}]

\* The states of the run in which a request is not refused at once.  Nothing writes the
\* states "queued" and "interrupted" the code also provides for.
Accepted == [call |-> {"running"}, close |-> {"running", "waiting"}, pick |-> {"waiting"},
             resume |-> {"running"}, report |-> {"running"}, ra |-> {"done"},
             cancel |-> {"running", "waiting"}]
Requests == DOMAIN Accepted

ASSUME RoutineAssumption ==
  /\ N \in Nat /\ StepBudget \in Nat /\ RunBudget \in Nat /\ MaxAsks \in Nat
  /\ DelibSteps \subseteq Steps /\ Outcomes \subseteq EnvelopeStates
  /\ May \in [Handlers -> SUBSET Requests]
  /\ Closes \in [Handlers -> SUBSET Accepted.close]
  /\ Stops \in [Steps -> SUBSET EnvelopeStates]
  /\ NoJob \notin Jobs

VARIABLES
  run,    \* the row of the run
  stage,  \* the rows of the steps
  hs,     \* what each handler is at, what it read and what it is about to write
  job,    \* deliberations: "none", "up" (the engine works on it), "folded"
  ledger, \* of a step: the deliberations whose start is entered
  told,   \* deliberations a stop reported as not folded
  paid,   \* history: of a step, the calls that count towards its budget
  asks    \* requests so far

vars == <<run, stage, hs, job, ledger, told, paid, asks>>

RunRow == [state : RUN_STATES, calls : Nat, overdue : BOOLEAN, report : BOOLEAN,
           ra : {"none", "uploaded", "error"}]
StageRow == [state : EnvelopeStates \cup {"pending", "running"}, calls : Nat,
             good : BOOLEAN, cands : BOOLEAN]
HandlerState ==
  [pc : {"idle", "look", "enter", "stage", "run", "open", "jobs", "fold"},
   what : Requests, saw : RUN_STATES, late : BOOLEAN, step : 0 .. N, free : BOOLEAN,
   ok : BOOLEAN, job : Jobs \cup {NoJob}, status : EnvelopeStates, cands : BOOLEAN,
   next : RUN_STATES, open : SUBSET Steps, jobs : SUBSET Jobs]
Idle ==
  [pc |-> "idle", what |-> "call", saw |-> "none", late |-> FALSE, step |-> 0, free |-> FALSE,
   ok |-> FALSE, job |-> NoJob, status |-> "ok", cands |-> FALSE, next |-> "none",
   open |-> {}, jobs |-> {}]

Rest(h) == hs' = [hs EXCEPT ![h] = Idle]
At(h, w, pc) == hs[h].what = w /\ hs[h].pc = pc
Quiet == \A h \in Handlers : hs[h].pc = "idle"
Open(s) == stage[s].state \notin CLOSED
-----------------------------------------------------------------------------
(* The start of a run, time, and a request that arrives                    *)

Init ==
  /\ run = [state |-> "none", calls |-> 0, overdue |-> FALSE, report |-> FALSE, ra |-> "none"]
  /\ stage = [s \in Steps |-> [state |-> "pending", calls |-> 0, good |-> FALSE, cands |-> FALSE]]
  /\ hs = [h \in Handlers |-> Idle]
  /\ job = [j \in Jobs |-> "none"]
  /\ ledger = [s \in Steps |-> {}]
  /\ told = {}
  /\ paid = [s \in Steps |-> 0]
  /\ asks = 0

\* Steps that the person cannot do are closed as that from the start, and the run has
\* failed before it began if the routine is to stop at one of them.
StartRun ==
  /\ run.state = "none"
  /\ \E ready \in [Steps -> {"pending"} \cup
                            (Outcomes \cap {"denied", "not_connected", "unavailable"})] :
       /\ stage' = [s \in Steps |-> [stage[s] EXCEPT !.state = ready[s]]]
       /\ run' = [run EXCEPT !.state =
                    IF \E s \in Steps : ready[s] \in Stops[s] THEN "failed" ELSE "running"]
  /\ UNCHANGED <<hs, job, ledger, told, paid, asks>>

TimeIsUp ==
  /\ run.state \in {"running", "waiting"} /\ ~ run.overdue
  /\ run' = [run EXCEPT !.overdue = TRUE]
  /\ UNCHANGED <<stage, hs, job, ledger, told, paid, asks>>

\* A handler reads the run.
Ask(h) ==
  /\ hs[h].pc = "idle" /\ asks < MaxAsks
  /\ \E w \in May[h] :
       /\ run.state \in Accepted[w]
       /\ w = "close" => run.state \in Closes[h]
       /\ hs' = [hs EXCEPT ![h] = [Idle EXCEPT !.pc = "look", !.what = w,
                                               !.saw = run.state, !.late = run.overdue]]
  /\ asks' = asks + 1
  /\ UNCHANGED <<run, stage, job, ledger, told, paid>>

\* The step does not exist, is not in a state for it, the call is outside the fence, a
\* step is still open: nothing is written.
Refuse(h) ==
  /\ \E w \in {"call", "close", "pick", "report"} : At(h, w, "look")
  /\ hs[h].what = "report" => \E s \in Steps : Open(s)
  /\ Rest(h)
  /\ UNCHANGED <<run, stage, job, ledger, told, paid, asks>>
-----------------------------------------------------------------------------
(* A call of a tool, entered by the gateway after it was made              *)

\* Reading the result of a deliberation is not counted in the step that started it.
BudgetFree(s, kind) == kind = "result" /\ s \in DelibSteps

\* What may be refused without the transaction.  After the deadline only the result of a
\* deliberation may still be read.  A deliberation that was started works from before the
\* call is entered.
LookCall(h) ==
  /\ At(h, "call", "look")
  /\ \E s \in Steps, kind \in {"plain", "start", "result"}, ok \in BOOLEAN :
       \E j \in IF kind = "start" /\ ok THEN {i \in Jobs : job[i] = "none"} ELSE {NoJob} :
         /\ kind = "start" => s \in DelibSteps
         /\ stage[s].state \in {"pending", "running"}
         /\ BudgetFree(s, kind) \/ stage[s].calls < StepBudget
         /\ hs[h].late => kind = "result"
         /\ hs' = [hs EXCEPT ![h].pc = "enter", ![h].step = s, ![h].ok = ok, ![h].job = j,
                             ![h].free = BudgetFree(s, kind)]
         /\ job' = [i \in Jobs |-> IF i = j THEN "up" ELSE job[i]]
  /\ UNCHANGED <<run, stage, ledger, told, paid, asks>>

\* A transaction that counts and does not look at the budgets again.
EntersUncounted(h) ==
  run.state = "running" /\ stage[hs[h].step].state \in {"pending", "running"}

\* A transaction that takes the state of the run from the handler.
EntersLate(h) ==
  LET s == hs[h].step IN
  /\ stage[s].state \in {"pending", "running"}
  /\ hs[h].free \/ stage[s].calls < StepBudget
  /\ run.calls < RunBudget

Enters(h) ==
  LET s == hs[h].step IN
  /\ run.state = "running"
  /\ stage[s].state \in {"pending", "running"}
  /\ hs[h].free \/ stage[s].calls < StepBudget
  /\ run.calls < RunBudget

\* The transaction.  It looks again at all that may have changed; a deliberation whose
\* start it refuses is folded by the gateway.
AddCall(h) ==
  LET k == hs[h]  s == k.step IN
  /\ At(h, "call", "enter")
  /\ \/ /\ Enters(h)
        /\ run' = [run EXCEPT !.calls = run.calls + 1]
        /\ stage' = [stage EXCEPT ![s].calls = stage[s].calls + 1, ![s].state = "running",
                                  ![s].good = stage[s].good \/ k.ok]
        /\ ledger' = [ledger EXCEPT ![s] = ledger[s] \cup ({k.job} \ {NoJob})]
        /\ paid' = [paid EXCEPT ![s] = IF k.free THEN paid[s] ELSE paid[s] + 1]
        /\ UNCHANGED job
     \/ /\ ~ Enters(h)
        /\ job' = [i \in Jobs |-> IF i = k.job THEN "folded" ELSE job[i]]
        /\ UNCHANGED <<run, stage, ledger, paid>>
  /\ Rest(h)
  /\ UNCHANGED <<told, asks>>
-----------------------------------------------------------------------------
(* Closing a step, picking a candidate, the report                         *)

\* What the ledger makes of what the executor says.
Verdict(s, status, cands) ==
  IF status \in {"ok", "empty"} /\ stage[s].calls = 0 THEN "skipped"
  ELSE IF status = "ok" /\ ~ stage[s].good THEN "failed"
  ELSE IF status = "ambiguous" /\ ~ cands THEN "failed"
  ELSE status

\* The state the run is to have after that, "none" where it is left as it is.
After(s, status, saw) ==
  IF status \in Stops[s] THEN "failed"
  ELSE IF status = "ambiguous" THEN "waiting"
  ELSE IF saw = "waiting" THEN "running" ELSE "none"

LookClose(h) ==
  /\ At(h, "close", "look")
  /\ \E s \in Steps, said \in Outcomes, c \in BOOLEAN :
       LET status == Verdict(s, said, c) IN
       /\ c => said = "ambiguous"
       /\ stage[s].state \in {"pending", "running", "ambiguous"}
       /\ hs' = [hs EXCEPT ![h].pc = "stage", ![h].step = s, ![h].status = status,
                           ![h].cands = c, ![h].next = After(s, status, hs[h].saw)]
  /\ UNCHANGED <<run, stage, job, ledger, told, paid, asks>>

LookPick(h) ==
  /\ At(h, "pick", "look")
  /\ \E s \in Steps :
       /\ stage[s].state = "ambiguous" /\ stage[s].cands
       /\ hs' = [hs EXCEPT ![h].pc = "stage", ![h].step = s, ![h].status = "ok",
                           ![h].cands = TRUE, ![h].next = "running"]
  /\ UNCHANGED <<run, stage, job, ledger, told, paid, asks>>

SetStage(h) ==
  LET k == hs[h] IN
  /\ k.pc = "stage"
  /\ stage' = [stage EXCEPT ![k.step].state = k.status, ![k.step].cands = k.cands]
  /\ IF k.next = "none" THEN Rest(h) ELSE hs' = [hs EXCEPT ![h].pc = "run"]
  /\ UNCHANGED <<run, job, ledger, told, paid, asks>>

SetRun(h) ==
  LET k == hs[h] IN
  /\ k.pc = "run"
  /\ run' = [run EXCEPT !.state = k.next, !.report = run.report \/ k.what = "report"]
  /\ Rest(h)
  /\ UNCHANGED <<stage, job, ledger, told, paid, asks>>

LookReport(h) ==
  /\ At(h, "report", "look")
  /\ \A s \in Steps : ~ Open(s)
  /\ hs' = [hs EXCEPT ![h].pc = "run", ![h].next = "done"]
  /\ UNCHANGED <<run, stage, job, ledger, told, paid, asks>>

\* What became of the draft the gateway uploaded.
RaResult(h) ==
  /\ At(h, "ra", "look")
  /\ \E x \in {"uploaded", "error"} : run' = [run EXCEPT !.ra = x]
  /\ Rest(h)
  /\ UNCHANGED <<stage, job, ledger, told, paid, asks>>

\* Taking up a run whose executor is gone only moves a deadline that has passed.
Resume(h) ==
  /\ At(h, "resume", "look")
  /\ run' = [run EXCEPT !.overdue = run.overdue /\ ~ hs[h].late]
  /\ Rest(h)
  /\ UNCHANGED <<stage, job, ledger, told, paid, asks>>
-----------------------------------------------------------------------------
(* The stop: first the state, then the deliberations of the open steps     *)

CancelRun(h) ==
  /\ At(h, "cancel", "look")
  /\ run' = [run EXCEPT !.state = "cancelled"]
  /\ hs' = [hs EXCEPT ![h].pc = "open"]
  /\ UNCHANGED <<stage, job, ledger, told, paid, asks>>

OpenDelibs(h) ==
  /\ At(h, "cancel", "open")
  /\ hs' = [hs EXCEPT ![h].pc = "jobs", ![h].open = {s \in DelibSteps : Open(s)}]
  /\ UNCHANGED <<run, stage, job, ledger, told, paid, asks>>

StartedJobs(h) ==
  LET js == UNION {ledger[s] : s \in hs[h].open} IN
  /\ At(h, "cancel", "jobs")
  /\ IF js = {} THEN Rest(h) ELSE hs' = [hs EXCEPT ![h].pc = "fold", ![h].jobs = js]
  /\ UNCHANGED <<run, stage, job, ledger, told, paid, asks>>

\* The engine may refuse some, be away or take too long; those are named to the person.
FoldDelibs(h) ==
  /\ At(h, "cancel", "fold")
  /\ \E done \in SUBSET hs[h].jobs :
       /\ job' = [j \in Jobs |-> IF j \in done THEN "folded" ELSE job[j]]
       /\ told' = told \cup (hs[h].jobs \ done)
  /\ Rest(h)
  /\ UNCHANGED <<run, stage, ledger, paid, asks>>
-----------------------------------------------------------------------------
Handle(h) ==
  \/ Ask(h) \/ Refuse(h) \/ LookCall(h) \/ AddCall(h) \/ LookClose(h) \/ LookPick(h)
  \/ SetStage(h) \/ SetRun(h) \/ LookReport(h) \/ RaResult(h) \/ Resume(h)
  \/ CancelRun(h) \/ OpenDelibs(h) \/ StartedJobs(h) \/ FoldDelibs(h)

Next == StartRun \/ TimeIsUp \/ \E h \in Handlers : Handle(h)

Spec == Init /\ [][Next]_vars
-----------------------------------------------------------------------------
(* Properties                                                              *)

\* The rows and what the handlers remember have the shapes the ledger gives them.
TypeOK ==
  /\ run \in RunRow /\ stage \in [Steps -> StageRow]
  /\ hs \in [Handlers -> HandlerState]
  /\ job \in [Jobs -> {"none", "up", "folded"}] /\ ledger \in [Steps -> SUBSET Jobs]
  /\ told \subseteq Jobs /\ paid \in [Steps -> Nat] /\ asks \in 0 .. MaxAsks

\* Calls that are made at the same time do not exceed the budget of their step or of the
\* run, though each was looked at before the others were entered (routine_store.add_call).
BudgetsHold ==
  /\ run.calls <= RunBudget
  /\ \A s \in Steps : paid[s] <= StepBudget

\* When a stop is through and nothing else is under way, each deliberation the run started
\* is folded, was named to the person, or belongs to a step that was closed: none works on
\* unseen, whenever its start arrived (routine_routes.cancel).
NoDeliberationOutlivesTheStop ==
  (Quiet /\ run.state = "cancelled") =>
    \A j \in Jobs : job[j] = "up" =>
      j \in told \/ \E s \in Steps : j \in ledger[s] /\ ~ Open(s)

\* Only a request that read the run before it ended changes how it ended: no later one does,
\* a button left in another tab least of all (pick, cancel).
SettledEndsStay ==
  [][\A h \in Handlers :
       (run.state \in Ends /\ run'.state # run.state /\ hs'[h] # hs[h]) =>
         hs[h].saw \notin Ends]_vars

\* A run the person has stopped is not made to run again by a pick (pick's docstring).
StoppedRunsAreNotRevived ==
  [][run.state = "cancelled" => run'.state # "running"]_vars
=============================================================================
