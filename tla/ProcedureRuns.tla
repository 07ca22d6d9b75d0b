--------------------------- MODULE ProcedureRuns ---------------------------
(***************************************************************************)
(* Procedure runs of the portal backend: the run ledger (procedures/       *)
(* store.py), the runner that drives a run step by step through the MCP    *)
(* gateway (procedures/runner.py) and the request handlers that start,     *)
(* approve, pick, resume, extend and cancel a run (procedures/routes.py).  *)
(*                                                                         *)
(* Concurrency.  Runners are asyncio tasks and the handlers are coroutines *)
(* without an await after their dependencies, so all of them interleave    *)
(* only where a runner awaits: the semaphore, the session, a backend lock, *)
(* a tool call.  `cancel` is a plain function that the framework runs on a *)
(* thread: it falls between any two ledger statements.  A runner is cut    *)
(* into one action per await and per ledger statement that cancel or a     *)
(* restart of the process can separate from the next one.                  *)
(*                                                                         *)
(* Data.  A procedure carries one value from a `save` or a `select` step   *)
(* to the steps that name it in their arguments.  The fingerprint of a     *)
(* call (args_sha256) is the value it names, together with the preview a   *)
(* publish step was approved on.                                           *)
(*                                                                         *)
(* Definitions marked "Fault:" are not part of the specification.  Each is *)
(* the definition below it with one plausible bug, most of them bugs this  *)
(* code has had; a property is worth its place when such a bug breaks it.  *)
(***************************************************************************)
EXTENDS Integers, FiniteSets

CONSTANTS
  Runs,          \* run ids
  EmptyRuns,     \* runs made without a procedure: steps are added one by one
  AdHocRuns,     \* runs a client sends POST /runs/{id}/steps for
  Tasks,         \* asyncio tasks alive at once (a bound of the model)
  Slots,         \* procedures_concurrency, the runner's own semaphore
  N,             \* steps of the procedure, and the bound STEP_MAX of an empty run
  Backends, BackendOf,
  GateSteps,     \* _gate_of(step) = "human"
  PublishSteps,  \* publish_report: approved on a preview
  WriteSteps,    \* _writey(step.tool)
  SlowSteps,     \* step.expect = "slow"
  WarmSteps,     \* step.warmup
  SelectSteps,   \* step.select
  SaveSteps,     \* step.save
  PickUsers,     \* steps whose arguments name the carried value
  Values, NoValue,
  Views, NoView, \* what preview_publish can answer
  Nobody,        \* an asyncio.Lock nobody holds
  MaxAsks,       \* bound: accepted requests that create or continue a run
  MaxRestarts    \* bound: process restarts

Ix == 1 .. N

ASSUME SizeAssumption == N \in Nat \ {0} /\ Slots \in Nat \ {0}
ASSUME RunAssumption ==
  Runs # {} /\ EmptyRuns \subseteq Runs /\ AdHocRuns \subseteq Runs
ASSUME StepAssumption ==
  /\ BackendOf \in [Ix -> Backends]
  /\ PublishSteps \subseteq GateSteps   \* publish_report is in MUST_GATE
  /\ PublishSteps \cap (SelectSteps \cup WarmSteps) = {}
  /\ SelectSteps \cap (WarmSteps \cup SaveSteps) = {}
ASSUME NullAssumption == NoValue \notin Values /\ NoView \notin Views /\ Nobody \notin Tasks

-----------------------------------------------------------------------------
(* The ledger's rows and the tasks.                                          *)

RunStates == {"none", "queued", "running", "gated", "done", "failed", "cancelled"}
Ended == {"done", "failed", "cancelled"}

Fingerprints == [arg : Values \cup {NoValue}, view : Views \cup {NoView}]

Fingerprint(ix, scope, view) ==
  [arg |-> IF ix \in PickUsers THEN scope ELSE NoValue, view |-> view]

\* A run_steps row.  `cands` says that its notes hold candidates to pick from.
Rows == [state : {"none", "pending", "running", "done", "failed", "unknown", "skipped"},
         stage : {"", "gate", "select:ask"},
         fp : Fingerprints, cands : BOOLEAN]

NoRow == [state |-> "none", stage |-> "", fp |-> [arg |-> NoValue, view |-> NoView],
          cands |-> FALSE]

\* A run_gate_acks row: none, usable or used, and what it was given for.
Acks == [state : {"none", "unused", "used"}, fp : Fingerprints]

\* A task of the runner.  `via` is what spawned it, `scope` its copy of the
\* carried value, `prev` the state of the step's row before begin_step replaced
\* it, `next` where it goes after begin_step, `crashed` an exception on its way
\* to the done-callback.
PCs == {"free", "start", "plan", "sem", "open", "opened", "hold", "boundary",
        "drift", "preview", "begin", "card", "refuse", "lock", "spend", "calling",
        "after", "fail", "pause", "rest", "close", "callback", "stepfail"}

TaskRecords ==
  [pc : PCs, run : Runs, ix : 1 .. N + 1,
   via : {"run", "pick", "ack", "resume", "step"},
   scope : Values \cup {NoValue}, fp : Fingerprints, prev : {"none", "done", "unknown"},
   next : {"card", "refuse", "lock", "spend"}, ok : BOOLEAN, crashed : {"no", "yes", "runner"}]

Spawned(r, ix, via) ==
  [pc |-> "start", run |-> r, ix |-> ix, via |-> via, scope |-> NoValue,
   fp |-> [arg |-> NoValue, view |-> NoView], prev |-> "none", next |-> "spend",
   ok |-> FALSE, crashed |-> "no"]

Free == [Spawned(CHOOSE r \in Runs : TRUE, 1, "run") EXCEPT !.pc = "free"]

VARIABLES
  run,      \* runs.state, "none" before the run is made
  mode,     \* runs.mode
  inputs,   \* the carried value in runs.inputs_json
  row,      \* run_steps
  ack,      \* run_gate_acks
  task,     \* the asyncio tasks
  sem,      \* tasks inside `async with self.sem`
  lock,     \* _backend_locks
  credit,   \* history: approvals given minus gated calls sent, by fingerprint
  late,     \* history: calls sent after the run was cancelled
  asks, restarts

ledger == <<run, mode, inputs, row, ack>>
history == <<credit, late>>
bounds == <<asks, restarts>>
vars == <<ledger, task, sem, lock, history, bounds>>

Init ==
  /\ run = [r \in Runs |-> "none"]
  /\ mode = [r \in Runs |-> "plan"]
  /\ inputs = [r \in Runs |-> NoValue]
  /\ row = [r \in Runs |-> [ix \in Ix |-> NoRow]]
  /\ ack = [r \in Runs |-> [ix \in Ix |-> [state |-> "none", fp |-> NoRow.fp]]]
  /\ task = [t \in Tasks |-> Free]
  /\ sem = {}
  /\ lock = [b \in Backends |-> Nobody]
  /\ credit = [r \in Runs |-> [ix \in Ix |-> [fp \in Fingerprints |-> 0]]]
  /\ late = [r \in Runs |-> 0]
  /\ asks = 0 /\ restarts = 0

-----------------------------------------------------------------------------
(* State formulas.                                                           *)

RowsOf(r) == {ix \in Ix : row[r][ix].state # "none"}

\* gate_ack compared with the fingerprint, and use_gate_ack's WHERE clause.
Approved(r, ix, fp) == ack[r][ix] = [state |-> "unused", fp |-> fp]

\* The step goes out on a person's approval.
NeedsApproval(k) == k.via # "step" /\ k.ix \in GateSteps

\* Fault: only a failure is looked for when the ledger is read again (W-105).
StoppedByFailure(k) == k.via # "step" /\ run[k.run] = "failed"

\* What a runner that reads the ledger again stops for; step_once only looks for
\* a cancel.
Stopped(k) ==
  run[k.run] \in (IF k.via = "step" THEN {"cancelled"} ELSE {"cancelled", "failed"})

\* A warm-up call: it leaves no row and its verdict is thrown away.  A step of an
\* empty run cannot be one.
Warm(k) == k.ix \in WarmSteps /\ k.via # "step"

StepPCs == {"preview", "begin", "card", "refuse", "lock", "spend", "calling", "after"}

AtAStep(k) == k.pc \in StepPCs \/ (k.via = "step" /\ k.pc # "plan")

\* TemplateError: the arguments name a value the run does not have.
Unresolved(k) == k.ix \in PickUsers /\ k.scope = NoValue

\* A task that may still call a tool or write the state of its run: what is
\* left of the others is closing their session.
Active(k) == k.pc # "free" /\ ~(k.pc = "close" /\ k.crashed = "no")

-----------------------------------------------------------------------------
(* Ledger statements, as the actions below use them.                         *)

SetTask(t, k) == task' = [task EXCEPT ![t] = k]

Go(t, pc) == SetTask(t, [task[t] EXCEPT !.pc = pc])

\* set_run_state: one statement that checks and writes; the writer learns
\* whether it wrote.
SetRun(r, state, unless) ==
  run' = IF run[r] \in unless THEN run ELSE [run EXCEPT ![r] = state]

PutRow(r, ix, new) == row' = [row EXCEPT ![r][ix] = new]

\* finish_step: what it is not given stays (the candidates, the fingerprint).
FinishStep(r, ix, state) ==
  PutRow(r, ix, [row[r][ix] EXCEPT !.state = state, !.stage = ""])

\* begin_step comes next, then `next`; a warm-up call has no row.
BeginAs(t, next, fp) ==
  SetTask(t, [task[t] EXCEPT !.pc = "begin", !.next = next, !.fp = fp])

Call(t, fp) ==
  IF Warm(task[t])
  THEN SetTask(t, [task[t] EXCEPT !.pc = "spend", !.fp = fp])
  ELSE BeginAs(t, IF task[t].ix \in SlowSteps THEN "lock" ELSE "spend", fp)

NextStep(t) == SetTask(t, [task[t] EXCEPT !.pc = "boundary", !.ix = @ + 1])

NextStepWith(t, v) ==
  SetTask(t, [task[t] EXCEPT !.pc = "boundary", !.ix = @ + 1, !.scope = v])

-----------------------------------------------------------------------------
(* The runner: run(), _plan, and the head of step_once.                      *)

\* The coroutine's first turn: the scope is copied from the run's inputs.
Start(t) ==
  LET k == task[t] IN
  /\ k.pc = "start" /\ k.via # "step"
  /\ SetTask(t, IF mode[k.run] = "plan"
                THEN [k EXCEPT !.pc = "plan", !.scope = inputs[k.run], !.ix = 1]
                ELSE [k EXCEPT !.pc = "sem", !.scope = inputs[k.run]])
  /\ UNCHANGED <<ledger, sem, lock, history, bounds>>

\* step_once numbers its step by the rows there are, or refuses.
StartStep(t) ==
  LET k == task[t]
      refuse == \/ \E ix \in Ix : row[k.run][ix].state = "running"
                \/ Cardinality(RowsOf(k.run)) >= N
  IN
  /\ k.pc = "start" /\ k.via = "step"
  /\ \/ refuse /\ Go(t, "stepfail")
     \/ /\ ~refuse
        /\ SetTask(t, [task[t] EXCEPT !.pc = "sem", !.scope = inputs[k.run],
                                    !.ix = Cardinality(RowsOf(k.run)) + 1])
  /\ UNCHANGED <<ledger, sem, lock, history, bounds>>

\* _plan writes every step as skipped and calls nothing.
PlanStep(t) ==
  LET k == task[t] IN
  /\ k.pc = "plan" /\ k.ix \in Ix
  /\ PutRow(k.run, k.ix, [NoRow EXCEPT !.state = "skipped",
                                       !.fp = Fingerprint(k.ix, k.scope, NoView)])
  /\ SetTask(t, [task[t] EXCEPT !.ix = @ + 1])
  /\ UNCHANGED <<run, mode, inputs, ack, sem, lock, history, bounds>>

PlanDone(t) ==
  LET k == task[t] IN
  /\ k.pc = "plan" /\ k.ix = N + 1
  /\ SetRun(k.run, "done", {"cancelled"})
  /\ SetTask(t, Free)
  /\ UNCHANGED <<mode, inputs, row, ack, sem, lock, history, bounds>>

\* `async with self.sem`; without a token the runner never opens a session.
Acquire(t) ==
  LET k == task[t] IN
  /\ k.pc = "sem" /\ Cardinality(sem) < Slots
  /\ \/ /\ sem' = sem \cup {t} /\ Go(t, "open")
     \/ /\ Go(t, IF k.via = "step" THEN "stepfail" ELSE "callback")   \* mint_pat gave none
        /\ UNCHANGED sem
  /\ UNCHANGED <<ledger, lock, history, bounds>>

\* sess.open and sess.list_tools; an exception goes through `finally` first.
Open(t) ==
  LET k == task[t] IN
  /\ k.pc = "open"
  /\ \/ Go(t, "opened")
     \/ \E how \in {"yes", "runner"} :   \* a transport error, a RunnerError
          SetTask(t, [task[t] EXCEPT !.pc = "close", !.crashed = how])
  /\ UNCHANGED <<ledger, sem, lock, history, bounds>>

\* The ledger is read again: a cancel of a waiting run shows here.
Opened(t) ==
  LET k == task[t] IN
  /\ k.pc = "opened"
  /\ \/ run[k.run] = "cancelled" /\ Go(t, "close")
     \/ run[k.run] # "cancelled" /\ Go(t, "hold")
     \/ run[k.run] # "cancelled" /\ k.via # "step" /\ Go(t, "drift")   \* _check_drift
  /\ UNCHANGED <<ledger, sem, lock, history, bounds>>

Drift(t) ==
  LET k == task[t] IN
  /\ k.pc = "drift"
  /\ SetRun(k.run, "failed", {"cancelled"})
  /\ Go(t, "close")
  /\ UNCHANGED <<mode, inputs, row, ack, sem, lock, history, bounds>>

\* The runner writes running itself; not written means cancelled.
Hold(t) ==
  LET k == task[t] IN
  /\ k.pc = "hold"
  /\ SetRun(k.run, "running", {"cancelled"})
  /\ Go(t, IF run[k.run] = "cancelled" THEN "close" ELSE "boundary")
  /\ UNCHANGED <<mode, inputs, row, ack, sem, lock, history, bounds>>

-----------------------------------------------------------------------------
(* The runner: _loop at a step boundary, the gate and the publish gate.      *)

\* The boundary of one step, up to the next await or ledger write.
Boundary(t) ==
  LET k  == task[t]
      fp == Fingerprint(k.ix, k.scope, NoView)
  IN
  /\ k.pc = "boundary" /\ k.ix \in Ix /\ k.via # "step"
  /\ \/ Stopped(k) /\ Go(t, "close")
     \/ /\ ~Stopped(k)
        /\ \/ Go(t, "fail")                                  \* the owner was deactivated
           \/ Unresolved(k) /\ BeginAs(t, "refuse", fp)      \* _args
           \/ /\ ~Unresolved(k)
              /\ \/ k.ix \in PublishSteps /\ Go(t, "preview")
                 \/ /\ k.ix \in GateSteps \ PublishSteps
                    /\ IF Approved(k.run, k.ix, fp)
                       THEN Call(t, fp)
                       ELSE BeginAs(t, "card", fp)
                 \/ k.ix \notin GateSteps /\ Call(t, fp)
  /\ UNCHANGED <<ledger, sem, lock, history, bounds>>

\* step_once has no boundary: arguments, then the call.
StepArgs(t) ==
  LET k  == task[t]
      fp == Fingerprint(k.ix, k.scope, NoView)
  IN
  /\ k.pc = "boundary" /\ k.via = "step"
  /\ IF Unresolved(k) THEN BeginAs(t, "refuse", fp) ELSE Call(t, fp)
  /\ UNCHANGED <<ledger, sem, lock, history, bounds>>

\* _publish_gate after its preview came back: the ledger is read again, and an
\* approval only counts for the preview it was given on.  A preview that failed
\* keeps the approved fingerprint on the row when the row still showed it.
Preview(t) ==
  LET k   == task[t]
      old == ack[k.run][k.ix]
  IN
  /\ k.pc = "preview"
  /\ \/ Stopped(k) /\ Go(t, "close")
     \/ /\ ~Stopped(k)
        /\ \/ BeginAs(t, "refuse", Fingerprint(k.ix, k.scope, NoView))
           \/ /\ old.state = "unused" /\ row[k.run][k.ix].fp = old.fp
              /\ BeginAs(t, "refuse", old.fp)
           \/ \E view \in Views, blocked \in BOOLEAN :
                LET fp == Fingerprint(k.ix, k.scope, view) IN
                IF ~Approved(k.run, k.ix, fp) THEN BeginAs(t, "card", fp)
                ELSE IF blocked THEN BeginAs(t, "refuse", fp)
                ELSE Call(t, fp)
  /\ UNCHANGED <<ledger, sem, lock, history, bounds>>

\* begin_step replaces the row, notes and candidates with it; what the row said
\* before is read first (_sent_before).
Begin(t) ==
  LET k   == task[t]
      old == row[k.run][k.ix].state
  IN
  /\ k.pc = "begin"
  /\ PutRow(k.run, k.ix, [NoRow EXCEPT !.state = "running", !.fp = k.fp])
  /\ SetTask(t, [k EXCEPT !.pc = k.next,
                          !.prev = IF old \in {"done", "unknown"} THEN old ELSE "none"])
  /\ UNCHANGED <<run, mode, inputs, ack, sem, lock, history, bounds>>

\* The confirmation card.
Card(t) ==
  LET k == task[t] IN
  /\ k.pc = "card"
  /\ PutRow(k.run, k.ix, [row[k.run][k.ix] EXCEPT !.state = "pending", !.stage = "gate"])
  /\ Go(t, "pause")
  /\ UNCHANGED <<run, mode, inputs, ack, sem, lock, history, bounds>>

\* A step that is recorded failed without a call: arguments, preview, blocked.
Refuse(t) ==
  LET k == task[t] IN
  /\ k.pc = "refuse"
  /\ FinishStep(k.run, k.ix, "failed")
  /\ Go(t, "fail")
  /\ UNCHANGED <<run, mode, inputs, ack, sem, lock, history, bounds>>

-----------------------------------------------------------------------------
(* The runner: _one, the call of one step.                                   *)

\* Fault: a slow step does not wait for its backend.
LockShared(t) ==
  /\ task[t].pc = "lock"
  /\ lock' = [lock EXCEPT ![BackendOf[task[t].ix]] = t]
  /\ Go(t, "spend")
  /\ UNCHANGED <<ledger, sem, history, bounds>>

Lock(t) ==
  LET b == BackendOf[task[t].ix] IN
  /\ task[t].pc = "lock" /\ lock[b] = Nobody
  /\ lock' = [lock EXCEPT ![b] = t]
  /\ Go(t, "spend")
  /\ UNCHANGED <<ledger, sem, history, bounds>>

\* Fault: the backend lock is not given back.
KeepLock(t) == UNCHANGED lock

Unlock(t) == lock' = [b \in Backends |-> IF lock[b] = t THEN Nobody ELSE lock[b]]

\* Fault: the approval is not marked as used (W-111).
SendKeepingApproval(t) ==
  LET k == task[t] IN
  /\ k.pc = "spend"
  /\ Approved(k.run, k.ix, k.fp) \/ ~NeedsApproval(k)
  /\ Go(t, "calling")
  /\ credit' = IF NeedsApproval(k) THEN [credit EXCEPT ![k.run][k.ix][k.fp] = @ - 1] ELSE credit
  /\ late' = IF run[k.run] = "cancelled" THEN [late EXCEPT ![k.run] = @ + 1] ELSE late
  /\ UNCHANGED <<ledger, sem, lock, bounds>>

\* _spend, and the request with it: nothing is awaited between the two.  A call
\* is counted as sent from here on, whether it arrives or not.
Send(t) ==
  LET k   == task[t]
      hit == Approved(k.run, k.ix, k.fp)
  IN
  /\ k.pc = "spend"
  /\ hit \/ ~NeedsApproval(k)
  /\ ack' = IF hit THEN [ack EXCEPT ![k.run][k.ix].state = "used"] ELSE ack
  /\ Go(t, "calling")
  /\ credit' = IF NeedsApproval(k) THEN [credit EXCEPT ![k.run][k.ix][k.fp] = @ - 1] ELSE credit
  /\ late' = IF run[k.run] = "cancelled" THEN [late EXCEPT ![k.run] = @ + 1] ELSE late
  /\ UNCHANGED <<run, mode, inputs, row, sem, lock, bounds>>

\* The approval was used meanwhile: the step fails unsent.
NotSpent(t) ==
  LET k == task[t] IN
  /\ k.pc = "spend"
  /\ NeedsApproval(k) /\ ~Approved(k.run, k.ix, k.fp)
  /\ IF Warm(k) THEN UNCHANGED row ELSE FinishStep(k.run, k.ix, "failed")
  /\ Unlock(t)
  /\ SetTask(t, [task[t] EXCEPT !.pc = "after", !.ok = FALSE])
  /\ UNCHANGED <<run, mode, inputs, ack, sem, history, bounds>>

\* The answer, judged; or the deadline or a transport error, after which nobody
\* knows whether the tool ran.  A warm-up call leaves no row.
Return(t) ==
  LET k == task[t] IN
  /\ k.pc = "calling"
  /\ \E outcome \in {"done", "failed", "unknown"} :
       /\ IF Warm(k) THEN UNCHANGED row ELSE FinishStep(k.run, k.ix, outcome)
       /\ SetTask(t, [task[t] EXCEPT !.pc = "after", !.ok = (outcome = "done")])
  /\ Unlock(t)
  /\ UNCHANGED <<run, mode, inputs, ack, sem, history, bounds>>

-----------------------------------------------------------------------------
(* The runner: after the call the ledger is read again, then the verdict.    *)

AfterStopped(t) ==
  /\ task[t].pc = "after" /\ Stopped(task[t])
  /\ Go(t, "close")
  /\ UNCHANGED <<ledger, sem, lock, history, bounds>>

\* Fault: a failed step does not stop its run.
FailureIgnored(t) ==
  LET k == task[t] IN
  /\ k.pc = "after" /\ ~Stopped(k) /\ ~Warm(k) /\ ~k.ok
  /\ IF k.via = "step" THEN Go(t, "fail") ELSE NextStep(t)
  /\ UNCHANGED <<ledger, sem, lock, history, bounds>>

AfterFailure(t) ==
  LET k == task[t] IN
  /\ k.pc = "after" /\ ~Stopped(k) /\ ~Warm(k) /\ ~k.ok
  /\ Go(t, "fail")
  /\ UNCHANGED <<ledger, sem, lock, history, bounds>>

\* The verdict of a warm-up call is thrown away.
AfterWarmup(t) ==
  LET k == task[t] IN
  /\ k.pc = "after" /\ ~Stopped(k) /\ Warm(k)
  /\ NextStep(t)
  /\ UNCHANGED <<ledger, sem, lock, history, bounds>>

\* `save`: a value over SAVE_PERSIST_MAX stays in the scope and does not reach
\* the ledger.
AfterStep(t) ==
  LET k == task[t] IN
  /\ k.pc = "after" /\ ~Stopped(k) /\ k.ok
  /\ k.via # "step" /\ k.ix \notin WarmSteps \cup SelectSteps
  /\ \/ k.ix \notin SaveSteps /\ NextStep(t) /\ UNCHANGED inputs
     \/ /\ k.ix \in SaveSteps
        /\ \E v \in Values :
             /\ inputs' = [inputs EXCEPT ![k.run] = v] \/ UNCHANGED inputs
             /\ NextStepWith(t, v)
  /\ UNCHANGED <<run, mode, row, ack, sem, lock, history, bounds>>

\* step_once keeps every saved value and ends here.
AfterAdHoc(t) ==
  LET k == task[t] IN
  /\ k.pc = "after" /\ ~Stopped(k) /\ k.ok /\ k.via = "step"
  /\ \/ k.ix \notin SaveSteps /\ UNCHANGED inputs
     \/ k.ix \in SaveSteps /\ \E v \in Values : inputs' = [inputs EXCEPT ![k.run] = v]
  /\ Go(t, "rest")
  /\ UNCHANGED <<run, mode, row, ack, sem, lock, history, bounds>>

\* _pick: nothing and skip, one candidate, several (ask), or a shape that
\* cannot be picked from.
AfterSelect(t) ==
  LET k == task[t] IN
  /\ k.pc = "after" /\ ~Stopped(k) /\ k.ok
  /\ k.via # "step" /\ k.ix \in SelectSteps
  /\ \/ /\ FinishStep(k.run, k.ix, "skipped")
        /\ NextStep(t) /\ UNCHANGED inputs
     \/ \E v \in Values :
          /\ inputs' = [inputs EXCEPT ![k.run] = v]
          /\ NextStepWith(t, v) /\ UNCHANGED row
     \/ /\ PutRow(k.run, k.ix, [row[k.run][k.ix] EXCEPT !.state = "pending",
                                                       !.stage = "select:ask", !.cands = TRUE])
        /\ Go(t, "pause") /\ UNCHANGED inputs
     \/ /\ FinishStep(k.run, k.ix, "failed")
        /\ Go(t, "fail") /\ UNCHANGED inputs
  /\ UNCHANGED <<run, mode, ack, sem, lock, history, bounds>>

\* The state writes that end a runner's turn.  _loop spares every end, whoever
\* wrote it; step_once only a cancel.
Fail(t) ==
  LET k == task[t] IN
  /\ k.pc = "fail"
  /\ SetRun(k.run, "failed", IF k.via = "step" THEN {"cancelled"} ELSE Ended)
  /\ Go(t, "close")
  /\ UNCHANGED <<mode, inputs, row, ack, sem, lock, history, bounds>>

Pause(t) ==
  LET k == task[t] IN
  /\ k.pc = "pause"
  /\ SetRun(k.run, "gated", Ended)
  /\ Go(t, "close")
  /\ UNCHANGED <<mode, inputs, row, ack, sem, lock, history, bounds>>

Finish(t) ==
  LET k == task[t] IN
  /\ k.pc = "boundary" /\ k.ix = N + 1
  /\ SetRun(k.run, "done", Ended)
  /\ Go(t, "close")
  /\ UNCHANGED <<mode, inputs, row, ack, sem, lock, history, bounds>>

\* An empty run rests in queued between its steps.
Rest(t) ==
  LET k == task[t] IN
  /\ k.pc = "rest"
  /\ SetRun(k.run, "queued", {"cancelled"})
  /\ Go(t, "close")
  /\ UNCHANGED <<mode, inputs, row, ack, sem, lock, history, bounds>>

\* sess.close, then the slot is given back and an exception travels on.
Close(t) ==
  LET k == task[t] IN
  /\ k.pc = "close"
  /\ sem' = sem \ {t}
  /\ \/ k.crashed = "no" /\ SetTask(t, Free)
     \/ k.crashed = "runner" /\ k.via = "step" /\ Go(t, "stepfail")
     \/ /\ k.crashed = "yes" \/ (k.crashed = "runner" /\ k.via # "step")
        /\ Go(t, "callback")
  /\ UNCHANGED <<ledger, lock, history, bounds>>

\* _spawn's done-callback of a task that raised.
Callback(t) ==
  LET k == task[t] IN
  /\ k.pc = "callback"
  /\ SetRun(k.run, "failed", {"done", "failed", "cancelled"})
  /\ SetTask(t, Free)
  /\ UNCHANGED <<mode, inputs, row, ack, sem, lock, history, bounds>>

\* Fault: a step that could not start is only logged.
StepFailLogs(t) ==
  /\ task[t].pc = "stepfail"
  /\ SetTask(t, Free)
  /\ UNCHANGED <<ledger, sem, lock, history, bounds>>

\* _step_and_log: a step that could not start fails its run.
StepFail(t) ==
  LET k == task[t] IN
  /\ k.pc = "stepfail"
  /\ SetRun(k.run, "failed", {"cancelled"})
  /\ SetTask(t, Free)
  /\ UNCHANGED <<mode, inputs, row, ack, sem, lock, history, bounds>>

-----------------------------------------------------------------------------
(* The request handlers.                                                     *)

Spawn(r, ix, via) ==
  \E t \in Tasks : task[t].pc = "free" /\ SetTask(t, Spawned(r, ix, via))

Ask == asks < MaxAsks /\ asks' = asks + 1

\* Fault: a request only looks for a cancel (W-110).
TakeUnlessCancelled(r, expect) ==
  run[r] \notin {"none", "cancelled"} /\ run' = [run EXCEPT ![r] = "running"]

\* _take: whoever moves the run out of a resting state may spawn a runner.
Take(r, expect) == run[r] \in expect /\ run' = [run EXCEPT ![r] = "running"]

\* start_run, and replay_run, which makes a new run from an old one's inputs.
StartRun(r) ==
  /\ Ask
  /\ run[r] = "none"
  /\ run' = [run EXCEPT ![r] = "queued"]
  /\ \E m \in {"plan", "live"} : mode' = [mode EXCEPT ![r] = m]
  /\ IF r \in EmptyRuns THEN UNCHANGED task ELSE Spawn(r, 1, "run")
  /\ UNCHANGED <<inputs, row, ack, sem, lock, history, restarts>>

\* fan_out, one candidate at a time: several requests for one candidate reach
\* every state that one request for several does.
FanOut(r, ix, c) ==
  /\ Ask
  /\ run[r] # "none" /\ r \notin EmptyRuns /\ row[r][ix].cands
  /\ run[c] = "none" /\ c \notin EmptyRuns
  /\ run' = [run EXCEPT ![c] = "queued"]
  /\ \E m \in {"plan", "live"} : mode' = [mode EXCEPT ![c] = m]
  /\ \E v \in Values : inputs' = [inputs EXCEPT ![c] = v]
  /\ Spawn(c, ix + 1, "run")
  /\ UNCHANGED <<row, ack, sem, lock, history, restarts>>

\* Fault: the picked value is written before the run is taken (W-110).
PickBeforeTaking(r, ix) ==
  /\ Ask
  /\ r \notin EmptyRuns /\ row[r][ix].cands
  /\ \E v \in Values : inputs' = [inputs EXCEPT ![r] = v]
  /\ IF run[r] \in {"gated", "done", "failed"}
     THEN /\ run' = [run EXCEPT ![r] = "running"]
          /\ FinishStep(r, ix, "done")
          /\ Spawn(r, ix + 1, "pick")
     ELSE UNCHANGED <<run, row, task>>
  /\ UNCHANGED <<mode, ack, sem, lock, history, restarts>>

\* pick: a step that still shows candidates, on a run that waits or has ended.
Pick(r, ix) ==
  /\ Ask
  /\ r \notin EmptyRuns /\ row[r][ix].cands
  /\ Take(r, {"gated", "done", "failed"})
  /\ \E v \in Values : inputs' = [inputs EXCEPT ![r] = v]
  /\ FinishStep(r, ix, "done")
  /\ Spawn(r, ix + 1, "pick")
  /\ UNCHANGED <<mode, ack, sem, lock, history, restarts>>

\* ack: the fingerprint on the row is the one the person was shown.
Ack(r, ix) ==
  LET fp == row[r][ix].fp IN
  /\ Ask
  /\ r \notin EmptyRuns
  /\ \/ /\ row[r][ix].state = "pending" /\ row[r][ix].stage = "gate"
        /\ Take(r, {"gated"})
     \/ /\ row[r][ix].state = "unknown"
        /\ Take(r, {"failed"})
  /\ ack' = [ack EXCEPT ![r][ix] = [state |-> "unused", fp |-> fp]]
  /\ credit' = [credit EXCEPT ![r][ix][fp] = @ + 1]
  /\ Spawn(r, ix, "ack")
  /\ UNCHANGED <<mode, inputs, row, sem, lock, late, restarts>>

\* Fault: with no open step, the last row is run again.
ResumeAtLastRow(r) ==
  LET open == {ix \in Ix : row[r][ix].state \in {"failed", "unknown", "pending"}} IN
  IF open # {} THEN CHOOSE ix \in open : \A other \in open : ix <= other
  ELSE Cardinality(RowsOf(r))

\* Where resume starts: the first step that did not pass, else as many steps in
\* as there are rows.
ResumeAt(r) ==
  LET open == {ix \in Ix : row[r][ix].state \in {"failed", "unknown", "pending"}} IN
  IF open # {} THEN CHOOSE ix \in open : \A other \in open : ix <= other
  ELSE Cardinality(RowsOf(r)) + 1

\* Fault: a write of which nobody knows whether it ran is not asked about.
ResumeUnconfirmed(r) ==
  LET at == ResumeAt(r) IN
  /\ Ask
  /\ r \notin EmptyRuns
  /\ at \in Ix
  /\ Take(r, {"failed"})
  /\ Spawn(r, at, "resume")
  /\ UNCHANGED <<mode, inputs, row, ack, sem, lock, history, restarts>>

Resume(r) ==
  LET at == ResumeAt(r) IN
  /\ Ask
  /\ r \notin EmptyRuns
  /\ at \in Ix
  /\ (row[r][at].state = "unknown" /\ at \in WriteSteps \ GateSteps)
       => Approved(r, at, row[r][at].fp)
  /\ Take(r, {"failed"})
  /\ Spawn(r, at, "resume")
  /\ UNCHANGED <<mode, inputs, row, ack, sem, lock, history, restarts>>

\* Fault: a step is added by reading the run, without taking it (W-112).
AddStepByReading(r) ==
  /\ Ask
  /\ r \in AdHocRuns
  /\ \A ix \in Ix : row[r][ix].state # "running"
  /\ Cardinality(RowsOf(r)) < N
  /\ run[r] \notin {"none", "cancelled", "gated"}
  /\ Spawn(r, 1, "step")
  /\ UNCHANGED <<ledger, sem, lock, history, restarts>>

\* add_step, of a step that needs no approval.
AddStep(r) ==
  /\ Ask
  /\ r \in AdHocRuns
  /\ \A ix \in Ix : row[r][ix].state # "running"
  /\ Cardinality(RowsOf(r)) < N
  /\ Take(r, {"queued", "failed", "done"})
  /\ Spawn(r, 1, "step")
  /\ UNCHANGED <<mode, inputs, row, ack, sem, lock, history, restarts>>

\* Fault: a cancel overwrites an end (W-107).
CancelEnds(r) ==
  /\ run[r] \notin {"none", "cancelled"}
  /\ run' = [run EXCEPT ![r] = "cancelled"]
  /\ UNCHANGED <<mode, inputs, row, ack, task, sem, lock, history, bounds>>

Cancel(r) ==
  /\ run[r] \notin Ended \cup {"none"}
  /\ run' = [run EXCEPT ![r] = "cancelled"]
  /\ UNCHANGED <<mode, inputs, row, ack, task, sem, lock, history, bounds>>

\* Fault: the cards of waiting runs are closed with the rows that ran.
RestartClosesCards ==
  /\ restarts < MaxRestarts /\ restarts' = restarts + 1
  /\ run' = [r \in Runs |-> IF run[r] \in {"queued", "running"} THEN "failed" ELSE run[r]]
  /\ row' = [r \in Runs |-> [ix \in Ix |->
               IF row[r][ix].state \in {"running", "pending"}
               THEN [row[r][ix] EXCEPT !.state = "unknown", !.cands = FALSE]
               ELSE row[r][ix]]]
  /\ task' = [t \in Tasks |-> Free]
  /\ sem' = {} /\ lock' = [b \in Backends |-> Nobody]
  /\ UNCHANGED <<mode, inputs, ack, history, asks>>

\* The process dies with its tasks and locks; close_stale runs before the next
\* one serves.
Restart ==
  /\ restarts < MaxRestarts /\ restarts' = restarts + 1
  /\ run' = [r \in Runs |-> IF run[r] \in {"queued", "running"} THEN "failed" ELSE run[r]]
  /\ row' = [r \in Runs |-> [ix \in Ix |->
               IF row[r][ix].state = "running" THEN [row[r][ix] EXCEPT !.state = "unknown"]
               ELSE row[r][ix]]]
  /\ task' = [t \in Tasks |-> Free]
  /\ sem' = {} /\ lock' = [b \in Backends |-> Nobody]
  /\ UNCHANGED <<mode, inputs, ack, history, asks>>

-----------------------------------------------------------------------------
RunnerStep(t) ==
  \/ Start(t) \/ StartStep(t) \/ PlanStep(t) \/ PlanDone(t)
  \/ Acquire(t) \/ Open(t) \/ Opened(t) \/ Drift(t) \/ Hold(t)
  \/ Boundary(t) \/ StepArgs(t) \/ Preview(t) \/ Begin(t) \/ Card(t) \/ Refuse(t)
  \/ Lock(t) \/ Send(t) \/ NotSpent(t) \/ Return(t)
  \/ AfterStopped(t) \/ AfterFailure(t) \/ AfterWarmup(t) \/ AfterStep(t)
  \/ AfterAdHoc(t) \/ AfterSelect(t)
  \/ Fail(t) \/ Pause(t) \/ Finish(t) \/ Rest(t)
  \/ Close(t) \/ Callback(t) \/ StepFail(t)

Request ==
  \E r \in Runs :
    \/ StartRun(r) \/ Resume(r) \/ AddStep(r) \/ Cancel(r)
    \/ \E ix \in Ix : Pick(r, ix) \/ Ack(r, ix) \/ \E c \in Runs : FanOut(r, ix, c)

Next == (\E t \in Tasks : RunnerStep(t)) \/ Request \/ Restart

Spec == Init /\ [][Next]_vars

\* The event loop runs every task that is ready, the calls are bounded by
\* wait_for and the client's timeouts, and asyncio's semaphore and locks serve
\* their waiters in order.  People and restarts are under no obligation.
Fairness ==
  \A t \in Tasks : WF_vars(RunnerStep(t)) /\ SF_vars(Acquire(t)) /\ SF_vars(Lock(t))

LiveSpec == Spec /\ Fairness

-----------------------------------------------------------------------------
(* Properties.                                                               *)

\* Every variable holds a value of its kind, and a task that is at a step is at a
\* step there is: neither the loop nor the numbering of added steps runs over.
TasksOK ==
  /\ task \in [Tasks -> TaskRecords]
  /\ \A t \in Tasks : AtAStep(task[t]) => task[t].ix \in Ix

TypeOK ==
  /\ run \in [Runs -> RunStates]
  /\ mode \in [Runs -> {"plan", "live"}]
  /\ inputs \in [Runs -> Values \cup {NoValue}]
  /\ row \in [Runs -> [Ix -> Rows]]
  /\ ack \in [Runs -> [Ix -> Acks]]
  /\ TasksOK
  /\ sem \subseteq Tasks
  /\ lock \in [Backends -> Tasks \cup {Nobody}]
  /\ credit \in [Runs -> [Ix -> [Fingerprints -> Int]]]
  /\ late \in [Runs -> Nat]
  /\ asks \in Nat /\ restarts \in Nat

\* W-111: the calls of a confirmed step never outnumber the approvals a person
\* gave for exactly those arguments (and, of a publish, that preview), through
\* retries, re-picks, cancels and restarts.
SendsWithinApprovals ==
  \A r \in Runs, ix \in Ix, fp \in Fingerprints : credit[r][ix][fp] >= 0

\* Why that holds: an approval that is still usable is one that was given for
\* what it was given for and has not been spent on a call.
UsableApprovalsAreUnspent ==
  \A r \in Runs, ix \in Ix, fp \in Fingerprints :
    credit[r][ix][fp] >= IF Approved(r, ix, fp) THEN 1 ELSE 0

\* W-109: nothing that a runner, a handler or a restart writes ever replaces a
\* cancel.
CancelIsFinal == [][\A r \in Runs : run[r] = "cancelled" => run'[r] = "cancelled"]_vars

\* W-110: a run is never in the hands of two runners.
OneRunner ==
  \A t, u \in Tasks : (t # u /\ Active(task[t]) /\ Active(task[u])) => task[t].run # task[u].run

\* Exceptions travel only through `finally` and the callbacks, and what add_step
\* spawns is told from the rest by its run.
TaskForm(k) ==
  /\ k.crashed # "no" => k.pc \in {"close", "callback", "stepfail"}
  /\ k.via = "step" => k.run \in AdHocRuns
  /\ k.pc = "rest" => k.via = "step"

\* Why that holds: a run in the hands of a runner is in a state from which no
\* request takes it, so whoever takes a run finds it without a runner.
RunnersHoldTheirRuns ==
  /\ \A t \in Tasks : TaskForm(task[t])
  /\ \A t \in Tasks : Active(task[t]) =>
       \/ run[task[t].run] \in {"running", "cancelled"}
       \/ run[task[t].run] = "queued" /\ task[t].run \notin EmptyRuns
  /\ OneRunner

\* cancel's docstring: a cancel takes effect at the next step boundary, so at
\* most the call that was under way still goes out.
OneCallAfterCancel == \A r \in Runs : late[r] <= 1

\* _spawn, close_stale: what looks as if it ran does run.  A running run, a
\* queued run of a procedure and a running row have a live runner.
NothingLooksAliveThatIsNot ==
  \A r \in Runs :
    (\/ run[r] = "running"
     \/ run[r] = "queued" /\ r \notin EmptyRuns
     \/ \E ix \in Ix : row[r][ix].state = "running")
    => \E t \in Tasks : task[t].run = r /\ Active(task[t])

\* A run that waits for a person shows a card that can be answered: a pending
\* step with a gate or with candidates.
WaitingRunHasACard ==
  \A r \in Runs : run[r] = "gated" =>
    \E ix \in Ix : /\ row[r][ix].state = "pending"
                   /\ row[r][ix].stage = "gate" \/ row[r][ix].cands

\* An end is left only by a request that takes the run again, never by a runner
\* that was still on its way.
EndsAreKept ==
  [][\A r \in Runs : (run[r] \in {"done", "failed"} /\ run'[r] # run[r]) => asks' = asks + 1]_vars

\* A call goes out in this step.
Sends(t) == task[t].pc = "spend" /\ task'[t].pc = "calling"

\* resume's docstring: a write of which nobody knows whether it ran goes out
\* again only after a person confirmed it.
ResumeConfirmsUnknownWrites ==
  [][\A t \in Tasks :
       LET k == task[t] IN
       (Sends(t) /\ k.via = "resume" /\ k.prev = "unknown" /\ k.ix \in WriteSteps)
         => Approved(k.run, k.ix, k.fp)]_vars

\* resume's docstring: a step that is done is never run again by a resume.
ResumeNeverRepeatsDone ==
  [][\A t \in Tasks : (Sends(t) /\ task[t].via = "resume") => task[t].prev # "done"]_vars

\* A run that ended done has no step that failed, waits or is unknown.
DoneIsWhole ==
  \A r \in Runs : (run[r] = "done" /\ r \notin EmptyRuns) =>
    \A ix \in Ix : row[r][ix].state \in {"none", "done", "skipped"}

\* W-110: what a step goes out with is what the ledger says was saved or picked;
\* a request that is refused never changes it under a runner.  (Not claimed with
\* `save` steps: a value over the limit never reaches the ledger.)
CallsMatchTheLedger ==
  [][\A t \in Tasks :
       LET k == task[t] IN
       (Sends(t) /\ k.ix \in PickUsers) => k.fp.arg = inputs[k.run]]_vars

\* W-112: a step added to an empty run is a new row; it never takes the number of
\* a step that is there.
StepsNeverOverwrite ==
  [][\A t \in Tasks :
       LET k == task[t] IN
       (k.pc = "begin" /\ k.via = "step" /\ task'[t].pc = k.next)
         => row[k.run][k.ix].state = "none"]_vars

\* The contract of RunLifecycle: the runners of a run are its workers.
Lifecycle == INSTANCE RunLifecycle
  WITH state <- run, Workers <- Tasks,
       owners <- [r \in Runs |-> {t \in Tasks : Active(task[t]) /\ task[t].run = r}]

\* Requests, runners, cancels and restarts keep that contract at every step.
RunsKeepTheirLifecycle == Lifecycle!Spec

\* A call of a slow step.  The call of a warm-up step goes out ahead of the lock,
\* whatever the step expects.
SlowCall(k) == k.pc = "calling" /\ k.ix \in SlowSteps /\ ~Warm(k)

\* _blk: two slow steps never run on one backend together.
SlowStepsTakeTurns ==
  \A t, u \in Tasks :
    (/\ SlowCall(task[t]) /\ SlowCall(task[u])
     /\ BackendOf[task[t].ix] = BackendOf[task[u].ix]) => t = u

\* A run that was queued or taken comes to rest: it ends, waits for a person or,
\* if it is an empty run, waits for its next step.
RunsSettle ==
  \A r \in Runs :
    (run[r] = "running" \/ (run[r] = "queued" /\ r \notin EmptyRuns))
      ~> (run[r] \in Ended \cup {"gated"} \/ (run[r] = "queued" /\ r \in EmptyRuns))
=============================================================================
