------------------------ MODULE ProcedureRuns_proofs ------------------------
(***************************************************************************)
(* Theorems about ProcedureRuns, for every value of its constants: its     *)
(* types; approvals bound calls, a cancel is final, a run has one runner,  *)
(* an end is kept, the whole keeps the contract of RunLifecycle; slow      *)
(* steps take turns; nothing looks alive that is not; what a cancel, a     *)
(* pause, a call and an added step find in the ledger; what a run that is  *)
(* done leaves there, and what a resume repeats.                           *)
(***************************************************************************)
EXTENDS ProcedureRuns, FiniteSetTheorems, TLAPS

USE DEF Ix

-----------------------------------------------------------------------------
(* Typing of the values and statements the actions are built from.           *)

LEMMA InPCs ==
  /\ "free" \in PCs /\ "start" \in PCs /\ "plan" \in PCs /\ "sem" \in PCs
  /\ "open" \in PCs /\ "opened" \in PCs /\ "hold" \in PCs /\ "boundary" \in PCs
  /\ "drift" \in PCs /\ "preview" \in PCs /\ "begin" \in PCs /\ "card" \in PCs
  /\ "refuse" \in PCs /\ "lock" \in PCs /\ "spend" \in PCs /\ "calling" \in PCs
  /\ "after" \in PCs /\ "fail" \in PCs /\ "pause" \in PCs /\ "rest" \in PCs
  /\ "close" \in PCs /\ "callback" \in PCs /\ "stepfail" \in PCs
BY DEF PCs

LEMMA FingerprintType ==
  ASSUME NEW ix, NEW scope \in Values \cup {NoValue}, NEW view \in Views \cup {NoView}
  PROVE  Fingerprint(ix, scope, view) \in Fingerprints
BY DEF Fingerprint, Fingerprints

LEMMA NoRowType == NoRow \in Rows /\ NoRow.fp \in Fingerprints
BY DEF NoRow, Rows, Fingerprints

LEMMA SpawnedType ==
  ASSUME NEW r \in Runs, NEW ix \in 1 .. N + 1, NEW via \in {"run", "pick", "ack", "resume", "step"}
  PROVE  Spawned(r, ix, via) \in TaskRecords
BY InPCs DEF Spawned, TaskRecords, Fingerprints

LEMMA FreeType == Free \in TaskRecords
<1>1. PICK r \in Runs : r = CHOOSE q \in Runs : TRUE
  BY RunAssumption
<1>2. 1 \in 1 .. N + 1
  BY SizeAssumption
<1>3. Spawned(r, 1, "run") \in TaskRecords
  BY <1>2, SpawnedType
<1> QED
  BY <1>1, <1>3, InPCs DEF Free, TaskRecords

\* How many rows there are is a number.
LEMMA RowsOfType == ASSUME NEW r PROVE Cardinality(RowsOf(r)) \in Nat
<1>1. IsFiniteSet(1 .. N) /\ RowsOf(r) \subseteq 1 .. N
  BY SizeAssumption, FS_Interval DEF RowsOf
<1> QED
  BY <1>1, FS_Subset, FS_CardinalityType

LEMMA SetTaskType ==
  ASSUME TasksOK, NEW t \in Tasks, NEW k \in TaskRecords, AtAStep(k) => k.ix \in Ix,
         SetTask(t, k)
  PROVE  TasksOK'
<1>1. task' = [task EXCEPT ![t] = k]
  BY DEF SetTask
<1>2. task' \in [Tasks -> TaskRecords]
  BY <1>1 DEF TasksOK
<1>3. ASSUME NEW u \in Tasks, AtAStep(task'[u]) PROVE task'[u].ix \in Ix
  <2>1. CASE u = t
    BY <1>1, <1>3, <2>1 DEF TasksOK
  <2>2. CASE u # t
    <3>1. task'[u] = task[u]
      BY <1>1, <2>2 DEF TasksOK
    <3> QED
      BY <1>3, <3>1 DEF TasksOK
  <2> QED
    BY <2>1, <2>2
<1> QED
  BY <1>2, <1>3 DEF TasksOK

LEMMA GoType ==
  ASSUME TasksOK, NEW t \in Tasks, NEW pc \in PCs, pc \in StepPCs => task[t].ix \in Ix,
         task[t].pc # "plan", Go(t, pc)
  PROVE  TasksOK'
<1>1. task[t] \in TaskRecords
  BY DEF TasksOK
<1> DEFINE k == [task[t] EXCEPT !.pc = pc]
<1>2. k \in TaskRecords /\ k.pc = pc /\ k.via = task[t].via /\ k.ix = task[t].ix
  BY <1>1 DEF TaskRecords
<1>3. AtAStep(k) => k.ix \in Ix
  BY <1>2 DEF TasksOK, AtAStep
<1> HIDE DEF k
<1>4. SetTask(t, k)
  BY DEF Go, k
<1> QED
  BY <1>2, <1>3, <1>4, SetTaskType

LEMMA BeginAsType ==
  ASSUME TasksOK, NEW t \in Tasks, task[t].ix \in Ix,
         NEW next \in {"card", "refuse", "lock", "spend"},
         NEW fp \in Fingerprints, BeginAs(t, next, fp)
  PROVE  TasksOK'
<1>1. task[t] \in TaskRecords
  BY DEF TasksOK
<1> DEFINE k == [task[t] EXCEPT !.pc = "begin", !.next = next, !.fp = fp]
<1>2. k \in TaskRecords /\ k.ix = task[t].ix
  BY <1>1, InPCs DEF TaskRecords
<1> HIDE DEF k
<1>3. SetTask(t, k)
  BY DEF BeginAs, k
<1> QED
  BY <1>2, <1>3, SetTaskType

LEMMA CallType ==
  ASSUME TasksOK, NEW t \in Tasks, task[t].ix \in Ix, NEW fp \in Fingerprints, Call(t, fp)
  PROVE  TasksOK'
<1>1. CASE Warm(task[t])
  <2>1. task[t] \in TaskRecords
    BY DEF TasksOK
  <2> DEFINE k == [task[t] EXCEPT !.pc = "spend", !.fp = fp]
  <2>2. k \in TaskRecords /\ k.ix = task[t].ix
    BY <2>1, InPCs DEF TaskRecords
  <2> HIDE DEF k
  <2>3. SetTask(t, k)
    BY <1>1 DEF Call, k
  <2> QED
    BY <2>2, <2>3, SetTaskType
<1>2. CASE ~Warm(task[t])
  BY <1>2, BeginAsType DEF Call
<1> QED
  BY <1>1, <1>2

LEMMA NextStepType ==
  ASSUME TasksOK, NEW t \in Tasks, task[t].ix \in Ix, task[t].via # "step",
         \/ NextStep(t)
         \/ \E v \in Values : NextStepWith(t, v)
  PROVE  TasksOK'
<1>1. task[t] \in TaskRecords /\ task[t].ix + 1 \in 1 .. N + 1
  BY SizeAssumption DEF TasksOK
<1>2. "boundary" \notin StepPCs
  BY DEF StepPCs
<1>3. CASE NextStep(t)
  <2> DEFINE k == [task[t] EXCEPT !.pc = "boundary", !.ix = @ + 1]
  <2>1. k \in TaskRecords /\ k.pc = "boundary" /\ k.via = task[t].via
    BY <1>1, InPCs DEF TaskRecords
  <2> HIDE DEF k
  <2>2. SetTask(t, k) /\ ~AtAStep(k)
    BY <1>2, <1>3, <2>1 DEF NextStep, AtAStep, k
  <2> QED
    BY <2>1, <2>2, SetTaskType
<1>4. ASSUME NEW v \in Values, NextStepWith(t, v) PROVE TasksOK'
  <2> DEFINE k == [task[t] EXCEPT !.pc = "boundary", !.ix = @ + 1, !.scope = v]
  <2>1. k \in TaskRecords /\ k.pc = "boundary" /\ k.via = task[t].via
    BY <1>1, InPCs DEF TaskRecords
  <2> HIDE DEF k
  <2>2. SetTask(t, k) /\ ~AtAStep(k)
    BY <1>2, <1>4, <2>1 DEF NextStepWith, AtAStep, k
  <2> QED
    BY <2>1, <2>2, SetTaskType
<1> QED
  BY <1>3, <1>4

LEMMA NextStepTypeAlone ==
  ASSUME TasksOK, NEW t \in Tasks, task[t].ix \in Ix, task[t].via # "step", NextStep(t)
  PROVE  TasksOK'
BY NextStepType

LEMMA SpawnType ==
  ASSUME TasksOK, NEW r \in Runs, NEW ix \in 1 .. N + 1,
         NEW via \in {"run", "pick", "ack", "resume", "step"}, via = "step" => ix \in Ix,
         Spawn(r, ix, via)
  PROVE  TasksOK'
<1> DEFINE k == Spawned(r, ix, via)
<1>1. k \in TaskRecords
  BY SpawnedType
<1>2. k.via = via /\ k.ix = ix /\ k.pc = "start"
  BY DEF Spawned
<1>3. AtAStep(k) => k.ix \in Ix
  BY <1>2 DEF AtAStep, StepPCs
<1> HIDE DEF k
<1>4. PICK t \in Tasks : SetTask(t, k)
  BY DEF Spawn, k
<1> QED
  BY <1>1, <1>3, <1>4, SetTaskType

\* A task that is let go.
LEMMA FreeTaskType ==
  ASSUME TasksOK, NEW t \in Tasks, SetTask(t, Free)
  PROVE  TasksOK'
<1>1. Free.via = "run" /\ Free.pc = "free"
  BY DEF Free, Spawned
<1>2. ~AtAStep(Free)
  BY <1>1 DEF AtAStep, StepPCs
<1> QED
  BY <1>2, FreeType, SetTaskType

LEMMA SetRunType ==
  ASSUME run \in [Runs -> RunStates], NEW r \in Runs, NEW s \in RunStates, NEW unless,
         SetRun(r, s, unless)
  PROVE  run' \in [Runs -> RunStates]
BY DEF SetRun

LEMMA TakeType ==
  ASSUME run \in [Runs -> RunStates], NEW r \in Runs, NEW expect, Take(r, expect)
  PROVE  run' \in [Runs -> RunStates]
BY DEF Take, RunStates

LEMMA PutRowType ==
  ASSUME row \in [Runs -> [Ix -> Rows]], NEW r \in Runs, NEW ix \in Ix, NEW new \in Rows,
         PutRow(r, ix, new)
  PROVE  row' \in [Runs -> [Ix -> Rows]]
BY DEF PutRow

LEMMA FinishStepType ==
  ASSUME row \in [Runs -> [Ix -> Rows]], NEW r \in Runs, NEW ix \in Ix,
         NEW s \in {"done", "failed", "unknown", "skipped"}, FinishStep(r, ix, s)
  PROVE  row' \in [Runs -> [Ix -> Rows]]
<1>1. row[r][ix] \in Rows
  OBVIOUS
<1>2. [row[r][ix] EXCEPT !.state = s, !.stage = ""] \in Rows
  BY <1>1 DEF Rows
<1> QED
  BY <1>2, PutRowType DEF FinishStep

LEMMA UnlockType ==
  ASSUME lock \in [Backends -> Tasks \cup {Nobody}], NEW t \in Tasks, Unlock(t)
  PROVE  lock' \in [Backends -> Tasks \cup {Nobody}]
BY DEF Unlock

\* What a row, an approval and a count are, one at a time.
LEMMA RowFacts ==
  ASSUME TypeOK, NEW r \in Runs, NEW ix \in Ix
  PROVE  /\ row[r][ix] \in Rows /\ row[r][ix].fp \in Fingerprints
         /\ ack[r][ix] \in Acks
         /\ \A fp \in Fingerprints : credit[r][ix][fp] \in Int
<1>1. /\ row \in [Runs -> [Ix -> Rows]] /\ ack \in [Runs -> [Ix -> Acks]]
      /\ credit \in [Runs -> [Ix -> [Fingerprints -> Int]]]
  BY DEF TypeOK
<1>2. row[r][ix] \in Rows /\ ack[r][ix] \in Acks
  BY <1>1
<1>3. credit[r][ix] \in [Fingerprints -> Int]
  BY <1>1
<1>4. row[r][ix].fp \in Fingerprints
  BY <1>2 DEF Rows
<1> QED
  BY <1>2, <1>3, <1>4

LEMMA CreditType ==
  ASSUME TypeOK, NEW r \in Runs, NEW ix \in Ix, NEW fp \in Fingerprints, NEW c \in Int,
         credit' = [credit EXCEPT ![r][ix][fp] = c]
  PROVE  credit' \in [Runs -> [Ix -> [Fingerprints -> Int]]]
<1>1. credit \in [Runs -> [Ix -> [Fingerprints -> Int]]]
  BY DEF TypeOK
<1>2. credit[r] \in [Ix -> [Fingerprints -> Int]] /\ credit[r][ix] \in [Fingerprints -> Int]
  BY <1>1
<1>3. [credit[r][ix] EXCEPT ![fp] = c] \in [Fingerprints -> Int]
  BY <1>2
<1>4. [credit[r] EXCEPT ![ix] = [credit[r][ix] EXCEPT ![fp] = c]] \in [Ix -> [Fingerprints -> Int]]
  BY <1>2, <1>3
<1>5. credit' = [credit EXCEPT ![r] = [credit[r] EXCEPT ![ix] = [credit[r][ix] EXCEPT ![fp] = c]]]
  BY <1>1
<1> QED
  BY <1>1, <1>4, <1>5

\* The fields of a task, and what it reads with them.
LEMMA TaskFacts ==
  ASSUME TypeOK, NEW t \in Tasks
  PROVE  /\ TasksOK /\ task[t] \in TaskRecords
         /\ task[t].run \in Runs /\ task[t].ix \in 1 .. N + 1
         /\ task[t].scope \in Values \cup {NoValue} /\ task[t].fp \in Fingerprints
         /\ task[t].next \in {"card", "refuse", "lock", "spend"} /\ task[t].next \in PCs
         /\ AtAStep(task[t]) => task[t].ix \in Ix
         /\ inputs[task[t].run] \in Values \cup {NoValue}
<1>1. TasksOK /\ task[t] \in TaskRecords
  BY DEF TypeOK, TasksOK
<1>2. task[t].run \in Runs /\ task[t].next \in {"card", "refuse", "lock", "spend"}
  BY <1>1 DEF TaskRecords
<1>3. /\ task[t].ix \in 1 .. N + 1
      /\ task[t].scope \in Values \cup {NoValue} /\ task[t].fp \in Fingerprints
  BY <1>1 DEF TaskRecords
<1>4. task[t].next \in PCs
  BY <1>2, InPCs
<1>5. AtAStep(task[t]) => task[t].ix \in Ix
  BY DEF TypeOK, TasksOK
<1>6. inputs[task[t].run] \in Values \cup {NoValue}
  BY <1>2 DEF TypeOK
<1> QED
  BY <1>1, <1>2, <1>3, <1>4, <1>5, <1>6

-----------------------------------------------------------------------------
(* Type correctness: one case per action.                                    *)

\* A step that writes no more than the tasks, one run's state and one row.
LEMMA TypeOfWrites ==
  ASSUME TypeOK, TasksOK', run' \in [Runs -> RunStates], row' \in [Runs -> [Ix -> Rows]],
         inputs' \in [Runs -> Values \cup {NoValue}],
         lock' \in [Backends -> Tasks \cup {Nobody}], sem' \subseteq Tasks,
         UNCHANGED <<mode, ack, history>>, UNCHANGED bounds \/ (Ask /\ UNCHANGED restarts)
  PROVE  TypeOK'
<1>1. asks' \in Nat /\ restarts' \in Nat
  BY DEF TypeOK, bounds, Ask
<1>2. /\ mode' \in [Runs -> {"plan", "live"}] /\ ack' \in [Runs -> [Ix -> Acks]]
      /\ credit' \in [Runs -> [Ix -> [Fingerprints -> Int]]]
      /\ late' \in [Runs -> Nat]
  BY DEF TypeOK, history
<1> QED
  BY <1>1, <1>2 DEF TypeOK

\* A step of a runner that writes the tasks alone.
LEMMA TypeOfTasks ==
  ASSUME TypeOK, TasksOK', UNCHANGED <<ledger, sem, lock, history, bounds>>
  PROVE  TypeOK'
BY TypeOfWrites DEF TypeOK, ledger

LEMMA InitType == Init => TypeOK
<1> SUFFICES ASSUME Init PROVE TypeOK
  OBVIOUS
<1>1. TasksOK
  <2>1. Free.via = "run" /\ Free.pc = "free"
    BY DEF Free, Spawned
  <2> QED
    BY <2>1, FreeType DEF Init, TasksOK, AtAStep, StepPCs
<1>2. [state |-> "none", fp |-> NoRow.fp] \in Acks
  BY NoRowType DEF Acks
<1>4. \A r \in Runs : "none" \in RunStates
  BY DEF RunStates
<1>5. /\ run \in [Runs -> RunStates] /\ mode \in [Runs -> {"plan", "live"}]
      /\ inputs \in [Runs -> Values \cup {NoValue}] /\ sem \subseteq Tasks
      /\ lock \in [Backends -> Tasks \cup {Nobody}]
      /\ late \in [Runs -> Nat] /\ asks \in Nat /\ restarts \in Nat
  BY <1>4 DEF Init
<1>6. row \in [Runs -> [Ix -> Rows]] /\ ack \in [Runs -> [Ix -> Acks]]
  BY <1>2, NoRowType DEF Init
<1>7. credit \in [Runs -> [Ix -> [Fingerprints -> Int]]]
  BY DEF Init
<1> QED
  BY <1>1, <1>5, <1>6, <1>7 DEF TypeOK

LEMMA RunnerStepType ==
  ASSUME TypeOK, NEW t \in Tasks, RunnerStep(t)
  PROVE  TypeOK'
<1> DEFINE k == task[t]
<1> USE InPCs
<1>0. /\ TasksOK /\ k \in TaskRecords /\ k.run \in Runs /\ k.ix \in 1 .. N + 1
      /\ k.scope \in Values \cup {NoValue} /\ k.fp \in Fingerprints
      /\ k.next \in {"card", "refuse", "lock", "spend"} /\ k.next \in PCs
      /\ AtAStep(k) => k.ix \in Ix
      /\ inputs[k.run] \in Values \cup {NoValue}
  BY TaskFacts
<1>ix. (k.pc \in StepPCs => k.ix \in Ix) /\ (k.via = "step" /\ k.pc # "plan" => k.ix \in Ix)
  BY <1>0 DEF AtAStep
<1>one. 1 \in Ix /\ 1 \in 1 .. N + 1
  BY SizeAssumption
<1>st. {"done", "failed", "running", "gated", "queued"} \subseteq RunStates
  BY DEF RunStates
<1>1. CASE Start(t)
  <2> DEFINE new == IF mode[k.run] = "plan"
                    THEN [k EXCEPT !.pc = "plan", !.scope = inputs[k.run], !.ix = 1]
                    ELSE [k EXCEPT !.pc = "sem", !.scope = inputs[k.run]]
  <2>1. new \in TaskRecords /\ new.via = k.via /\ new.pc \in {"plan", "sem"}
    BY <1>0, <1>one DEF TaskRecords
  <2> HIDE DEF new
  <2>2. SetTask(t, new) /\ k.via # "step" /\ UNCHANGED <<ledger, sem, lock, history, bounds>>
    BY <1>1 DEF Start, new
  <2>3. ~AtAStep(new)
    BY <2>1, <2>2 DEF AtAStep, StepPCs
  <2> QED
    BY <1>0, <2>1, <2>2, <2>3, SetTaskType, TypeOfTasks
<1>2. CASE StartStep(t)
  <2>1. UNCHANGED <<ledger, sem, lock, history, bounds>> /\ k.via = "step" /\ k.pc = "start"
    BY <1>2 DEF StartStep
  <2>2. CASE Go(t, "stepfail")
    <3>1. TasksOK'
      BY <1>0, <1>ix, <2>1, <2>2, GoType
    <3> QED
      BY <2>1, <3>1, TypeOfTasks
  <2>3. CASE /\ ~(Cardinality(RowsOf(k.run)) >= N)
             /\ SetTask(t, [task[t] EXCEPT !.pc = "sem", !.scope = inputs[k.run],
                                           !.ix = Cardinality(RowsOf(k.run)) + 1])
    <3> DEFINE ix == Cardinality(RowsOf(k.run)) + 1
               new == [k EXCEPT !.pc = "sem", !.scope = inputs[k.run], !.ix = ix]
    <3>1. ix \in Ix /\ ix \in 1 .. N + 1
      BY <2>3, RowsOfType, SizeAssumption
    <3> HIDE DEF ix
    <3>2. new \in TaskRecords /\ new.ix \in Ix
      BY <1>0, <3>1 DEF TaskRecords
    <3>3. SetTask(t, new)
      BY <2>3 DEF ix
    <3> HIDE DEF new
    <3> QED
      BY <1>0, <2>1, <3>2, <3>3, SetTaskType, TypeOfTasks
  <2> QED
    BY <1>2, <2>2, <2>3 DEF StartStep
<1>3. CASE PlanStep(t)
  <2>1. k.ix \in Ix /\ k.pc = "plan"
    BY <1>3 DEF PlanStep
  <2> DEFINE fp == Fingerprint(k.ix, k.scope, NoView)
             new == [k EXCEPT !.ix = @ + 1]
  <2>2. fp \in Fingerprints
    BY <1>0, FingerprintType
  <2>3. [NoRow EXCEPT !.state = "skipped", !.fp = fp] \in Rows
    BY <2>2, NoRowType DEF Rows
  <2>4. row' \in [Runs -> [Ix -> Rows]]
    BY <1>0, <1>3, <2>1, <2>3, PutRowType DEF PlanStep, TypeOK
  <2>5. k.ix + 1 \in 1 .. N + 1
    BY <2>1, SizeAssumption
  <2>6. new \in TaskRecords /\ new.pc = "plan"
    BY <1>0, <2>1, <2>5 DEF TaskRecords
  <2>7. SetTask(t, new)
    BY <1>3 DEF PlanStep
  <2> HIDE DEF new
  <2>8. ~AtAStep(new)
    BY <2>6 DEF AtAStep, StepPCs
  <2>9. TasksOK'
    BY <1>0, <2>6, <2>7, <2>8, SetTaskType
  <2> QED
    BY <1>3, <2>4, <2>9, TypeOfWrites DEF PlanStep, TypeOK
<1>4. CASE PlanDone(t)
  <2>1. TasksOK'
    BY <1>0, <1>4, FreeTaskType DEF PlanDone
  <2>2. run' \in [Runs -> RunStates]
    BY <1>0, <1>4, <1>st, SetRunType DEF PlanDone, TypeOK
  <2> QED
    BY <1>4, <2>1, <2>2, TypeOfWrites DEF PlanDone, TypeOK
<1>5. CASE Acquire(t)
  <2>1. TasksOK'
    BY <1>0, <1>5, GoType DEF Acquire, StepPCs
  <2>2. sem' \subseteq Tasks
    BY <1>5 DEF Acquire, TypeOK
  <2> QED
    BY <1>5, <2>1, <2>2, TypeOfWrites DEF Acquire, TypeOK, ledger
<1>6. CASE Open(t)
  <2>1. TasksOK'
    <3>1. CASE Go(t, "opened")
      BY <1>0, <1>6, <3>1, GoType DEF Open, StepPCs
    <3>2. ASSUME NEW how \in {"yes", "runner"},
                 SetTask(t, [task[t] EXCEPT !.pc = "close", !.crashed = how])
          PROVE TasksOK'
      <4> DEFINE new == [task[t] EXCEPT !.pc = "close", !.crashed = how]
      <4>1. new \in TaskRecords /\ new.pc = "close" /\ new.via = k.via /\ new.ix = k.ix
        BY <1>0 DEF TaskRecords
      <4>2. k.pc = "open"
        BY <1>6 DEF Open
      <4> HIDE DEF new
      <4>3. AtAStep(new) => new.ix \in Ix
        BY <1>0, <4>1, <4>2 DEF AtAStep, StepPCs
      <4> QED
        BY <1>0, <3>2, <4>1, <4>3, SetTaskType DEF new
    <3> QED
      BY <1>6, <3>1, <3>2 DEF Open
  <2> QED
    BY <1>6, <2>1, TypeOfTasks DEF Open
<1>7. CASE Opened(t)
  BY <1>0, <1>7, GoType, TypeOfTasks DEF Opened, StepPCs
<1>8. CASE Drift(t)
  <2>1. TasksOK' /\ run' \in [Runs -> RunStates]
    BY <1>0, <1>8, <1>st, GoType, SetRunType DEF Drift, StepPCs, TypeOK
  <2> QED
    BY <1>8, <2>1, TypeOfWrites DEF Drift, TypeOK
<1>9. CASE Hold(t)
  <2>1. TasksOK' /\ run' \in [Runs -> RunStates]
    BY <1>0, <1>9, <1>st, GoType, SetRunType DEF Hold, StepPCs, TypeOK
  <2> QED
    BY <1>9, <2>1, TypeOfWrites DEF Hold, TypeOK
<1>10. CASE Boundary(t)
  <2> DEFINE fp == Fingerprint(k.ix, k.scope, NoView)
  <2>1. fp \in Fingerprints
    BY <1>0, FingerprintType
  <2>2. k.pc = "boundary" /\ k.ix \in Ix
    BY <1>10 DEF Boundary
  <2>3. \/ Go(t, "close") \/ Go(t, "fail") \/ Go(t, "preview")
        \/ BeginAs(t, "refuse", fp) \/ BeginAs(t, "card", fp) \/ Call(t, fp)
    BY <1>10 DEF Boundary
  <2> HIDE DEF fp
  <2>4. TasksOK'
    BY <1>0, <2>1, <2>2, <2>3, GoType, BeginAsType, CallType
  <2> QED
    BY <1>10, <2>4, TypeOfTasks DEF Boundary
<1>11. CASE StepArgs(t)
  <2> DEFINE fp == Fingerprint(k.ix, k.scope, NoView)
  <2>1. fp \in Fingerprints
    BY <1>0, FingerprintType
  <2>2. k.pc = "boundary" /\ k.ix \in Ix
    BY <1>0, <1>11 DEF StepArgs, AtAStep
  <2>3. BeginAs(t, "refuse", fp) \/ Call(t, fp)
    BY <1>11 DEF StepArgs
  <2> HIDE DEF fp
  <2>4. TasksOK'
    BY <1>0, <2>1, <2>2, <2>3, BeginAsType, CallType
  <2> QED
    BY <1>11, <2>4, TypeOfTasks DEF StepArgs
<1>12. CASE Preview(t)
  <2>1. k.pc = "preview" /\ k.ix \in Ix
    BY <1>12, <1>ix DEF Preview, StepPCs
  <2>2. \A view \in Views \cup {NoView} : Fingerprint(k.ix, k.scope, view) \in Fingerprints
    BY <1>0, FingerprintType
  <2>3. ack[k.run][k.ix].fp \in Fingerprints
    BY <1>0, <2>1 DEF TypeOK, Acks
  <2>4. \/ Go(t, "close")
        \/ BeginAs(t, "refuse", Fingerprint(k.ix, k.scope, NoView))
        \/ BeginAs(t, "refuse", ack[k.run][k.ix].fp)
        \/ \E view \in Views : LET fp == Fingerprint(k.ix, k.scope, view) IN
             BeginAs(t, "card", fp) \/ BeginAs(t, "refuse", fp) \/ Call(t, fp)
    BY <1>12 DEF Preview
  <2>5. TasksOK'
    BY <1>0, <2>1, <2>2, <2>3, <2>4, GoType, BeginAsType, CallType
  <2> QED
    BY <1>12, <2>5, TypeOfTasks DEF Preview
<1>13. CASE Begin(t)
  <2>1. k.pc = "begin" /\ k.ix \in Ix
    BY <1>13, <1>ix DEF Begin, StepPCs
  <2>2. [NoRow EXCEPT !.state = "running", !.fp = k.fp] \in Rows
    BY <1>0, NoRowType DEF Rows
  <2>3. row' \in [Runs -> [Ix -> Rows]]
    BY <1>0, <1>13, <2>1, <2>2, PutRowType DEF Begin, TypeOK
  <2> DEFINE prev == IF row[k.run][k.ix].state \in {"done", "unknown"}
                     THEN row[k.run][k.ix].state ELSE "none"
             new == [k EXCEPT !.pc = k.next, !.prev = prev]
  <2>4. prev \in {"none", "done", "unknown"}
    OBVIOUS
  <2> HIDE DEF prev
  <2>5. new \in TaskRecords /\ new.ix \in Ix
    BY <1>0, <2>1, <2>4 DEF TaskRecords
  <2>6. SetTask(t, new)
    BY <1>13 DEF Begin, prev
  <2> HIDE DEF new
  <2>7. TasksOK'
    BY <1>0, <2>5, <2>6, SetTaskType
  <2> QED
    BY <1>13, <2>3, <2>7, TypeOfWrites DEF Begin, TypeOK
<1>14. CASE Card(t)
  <2>1. k.pc = "card" /\ k.ix \in Ix
    BY <1>14, <1>ix DEF Card, StepPCs
  <2>2. row[k.run][k.ix] \in Rows
    BY <1>0, <2>1 DEF TypeOK
  <2>3. [row[k.run][k.ix] EXCEPT !.state = "pending", !.stage = "gate"] \in Rows
    BY <2>2 DEF Rows
  <2>4. row' \in [Runs -> [Ix -> Rows]]
    BY <1>0, <1>14, <2>1, <2>3, PutRowType DEF Card, TypeOK
  <2>5. TasksOK'
    BY <1>0, <1>14, <2>1, GoType DEF Card
  <2> QED
    BY <1>14, <2>4, <2>5, TypeOfWrites DEF Card, TypeOK
<1>15. CASE Refuse(t)
  <2>1. k.pc = "refuse" /\ k.ix \in Ix
    BY <1>15, <1>ix DEF Refuse, StepPCs
  <2>2. TasksOK' /\ row' \in [Runs -> [Ix -> Rows]]
    BY <1>0, <1>15, <2>1, GoType, FinishStepType DEF Refuse, TypeOK
  <2> QED
    BY <1>15, <2>2, TypeOfWrites DEF Refuse, TypeOK
<1>16. CASE Lock(t)
  <2>1. k.pc = "lock" /\ k.ix \in Ix
    BY <1>16, <1>ix DEF Lock, StepPCs
  <2>2. TasksOK' /\ lock' \in [Backends -> Tasks \cup {Nobody}]
    BY <1>0, <1>16, <2>1, GoType DEF Lock, TypeOK
  <2> QED
    BY <1>16, <2>2, TypeOfWrites DEF Lock, TypeOK, ledger
<1>17. CASE Send(t)
  <2>1. k.pc = "spend" /\ k.ix \in Ix
    BY <1>17, <1>ix DEF Send, StepPCs
  <2>2. TasksOK'
    BY <1>0, <1>17, <2>1, GoType DEF Send
  <2>3. ack' \in [Runs -> [Ix -> Acks]]
    <3>1. ack[k.run][k.ix] \in Acks
      BY <1>0, <2>1, RowFacts
    <3>2. [ack[k.run][k.ix] EXCEPT !.state = "used"] \in Acks
      BY <3>1 DEF Acks
    <3> QED
      BY <1>17, <3>2 DEF Send, TypeOK
  <2>4. credit' \in [Runs -> [Ix -> [Fingerprints -> Int]]]
    <3>1. credit[k.run][k.ix][k.fp] - 1 \in Int
      BY <1>0, <2>1, RowFacts
    <3>2. CASE NeedsApproval(k)
      <4> DEFINE c == credit[k.run][k.ix][k.fp] - 1
      <4>1. credit' = [credit EXCEPT ![k.run][k.ix][k.fp] = c]
        BY <1>17, <3>2 DEF Send
      <4>2. c \in Int
        BY <3>1
      <4> HIDE DEF c
      <4> QED
        BY <1>0, <2>1, <4>1, <4>2, CreditType
    <3>3. CASE ~NeedsApproval(k)
      BY <1>17, <3>3 DEF Send, TypeOK
    <3> QED
      BY <3>2, <3>3
  <2>5. late' \in [Runs -> Nat]
    <3>1. late' \in {late, [late EXCEPT ![k.run] = @ + 1]}
      BY <1>17 DEF Send
    <3>2. late \in [Runs -> Nat]
      BY DEF TypeOK
    <3> QED
      BY <1>0, <3>1, <3>2
  <2> QED
    BY <1>17, <2>2, <2>3, <2>4, <2>5 DEF Send, TypeOK, bounds
<1>18. CASE NotSpent(t)
  <2>1. k.pc = "spend" /\ k.ix \in Ix
    BY <1>18, <1>ix DEF NotSpent, StepPCs
  <2>2. row' \in [Runs -> [Ix -> Rows]] /\ lock' \in [Backends -> Tasks \cup {Nobody}]
    BY <1>0, <1>18, <2>1, FinishStepType, UnlockType DEF NotSpent, TypeOK
  <2> DEFINE new == [k EXCEPT !.pc = "after", !.ok = FALSE]
  <2>3. new \in TaskRecords /\ new.ix \in Ix
    BY <1>0, <2>1 DEF TaskRecords
  <2>4. SetTask(t, new)
    BY <1>18 DEF NotSpent
  <2> HIDE DEF new
  <2>5. TasksOK'
    BY <1>0, <2>3, <2>4, SetTaskType
  <2> QED
    BY <1>18, <2>2, <2>5, TypeOfWrites DEF NotSpent, TypeOK
<1>19. CASE Return(t)
  <2>1. k.pc = "calling" /\ k.ix \in Ix
    BY <1>19, <1>ix DEF Return, StepPCs
  <2>2. PICK outcome \in {"done", "failed", "unknown"} :
          /\ IF Warm(k) THEN UNCHANGED row ELSE FinishStep(k.run, k.ix, outcome)
          /\ SetTask(t, [task[t] EXCEPT !.pc = "after", !.ok = (outcome = "done")])
    BY <1>19 DEF Return
  <2>3. row' \in [Runs -> [Ix -> Rows]]
    BY <1>0, <2>1, <2>2, FinishStepType DEF TypeOK
  <2> DEFINE new == [k EXCEPT !.pc = "after", !.ok = (outcome = "done")]
  <2>5. new \in TaskRecords /\ new.ix \in Ix
    BY <1>0, <2>1 DEF TaskRecords
  <2>6. SetTask(t, new)
    BY <2>2
  <2> HIDE DEF new
  <2>7. TasksOK'
    BY <1>0, <2>5, <2>6, SetTaskType
  <2>8. lock' \in [Backends -> Tasks \cup {Nobody}]
    BY <1>19, UnlockType DEF Return, TypeOK
  <2> QED
    BY <1>19, <2>3, <2>7, <2>8 DEF Return, TypeOK, history, bounds
<1>20. CASE AfterStopped(t)
  BY <1>0, <1>20, GoType, TypeOfTasks DEF AfterStopped, StepPCs
<1>21. CASE AfterFailure(t)
  BY <1>0, <1>21, GoType, TypeOfTasks DEF AfterFailure, StepPCs
<1>22. CASE AfterWarmup(t)
  <2>1. k.ix \in Ix /\ k.via # "step"
    BY <1>22, <1>ix DEF AfterWarmup, StepPCs, Warm
  <2>2. TasksOK'
    BY <1>0, <1>22, <2>1, NextStepTypeAlone DEF AfterWarmup
  <2> QED
    BY <1>22, <2>2, TypeOfTasks DEF AfterWarmup
<1>23. CASE AfterStep(t)
  <2>1. k.ix \in Ix /\ k.via # "step"
    BY <1>23, <1>ix DEF AfterStep, StepPCs
  <2>2. TasksOK'
    BY <1>0, <1>23, <2>1, NextStepType, NextStepTypeAlone DEF AfterStep
  <2>3. inputs' \in [Runs -> Values \cup {NoValue}]
    BY <1>0, <1>23 DEF AfterStep, TypeOK
  <2> QED
    BY <1>23, <2>2, <2>3, TypeOfWrites DEF AfterStep, TypeOK
<1>24. CASE AfterAdHoc(t)
  <2>1. TasksOK'
    BY <1>0, <1>24, GoType DEF AfterAdHoc, StepPCs
  <2>2. inputs' \in [Runs -> Values \cup {NoValue}]
    BY <1>0, <1>24 DEF AfterAdHoc, TypeOK
  <2> QED
    BY <1>24, <2>1, <2>2, TypeOfWrites DEF AfterAdHoc, TypeOK
<1>25. CASE AfterSelect(t)
  <2>1. k.pc = "after" /\ k.ix \in Ix /\ k.via # "step"
    BY <1>25, <1>ix DEF AfterSelect, StepPCs
  <2>2. TasksOK'
    <3>1. NextStep(t) \/ (\E v \in Values : NextStepWith(t, v)) \/ Go(t, "pause") \/ Go(t, "fail")
      BY <1>25 DEF AfterSelect
    <3> QED
      BY <1>0, <2>1, <3>1, NextStepType, NextStepTypeAlone, GoType DEF StepPCs
  <2>3. inputs' \in [Runs -> Values \cup {NoValue}]
    BY <1>0, <1>25 DEF AfterSelect, TypeOK
  <2>4. row' \in [Runs -> [Ix -> Rows]]
    <3>1. row[k.run][k.ix] \in Rows
      BY <1>0, <2>1 DEF TypeOK
    <3>2. [row[k.run][k.ix] EXCEPT !.state = "pending", !.stage = "select:ask", !.cands = TRUE]
            \in Rows
      BY <3>1 DEF Rows
    <3> QED
      BY <1>0, <1>25, <2>1, <3>2, PutRowType, FinishStepType DEF AfterSelect, TypeOK
  <2> QED
    BY <1>25, <2>2, <2>3, <2>4, TypeOfWrites DEF AfterSelect, TypeOK
<1>26. CASE Fail(t)
  <2>1. TasksOK' /\ run' \in [Runs -> RunStates]
    BY <1>0, <1>26, <1>st, GoType, SetRunType DEF Fail, StepPCs, TypeOK
  <2> QED
    BY <1>26, <2>1, TypeOfWrites DEF Fail, TypeOK
<1>27. CASE Pause(t)
  <2>1. TasksOK' /\ run' \in [Runs -> RunStates]
    BY <1>0, <1>27, <1>st, GoType, SetRunType DEF Pause, StepPCs, TypeOK
  <2> QED
    BY <1>27, <2>1, TypeOfWrites DEF Pause, TypeOK
<1>28. CASE Finish(t)
  <2>1. TasksOK' /\ run' \in [Runs -> RunStates]
    BY <1>0, <1>28, <1>st, GoType, SetRunType DEF Finish, StepPCs, TypeOK
  <2> QED
    BY <1>28, <2>1, TypeOfWrites DEF Finish, TypeOK
<1>29. CASE Rest(t)
  <2>1. TasksOK' /\ run' \in [Runs -> RunStates]
    BY <1>0, <1>29, <1>st, GoType, SetRunType DEF Rest, StepPCs, TypeOK
  <2> QED
    BY <1>29, <2>1, TypeOfWrites DEF Rest, TypeOK
<1>30. CASE Close(t)
  <2>1. TasksOK'
    BY <1>0, <1>30, GoType, FreeTaskType DEF Close, StepPCs
  <2>2. sem' \subseteq Tasks
    BY <1>30 DEF Close, TypeOK
  <2> QED
    BY <1>30, <2>1, <2>2, TypeOfWrites DEF Close, TypeOK, ledger
<1>31. CASE Callback(t)
  <2>1. TasksOK' /\ run' \in [Runs -> RunStates]
    BY <1>0, <1>31, <1>st, FreeTaskType, SetRunType DEF Callback, TypeOK
  <2> QED
    BY <1>31, <2>1, TypeOfWrites DEF Callback, TypeOK
<1>32. CASE StepFail(t)
  <2>1. TasksOK' /\ run' \in [Runs -> RunStates]
    BY <1>0, <1>32, <1>st, FreeTaskType, SetRunType DEF StepFail, TypeOK
  <2> QED
    BY <1>32, <2>1, TypeOfWrites DEF StepFail, TypeOK
<1> QED
  BY <1>1, <1>2, <1>3, <1>4, <1>5, <1>6, <1>7, <1>8, <1>9, <1>10, <1>11, <1>12, <1>13, <1>14,
     <1>15, <1>16, <1>17, <1>18, <1>19, <1>20, <1>21, <1>22, <1>23, <1>24, <1>25, <1>26, <1>27,
     <1>28, <1>29, <1>30, <1>31, <1>32
  DEF RunnerStep

LEMMA RequestType == ASSUME TypeOK, Request PROVE TypeOK'
<1> SUFFICES ASSUME NEW r \in Runs,
                    \/ StartRun(r) \/ Resume(r) \/ AddStep(r) \/ Cancel(r)
                    \/ \E ix \in Ix : Pick(r, ix) \/ Ack(r, ix) \/ \E c \in Runs : FanOut(r, ix, c)
             PROVE  TypeOK'
  BY DEF Request
<1>0. TasksOK /\ run \in [Runs -> RunStates]
  BY DEF TypeOK
<1>one. 1 \in Ix /\ 1 \in 1 .. N + 1 /\ \A ix \in Ix : ix \in 1 .. N + 1 /\ ix + 1 \in 1 .. N + 1
  BY SizeAssumption
<1>1. CASE StartRun(r)
  <2>1. TasksOK'
    BY <1>0, <1>1, <1>one, SpawnType DEF StartRun, TasksOK
  <2>2. run' \in [Runs -> RunStates] /\ mode' \in [Runs -> {"plan", "live"}]
    BY <1>1 DEF StartRun, TypeOK, RunStates
  <2> QED
    BY <1>1, <2>1, <2>2 DEF StartRun, TypeOK, Ask, history
<1>2. CASE Resume(r)
  <2>1. TasksOK' /\ run' \in [Runs -> RunStates]
    BY <1>0, <1>2, <1>one, SpawnType, TakeType DEF Resume
  <2> QED
    BY <1>2, <2>1, TypeOfWrites DEF Resume, TypeOK
<1>3. CASE AddStep(r)
  <2>1. TasksOK' /\ run' \in [Runs -> RunStates]
    BY <1>0, <1>3, <1>one, SpawnType, TakeType DEF AddStep
  <2> QED
    BY <1>3, <2>1, TypeOfWrites DEF AddStep, TypeOK
<1>4. CASE Cancel(r)
  <2>1. TasksOK' /\ run' \in [Runs -> RunStates]
    BY <1>4 DEF Cancel, TypeOK, TasksOK, RunStates
  <2> QED
    BY <1>4, <2>1, TypeOfWrites DEF Cancel, TypeOK
<1>5. ASSUME NEW ix \in Ix, Pick(r, ix) PROVE TypeOK'
  <2>1. TasksOK' /\ run' \in [Runs -> RunStates]
    BY <1>0, <1>5, <1>one, SpawnType, TakeType DEF Pick
  <2>2. inputs' \in [Runs -> Values \cup {NoValue}] /\ row' \in [Runs -> [Ix -> Rows]]
    BY <1>5, FinishStepType DEF Pick, TypeOK
  <2> QED
    BY <1>5, <2>1, <2>2, TypeOfWrites DEF Pick, TypeOK
<1>6. ASSUME NEW ix \in Ix, Ack(r, ix) PROVE TypeOK'
  <2>1. TasksOK' /\ run' \in [Runs -> RunStates]
    BY <1>0, <1>6, <1>one, SpawnType, TakeType DEF Ack
  <2>2. row[r][ix].fp \in Fingerprints
    BY RowFacts
  <2>3. ack' \in [Runs -> [Ix -> Acks]]
    BY <1>6, <2>2 DEF Ack, TypeOK, Acks
  <2>4. credit' \in [Runs -> [Ix -> [Fingerprints -> Int]]]
    <3> DEFINE c == credit[r][ix][row[r][ix].fp] + 1
    <3>1. c \in Int
      BY <2>2, RowFacts
    <3>2. credit' = [credit EXCEPT ![r][ix][row[r][ix].fp] = c]
      BY <1>6 DEF Ack
    <3> HIDE DEF c
    <3> QED
      BY <2>2, <3>1, <3>2, CreditType
  <2> QED
    <3>1. UNCHANGED <<mode, inputs, row, sem, lock, late, restarts>> /\ asks' = asks + 1
      BY <1>6 DEF Ack, Ask
    <3> QED
      BY <2>1, <2>3, <2>4, <3>1 DEF TypeOK
<1>7. ASSUME NEW ix \in Ix, NEW c \in Runs, FanOut(r, ix, c) PROVE TypeOK'
  <2>1. TasksOK'
    BY <1>0, <1>7, <1>one, SpawnType DEF FanOut
  <2>2. run' \in [Runs -> RunStates] /\ mode' \in [Runs -> {"plan", "live"}]
    BY <1>7 DEF FanOut, TypeOK, RunStates
  <2>3. inputs' \in [Runs -> Values \cup {NoValue}]
    BY <1>7 DEF FanOut, TypeOK
  <2> QED
    BY <1>7, <2>1, <2>2, <2>3 DEF FanOut, TypeOK, Ask, history
<1> QED
  BY <1>1, <1>2, <1>3, <1>4, <1>5, <1>6, <1>7

LEMMA RestartType == ASSUME TypeOK, Restart PROVE TypeOK'
<1>1. TasksOK'
  <2>1. Free.via = "run" /\ Free.pc = "free"
    BY DEF Free, Spawned
  <2> QED
    BY <2>1, FreeType DEF Restart, TasksOK, AtAStep, StepPCs
<1>2. run' \in [Runs -> RunStates]
  BY DEF Restart, TypeOK, RunStates
<1>3. row' \in [Runs -> [Ix -> Rows]]
  <2>1. ASSUME NEW r \in Runs, NEW ix \in Ix
        PROVE  row[r][ix] \in Rows /\ [row[r][ix] EXCEPT !.state = "unknown"] \in Rows
    <3>1. row[r][ix] \in Rows
      BY RowFacts
    <3> QED
      BY <3>1 DEF Rows
  <2> QED
    BY <2>1 DEF Restart
<1>5. sem' \subseteq Tasks /\ lock' \in [Backends -> Tasks \cup {Nobody}] /\ restarts' \in Nat
  BY DEF Restart, TypeOK
<1>6. UNCHANGED <<mode, inputs, ack, credit, late, asks>>
  BY DEF Restart, history
<1> QED
  BY <1>1, <1>2, <1>3, <1>5, <1>6 DEF TypeOK

\* Every variable keeps its type, and no task runs over the steps there are.
THEOREM TypeCorrect == Spec => []TypeOK
<1>1. TypeOK /\ [Next]_vars => TypeOK'
  <2> SUFFICES ASSUME TypeOK, [Next]_vars PROVE TypeOK'
    OBVIOUS
  <2>1. ASSUME NEW t \in Tasks, RunnerStep(t) PROVE TypeOK'
    BY <2>1, RunnerStepType
  <2>2. CASE Request
    BY <2>2, RequestType
  <2>3. CASE Restart
    BY <2>3, RestartType
  <2>4. CASE UNCHANGED vars
    BY <2>4 DEF vars, ledger, history, bounds, TypeOK, TasksOK
  <2> QED
    BY <2>1, <2>2, <2>3, <2>4 DEF Next
<1> QED
  BY InitType, <1>1, PTL DEF Spec

HIDE DEF Ix
-----------------------------------------------------------------------------
(* What each step does to the approvals: only Send, Ack touch them.          *)

LEMMA ApprovalsUntouched ==
  ASSUME NEW t \in Tasks, RunnerStep(t), ~Send(t)
  PROVE  UNCHANGED <<ack, credit>>
<1> USE DEF ledger, history
<1>1. CASE Start(t) \/ StartStep(t) \/ PlanStep(t) \/ PlanDone(t)
  BY <1>1 DEF Start, StartStep, PlanStep, PlanDone
<1>2. CASE Acquire(t) \/ Open(t) \/ Opened(t) \/ Drift(t) \/ Hold(t)
  BY <1>2 DEF Acquire, Open, Opened, Drift, Hold
<1>3. CASE Boundary(t) \/ StepArgs(t) \/ Preview(t) \/ Begin(t) \/ Card(t) \/ Refuse(t)
  BY <1>3 DEF Boundary, StepArgs, Preview, Begin, Card, Refuse
<1>4. CASE Lock(t) \/ NotSpent(t) \/ Return(t)
  BY <1>4 DEF Lock, NotSpent, Return
<1>5. CASE AfterStopped(t) \/ AfterFailure(t) \/ AfterWarmup(t) \/ AfterStep(t)
           \/ AfterAdHoc(t) \/ AfterSelect(t)
  BY <1>5 DEF AfterStopped, AfterFailure, AfterWarmup, AfterStep, AfterAdHoc, AfterSelect
<1>6. CASE Fail(t) \/ Pause(t) \/ Finish(t) \/ Rest(t)
           \/ Close(t) \/ Callback(t) \/ StepFail(t)
  BY <1>6 DEF Fail, Pause, Finish, Rest, Close, Callback, StepFail
<1> QED
  BY <1>1, <1>2, <1>3, <1>4, <1>5, <1>6 DEF RunnerStep

LEMMA SendSpends ==
  ASSUME TypeOK, UsableApprovalsAreUnspent, NEW t \in Tasks, Send(t)
  PROVE  UsableApprovalsAreUnspent'
<1> DEFINE k == task[t]
<1>1. k.pc = "spend" /\ k.run \in Runs /\ k.ix \in Ix /\ k.fp \in Fingerprints
  BY TaskFacts DEF Send, AtAStep, StepPCs
<1> SUFFICES ASSUME NEW r \in Runs, NEW ix \in Ix, NEW fp \in Fingerprints
             PROVE  credit'[r][ix][fp] >= IF Approved(r, ix, fp)' THEN 1 ELSE 0
  BY DEF UsableApprovalsAreUnspent
<1>2. /\ credit[r][ix][fp] \in Int
      /\ credit[r][ix][fp] >= IF Approved(r, ix, fp) THEN 1 ELSE 0
  BY RowFacts DEF UsableApprovalsAreUnspent
<1>spent. credit'[r][ix][fp] =
        IF r = k.run /\ ix = k.ix /\ fp = k.fp /\ NeedsApproval(k)
        THEN credit[r][ix][fp] - 1 ELSE credit[r][ix][fp]
  <2>1. credit \in [Runs -> [Ix -> [Fingerprints -> Int]]]
    BY DEF TypeOK
  <2>2. credit' = IF NeedsApproval(k)
                  THEN [credit EXCEPT ![k.run][k.ix][k.fp] = @ - 1] ELSE credit
    BY DEF Send
  <2> HIDE DEF k
  <2> QED
    BY <1>1, <2>1, <2>2
<1>3. CASE r = k.run /\ ix = k.ix /\ Approved(k.run, k.ix, k.fp)
  <2>1. ack'[r][ix].state = "used"
    <3>1. ack' = [ack EXCEPT ![r][ix].state = "used"]
      BY <1>3 DEF Send
    <3>2. ack \in [Runs -> [Ix -> Acks]] /\ ack[r][ix] \in Acks
      BY RowFacts DEF TypeOK
    <3>3. ack'[r][ix] = [ack[r][ix] EXCEPT !.state = "used"]
      BY <3>1, <3>2
    <3> QED
      BY <3>2, <3>3 DEF Acks
  <2>2. ~Approved(r, ix, fp)'
    BY <2>1 DEF Approved
  <2>3. CASE fp = k.fp
    <3>1. Approved(r, ix, fp) /\ credit[r][ix][fp] >= 1
      BY <1>2, <1>3, <2>3
    <3>2. credit'[r][ix][fp] \in Int /\ credit'[r][ix][fp] >= credit[r][ix][fp] - 1
      BY <1>2, <1>spent
    <3>3. credit'[r][ix][fp] >= 0
      BY <1>2, <3>1, <3>2
    <3> QED
      BY <2>2, <3>3
  <2>4. CASE fp # k.fp
    <3>1. credit'[r][ix][fp] = credit[r][ix][fp] /\ credit[r][ix][fp] >= 0
      BY <1>2, <1>spent, <2>4
    <3> QED
      BY <2>2, <3>1
  <2> QED
    BY <2>3, <2>4
<1>4. CASE r = k.run /\ ix = k.ix /\ ~Approved(k.run, k.ix, k.fp)
  BY <1>2, <1>4 DEF Send, Approved
<1>5. CASE ~(r = k.run /\ ix = k.ix)
  <2>1. credit'[r][ix] = credit[r][ix] /\ ack'[r][ix] = ack[r][ix]
    BY <1>1, <1>5 DEF Send, TypeOK
  <2> QED
    BY <1>2, <2>1 DEF Approved
<1> QED
  BY <1>3, <1>4, <1>5

LEMMA AckCredits ==
  ASSUME TypeOK, UsableApprovalsAreUnspent, NEW q \in Runs, NEW x \in Ix, Ack(q, x)
  PROVE  UsableApprovalsAreUnspent'
<1> DEFINE given == row[q][x].fp
<1> SUFFICES ASSUME NEW r \in Runs, NEW ix \in Ix, NEW fp \in Fingerprints
             PROVE  credit'[r][ix][fp] >= IF Approved(r, ix, fp)' THEN 1 ELSE 0
  BY DEF UsableApprovalsAreUnspent
<1>1. /\ credit[r][ix][fp] \in Int /\ given \in Fingerprints
      /\ credit[r][ix][fp] >= IF Approved(r, ix, fp) THEN 1 ELSE 0
  BY RowFacts DEF UsableApprovalsAreUnspent
<1>2. CASE r = q /\ ix = x
  <2>1. ack'[r][ix] = [state |-> "unused", fp |-> given]
    BY <1>2 DEF Ack, TypeOK
  <2>2. Approved(r, ix, fp)' => fp = given
    BY <2>1 DEF Approved
  <2>3. credit'[r][ix][fp] = IF fp = given THEN credit[r][ix][fp] + 1 ELSE credit[r][ix][fp]
    BY <1>1, <1>2 DEF Ack, TypeOK
  <2> QED
    BY <1>1, <2>2, <2>3
<1>3. CASE ~(r = q /\ ix = x)
  <2>1. credit'[r][ix] = credit[r][ix] /\ ack'[r][ix] = ack[r][ix]
    BY <1>3 DEF Ack, TypeOK
  <2> QED
    BY <1>1, <2>1 DEF Approved
<1> QED
  BY <1>2, <1>3

\* The approvals a person gave bound the calls of a confirmed step, whatever is
\* retried, picked again, cancelled or restarted, and with runners side by side.
THEOREM CallsAreApproved == Spec => [](UsableApprovalsAreUnspent /\ SendsWithinApprovals)
<1>1. Init => UsableApprovalsAreUnspent
  <2> SUFFICES ASSUME Init, NEW r \in Runs, NEW ix \in Ix, NEW fp \in Fingerprints
               PROVE  credit[r][ix][fp] = 0 /\ ~Approved(r, ix, fp)
    BY DEF UsableApprovalsAreUnspent
  <2>1. ack[r][ix].state = "none"
    BY DEF Init
  <2> QED
    BY <2>1 DEF Init, Approved
<1>2. TypeOK /\ UsableApprovalsAreUnspent /\ [Next]_vars => UsableApprovalsAreUnspent'
  <2> SUFFICES ASSUME TypeOK, UsableApprovalsAreUnspent, [Next]_vars
               PROVE  UsableApprovalsAreUnspent'
    OBVIOUS
  <2>1. ASSUME UNCHANGED <<ack, credit>> PROVE UsableApprovalsAreUnspent'
    BY <2>1 DEF UsableApprovalsAreUnspent, Approved
  <2>2. ASSUME NEW t \in Tasks, RunnerStep(t) PROVE UsableApprovalsAreUnspent'
    BY <2>1, <2>2, ApprovalsUntouched, SendSpends
  <2>3. ASSUME NEW r \in Runs, StartRun(r) \/ Resume(r) \/ AddStep(r) \/ Cancel(r)
        PROVE  UsableApprovalsAreUnspent'
    BY <2>1, <2>3 DEF StartRun, Resume, AddStep, Cancel, history
  <2>4. ASSUME NEW r \in Runs, NEW ix \in Ix, Pick(r, ix) PROVE UsableApprovalsAreUnspent'
    BY <2>1, <2>4 DEF Pick, history
  <2>5. ASSUME NEW r \in Runs, NEW ix \in Ix, NEW c \in Runs, FanOut(r, ix, c)
        PROVE  UsableApprovalsAreUnspent'
    BY <2>1, <2>5 DEF FanOut, history
  <2>6. CASE Request
    BY <2>3, <2>4, <2>5, <2>6, AckCredits DEF Request
  <2>7. CASE Restart
    BY <2>1, <2>7 DEF Restart, history
  <2>8. CASE UNCHANGED vars
    BY <2>1, <2>8 DEF vars, ledger, history
  <2> QED
    BY <2>2, <2>6, <2>7, <2>8 DEF Next
<1>3. TypeOK /\ UsableApprovalsAreUnspent => SendsWithinApprovals
  <2> SUFFICES ASSUME TypeOK, UsableApprovalsAreUnspent,
                      NEW r \in Runs, NEW ix \in Ix, NEW fp \in Fingerprints
               PROVE  credit[r][ix][fp] >= 0
    BY DEF SendsWithinApprovals
  <2>1. credit[r][ix][fp] \in Int
    BY RowFacts
  <2>2. credit[r][ix][fp] >= IF Approved(r, ix, fp) THEN 1 ELSE 0
    BY DEF UsableApprovalsAreUnspent
  <2> QED
    BY <2>1, <2>2
<1> QED
  BY TypeCorrect, <1>1, <1>2, <1>3, PTL DEF Spec

-----------------------------------------------------------------------------
(* What each step does to the state of a run.                                *)

\* A runner writes its own run, and only with a statement that spares a cancel.
LEMMA RunnersSpareCancels ==
  ASSUME NEW t \in Tasks, RunnerStep(t)
  PROVE  \/ UNCHANGED run
         \/ \E s, unless : "cancelled" \in unless /\ SetRun(task[t].run, s, unless)
<1> USE DEF ledger
<1>1. CASE Start(t) \/ StartStep(t) \/ PlanStep(t) \/ Acquire(t) \/ Open(t) \/ Opened(t)
  BY <1>1 DEF Start, StartStep, PlanStep, Acquire, Open, Opened
<1>2. CASE Boundary(t) \/ StepArgs(t) \/ Preview(t) \/ Begin(t) \/ Card(t) \/ Refuse(t)
  BY <1>2 DEF Boundary, StepArgs, Preview, Begin, Card, Refuse
<1>3. CASE Lock(t) \/ Send(t) \/ NotSpent(t) \/ Return(t) \/ Close(t)
  BY <1>3 DEF Lock, Send, NotSpent, Return, Close
<1>4. CASE AfterStopped(t) \/ AfterFailure(t) \/ AfterWarmup(t) \/ AfterStep(t)
           \/ AfterAdHoc(t) \/ AfterSelect(t)
  BY <1>4 DEF AfterStopped, AfterFailure, AfterWarmup, AfterStep, AfterAdHoc, AfterSelect
<1>5. "cancelled" \in Ended /\ "cancelled" \in {"cancelled"}
      /\ "cancelled" \in {"done", "failed", "cancelled"}
  BY DEF Ended
<1>6. CASE PlanDone(t) \/ Drift(t) \/ Hold(t) \/ Callback(t) \/ StepFail(t)
  BY <1>5, <1>6 DEF PlanDone, Drift, Hold, Callback, StepFail
<1>7. CASE Fail(t) \/ Pause(t) \/ Finish(t) \/ Rest(t)
  <2>1. CASE Fail(t)
    <3> DEFINE unless == IF task[t].via = "step" THEN {"cancelled"} ELSE Ended
    <3>1. "cancelled" \in unless /\ SetRun(task[t].run, "failed", unless)
      BY <1>5, <2>1 DEF Fail
    <3> QED
      BY <3>1
  <2> QED
    BY <1>5, <1>7, <2>1 DEF Pause, Finish, Rest
<1> QED
  BY <1>1, <1>2, <1>3, <1>4, <1>6, <1>7 DEF RunnerStep

\* No statement of the program replaces a cancel.
THEOREM CancelsAreFinal == Spec => CancelIsFinal
<1>1. TypeOK /\ [Next]_vars => \A r \in Runs : run[r] = "cancelled" => run'[r] = "cancelled"
  <2> SUFFICES ASSUME TypeOK, [Next]_vars, NEW r \in Runs, run[r] = "cancelled"
               PROVE  run'[r] = "cancelled"
    OBVIOUS
  <2>0. run \in [Runs -> RunStates]
    BY DEF TypeOK
  <2>1. ASSUME NEW t \in Tasks, RunnerStep(t) PROVE run'[r] = "cancelled"
    <3>1. CASE UNCHANGED run
      BY <3>1
    <3>2. ASSUME NEW s, NEW unless, "cancelled" \in unless, SetRun(task[t].run, s, unless)
          PROVE  run'[r] = "cancelled"
      BY <2>0, <3>2 DEF SetRun
    <3> QED
      BY <2>1, <3>1, <3>2, RunnersSpareCancels
  <2>2. ASSUME NEW q \in Runs, NEW expect, "cancelled" \notin expect, Take(q, expect)
        PROVE  run'[r] = "cancelled"
    BY <2>0, <2>2 DEF Take
  <2>3. ASSUME NEW q \in Runs, StartRun(q) \/ Resume(q) \/ AddStep(q) \/ Cancel(q)
        PROVE  run'[r] = "cancelled"
    BY <2>0, <2>2, <2>3 DEF StartRun, Resume, AddStep, Cancel
  <2>4. ASSUME NEW q \in Runs, NEW ix \in Ix, Pick(q, ix) \/ Ack(q, ix)
        PROVE  run'[r] = "cancelled"
    BY <2>2, <2>4 DEF Pick, Ack
  <2>5. ASSUME NEW q \in Runs, NEW ix \in Ix, NEW c \in Runs, FanOut(q, ix, c)
        PROVE  run'[r] = "cancelled"
    BY <2>0, <2>5 DEF FanOut
  <2>6. CASE Request
    BY <2>3, <2>4, <2>5, <2>6 DEF Request
  <2>7. CASE Restart
    BY <2>0, <2>7 DEF Restart
  <2>8. CASE UNCHANGED vars
    BY <2>8 DEF vars, ledger
  <2> QED
    BY <2>1, <2>6, <2>7, <2>8 DEF Next
<1> QED
  BY TypeCorrect, <1>1, PTL DEF Spec, CancelIsFinal

-----------------------------------------------------------------------------
(* What each step does to the runners.  A runner works on, lets its run go,  *)
(* or is gone already; nothing else it does matters to who holds a run.      *)

Untouched(t) == \A u \in Tasks \ {t} : task'[u] = task[u]

Keeps(t, pc) ==
  /\ Untouched(t)
  /\ task'[t].pc = pc /\ task'[t].run = task[t].run
  /\ task'[t].via = task[t].via /\ task'[t].crashed = task[t].crashed

WorksOn(t) ==
  /\ Untouched(t) /\ Active(task[t]) /\ Active(task'[t])
  /\ task'[t].run = task[t].run /\ TaskForm(task'[t])
  /\ UNCHANGED run \/ SetRun(task[t].run, "running", {"cancelled"})

LetsGo(t) ==
  /\ Untouched(t) /\ Active(task[t]) /\ ~Active(task'[t]) /\ TaskForm(task'[t])
  /\ \/ UNCHANGED run /\ run[task[t].run] \in {"cancelled", "failed"}
     \/ \E s \in {"gated", "done", "failed"}, unless \in {{"cancelled"}, Ended} :
          SetRun(task[t].run, s, unless)
     \/ task[t].via = "step" /\ SetRun(task[t].run, "queued", {"cancelled"})

IsGone(t) ==
  /\ Untouched(t) /\ ~Active(task[t]) /\ ~Active(task'[t]) /\ TaskForm(task'[t])
  /\ UNCHANGED run

LEMMA SetTaskKeeps ==
  ASSUME TasksOK, NEW t \in Tasks, NEW k, SetTask(t, k)
  PROVE  Untouched(t) /\ task'[t] = k
BY DEF SetTask, TasksOK, Untouched

LEMMA GoKeeps ==
  ASSUME TasksOK, NEW t \in Tasks, NEW pc, Go(t, pc)
  PROVE  Keeps(t, pc)
<1> DEFINE k == [task[t] EXCEPT !.pc = pc]
<1>1. task[t] \in TaskRecords
  BY DEF TasksOK
<1>2. k.pc = pc /\ k.run = task[t].run /\ k.via = task[t].via /\ k.crashed = task[t].crashed
  BY <1>1 DEF TaskRecords
<1> HIDE DEF k
<1>3. SetTask(t, k)
  BY DEF Go, k
<1> QED
  BY <1>2, <1>3, SetTaskKeeps DEF Keeps

LEMMA BeginKeeps ==
  ASSUME TasksOK, NEW t \in Tasks, NEW next, NEW fp, BeginAs(t, next, fp)
  PROVE  Keeps(t, "begin")
<1> DEFINE k == [task[t] EXCEPT !.pc = "begin", !.next = next, !.fp = fp]
<1>1. task[t] \in TaskRecords
  BY DEF TasksOK
<1>2. k.pc = "begin" /\ k.run = task[t].run /\ k.via = task[t].via /\ k.crashed = task[t].crashed
  BY <1>1 DEF TaskRecords
<1> HIDE DEF k
<1>3. SetTask(t, k)
  BY DEF BeginAs, k
<1> QED
  BY <1>2, <1>3, SetTaskKeeps DEF Keeps

LEMMA CallKeeps ==
  ASSUME TasksOK, NEW t \in Tasks, NEW fp, Call(t, fp)
  PROVE  Keeps(t, "begin") \/ Keeps(t, "spend")
<1>1. CASE Warm(task[t])
  <2> DEFINE k == [task[t] EXCEPT !.pc = "spend", !.fp = fp]
  <2>1. task[t] \in TaskRecords
    BY DEF TasksOK
  <2>2. k.pc = "spend" /\ k.run = task[t].run /\ k.via = task[t].via /\ k.crashed = task[t].crashed
    BY <2>1 DEF TaskRecords
  <2> HIDE DEF k
  <2>3. SetTask(t, k)
    BY <1>1 DEF Call, k
  <2> QED
    BY <2>2, <2>3, SetTaskKeeps DEF Keeps
<1>2. CASE ~Warm(task[t])
  BY <1>2, BeginKeeps DEF Call
<1> QED
  BY <1>1, <1>2

LEMMA NextStepKeeps ==
  ASSUME TasksOK, NEW t \in Tasks, NextStep(t) \/ \E v \in Values : NextStepWith(t, v)
  PROVE  Keeps(t, "boundary")
<1>1. task[t] \in TaskRecords
  BY DEF TasksOK
<1>2. CASE NextStep(t)
  <2> DEFINE k == [task[t] EXCEPT !.pc = "boundary", !.ix = @ + 1]
  <2>1. /\ k.pc = "boundary" /\ k.run = task[t].run
        /\ k.via = task[t].via /\ k.crashed = task[t].crashed
    BY <1>1 DEF TaskRecords
  <2> HIDE DEF k
  <2>2. SetTask(t, k)
    BY <1>2 DEF NextStep, k
  <2> QED
    BY <2>1, <2>2, SetTaskKeeps DEF Keeps
<1>3. ASSUME NEW v \in Values, NextStepWith(t, v) PROVE Keeps(t, "boundary")
  <2> DEFINE k == [task[t] EXCEPT !.pc = "boundary", !.ix = @ + 1, !.scope = v]
  <2>1. /\ k.pc = "boundary" /\ k.run = task[t].run
        /\ k.via = task[t].via /\ k.crashed = task[t].crashed
    BY <1>1 DEF TaskRecords
  <2> HIDE DEF k
  <2>2. SetTask(t, k)
    BY <1>3 DEF NextStepWith, k
  <2> QED
    BY <2>1, <2>2, SetTaskKeeps DEF Keeps
<1> QED
  BY <1>2, <1>3

LEMMA FreedTask ==
  ASSUME TasksOK, NEW t \in Tasks, SetTask(t, Free)
  PROVE  Untouched(t) /\ ~Active(task'[t]) /\ TaskForm(task'[t])
<1>1. Free.pc = "free" /\ Free.via = "run" /\ Free.crashed = "no"
  BY DEF Free, Spawned
<1> QED
  BY <1>1, SetTaskKeeps DEF Active, TaskForm

\* A runner between its first turn and its last, none of its exceptions raised.
LEMMA StillWorking ==
  ASSUME NEW t \in Tasks, TaskForm(task[t]), Active(task[t]), NEW pc, Keeps(t, pc),
         pc \notin {"free", "close"}, pc = "rest" => task[t].via = "step",
         task[t].crashed # "no" => pc \in {"callback", "stepfail"},
         UNCHANGED run \/ SetRun(task[t].run, "running", {"cancelled"})
  PROVE  WorksOn(t)
BY DEF WorksOn, Keeps, Active, TaskForm

LEMMA Closing ==
  ASSUME NEW t \in Tasks, TaskForm(task[t]), Active(task[t]), task[t].crashed = "no",
         Keeps(t, "close")
  PROVE  Untouched(t) /\ ~Active(task'[t]) /\ TaskForm(task'[t])
BY DEF Keeps, Active, TaskForm

LEMMA RunnerShape ==
  ASSUME TypeOK, RunnersHoldTheirRuns, NEW t \in Tasks, RunnerStep(t)
  PROVE  WorksOn(t) \/ LetsGo(t) \/ IsGone(t)
<1> DEFINE k == task[t]
<1>0. TasksOK /\ TaskForm(k)
  BY DEF TypeOK, RunnersHoldTheirRuns
<1>spent. k.pc \notin {"free", "close"} => Active(k)
  BY DEF Active
<1>c. k.pc \notin {"close", "callback", "stepfail"} => k.crashed = "no"
  BY <1>0 DEF TaskForm
<1> USE DEF ledger
<1>1. CASE Start(t)
  <2> DEFINE new == IF mode[k.run] = "plan"
                    THEN [k EXCEPT !.pc = "plan", !.scope = inputs[k.run], !.ix = 1]
                    ELSE [k EXCEPT !.pc = "sem", !.scope = inputs[k.run]]
  <2>1. k \in TaskRecords
    BY <1>0 DEF TasksOK
  <2>2. /\ new.pc \in {"plan", "sem"} /\ new.run = k.run
        /\ new.via = k.via /\ new.crashed = k.crashed
    BY <2>1 DEF TaskRecords
  <2> HIDE DEF new
  <2>3. SetTask(t, new) /\ k.pc = "start" /\ UNCHANGED run
    BY <1>1 DEF Start, new
  <2>4. Keeps(t, new.pc)
    BY <1>0, <2>2, <2>3, SetTaskKeeps DEF Keeps
  <2> QED
    BY <1>0, <1>spent, <1>c, <2>2, <2>3, <2>4, StillWorking
<1>2. CASE StartStep(t)
  <2>1. k.pc = "start" /\ UNCHANGED run
    BY <1>2 DEF StartStep
  <2>2. Keeps(t, "stepfail") \/ Keeps(t, "sem")
    <3>1. CASE Go(t, "stepfail")
      BY <1>0, <3>1, GoKeeps
    <3>2. CASE SetTask(t, [task[t] EXCEPT !.pc = "sem", !.scope = inputs[k.run],
                                          !.ix = Cardinality(RowsOf(k.run)) + 1])
      <4> DEFINE ix == Cardinality(RowsOf(k.run)) + 1
                 new == [task[t] EXCEPT !.pc = "sem", !.scope = inputs[k.run], !.ix = ix]
      <4>1. k \in TaskRecords
        BY <1>0 DEF TasksOK
      <4>2. SetTask(t, new)
        BY <3>2
      <4> HIDE DEF ix
      <4>3. new.pc = "sem" /\ new.run = k.run /\ new.via = k.via /\ new.crashed = k.crashed
        BY <4>1 DEF TaskRecords
      <4> HIDE DEF new
      <4> QED
        BY <1>0, <4>2, <4>3, SetTaskKeeps DEF Keeps
    <3> QED
      BY <1>2, <3>1, <3>2 DEF StartStep
  <2> QED
    BY <1>0, <1>spent, <1>c, <2>1, <2>2, StillWorking
<1>3. CASE PlanStep(t)
  <2> DEFINE new == [task[t] EXCEPT !.ix = @ + 1]
  <2>1. k \in TaskRecords
    BY <1>0 DEF TasksOK
  <2>2. new.pc = k.pc /\ new.run = k.run /\ new.via = k.via /\ new.crashed = k.crashed
    BY <2>1 DEF TaskRecords
  <2>3. SetTask(t, new) /\ k.pc = "plan" /\ UNCHANGED run
    BY <1>3 DEF PlanStep
  <2> HIDE DEF new
  <2>4. Keeps(t, "plan")
    BY <1>0, <2>2, <2>3, SetTaskKeeps DEF Keeps
  <2> QED
    BY <1>0, <1>spent, <1>c, <2>3, <2>4, StillWorking
<1>4. CASE PlanDone(t) \/ Callback(t) \/ StepFail(t)
  <2>1. /\ k.pc \in {"plan", "callback", "stepfail"} /\ SetTask(t, Free)
        /\ \E s \in {"gated", "done", "failed"}, unless \in {{"cancelled"}, Ended} :
             SetRun(k.run, s, unless)
    BY <1>4 DEF PlanDone, Callback, StepFail, Ended
  <2> QED
    BY <1>0, <1>spent, <2>1, FreedTask DEF LetsGo
<1>5. CASE Acquire(t) \/ Begin(t) \/ Card(t) \/ Refuse(t) \/ Lock(t) \/ Send(t)
  <2>1. UNCHANGED run /\ k.pc \in {"sem", "begin", "card", "refuse", "lock", "spend"}
    BY <1>5 DEF Acquire, Begin, Card, Refuse, Lock, Send
  <2>2. CASE Begin(t)
    <3> DEFINE prev == IF row[k.run][k.ix].state \in {"done", "unknown"}
                       THEN row[k.run][k.ix].state ELSE "none"
               new == [k EXCEPT !.pc = k.next, !.prev = prev]
    <3>1. SetTask(t, new)
      BY <2>2 DEF Begin
    <3>2. k \in TaskRecords /\ k.next \in {"card", "refuse", "lock", "spend"}
      BY <1>0, TaskFacts DEF TasksOK
    <3> HIDE DEF prev
    <3>3. new.pc = k.next /\ new.run = k.run /\ new.via = k.via /\ new.crashed = k.crashed
      BY <3>2 DEF TaskRecords
    <3> HIDE DEF new
    <3>4. Keeps(t, k.next)
      BY <1>0, <3>1, <3>3, SetTaskKeeps DEF Keeps
    <3> QED
      BY <1>0, <1>spent, <1>c, <2>1, <3>2, <3>4, StillWorking
  <2>3. CASE Acquire(t) \/ Card(t) \/ Refuse(t) \/ Lock(t) \/ Send(t)
    <3>1. PICK pc \in {"open", "stepfail", "callback", "pause", "fail", "spend", "calling"} : Go(t, pc)
      BY <2>3 DEF Acquire, Card, Refuse, Lock, Send
    <3>2. Keeps(t, pc)
      BY <1>0, <3>1, GoKeeps
    <3> QED
      BY <1>0, <1>spent, <1>c, <2>1, <3>1, <3>2, StillWorking
  <2> QED
    BY <1>5, <2>2, <2>3
<1>6. CASE Open(t)
  <2>1. UNCHANGED run /\ k.pc = "open"
    BY <1>6 DEF Open
  <2>2. CASE Go(t, "opened")
    BY <1>0, <1>spent, <1>c, <2>1, <2>2, GoKeeps, StillWorking
  <2>3. ASSUME NEW how \in {"yes", "runner"},
               SetTask(t, [task[t] EXCEPT !.pc = "close", !.crashed = how])
        PROVE  WorksOn(t)
    <3> DEFINE new == [task[t] EXCEPT !.pc = "close", !.crashed = how]
    <3>1. k \in TaskRecords
      BY <1>0 DEF TasksOK
    <3>2. new.pc = "close" /\ new.run = k.run /\ new.via = k.via /\ new.crashed = how
      BY <3>1 DEF TaskRecords
    <3>3. SetTask(t, new)
      BY <2>3
    <3> HIDE DEF new
    <3>4. Untouched(t) /\ task'[t] = new
      BY <1>0, <3>3, SetTaskKeeps
    <3> QED
      BY <1>0, <1>spent, <2>1, <3>2, <3>4 DEF WorksOn, Active, TaskForm
  <2> QED
    BY <1>6, <2>2, <2>3 DEF Open
<1>7. CASE Opened(t) \/ Hold(t)
  <2>1. k.pc \in {"opened", "hold"}
    BY <1>7 DEF Opened, Hold
  <2>2. CASE run[k.run] = "cancelled" /\ Go(t, "close")
    <3>1. UNCHANGED run
      BY <1>7, <2>2 DEF Opened, Hold, SetRun
    <3> QED
      BY <1>0, <1>spent, <1>c, <2>1, <2>2, <3>1, GoKeeps, Closing DEF LetsGo
  <2>3. CASE \E pc \in {"hold", "drift", "boundary"} : Go(t, pc)
    <3>1. PICK pc \in {"hold", "drift", "boundary"} : Go(t, pc)
      BY <2>3
    <3>2. UNCHANGED run \/ SetRun(k.run, "running", {"cancelled"})
      BY <1>7 DEF Opened, Hold
    <3>3. Keeps(t, pc)
      BY <1>0, <3>1, GoKeeps
    <3> QED
      BY <1>0, <1>spent, <1>c, <2>1, <3>1, <3>2, <3>3, StillWorking
  <2> QED
    BY <1>7, <2>2, <2>3 DEF Opened, Hold
<1>8. CASE Boundary(t) \/ StepArgs(t) \/ Preview(t)
  <2>1. UNCHANGED run /\ k.pc \in {"boundary", "preview"}
    BY <1>8 DEF Boundary, StepArgs, Preview
  <2>2. \/ Stopped(k) /\ Go(t, "close")
        \/ \E pc \in {"fail", "preview"} : Go(t, pc)
        \/ \E next, fp : BeginAs(t, next, fp)
        \/ \E fp : Call(t, fp)
    <3>1. CASE Boundary(t)
      BY <3>1 DEF Boundary
    <3>2. CASE StepArgs(t)
      BY <3>2 DEF StepArgs
    <3>3. CASE Preview(t)
      BY <3>3 DEF Preview
    <3> QED
      BY <1>8, <3>1, <3>2, <3>3
  <2>3. CASE Stopped(k) /\ Go(t, "close")
    <3>1. run[k.run] \in {"cancelled", "failed"}
      BY <2>3 DEF Stopped
    <3> QED
      BY <1>0, <1>spent, <1>c, <2>1, <2>3, <3>1, GoKeeps, Closing DEF LetsGo
  <2>4. CASE \E pc \in {"fail", "preview"} : Go(t, pc)
    BY <1>0, <1>spent, <1>c, <2>1, <2>4, GoKeeps, StillWorking
  <2>5. CASE (\E next, fp : BeginAs(t, next, fp)) \/ (\E fp : Call(t, fp))
    <3>1. Keeps(t, "begin") \/ Keeps(t, "spend")
      BY <1>0, <2>5, BeginKeeps, CallKeeps
    <3> QED
      BY <1>0, <1>spent, <1>c, <2>1, <3>1, StillWorking
  <2> QED
    BY <2>2, <2>3, <2>4, <2>5
<1>9. CASE NotSpent(t) \/ Return(t)
  <2>1. UNCHANGED run /\ k.pc \in {"spend", "calling"}
    BY <1>9 DEF NotSpent, Return
  <2>2. PICK ok \in BOOLEAN : SetTask(t, [task[t] EXCEPT !.pc = "after", !.ok = ok])
    BY <1>9 DEF NotSpent, Return
  <2> DEFINE new == [task[t] EXCEPT !.pc = "after", !.ok = ok]
  <2>3. k \in TaskRecords
    BY <1>0 DEF TasksOK
  <2>4. new.pc = "after" /\ new.run = k.run /\ new.via = k.via /\ new.crashed = k.crashed
    BY <2>3 DEF TaskRecords
  <2>5. SetTask(t, new)
    BY <2>2
  <2> HIDE DEF new
  <2>6. Keeps(t, "after")
    BY <1>0, <2>4, <2>5, SetTaskKeeps DEF Keeps
  <2> QED
    BY <1>0, <1>spent, <1>c, <2>1, <2>6, StillWorking
<1>10. CASE AfterStopped(t)
  <2>1. run[k.run] \in {"cancelled", "failed"} /\ UNCHANGED run /\ k.pc = "after" /\ Go(t, "close")
    BY <1>10 DEF AfterStopped, Stopped
  <2> QED
    BY <1>0, <1>spent, <1>c, <2>1, GoKeeps, Closing DEF LetsGo
<1>11. CASE AfterFailure(t) \/ AfterWarmup(t) \/ AfterStep(t) \/ AfterAdHoc(t) \/ AfterSelect(t)
  <2>1. UNCHANGED run /\ k.pc = "after"
    BY <1>11 DEF AfterFailure, AfterWarmup, AfterStep, AfterAdHoc, AfterSelect
  <2>2. \/ Go(t, "fail") \/ Go(t, "pause")
        \/ Go(t, "rest") /\ k.via = "step"
        \/ NextStep(t) \/ \E v \in Values : NextStepWith(t, v)
    BY <1>11 DEF AfterFailure, AfterWarmup, AfterStep, AfterAdHoc, AfterSelect
  <2>3. PICK pc \in {"fail", "pause", "rest", "boundary"} :
          Keeps(t, pc) /\ (pc = "rest" => k.via = "step")
    BY <1>0, <2>2, GoKeeps, NextStepKeeps
  <2> QED
    BY <1>0, <1>spent, <1>c, <2>1, <2>3, StillWorking
<1>12. CASE Drift(t) \/ Fail(t) \/ Pause(t) \/ Finish(t) \/ Rest(t)
  <2>1. k.pc \in {"drift", "fail", "pause", "boundary", "rest"} /\ Go(t, "close")
    BY <1>12 DEF Drift, Fail, Pause, Finish, Rest
  <2>2. \/ \E s \in {"gated", "done", "failed"}, unless \in {{"cancelled"}, Ended} :
             SetRun(k.run, s, unless)
        \/ k.via = "step" /\ SetRun(k.run, "queued", {"cancelled"})
    <3>1. CASE Drift(t) \/ Pause(t) \/ Finish(t)
      BY <3>1 DEF Drift, Pause, Finish
    <3>2. CASE Fail(t)
      BY <3>2 DEF Fail
    <3>3. CASE Rest(t)
      BY <1>0, <3>3 DEF Rest, TaskForm
    <3> QED
      BY <1>12, <3>1, <3>2, <3>3
  <2>3. Untouched(t) /\ ~Active(task'[t]) /\ TaskForm(task'[t])
    BY <1>0, <1>spent, <1>c, <2>1, GoKeeps, Closing
  <2> QED
    BY <1>spent, <2>1, <2>2, <2>3 DEF LetsGo
<1>13. CASE Close(t)
  <2>1. k.pc = "close" /\ UNCHANGED run
    BY <1>13 DEF Close
  <2>2. CASE k.crashed = "no" /\ SetTask(t, Free)
    BY <1>0, <2>1, <2>2, FreedTask DEF IsGone, Active
  <2>3. CASE k.crashed # "no" /\ \E pc \in {"callback", "stepfail"} : Go(t, pc)
    <3>1. Active(k)
      BY <2>1, <2>3 DEF Active
    <3> QED
      BY <1>0, <2>1, <2>3, <3>1, GoKeeps, StillWorking
  <2> QED
    BY <1>13, <2>2, <2>3 DEF Close
<1> QED
  BY <1>1, <1>2, <1>3, <1>4, <1>5, <1>6, <1>7, <1>8, <1>9, <1>10, <1>11, <1>12, <1>13
  DEF RunnerStep

-----------------------------------------------------------------------------
(* One runner.  The theorems are about servers whose clients only add steps  *)
(* to empty runs, as the portal's own client does: without that two runners  *)
(* can meet in one run.                                                      *)

\* The states from which a request takes a run: nobody holds it then.
Rests(r) ==
  \/ run[r] \in {"none", "gated", "done", "failed"}
  \/ run[r] = "queued" /\ r \in EmptyRuns

Holders(r) == {t \in Tasks : Active(task[t]) /\ task[t].run = r}

LEMMA RestingRunIsFree ==
  ASSUME RunnersHoldTheirRuns, NEW r \in Runs, Rests(r)
  PROVE  Holders(r) = {}
BY DEF RunnersHoldTheirRuns, Rests, Holders

LEMMA RunnerKeepsHold ==
  ASSUME TypeOK, RunnersHoldTheirRuns, NEW t \in Tasks, RunnerStep(t)
  PROVE  RunnersHoldTheirRuns'
<1> DEFINE R == task[t].run
<1>0. R \in Runs /\ run \in [Runs -> RunStates] /\ "cancelled" \in Ended
  BY TaskFacts DEF TypeOK, Ended
<1>1. /\ \A u \in Tasks : TaskForm(task[u])
      /\ \A u, v \in Tasks : (u # v /\ Active(task[u]) /\ Active(task[v])) => task[u].run # task[v].run
      /\ \A u \in Tasks : Active(task[u]) =>
           \/ run[task[u].run] \in {"running", "cancelled"}
           \/ run[task[u].run] = "queued" /\ task[u].run \notin EmptyRuns
  BY DEF RunnersHoldTheirRuns, OneRunner
<1>2. Untouched(t) /\ TaskForm(task'[t])
  BY RunnerShape DEF WorksOn, LetsGo, IsGone
<1>3. \A u \in Tasks : TaskForm(task'[u])
  BY <1>1, <1>2 DEF Untouched
<1>4. Active(task'[t]) => WorksOn(t)
  BY RunnerShape DEF LetsGo, IsGone
<1>5. \A u, v \in Tasks :
        (u # v /\ Active(task'[u]) /\ Active(task'[v])) => task'[u].run # task'[v].run
  <2> SUFFICES ASSUME NEW u \in Tasks, NEW v \in Tasks, u # v, Active(task'[u]), Active(task'[v])
               PROVE  task'[u].run # task'[v].run
    OBVIOUS
  <2>1. Active(task[u]) /\ task'[u].run = task[u].run
    BY <1>2, <1>4 DEF Untouched, WorksOn
  <2>2. Active(task[v]) /\ task'[v].run = task[v].run
    BY <1>2, <1>4 DEF Untouched, WorksOn
  <2> QED
    BY <1>1, <2>1, <2>2
<1>6. ASSUME NEW u \in Tasks, Active(task'[u])
      PROVE  \/ run'[task'[u].run] \in {"running", "cancelled"}
             \/ run'[task'[u].run] = "queued" /\ task'[u].run \notin EmptyRuns
  <2>1. CASE u = t
    <3>1. WorksOn(t)
      BY <1>4, <1>6, <2>1
    <3>2. Active(task[t]) /\ task'[t].run = R
      BY <3>1 DEF WorksOn
    <3>3. CASE UNCHANGED run
      BY <1>1, <2>1, <3>2, <3>3
    <3>4. CASE SetRun(R, "running", {"cancelled"})
      BY <1>0, <2>1, <3>2, <3>4 DEF SetRun
    <3> QED
      BY <3>1, <3>3, <3>4 DEF WorksOn
  <2>2. CASE u # t
    <3>1. task'[u] = task[u]
      BY <1>2, <2>2 DEF Untouched
    <3>2. Active(task[t]) => task[u].run # R
      BY <1>1, <1>6, <2>2, <3>1
    <3>3. UNCHANGED run \/ (Active(task[t]) /\ \E s, unless : SetRun(R, s, unless))
      BY RunnerShape DEF WorksOn, LetsGo, IsGone
    <3>4. task[u].run \in Runs
      BY TaskFacts
    <3>5. run'[task[u].run] = run[task[u].run]
      BY <1>0, <3>2, <3>3, <3>4 DEF SetRun
    <3> QED
      BY <1>1, <1>6, <3>1, <3>5
  <2> QED
    BY <2>1, <2>2
<1> QED
  BY <1>3, <1>5, <1>6 DEF RunnersHoldTheirRuns, OneRunner

\* A request that spawns a runner for a run nobody holds.
LEMMA SpawnKeepsHold ==
  ASSUME TypeOK, RunnersHoldTheirRuns, NEW r \in Runs, Rests(r), NEW ix, NEW via,
         Spawn(r, ix, via), via = "step" => r \in AdHocRuns,
         NEW s, run' = [run EXCEPT ![r] = s],
         s = "running" \/ (s = "queued" /\ r \notin EmptyRuns)
  PROVE  RunnersHoldTheirRuns'
<1>0. TasksOK /\ run \in [Runs -> RunStates]
  BY DEF TypeOK
<1>1. PICK t \in Tasks : task[t].pc = "free" /\ SetTask(t, Spawned(r, ix, via))
  BY DEF Spawn
<1> DEFINE k == Spawned(r, ix, via)
<1>2. k.pc = "start" /\ k.run = r /\ k.via = via /\ k.crashed = "no"
  BY DEF Spawned
<1> HIDE DEF k
<1>3. Untouched(t) /\ task'[t] = k
  BY <1>0, <1>1, SetTaskKeeps DEF k
<1>4. \A u \in Tasks : TaskForm(task'[u])
  BY <1>2, <1>3 DEF Untouched, RunnersHoldTheirRuns, TaskForm
<1>5. \A u \in Tasks : Active(task[u]) => task[u].run # r
  BY RestingRunIsFree DEF Holders
<1>6. \A u \in Tasks : u # t /\ Active(task'[u]) =>
        Active(task[u]) /\ task'[u].run = task[u].run /\ task[u].run # r /\ task[u].run \in Runs
  BY <1>3, <1>5, TaskFacts DEF Untouched
<1>7. OneRunner'
  BY <1>2, <1>3, <1>6 DEF OneRunner, RunnersHoldTheirRuns
<1>8. ASSUME NEW u \in Tasks, Active(task'[u])
      PROVE  \/ run'[task'[u].run] \in {"running", "cancelled"}
             \/ run'[task'[u].run] = "queued" /\ task'[u].run \notin EmptyRuns
  <2>1. CASE u = t
    BY <1>0, <1>2, <1>3, <2>1
  <2>2. CASE u # t
    <3>1. run'[task[u].run] = run[task[u].run]
      BY <1>0, <1>6, <1>8, <2>2
    <3> QED
      BY <1>6, <1>8, <2>2, <3>1 DEF RunnersHoldTheirRuns
  <2> QED
    BY <2>1, <2>2
<1> QED
  BY <1>4, <1>7, <1>8 DEF RunnersHoldTheirRuns

\* A step of a request, seen from who holds which run: a runner is spawned for a
\* run that rests, an empty run is made, or a run is cancelled.
SpawnsOn(r) ==
  /\ Rests(r)
  /\ \E ix, via : Spawn(r, ix, via) /\ (via = "step" => r \in AdHocRuns)
  /\ \/ run[r] = "none" /\ r \notin EmptyRuns /\ run' = [run EXCEPT ![r] = "queued"]
     \/ run[r] # "none" /\ run' = [run EXCEPT ![r] = "running"]

MakesEmpty(r) ==
  run[r] = "none" /\ r \in EmptyRuns /\ run' = [run EXCEPT ![r] = "queued"] /\ UNCHANGED task

LEMMA RequestShape ==
  ASSUME AdHocRuns \subseteq EmptyRuns, Request
  PROVE  \E r \in Runs : SpawnsOn(r) \/ MakesEmpty(r) \/ (Cancel(r) /\ UNCHANGED task)
<1>1. ASSUME NEW r \in Runs, StartRun(r) PROVE SpawnsOn(r) \/ MakesEmpty(r)
  BY <1>1 DEF StartRun, SpawnsOn, MakesEmpty, Rests
<1>2. ASSUME NEW r \in Runs, Resume(r) PROVE SpawnsOn(r)
  BY <1>2 DEF Resume, Take, SpawnsOn, Rests
<1>3. ASSUME NEW r \in Runs, AddStep(r) PROVE SpawnsOn(r)
  BY <1>3 DEF AddStep, Take, SpawnsOn, Rests
<1>4. ASSUME NEW r \in Runs, Cancel(r) PROVE UNCHANGED task
  BY <1>4 DEF Cancel
<1>5. ASSUME NEW r \in Runs, NEW ix \in Ix, Pick(r, ix) PROVE SpawnsOn(r)
  BY <1>5 DEF Pick, Take, SpawnsOn, Rests
<1>6. ASSUME NEW r \in Runs, NEW ix \in Ix, Ack(r, ix) PROVE SpawnsOn(r)
  BY <1>6 DEF Ack, Take, SpawnsOn, Rests
<1>7. ASSUME NEW r \in Runs, NEW ix \in Ix, NEW c \in Runs, FanOut(r, ix, c) PROVE SpawnsOn(c)
  BY <1>7 DEF FanOut, SpawnsOn, Rests
<1> QED
  BY <1>1, <1>2, <1>3, <1>4, <1>5, <1>6, <1>7 DEF Request

LEMMA NothingHeldAfterRestart ==
  ASSUME Restart
  PROVE  \A t \in Tasks : task'[t] = Free /\ ~Active(task'[t]) /\ TaskForm(task'[t])
<1>1. Free.pc = "free" /\ Free.via = "run" /\ Free.crashed = "no"
  BY DEF Free, Spawned
<1> QED
  BY <1>1 DEF Restart, Active, TaskForm

\* A run is never in the hands of two runners, and a runner that holds one finds
\* it in no state that a request would take it from.
THEOREM RunsHaveOneRunner ==
  ASSUME AdHocRuns \subseteq EmptyRuns
  PROVE  Spec => [](RunnersHoldTheirRuns /\ OneRunner)
<1>1. Init => RunnersHoldTheirRuns
  <2>1. Free.pc = "free" /\ Free.via = "run" /\ Free.crashed = "no"
    BY DEF Free, Spawned
  <2> QED
    BY <2>1 DEF Init, RunnersHoldTheirRuns, OneRunner, Active, TaskForm
<1>2. TypeOK /\ RunnersHoldTheirRuns /\ [Next]_vars => RunnersHoldTheirRuns'
  <2> SUFFICES ASSUME TypeOK, RunnersHoldTheirRuns, [Next]_vars
               PROVE  RunnersHoldTheirRuns'
    OBVIOUS
  <2>1. ASSUME NEW t \in Tasks, RunnerStep(t) PROVE RunnersHoldTheirRuns'
    BY <2>1, RunnerKeepsHold
  <2>2. ASSUME NEW r \in Runs, SpawnsOn(r) PROVE RunnersHoldTheirRuns'
    <3>1. PICK ix, via : Spawn(r, ix, via) /\ (via = "step" => r \in AdHocRuns)
      BY <2>2 DEF SpawnsOn
    <3>2. PICK s \in {"queued", "running"} :
            run' = [run EXCEPT ![r] = s] /\ (s = "queued" => r \notin EmptyRuns)
      BY <2>2 DEF SpawnsOn
    <3> QED
      BY <2>2, <3>1, <3>2, SpawnKeepsHold DEF SpawnsOn
  <2>3. ASSUME NEW r \in Runs, MakesEmpty(r) \/ (Cancel(r) /\ UNCHANGED task)
        PROVE  RunnersHoldTheirRuns'
    <3>1. run \in [Runs -> RunStates] /\ \A t \in Tasks : task[t].run \in Runs
      BY TaskFacts DEF TypeOK
    <3>2. \A t \in Tasks : Active(task[t]) => run[task[t].run] # "none"
      BY DEF RunnersHoldTheirRuns
    <3>3. UNCHANGED task /\ \E s : run' = [run EXCEPT ![r] = s] /\ (s = "cancelled" \/ run[r] = "none")
      BY <2>3 DEF MakesEmpty, Cancel
    <3>4. \A t \in Tasks : Active(task[t]) =>
            run'[task[t].run] = run[task[t].run] \/ run'[task[t].run] = "cancelled"
      BY <3>1, <3>2, <3>3
    <3> QED
      BY <3>3, <3>4 DEF RunnersHoldTheirRuns, OneRunner
  <2>4. CASE Restart
    BY <2>4, NothingHeldAfterRestart DEF RunnersHoldTheirRuns, OneRunner
  <2>5. CASE UNCHANGED vars
    BY <2>5 DEF vars, ledger, RunnersHoldTheirRuns, OneRunner
  <2> QED
    BY <2>1, <2>2, <2>3, <2>4, <2>5, RequestShape DEF Next
<1>3. RunnersHoldTheirRuns => OneRunner
  BY DEF RunnersHoldTheirRuns
<1> QED
  BY TypeCorrect, <1>1, <1>2, <1>3, PTL DEF Spec

\* An end is left only through a request: a runner that is still on its way to
\* its verdict, or dies on it, cannot change it.
THEOREM EndsStay ==
  ASSUME AdHocRuns \subseteq EmptyRuns
  PROVE  Spec => EndsAreKept
<1>1. TypeOK /\ RunnersHoldTheirRuns /\ [Next]_vars =>
        \A r \in Runs : (run[r] \in {"done", "failed"} /\ run'[r] # run[r]) => asks' = asks + 1
  <2> SUFFICES ASSUME TypeOK, RunnersHoldTheirRuns, [Next]_vars,
                      NEW r \in Runs, run[r] \in {"done", "failed"}, run'[r] # run[r]
               PROVE  asks' = asks + 1
    OBVIOUS
  <2>0. run \in [Runs -> RunStates]
    BY DEF TypeOK
  <2>1. ASSUME NEW t \in Tasks, RunnerStep(t) PROVE FALSE
    <3>1. \/ UNCHANGED run
          \/ Active(task[t]) /\ \E s, unless : SetRun(task[t].run, s, unless)
      BY <2>1, RunnerShape DEF WorksOn, LetsGo, IsGone
    <3>2. Active(task[t]) => task[t].run # r
      BY DEF RunnersHoldTheirRuns
    <3>3. task[t].run \in Runs
      BY TaskFacts
    <3> QED
      BY <2>0, <3>1, <3>2, <3>3 DEF SetRun
  <2>2. ASSUME NEW q \in Runs, Cancel(q) PROVE FALSE
    BY <2>0, <2>2 DEF Cancel, Ended
  <2>3. ASSUME NEW q \in Runs, StartRun(q) \/ Resume(q) \/ AddStep(q) PROVE asks' = asks + 1
    BY <2>3 DEF StartRun, Resume, AddStep, Ask
  <2>4. ASSUME NEW q \in Runs, NEW ix \in Ix, Pick(q, ix) \/ Ack(q, ix) PROVE asks' = asks + 1
    BY <2>4 DEF Pick, Ack, Ask
  <2>5. ASSUME NEW q \in Runs, NEW ix \in Ix, NEW c \in Runs, FanOut(q, ix, c)
        PROVE  asks' = asks + 1
    BY <2>5 DEF FanOut, Ask
  <2>6. CASE Request
    BY <2>2, <2>3, <2>4, <2>5, <2>6 DEF Request
  <2>7. ~Restart
    BY <2>0 DEF Restart
  <2>8. ~UNCHANGED vars
    BY DEF vars, ledger
  <2> QED
    BY <2>1, <2>6, <2>7, <2>8 DEF Next
<1> QED
  BY TypeCorrect, RunsHaveOneRunner, <1>1, PTL DEF Spec, EndsAreKept

-----------------------------------------------------------------------------
(* The contract.  A runner that works on is a stutter or Work, one that lets *)
(* go is Settle or, after a cancel, Leave.                                   *)

Held == [r \in Runs |-> Holders(r)]

LEMMA HeldAsBefore ==
  ASSUME NEW r \in Runs, \A u \in Tasks : (Active(task'[u]) /\ task'[u].run = r)
                                            <=> (Active(task[u]) /\ task[u].run = r)
  PROVE  Holders(r)' = Holders(r)
BY DEF Holders

LEMMA RunnerStepsKeepContract ==
  ASSUME TypeOK, RunnersHoldTheirRuns, AdHocRuns \subseteq EmptyRuns,
         NEW t \in Tasks, RunnerStep(t)
  PROVE  [Lifecycle!Next]_(Lifecycle!vars)
<1>r. PICK R \in Runs : R = task[t].run
  BY TaskFacts
<1>0. /\ R = task[t].run /\ run \in [Runs -> RunStates] /\ TaskForm(task[t])
      /\ \A u \in Tasks : task[u].run \in Runs
  BY <1>r, TaskFacts DEF TypeOK, RunnersHoldTheirRuns
<1>1. Active(task[t]) => run[R] \in {"queued", "running", "cancelled"} /\ t \in Held[R]
  BY <1>0 DEF RunnersHoldTheirRuns, Held, Holders
<1>2. CASE WorksOn(t)
  <2>1. \A r \in Runs : Held'[r] = Held[r]
    BY <1>0, <1>2, HeldAsBefore DEF WorksOn, Untouched, Held
  <2>2. UNCHANGED Held
    BY <2>1 DEF Held
  <2>3. CASE UNCHANGED run
    BY <2>2, <2>3 DEF Lifecycle!vars, Held, Holders
  <2>4. CASE SetRun(R, "running", {"cancelled"})
    <3>1. CASE run[R] = "queued"
      <4>1. run' = [run EXCEPT ![R] = "running"]
        BY <2>4, <3>1 DEF SetRun
      <4>2. Lifecycle!Work(R)
        BY <1>0, <1>1, <1>2, <2>2, <3>1, <4>1 DEF Lifecycle!Work, WorksOn, Held, Holders
      <4>3. Lifecycle!Next
        BY <1>0, <4>2 DEF Lifecycle!Next
      <4> QED
        BY <4>3
    <3>2. CASE run[R] # "queued"
      <4>1. UNCHANGED run
        BY <1>0, <1>1, <1>2, <2>4, <3>2 DEF SetRun, WorksOn
      <4> QED
        BY <2>2, <4>1 DEF Lifecycle!vars, Held, Holders
    <3> QED
      BY <3>1, <3>2
  <2> QED
    BY <1>0, <1>2, <2>3, <2>4 DEF WorksOn
<1>3. CASE LetsGo(t)
  <2>1. Held' = [Held EXCEPT ![R] = {}]
    <3>1. \A u \in Tasks : u # t => task'[u] = task[u]
      BY <1>0, <1>3 DEF LetsGo, Untouched
    <3>2. ~Active(task'[t]) /\ Active(task[t])
      BY <1>3 DEF LetsGo
    <3>3. \A u \in Tasks : u # t /\ Active(task[u]) => task[u].run # R
      BY <1>0, <3>2 DEF RunnersHoldTheirRuns, OneRunner
    <3>4. ASSUME NEW r \in Runs, r # R PROVE Holders(r)' = Holders(r)
      <4>1. \A u \in Tasks : (Active(task'[u]) /\ task'[u].run = r)
                               <=> (Active(task[u]) /\ task[u].run = r)
        BY <1>0, <3>1, <3>2, <3>4
      <4> QED
        BY <4>1, HeldAsBefore
    <3>5. \A u \in Tasks : ~(Active(task'[u]) /\ task'[u].run = R)
      BY <3>1, <3>2, <3>3
    <3>6. Holders(R)' = {}
      BY <3>5 DEF Holders
    <3> QED
      BY <1>0, <3>4, <3>6 DEF Held
  <2>3. Held[R] # {} /\ run[R] \in {"queued", "running", "cancelled"}
    BY <1>1, <1>3 DEF LetsGo
  <2>4. CASE run[R] = "cancelled"
    <3>1. UNCHANGED run
      BY <1>0, <1>3, <2>4 DEF LetsGo, SetRun, Ended
    <3>2. Lifecycle!Leave(R)
      BY <2>1, <2>3, <2>4, <3>1 DEF Lifecycle!Leave, Held, Holders
    <3>3. Lifecycle!Next
      BY <1>0, <3>2 DEF Lifecycle!Next
    <3> QED
      BY <3>3
  <2>5. CASE run[R] \in {"queued", "running"}
    <3>1. PICK s \in {"gated", "done", "failed"} \cup (IF R \in EmptyRuns THEN {"queued"} ELSE {}) :
            run' = [run EXCEPT ![R] = s]
      <4>1. CASE \E s \in {"gated", "done", "failed"}, unless \in {{"cancelled"}, Ended} :
                   SetRun(R, s, unless)
        BY <2>5, <4>1 DEF SetRun, Ended
      <4>2. CASE task[t].via = "step" /\ SetRun(R, "queued", {"cancelled"})
        <5>1. R \in EmptyRuns
          BY <1>0, <4>2 DEF TaskForm
        <5> QED
          BY <2>5, <4>2, <5>1 DEF SetRun
      <4> QED
        BY <1>0, <1>3, <2>5, <4>1, <4>2 DEF LetsGo
    <3>2. Lifecycle!Settle(R)
      BY <2>1, <2>3, <2>5, <3>1 DEF Lifecycle!Settle, Held, Holders
    <3>3. Lifecycle!Next
      BY <1>0, <3>2 DEF Lifecycle!Next
    <3> QED
      BY <3>3
  <2> QED
    BY <2>3, <2>4, <2>5
<1>4. CASE IsGone(t)
  <2>1. \A r \in Runs : Held'[r] = Held[r]
    BY <1>4, HeldAsBefore DEF IsGone, Untouched, Held
  <2>2. UNCHANGED Held /\ UNCHANGED run
    BY <1>4, <2>1 DEF IsGone, Held
  <2> QED
    BY <2>2 DEF Lifecycle!vars, Held, Holders
<1> QED
  BY <1>2, <1>3, <1>4, RunnerShape

LEMMA RequestsKeepContract ==
  ASSUME TypeOK, RunnersHoldTheirRuns, AdHocRuns \subseteq EmptyRuns, Request
  PROVE  [Lifecycle!Next]_(Lifecycle!vars)
<1>0. TasksOK /\ run \in [Runs -> RunStates]
  BY DEF TypeOK
<1>1. ASSUME NEW r \in Runs, SpawnsOn(r) PROVE Lifecycle!Next
  <2>0. PICK ix, via : Spawn(r, ix, via)
    BY <1>1 DEF SpawnsOn
  <2>1. PICK t \in Tasks : task[t].pc = "free" /\ SetTask(t, Spawned(r, ix, via))
    BY <2>0 DEF Spawn
  <2> DEFINE k == Spawned(r, ix, via)
  <2>2. Active(k) /\ k.run = r
    BY DEF Spawned, Active
  <2> HIDE DEF k
  <2>3. Untouched(t) /\ task'[t] = k
    BY <1>0, <2>1, SetTaskKeeps DEF k
  <2>4. Holders(r) = {}
    BY <1>1, RestingRunIsFree DEF SpawnsOn
  <2>5. ~Active(task[t])
    BY <2>1 DEF Active
  <2>6. Holders(r)' = {t}
    BY <2>2, <2>3, <2>4 DEF Untouched, Holders
  <2>7. ASSUME NEW q \in Runs, q # r PROVE Holders(q)' = Holders(q)
    <3>1. \A u \in Tasks : (Active(task'[u]) /\ task'[u].run = q)
                             <=> (Active(task[u]) /\ task[u].run = q)
      BY <2>2, <2>3, <2>5, <2>7 DEF Untouched
    <3> QED
      BY <3>1, HeldAsBefore
  <2>8. Held' = [Held EXCEPT ![r] = {t}] /\ Held[r] = {}
    BY <2>4, <2>6, <2>7 DEF Held
  <2>9. CASE run[r] = "none" /\ r \notin EmptyRuns /\ run' = [run EXCEPT ![r] = "queued"]
    BY <2>8, <2>9 DEF Lifecycle!Create, Lifecycle!Next, Held, Holders
  <2>10. CASE run[r] # "none" /\ run' = [run EXCEPT ![r] = "running"]
    <3>1. Lifecycle!Waits(r)
      BY <1>1, <2>10 DEF SpawnsOn, Rests, Lifecycle!Waits
    <3> QED
      BY <2>8, <2>10, <3>1 DEF Lifecycle!Take, Lifecycle!Next, Held, Holders
  <2> QED
    BY <1>1, <2>9, <2>10 DEF SpawnsOn
<1>2. ASSUME NEW r \in Runs, MakesEmpty(r) PROVE Lifecycle!Next
  BY <1>2 DEF MakesEmpty, Lifecycle!Create, Lifecycle!Next
<1>3. ASSUME NEW r \in Runs, Cancel(r), UNCHANGED task PROVE Lifecycle!Next
  <2>1. run[r] \in {"queued", "running", "gated"} /\ run' = [run EXCEPT ![r] = "cancelled"]
    BY <1>0, <1>3 DEF Cancel, RunStates, Ended
  <2> QED
    BY <1>3, <2>1 DEF Lifecycle!Cancel, Lifecycle!Next
<1> QED
  BY <1>1, <1>2, <1>3, RequestShape

\* The runs keep the contract of RunLifecycle.
THEOREM RunsImplementLifecycle ==
  ASSUME AdHocRuns \subseteq EmptyRuns
  PROVE  Spec => RunsKeepTheirLifecycle
<1>1. Init => Lifecycle!Init
  <2>1. Free.pc = "free"
    BY DEF Free, Spawned
  <2> QED
    BY <2>1 DEF Init, Lifecycle!Init, Active
<1>2. TypeOK /\ RunnersHoldTheirRuns /\ [Next]_vars => [Lifecycle!Next]_(Lifecycle!vars)
  <2> SUFFICES ASSUME TypeOK, RunnersHoldTheirRuns, [Next]_vars
               PROVE  [Lifecycle!Next]_(Lifecycle!vars)
    OBVIOUS
  <2>1. ASSUME NEW t \in Tasks, RunnerStep(t) PROVE [Lifecycle!Next]_(Lifecycle!vars)
    BY <2>1, RunnerStepsKeepContract
  <2>2. CASE Request
    BY <2>2, RequestsKeepContract
  <2>3. CASE Restart
    BY <2>3, NothingHeldAfterRestart DEF Restart, Lifecycle!Crash, Lifecycle!Next
  <2>4. CASE UNCHANGED vars
    BY <2>4 DEF vars, ledger, Lifecycle!vars
  <2> QED
    BY <2>1, <2>2, <2>3, <2>4 DEF Next
<1> QED
  BY TypeCorrect, RunsHaveOneRunner, <1>1, <1>2, PTL DEF Spec, RunsKeepTheirLifecycle, Lifecycle!Spec
-----------------------------------------------------------------------------
(* Slow steps and the locks of their backends.                               *)

\* Whoever may send, or waits for the answer of, a slow step has the lock of its
\* backend, and no slow step leaves begin_step straight for its call.
HasItsLock(t) ==
  LET k == task[t] IN
  /\ (k.pc \in {"spend", "calling"} /\ k.ix \in SlowSteps /\ ~Warm(k))
       => lock[BackendOf[k.ix]] = t
  /\ (k.pc = "begin" /\ k.next = "spend") => k.ix \notin SlowSteps

SlowCallsAreLocked == \A t \in Tasks : HasItsLock(t)

\* A task at another place of its step holds nothing that the others wait for.
LEMMA AwayFromTheLock ==
  ASSUME NEW t \in Tasks, task[t].pc \notin {"begin", "spend", "calling"}
  PROVE  HasItsLock(t)
BY DEF HasItsLock

LEMMA GoIsAway ==
  ASSUME TasksOK, NEW t \in Tasks, NEW pc, pc \notin {"begin", "spend", "calling"}, Go(t, pc)
  PROVE  Untouched(t) /\ HasItsLock(t)'
<1>1. Keeps(t, pc)
  BY GoKeeps
<1> QED
  BY <1>1 DEF Keeps, HasItsLock

LEMMA SetTaskIsAway ==
  ASSUME TasksOK, NEW t \in Tasks, NEW k, k.pc \notin {"begin", "spend", "calling"},
         SetTask(t, k)
  PROVE  Untouched(t) /\ HasItsLock(t)'
<1>1. Untouched(t) /\ task'[t] = k
  BY SetTaskKeeps
<1> QED
  BY <1>1 DEF HasItsLock

LEMMA NextStepIsAway ==
  ASSUME TasksOK, NEW t \in Tasks, NextStep(t) \/ \E v \in Values : NextStepWith(t, v)
  PROVE  Untouched(t) /\ HasItsLock(t)'
<1>1. Keeps(t, "boundary")
  BY NextStepKeeps
<1> QED
  BY <1>1 DEF Keeps, HasItsLock

LEMMA BeginHasItsLock ==
  ASSUME TasksOK, NEW t \in Tasks, NEW next \in {"card", "refuse", "lock", "spend"}, NEW fp,
         next = "spend" => task[t].ix \notin SlowSteps, BeginAs(t, next, fp)
  PROVE  Untouched(t) /\ HasItsLock(t)'
<1> DEFINE k == [task[t] EXCEPT !.pc = "begin", !.next = next, !.fp = fp]
<1>1. task[t] \in TaskRecords
  BY DEF TasksOK
<1>2. k.pc = "begin" /\ k.next = next /\ k.ix = task[t].ix
  BY <1>1 DEF TaskRecords
<1> HIDE DEF k
<1>3. SetTask(t, k)
  BY DEF BeginAs, k
<1>4. Untouched(t) /\ task'[t] = k
  BY <1>3, SetTaskKeeps
<1> QED
  BY <1>2, <1>4 DEF HasItsLock

LEMMA CallHasItsLock ==
  ASSUME TasksOK, NEW t \in Tasks, NEW fp, Call(t, fp)
  PROVE  Untouched(t) /\ HasItsLock(t)'
<1>1. CASE Warm(task[t])
  <2> DEFINE k == [task[t] EXCEPT !.pc = "spend", !.fp = fp]
  <2>1. task[t] \in TaskRecords
    BY DEF TasksOK
  <2>2. k.pc = "spend" /\ k.ix = task[t].ix /\ k.via = task[t].via
    BY <2>1 DEF TaskRecords
  <2> HIDE DEF k
  <2>3. SetTask(t, k)
    BY <1>1 DEF Call, k
  <2>4. Untouched(t) /\ task'[t] = k
    BY <2>3, SetTaskKeeps
  <2>5. Warm(k)
    BY <1>1, <2>2 DEF Warm
  <2> QED
    BY <2>2, <2>4, <2>5 DEF HasItsLock
<1>2. CASE ~Warm(task[t])
  BY <1>2, BeginHasItsLock DEF Call
<1> QED
  BY <1>1, <1>2

\* Nobody takes a lock that another task has.
LEMMA RunnersRespectLocks ==
  ASSUME TypeOK, NEW t \in Tasks, HasItsLock(t), RunnerStep(t)
  PROVE  /\ Untouched(t) /\ HasItsLock(t)'
         /\ \A u \in Tasks \ {t}, b \in Backends : lock[b] = u => lock'[b] = u
<1> DEFINE Others == \A u \in Tasks \ {t}, b \in Backends : lock[b] = u => lock'[b] = u
           k == task[t]
<1>0. TasksOK /\ k \in TaskRecords /\ k.next \in {"card", "refuse", "lock", "spend"}
      /\ (AtAStep(k) => k.ix \in Ix)
  BY TaskFacts
<1>1. ASSUME UNCHANGED lock PROVE Others
  BY <1>1
<1>2. CASE Start(t)
  <2> DEFINE new == IF mode[k.run] = "plan"
                    THEN [k EXCEPT !.pc = "plan", !.scope = inputs[k.run], !.ix = 1]
                    ELSE [k EXCEPT !.pc = "sem", !.scope = inputs[k.run]]
  <2>1. new.pc \in {"plan", "sem"}
    BY <1>0 DEF TaskRecords
  <2> HIDE DEF new
  <2>2. SetTask(t, new) /\ UNCHANGED lock
    BY <1>2 DEF Start, new
  <2> QED
    BY <1>0, <1>1, <2>1, <2>2, SetTaskIsAway
<1>3. CASE StartStep(t)
  <2> DEFINE new == [k EXCEPT !.pc = "sem", !.scope = inputs[k.run],
                              !.ix = Cardinality(RowsOf(k.run)) + 1]
  <2>1. new.pc = "sem"
    BY <1>0 DEF TaskRecords
  <2> HIDE DEF new
  <2>2. (Go(t, "stepfail") \/ SetTask(t, new)) /\ UNCHANGED lock
    BY <1>3 DEF StartStep, new
  <2> QED
    BY <1>0, <1>1, <2>1, <2>2, SetTaskIsAway, GoIsAway
<1>4. CASE PlanStep(t)
  <2> DEFINE new == [k EXCEPT !.ix = @ + 1]
  <2>1. new.pc = "plan"
    BY <1>0, <1>4 DEF TaskRecords, PlanStep
  <2> HIDE DEF new
  <2>2. SetTask(t, new) /\ UNCHANGED lock
    BY <1>4 DEF PlanStep, new
  <2> QED
    BY <1>0, <1>1, <2>1, <2>2, SetTaskIsAway
<1>5. CASE PlanDone(t) \/ Callback(t) \/ StepFail(t)
  <2>1. SetTask(t, Free) /\ UNCHANGED lock
    BY <1>5 DEF PlanDone, Callback, StepFail
  <2>2. Free.pc = "free"
    BY DEF Free, Spawned
  <2> QED
    BY <1>0, <1>1, <2>1, <2>2, SetTaskIsAway
<1>6. CASE Acquire(t)
  <2>1. Go(t, "open") \/ Go(t, "stepfail") \/ Go(t, "callback")
    BY <1>6 DEF Acquire
  <2> QED
    BY <1>0, <1>1, <1>6, <2>1, GoIsAway DEF Acquire
<1>7. CASE Open(t)
  <2>1. CASE Go(t, "opened")
    BY <1>0, <1>1, <1>7, <2>1, GoIsAway DEF Open
  <2>2. ASSUME NEW how \in {"yes", "runner"},
               SetTask(t, [task[t] EXCEPT !.pc = "close", !.crashed = how])
        PROVE  Untouched(t) /\ HasItsLock(t)'
    <3> DEFINE new == [task[t] EXCEPT !.pc = "close", !.crashed = how]
    <3>1. new.pc = "close"
      BY <1>0 DEF TaskRecords
    <3> HIDE DEF new
    <3>2. SetTask(t, new)
      BY <2>2 DEF new
    <3> QED
      BY <1>0, <3>1, <3>2, SetTaskIsAway
  <2> QED
    BY <1>1, <1>7, <2>1, <2>2 DEF Open
<1>8. CASE Opened(t) \/ Drift(t) \/ Hold(t)
  <2>1. Go(t, "close") \/ Go(t, "hold") \/ Go(t, "drift") \/ Go(t, "boundary")
    BY <1>8 DEF Opened, Drift, Hold
  <2>2. UNCHANGED lock
    BY <1>8 DEF Opened, Drift, Hold
  <2> QED
    BY <1>0, <1>1, <2>1, <2>2, GoIsAway
<1>9. CASE Boundary(t) \/ StepArgs(t) \/ Preview(t)
  <2>1. UNCHANGED lock
    BY <1>9 DEF Boundary, StepArgs, Preview
  <2>2. \/ Go(t, "close") \/ Go(t, "fail") \/ Go(t, "preview")
        \/ \E next \in {"card", "refuse"} : \E fp : BeginAs(t, next, fp)
        \/ \E fp : Call(t, fp)
    <3>1. CASE Boundary(t)
      BY <3>1 DEF Boundary
    <3>2. CASE StepArgs(t)
      BY <3>2 DEF StepArgs
    <3>3. CASE Preview(t)
      BY <3>3 DEF Preview
    <3> QED
      BY <1>9, <3>1, <3>2, <3>3
  <2>3. ASSUME NEW fp, NEW next \in {"card", "refuse"}, BeginAs(t, next, fp)
        PROVE  Untouched(t) /\ HasItsLock(t)'
    BY <1>0, <2>3, BeginHasItsLock
  <2> QED
    BY <1>0, <1>1, <2>1, <2>2, <2>3, GoIsAway, CallHasItsLock
<1>10. CASE Begin(t)
  <2> DEFINE new == [k EXCEPT !.pc = k.next,
                     !.prev = IF row[k.run][k.ix].state \in {"done", "unknown"}
                              THEN row[k.run][k.ix].state ELSE "none"]
  <2>1. new.pc = k.next /\ new.ix = k.ix
    BY <1>0 DEF TaskRecords
  <2> HIDE DEF new
  <2>2. SetTask(t, new) /\ UNCHANGED lock /\ k.pc = "begin"
    BY <1>10 DEF Begin, new
  <2>3. Untouched(t) /\ task'[t] = new
    BY <1>0, <2>2, SetTaskKeeps
  <2>4. k.next = "spend" => k.ix \notin SlowSteps
    BY <2>2 DEF HasItsLock
  <2>5. HasItsLock(t)'
    BY <1>0, <2>1, <2>3, <2>4 DEF HasItsLock
  <2> QED
    BY <1>1, <2>2, <2>3, <2>5
<1>11. CASE Card(t) \/ Refuse(t)
  <2>1. (Go(t, "pause") \/ Go(t, "fail")) /\ UNCHANGED lock
    BY <1>11 DEF Card, Refuse
  <2> QED
    BY <1>0, <1>1, <2>1, GoIsAway
<1>12. CASE Lock(t)
  <2> DEFINE b == BackendOf[k.ix]
  <2>1. k.pc = "lock" /\ lock[b] = Nobody /\ lock' = [lock EXCEPT ![b] = t] /\ Go(t, "spend")
    BY <1>12 DEF Lock
  <2>2. b \in Backends /\ lock \in [Backends -> Tasks \cup {Nobody}]
    BY <1>0, <2>1, StepAssumption DEF AtAStep, StepPCs, TypeOK
  <2>3. Others
    BY <2>1, <2>2, NullAssumption
  <2>4. task' = [task EXCEPT ![t] = [k EXCEPT !.pc = "spend"]]
    BY <2>1 DEF Go, SetTask
  <2>5. task'[t].ix = k.ix /\ task'[t].pc = "spend"
    BY <1>0, <2>4 DEF TasksOK, TaskRecords
  <2>6. HasItsLock(t)'
    BY <2>1, <2>2, <2>5 DEF HasItsLock
  <2> QED
    BY <1>0, <2>1, <2>3, <2>6, GoKeeps DEF Keeps
<1>13. CASE Send(t)
  <2>1. k.pc = "spend" /\ Go(t, "calling") /\ UNCHANGED lock
    BY <1>13 DEF Send
  <2>2. task' = [task EXCEPT ![t] = [k EXCEPT !.pc = "calling"]]
    BY <2>1 DEF Go, SetTask
  <2>3. task'[t].ix = k.ix /\ task'[t].pc = "calling" /\ task'[t].via = k.via
    BY <1>0, <2>2 DEF TasksOK, TaskRecords
  <2>4. HasItsLock(t)'
    BY <2>1, <2>3 DEF HasItsLock, Warm
  <2> QED
    BY <1>0, <1>1, <2>1, <2>4, GoKeeps DEF Keeps
<1>14. CASE NotSpent(t) \/ Return(t)
  <2>1. \E ok : SetTask(t, [k EXCEPT !.pc = "after", !.ok = ok])
    BY <1>14 DEF NotSpent, Return
  <2>2. Unlock(t)
    BY <1>14 DEF NotSpent, Return
  <2>3. PICK ok : SetTask(t, [k EXCEPT !.pc = "after", !.ok = ok])
    BY <2>1
  <2> DEFINE new == [k EXCEPT !.pc = "after", !.ok = ok]
  <2>4. new.pc = "after"
    BY <1>0 DEF TaskRecords
  <2> HIDE DEF new
  <2>5. SetTask(t, new)
    BY <2>3 DEF new
  <2>6. Others
    BY <2>2 DEF Unlock
  <2> QED
    BY <1>0, <2>4, <2>5, <2>6, SetTaskIsAway
<1>15. CASE AfterStopped(t) \/ AfterFailure(t) \/ AfterWarmup(t) \/ AfterStep(t)
            \/ AfterAdHoc(t) \/ AfterSelect(t)
  <2>1. UNCHANGED lock
    BY <1>15 DEF AfterStopped, AfterFailure, AfterWarmup, AfterStep, AfterAdHoc, AfterSelect
  <2>2. \/ Go(t, "close") \/ Go(t, "fail") \/ Go(t, "rest") \/ Go(t, "pause")
        \/ NextStep(t) \/ \E v \in Values : NextStepWith(t, v)
    BY <1>15 DEF AfterStopped, AfterFailure, AfterWarmup, AfterStep, AfterAdHoc, AfterSelect
  <2> QED
    BY <1>0, <1>1, <2>1, <2>2, GoIsAway, NextStepIsAway
<1>16. CASE Fail(t) \/ Pause(t) \/ Finish(t) \/ Rest(t)
  <2>1. Go(t, "close") /\ UNCHANGED lock
    BY <1>16 DEF Fail, Pause, Finish, Rest
  <2> QED
    BY <1>0, <1>1, <2>1, GoIsAway
<1>17. CASE Close(t)
  <2>1. SetTask(t, Free) \/ Go(t, "stepfail") \/ Go(t, "callback")
    BY <1>17 DEF Close
  <2>2. Free.pc = "free" /\ UNCHANGED lock
    BY <1>17 DEF Free, Spawned, Close
  <2> QED
    BY <1>0, <1>1, <2>1, <2>2, GoIsAway, SetTaskIsAway
<1> QED
  BY <1>2, <1>3, <1>4, <1>5, <1>6, <1>7, <1>8, <1>9, <1>10, <1>11, <1>12, <1>13, <1>14,
     <1>15, <1>16, <1>17 DEF RunnerStep

\* The backend locks do what `_blk` says: no two slow steps are on one backend
\* together, however runners wait, fail, are cancelled or die with the process.
THEOREM SlowStepsAreApart == Spec => []SlowStepsTakeTurns
<1>1. Init => SlowCallsAreLocked
  <2>1. Free.pc = "free"
    BY DEF Free, Spawned
  <2> QED
    BY <2>1 DEF Init, SlowCallsAreLocked, HasItsLock
<1>2. TypeOK /\ SlowCallsAreLocked /\ [Next]_vars => SlowCallsAreLocked'
  <2> SUFFICES ASSUME TypeOK, SlowCallsAreLocked, [Next]_vars, NEW u \in Tasks
               PROVE  HasItsLock(u)'
    BY DEF SlowCallsAreLocked
  <2>0. /\ TasksOK /\ HasItsLock(u) /\ Free.pc = "free"
        /\ AtAStep(task[u]) => task[u].ix \in Ix
    BY TaskFacts DEF SlowCallsAreLocked, Free, Spawned
  <2>1. ASSUME NEW t \in Tasks, RunnerStep(t) PROVE HasItsLock(u)'
    <3>1. /\ Untouched(t) /\ HasItsLock(t)'
          /\ \A v \in Tasks \ {t}, b \in Backends : lock[b] = v => lock'[b] = v
      BY <2>1, RunnersRespectLocks DEF SlowCallsAreLocked
    <3>2. CASE u # t
      <4>1. task'[u] = task[u]
        BY <3>1, <3>2 DEF Untouched
      <4>2. task[u].pc \in {"spend", "calling"} => BackendOf[task[u].ix] \in Backends
        BY <2>0, StepAssumption DEF AtAStep, StepPCs
      <4> QED
        BY <2>0, <3>1, <3>2, <4>1, <4>2 DEF HasItsLock, Warm
    <3> QED
      BY <3>1, <3>2
  <2>2. ASSUME UNCHANGED lock,
               task'[u] = task[u] \/ task'[u].pc \notin {"begin", "spend", "calling"}
        PROVE  HasItsLock(u)'
    BY <2>0, <2>2 DEF HasItsLock, Warm
  <2>3. ASSUME NEW r, NEW ix, NEW via, Spawn(r, ix, via), UNCHANGED lock PROVE HasItsLock(u)'
    <3>1. PICK t \in Tasks : SetTask(t, Spawned(r, ix, via))
      BY <2>3 DEF Spawn
    <3>2. Untouched(t) /\ task'[t].pc = "start"
      BY <2>0, <3>1, SetTaskKeeps DEF Spawned
    <3>3. task'[u] = task[u] \/ task'[u].pc = "start"
      BY <3>2 DEF Untouched
    <3> QED
      BY <2>2, <2>3, <3>3
  <2>4. CASE Request
    <3>1. UNCHANGED lock
      BY <2>4 DEF Request, StartRun, Resume, AddStep, Cancel, Pick, Ack, FanOut
    <3>2. UNCHANGED task \/ \E r, ix, via : Spawn(r, ix, via)
      BY <2>4 DEF Request, StartRun, Resume, AddStep, Cancel, Pick, Ack, FanOut
    <3> QED
      BY <2>2, <2>3, <3>1, <3>2
  <2>5. CASE Restart
    <3>1. task'[u] = Free
      BY <2>5 DEF Restart
    <3> QED
      BY <2>0, <3>1 DEF HasItsLock
  <2>6. CASE UNCHANGED vars
    BY <2>2, <2>6 DEF vars
  <2> QED
    BY <2>1, <2>4, <2>5, <2>6 DEF Next
<1>3. TypeOK /\ SlowCallsAreLocked => SlowStepsTakeTurns
  BY DEF SlowCallsAreLocked, HasItsLock, SlowStepsTakeTurns, SlowCall
<1> QED
  BY TypeCorrect, <1>1, <1>2, <1>3, PTL DEF Spec
-----------------------------------------------------------------------------
(* What a step of a runner leaves as it is, field by field.                  *)

\* The task is at pc, and the rest of it is as before.
Moved(t, pc) ==
  /\ Keeps(t, pc)
  /\ task'[t].ix = task[t].ix /\ task'[t].scope = task[t].scope
  /\ task'[t].fp = task[t].fp /\ task'[t].prev = task[t].prev /\ task'[t].next = task[t].next

\* The task goes on to begin_step with a fingerprint, or to a call.
Began(t, next, fp) ==
  /\ Keeps(t, "begin") /\ task'[t].next = next /\ task'[t].fp = fp
  /\ task'[t].ix = task[t].ix /\ task'[t].scope = task[t].scope

Called(t, fp) ==
  \/ /\ Warm(task[t]) /\ Keeps(t, "spend") /\ task'[t].fp = fp
     /\ task'[t].ix = task[t].ix /\ task'[t].scope = task[t].scope
     /\ task'[t].prev = task[t].prev
  \/ ~Warm(task[t]) /\ \E next \in {"lock", "spend"} : Began(t, next, fp)

Advanced(t) == Keeps(t, "boundary") /\ task'[t].ix = task[t].ix + 1

LEMMA GoMoves ==
  ASSUME TasksOK, NEW t \in Tasks, NEW pc, Go(t, pc)
  PROVE  Moved(t, pc)
<1> DEFINE k == [task[t] EXCEPT !.pc = pc]
<1>1. task[t] \in TaskRecords
  BY DEF TasksOK
<1>2. /\ k.ix = task[t].ix /\ k.scope = task[t].scope /\ k.fp = task[t].fp
      /\ k.prev = task[t].prev /\ k.next = task[t].next
  BY <1>1 DEF TaskRecords
<1> HIDE DEF k
<1>3. SetTask(t, k)
  BY DEF Go, k
<1> QED
  BY <1>2, <1>3, SetTaskKeeps, GoKeeps DEF Moved

LEMMA BeginMoves ==
  ASSUME TasksOK, NEW t \in Tasks, NEW next, NEW fp, BeginAs(t, next, fp)
  PROVE  Began(t, next, fp)
<1> DEFINE k == [task[t] EXCEPT !.pc = "begin", !.next = next, !.fp = fp]
<1>1. task[t] \in TaskRecords
  BY DEF TasksOK
<1>2. /\ k.ix = task[t].ix /\ k.scope = task[t].scope /\ k.fp = fp /\ k.next = next
  BY <1>1 DEF TaskRecords
<1> HIDE DEF k
<1>3. SetTask(t, k)
  BY DEF BeginAs, k
<1> QED
  BY <1>2, <1>3, SetTaskKeeps, BeginKeeps DEF Began

LEMMA CallMoves ==
  ASSUME TasksOK, NEW t \in Tasks, NEW fp, Call(t, fp)
  PROVE  Called(t, fp)
<1>1. CASE Warm(task[t])
  <2> DEFINE k == [task[t] EXCEPT !.pc = "spend", !.fp = fp]
  <2>1. task[t] \in TaskRecords
    BY DEF TasksOK
  <2>2. /\ k.pc = "spend" /\ k.fp = fp /\ k.ix = task[t].ix /\ k.scope = task[t].scope
        /\ k.prev = task[t].prev /\ k.run = task[t].run /\ k.via = task[t].via
        /\ k.crashed = task[t].crashed
    BY <2>1 DEF TaskRecords
  <2> HIDE DEF k
  <2>3. SetTask(t, k)
    BY <1>1 DEF Call, k
  <2> QED
    BY <1>1, <2>2, <2>3, SetTaskKeeps DEF Called, Keeps
<1>2. CASE ~Warm(task[t])
  BY <1>2, BeginMoves DEF Call, Called
<1> QED
  BY <1>1, <1>2

LEMMA NextStepMoves ==
  ASSUME TasksOK, NEW t \in Tasks, NextStep(t) \/ \E v \in Values : NextStepWith(t, v)
  PROVE  Advanced(t)
<1>1. task[t] \in TaskRecords
  BY DEF TasksOK
<1>2. CASE NextStep(t)
  <2> DEFINE k == [task[t] EXCEPT !.pc = "boundary", !.ix = @ + 1]
  <2>1. k.ix = task[t].ix + 1
    BY <1>1 DEF TaskRecords
  <2> HIDE DEF k
  <2>2. SetTask(t, k)
    BY <1>2 DEF NextStep, k
  <2> QED
    BY <1>2, <2>1, <2>2, SetTaskKeeps, NextStepKeeps DEF Advanced
<1>3. ASSUME NEW v \in Values, NextStepWith(t, v) PROVE Advanced(t)
  <2> DEFINE k == [task[t] EXCEPT !.pc = "boundary", !.ix = @ + 1, !.scope = v]
  <2>1. k.ix = task[t].ix + 1
    BY <1>1 DEF TaskRecords
  <2> HIDE DEF k
  <2>2. SetTask(t, k)
    BY <1>3 DEF NextStepWith, k
  <2> QED
    BY <1>3, <2>1, <2>2, SetTaskKeeps, NextStepKeeps DEF Advanced
<1> QED
  BY <1>2, <1>3

\* begin_step: the task goes where it was to go.
LEMMA BegunMoves ==
  ASSUME TypeOK, NEW t \in Tasks, Begin(t)
  PROVE  /\ Keeps(t, task[t].next)
         /\ task'[t].ix = task[t].ix /\ task'[t].scope = task[t].scope
         /\ task'[t].fp = task[t].fp
         /\ task'[t].prev = IF row[task[t].run][task[t].ix].state \in {"done", "unknown"}
                            THEN row[task[t].run][task[t].ix].state ELSE "none"
<1> DEFINE old == row[task[t].run][task[t].ix].state
           prev == IF old \in {"done", "unknown"} THEN old ELSE "none"
           k == [task[t] EXCEPT !.pc = task[t].next, !.prev = prev]
<1>1. TasksOK /\ task[t] \in TaskRecords
  BY TaskFacts
<1>2. SetTask(t, k)
  BY DEF Begin
<1> HIDE DEF prev
<1>3. /\ k.pc = task[t].next /\ k.run = task[t].run /\ k.via = task[t].via
      /\ k.crashed = task[t].crashed /\ k.ix = task[t].ix /\ k.scope = task[t].scope
      /\ k.fp = task[t].fp /\ k.prev = prev
  BY <1>1 DEF TaskRecords
<1> HIDE DEF k
<1> QED
  BY <1>1, <1>2, <1>3, SetTaskKeeps DEF Keeps, prev

\* What is left of a call once it is answered, or could not go out.
LEMMA AnsweredMoves ==
  ASSUME TypeOK, NEW t \in Tasks, NotSpent(t) \/ Return(t)
  PROVE  Keeps(t, "after") /\ task'[t].ix = task[t].ix /\ task'[t].scope = task[t].scope
<1>1. TasksOK /\ task[t] \in TaskRecords
  BY TaskFacts
<1>2. \E ok : SetTask(t, [task[t] EXCEPT !.pc = "after", !.ok = ok])
  BY DEF NotSpent, Return
<1>3. PICK ok : SetTask(t, [task[t] EXCEPT !.pc = "after", !.ok = ok])
  BY <1>2
<1> DEFINE k == [task[t] EXCEPT !.pc = "after", !.ok = ok]
<1>4. /\ k.pc = "after" /\ k.run = task[t].run /\ k.via = task[t].via
      /\ k.crashed = task[t].crashed /\ k.ix = task[t].ix /\ k.scope = task[t].scope
  BY <1>1 DEF TaskRecords
<1> HIDE DEF k
<1>5. SetTask(t, k)
  BY <1>3 DEF k
<1> QED
  BY <1>1, <1>4, <1>5, SetTaskKeeps DEF Keeps
\* The steps of a runner that are away from the rows of its procedure: the ones
\* before its first step and after its last, and the states it writes.
Bookkeeping(t) ==
  \/ Start(t) \/ StartStep(t) \/ PlanDone(t) \/ Acquire(t) \/ Open(t) \/ Opened(t)
  \/ Drift(t) \/ AfterStopped(t) \/ Fail(t) \/ Pause(t) \/ Finish(t) \/ Rest(t)
  \/ Close(t) \/ Callback(t) \/ StepFail(t)

Away == {"free", "plan", "sem", "open", "opened", "hold", "drift", "close", "callback", "stepfail"}

LEMMA BookkeepingIsAway ==
  ASSUME TypeOK, NEW t \in Tasks, Bookkeeping(t)
  PROVE  /\ Untouched(t) /\ task'[t].pc \in Away
         /\ task[t].pc \notin {"card", "refuse", "lock", "spend", "calling"}
         /\ task'[t] = Free \/ (task'[t].run = task[t].run /\ task'[t].via = task[t].via)
         /\ UNCHANGED <<inputs, row, ack, lock, late>>
<1> DEFINE k == task[t]
<1>0. TasksOK /\ k \in TaskRecords /\ Free.pc = "free"
  BY TaskFacts DEF Free, Spawned
<1> USE DEF Away
<1>1. CASE Start(t)
  <2> DEFINE new == IF mode[k.run] = "plan"
                    THEN [k EXCEPT !.pc = "plan", !.scope = inputs[k.run], !.ix = 1]
                    ELSE [k EXCEPT !.pc = "sem", !.scope = inputs[k.run]]
  <2>1. new.pc \in {"plan", "sem"} /\ new.run = k.run /\ new.via = k.via
    BY <1>0 DEF TaskRecords
  <2> HIDE DEF new
  <2>2. SetTask(t, new) /\ UNCHANGED <<inputs, row, ack, lock, late>> /\ k.pc = "start"
    BY <1>1 DEF Start, new, ledger, history
  <2> QED
    BY <1>0, <2>1, <2>2, SetTaskKeeps
<1>2. CASE StartStep(t)
  <2> DEFINE new == [k EXCEPT !.pc = "sem", !.scope = inputs[k.run],
                              !.ix = Cardinality(RowsOf(k.run)) + 1]
  <2>1. new.pc = "sem" /\ new.run = k.run /\ new.via = k.via
    BY <1>0 DEF TaskRecords
  <2> HIDE DEF new
  <2>2. /\ Go(t, "stepfail") \/ SetTask(t, new)
        /\ UNCHANGED <<inputs, row, ack, lock, late>> /\ k.pc = "start"
    BY <1>2 DEF StartStep, new, ledger, history
  <2> QED
    BY <1>0, <2>1, <2>2, SetTaskKeeps, GoKeeps DEF Keeps
<1>3. CASE PlanDone(t) \/ Callback(t) \/ StepFail(t)
  <2>1. /\ SetTask(t, Free) /\ UNCHANGED <<inputs, row, ack, lock, late>>
        /\ k.pc \in {"plan", "callback", "stepfail"}
    BY <1>3 DEF PlanDone, Callback, StepFail, history
  <2> QED
    BY <1>0, <2>1, SetTaskKeeps
<1>4. CASE Open(t)
  <2>1. UNCHANGED <<inputs, row, ack, lock, late>> /\ k.pc = "open"
    BY <1>4 DEF Open, ledger, history
  <2>2. CASE Go(t, "opened")
    BY <1>0, <2>1, <2>2, GoKeeps DEF Keeps
  <2>3. ASSUME NEW how \in {"yes", "runner"},
               SetTask(t, [task[t] EXCEPT !.pc = "close", !.crashed = how])
        PROVE  Untouched(t) /\ task'[t].pc = "close" /\ task'[t].run = k.run /\ task'[t].via = k.via
    <3> DEFINE new == [task[t] EXCEPT !.pc = "close", !.crashed = how]
    <3>1. new.pc = "close" /\ new.run = k.run /\ new.via = k.via
      BY <1>0 DEF TaskRecords
    <3> HIDE DEF new
    <3>2. SetTask(t, new)
      BY <2>3 DEF new
    <3> QED
      BY <1>0, <3>1, <3>2, SetTaskKeeps
  <2> QED
    BY <1>4, <2>1, <2>2, <2>3 DEF Open
<1>5. CASE Acquire(t) \/ Opened(t) \/ Drift(t) \/ AfterStopped(t)
  <2>1. \/ Go(t, "open") \/ Go(t, "stepfail") \/ Go(t, "callback") \/ Go(t, "close")
        \/ Go(t, "hold") \/ Go(t, "drift")
    BY <1>5 DEF Acquire, Opened, Drift, AfterStopped
  <2>2. /\ UNCHANGED <<inputs, row, ack, lock, late>>
        /\ k.pc \in {"sem", "opened", "drift", "after"}
    BY <1>5 DEF Acquire, Opened, Drift, AfterStopped, ledger, history
  <2> QED
    BY <1>0, <2>1, <2>2, GoKeeps DEF Keeps
<1>6. CASE Fail(t) \/ Pause(t) \/ Finish(t) \/ Rest(t)
  <2>1. /\ Go(t, "close") /\ UNCHANGED <<inputs, row, ack, lock, late>>
        /\ k.pc \in {"fail", "pause", "boundary", "rest"}
    BY <1>6 DEF Fail, Pause, Finish, Rest, history
  <2> QED
    BY <1>0, <2>1, GoKeeps DEF Keeps
<1>7. CASE Close(t)
  <2>1. /\ SetTask(t, Free) \/ Go(t, "stepfail") \/ Go(t, "callback")
        /\ UNCHANGED <<inputs, row, ack, lock, late>> /\ k.pc = "close"
    BY <1>7 DEF Close, ledger, history
  <2> QED
    BY <1>0, <2>1, GoKeeps, SetTaskKeeps DEF Keeps
<1> QED
  BY <1>1, <1>2, <1>3, <1>4, <1>5, <1>6, <1>7 DEF Bookkeeping

-----------------------------------------------------------------------------
(* What looks alive is alive: rows, and runs.                               *)

\* The task is between begin_step and the end of a step, and the step has a row.
AtItsRow(k) ==
  k.pc \in {"card", "refuse", "lock"} \/ (k.pc \in {"spend", "calling"} /\ ~Warm(k))

\* A step that goes out past begin_step is no warm-up.
CallsWithARow(k) == (k.pc = "lock" \/ (k.pc = "begin" /\ k.next \in {"lock", "spend"})) => ~Warm(k)

\* What is recorded as running is some runner's step.
RowsAreWorkedOn ==
  /\ \A t \in Tasks : CallsWithARow(task[t])
  /\ \A r \in Runs, ix \in Ix : row[r][ix].state = "running" =>
       \E t \in Tasks : AtItsRow(task[t]) /\ task[t].run = r /\ task[t].ix = ix

LEMMA PutRowReads ==
  ASSUME TypeOK, NEW q \in Runs, NEW x \in Ix, NEW new, PutRow(q, x, new)
  PROVE  \A r \in Runs, ix \in Ix :
           row'[r][ix] = IF r = q /\ ix = x THEN new ELSE row[r][ix]
<1>1. row \in [Runs -> [Ix -> Rows]]
  BY DEF TypeOK
<1> QED
  BY <1>1 DEF PutRow

\* The row of the step is written, and no other.
Writes(k, states) ==
  \A r \in Runs, ix \in Ix :
    IF r = k.run /\ ix = k.ix THEN row'[r][ix].state \in states ELSE row'[r][ix] = row[r][ix]

LEMMA FinishWrites ==
  ASSUME TypeOK, NEW t \in Tasks, task[t].ix \in Ix, NEW s, FinishStep(task[t].run, task[t].ix, s)
  PROVE  Writes(task[t], {s})
<1>1. task[t].run \in Runs
  BY TaskFacts
<1>2. row[task[t].run][task[t].ix] \in Rows
  BY <1>1, RowFacts
<1> DEFINE new == [row[task[t].run][task[t].ix] EXCEPT !.state = s, !.stage = ""]
<1>3. new.state = s
  BY <1>2 DEF Rows
<1> HIDE DEF new
<1>4. PutRow(task[t].run, task[t].ix, new)
  BY DEF FinishStep, new
<1> QED
  BY <1>1, <1>3, <1>4, PutRowReads DEF Writes

\* A runner closes its row, opens it, or leaves the rows and keeps to its own.
RowStep(t) ==
  LET k == task[t] IN
  \/ UNCHANGED row /\ (AtItsRow(k) => AtItsRow(task'[t]) /\ task'[t].run = k.run /\ task'[t].ix = k.ix)
  \/ Writes(k, {"skipped", "pending", "failed", "done", "unknown"})
  \/ /\ Writes(k, {"running"})
     /\ AtItsRow(task'[t]) /\ task'[t].run = k.run /\ task'[t].ix = k.ix

LEMMA RunnersKeepToTheirRows ==
  ASSUME TypeOK, NEW t \in Tasks, CallsWithARow(task[t]), RunnerStep(t)
  PROVE  Untouched(t) /\ CallsWithARow(task'[t]) /\ RowStep(t)
<1> DEFINE k == task[t]
           Stays == UNCHANGED row /\ ~AtItsRow(k)
<1>0. /\ TasksOK /\ k \in TaskRecords /\ k.run \in Runs
      /\ k.next \in {"card", "refuse", "lock", "spend"} /\ (AtAStep(k) => k.ix \in Ix)
  BY TaskFacts
<1>ix. k.pc \in StepPCs => k.ix \in Ix
  BY <1>0 DEF AtAStep
<1>1. CASE Bookkeeping(t)
  <2>1. /\ Untouched(t) /\ task'[t].pc \in Away /\ UNCHANGED row
        /\ k.pc \notin {"card", "refuse", "lock", "spend", "calling"}
    BY <1>1, BookkeepingIsAway
  <2> QED
    BY <2>1 DEF CallsWithARow, RowStep, AtItsRow, Away
<1>2. CASE PlanStep(t)
  <2> DEFINE new == [k EXCEPT !.ix = @ + 1]
             skipped == [NoRow EXCEPT !.state = "skipped",
                                      !.fp = Fingerprint(k.ix, k.scope, NoView)]
  <2>1. new.pc = "plan" /\ k.ix \in Ix
    BY <1>0, <1>2 DEF TaskRecords, PlanStep
  <2> HIDE DEF new
  <2>2. SetTask(t, new) /\ PutRow(k.run, k.ix, skipped)
    BY <1>2 DEF PlanStep, new
  <2>3. skipped.state = "skipped"
    BY DEF NoRow
  <2> HIDE DEF skipped
  <2>4. Writes(k, {"skipped", "pending", "failed", "done", "unknown"})
    BY <1>0, <2>1, <2>2, <2>3, PutRowReads DEF Writes
  <2> QED
    BY <1>0, <2>1, <2>2, <2>4, SetTaskKeeps DEF CallsWithARow, RowStep
<1>3. CASE Hold(t)
  <2>1. (Go(t, "close") \/ Go(t, "boundary")) /\ UNCHANGED row /\ k.pc = "hold"
    BY <1>3 DEF Hold
  <2> QED
    BY <1>0, <2>1, GoKeeps DEF Keeps, CallsWithARow, RowStep, AtItsRow
<1>4. CASE Boundary(t) \/ StepArgs(t) \/ Preview(t)
  <2>1. UNCHANGED row /\ k.pc \in {"boundary", "preview"}
    BY <1>4 DEF Boundary, StepArgs, Preview, ledger
  <2>2. \/ Go(t, "close") \/ Go(t, "fail") \/ Go(t, "preview")
        \/ \E next \in {"card", "refuse"} : \E fp : BeginAs(t, next, fp)
        \/ \E fp : Call(t, fp)
    <3>1. CASE Boundary(t)
      BY <3>1 DEF Boundary
    <3>2. CASE StepArgs(t)
      BY <3>2 DEF StepArgs
    <3>3. CASE Preview(t)
      BY <3>3 DEF Preview
    <3> QED
      BY <1>4, <3>1, <3>2, <3>3
  <2>3. CASE Go(t, "close") \/ Go(t, "fail") \/ Go(t, "preview")
    BY <1>0, <2>1, <2>3, GoKeeps DEF Keeps, CallsWithARow, RowStep, AtItsRow
  <2>4. ASSUME NEW fp, NEW next \in {"card", "refuse"}, BeginAs(t, next, fp)
        PROVE  Untouched(t) /\ CallsWithARow(task'[t])
    BY <1>0, <2>4, BeginMoves DEF Began, Keeps, CallsWithARow
  <2>5. ASSUME NEW fp, Call(t, fp)
        PROVE  Untouched(t) /\ CallsWithARow(task'[t])
    BY <1>0, <2>5, CallMoves DEF Called, Began, Keeps, CallsWithARow, Warm
  <2> QED
    BY <2>1, <2>2, <2>3, <2>4, <2>5 DEF RowStep, AtItsRow
<1>5. CASE Begin(t)
  <2> DEFINE new == [NoRow EXCEPT !.state = "running", !.fp = k.fp]
  <2>1. k.pc = "begin" /\ PutRow(k.run, k.ix, new) /\ k.ix \in Ix
    BY <1>5, <1>ix DEF Begin, StepPCs
  <2>2. new.state = "running"
    BY DEF NoRow
  <2> HIDE DEF new
  <2>3. Writes(k, {"running"})
    BY <1>0, <2>1, <2>2, PutRowReads DEF Writes
  <2>4. Keeps(t, k.next) /\ task'[t].ix = k.ix
    BY <1>5, BegunMoves
  <2>5. Warm(task'[t]) = Warm(k)
    BY <2>4 DEF Keeps, Warm
  <2>6. AtItsRow(task'[t]) /\ CallsWithARow(task'[t])
    BY <1>0, <2>1, <2>4, <2>5 DEF Keeps, AtItsRow, CallsWithARow
  <2> QED
    BY <2>3, <2>4, <2>6 DEF RowStep, Keeps
<1>6. CASE Card(t)
  <2> DEFINE new == [row[k.run][k.ix] EXCEPT !.state = "pending", !.stage = "gate"]
  <2>1. k.pc = "card" /\ PutRow(k.run, k.ix, new) /\ Go(t, "pause") /\ k.ix \in Ix
    BY <1>6, <1>ix DEF Card, StepPCs
  <2>q. row[k.run][k.ix] \in Rows
    BY <1>0, <2>1, RowFacts
  <2>2. new.state = "pending"
    BY <2>q DEF Rows
  <2> HIDE DEF new
  <2>3. Writes(k, {"skipped", "pending", "failed", "done", "unknown"})
    BY <1>0, <2>1, <2>2, PutRowReads DEF Writes
  <2> QED
    BY <1>0, <2>1, <2>3, GoKeeps DEF Keeps, CallsWithARow, RowStep
<1>7. CASE Refuse(t)
  <2>1. k.pc = "refuse" /\ FinishStep(k.run, k.ix, "failed") /\ Go(t, "fail") /\ k.ix \in Ix
    BY <1>7, <1>ix DEF Refuse, StepPCs
  <2>2. Writes(k, {"failed"})
    BY <2>1, FinishWrites
  <2>3. Writes(k, {"skipped", "pending", "failed", "done", "unknown"})
    BY <2>2 DEF Writes
  <2> QED
    BY <1>0, <2>1, <2>3, GoKeeps DEF Keeps, CallsWithARow, RowStep
<1>8. CASE Lock(t) \/ Send(t)
  <2>1. /\ UNCHANGED row
        /\ (k.pc = "lock" /\ Go(t, "spend")) \/ (k.pc = "spend" /\ Go(t, "calling"))
    BY <1>8 DEF Lock, Send, ledger
  <2>2. /\ Untouched(t) /\ task'[t].run = k.run /\ task'[t].ix = k.ix /\ task'[t].via = k.via
        /\ (k.pc = "lock" /\ task'[t].pc = "spend") \/ (k.pc = "spend" /\ task'[t].pc = "calling")
    BY <1>0, <2>1, GoMoves DEF Moved, Keeps
  <2>3. Warm(task'[t]) = Warm(k)
    BY <2>2 DEF Warm
  <2> QED
    BY <2>1, <2>2, <2>3 DEF CallsWithARow, RowStep, AtItsRow
<1>9. CASE NotSpent(t) \/ Return(t)
  <2>1. Keeps(t, "after") /\ k.pc \in {"spend", "calling"} /\ k.ix \in Ix
    BY <1>9, <1>ix, AnsweredMoves DEF NotSpent, Return, StepPCs
  <2>2. \/ Warm(k) /\ UNCHANGED row
        \/ \E s \in {"done", "failed", "unknown"} : FinishStep(k.run, k.ix, s)
    BY <1>9 DEF NotSpent, Return
  <2>3. ASSUME NEW s \in {"done", "failed", "unknown"}, FinishStep(k.run, k.ix, s)
        PROVE  Writes(k, {"skipped", "pending", "failed", "done", "unknown"})
    BY <2>1, <2>3, FinishWrites DEF Writes
  <2> QED
    BY <2>1, <2>2, <2>3 DEF Keeps, CallsWithARow, RowStep, AtItsRow
<1>10. CASE AfterFailure(t) \/ AfterWarmup(t) \/ AfterStep(t) \/ AfterAdHoc(t)
  <2>1. UNCHANGED row /\ k.pc = "after"
    BY <1>10 DEF AfterFailure, AfterWarmup, AfterStep, AfterAdHoc, ledger
  <2>2. Go(t, "fail") \/ Go(t, "rest") \/ NextStep(t) \/ \E v \in Values : NextStepWith(t, v)
    BY <1>10 DEF AfterFailure, AfterWarmup, AfterStep, AfterAdHoc
  <2> QED
    BY <1>0, <2>1, <2>2, GoKeeps, NextStepKeeps DEF Keeps, CallsWithARow, RowStep, AtItsRow
<1>11. CASE AfterSelect(t)
  <2> DEFINE ask == [row[k.run][k.ix] EXCEPT !.state = "pending",
                                             !.stage = "select:ask", !.cands = TRUE]
  <2>1. k.pc = "after" /\ k.ix \in Ix
    BY <1>11, <1>ix DEF AfterSelect, StepPCs
  <2>2. Go(t, "pause") \/ Go(t, "fail") \/ NextStep(t) \/ \E v \in Values : NextStepWith(t, v)
    BY <1>11 DEF AfterSelect
  <2>3. \/ UNCHANGED row \/ PutRow(k.run, k.ix, ask)
        \/ FinishStep(k.run, k.ix, "skipped") \/ FinishStep(k.run, k.ix, "failed")
    BY <1>11 DEF AfterSelect
  <2>q. row[k.run][k.ix] \in Rows
    BY <1>0, <2>1, RowFacts
  <2>4. ask.state = "pending"
    BY <2>q DEF Rows
  <2> HIDE DEF ask
  <2>5. UNCHANGED row \/ Writes(k, {"skipped", "pending", "failed", "done", "unknown"})
    BY <1>0, <2>1, <2>3, <2>4, PutRowReads, FinishWrites DEF Writes
  <2> QED
    BY <1>0, <2>1, <2>2, <2>5, GoKeeps, NextStepKeeps DEF Keeps, CallsWithARow, RowStep, AtItsRow
<1> QED
  BY <1>1, <1>2, <1>3, <1>4, <1>5, <1>6, <1>7, <1>8, <1>9, <1>10, <1>11
  DEF RunnerStep, Bookkeeping
LEMMA RowsStayWorkedOn ==
  ASSUME TypeOK, RowsAreWorkedOn, NEW t \in Tasks, RunnerStep(t)
  PROVE  RowsAreWorkedOn'
<1> DEFINE k == task[t]
<1>1. Untouched(t) /\ CallsWithARow(task'[t]) /\ RowStep(t)
  BY RunnersKeepToTheirRows DEF RowsAreWorkedOn
<1>2. \A u \in Tasks : CallsWithARow(task'[u])
  BY <1>1 DEF Untouched, RowsAreWorkedOn
<1>3. ASSUME NEW r \in Runs, NEW ix \in Ix, row'[r][ix].state = "running"
      PROVE  \E u \in Tasks : AtItsRow(task'[u]) /\ task'[u].run = r /\ task'[u].ix = ix
  <2>1. ASSUME row'[r][ix] = row[r][ix],
               AtItsRow(k) /\ k.run = r /\ k.ix = ix =>
                 AtItsRow(task'[t]) /\ task'[t].run = r /\ task'[t].ix = ix
        PROVE  \E u \in Tasks : AtItsRow(task'[u]) /\ task'[u].run = r /\ task'[u].ix = ix
    <3>1. PICK u \in Tasks : AtItsRow(task[u]) /\ task[u].run = r /\ task[u].ix = ix
      BY <1>3, <2>1 DEF RowsAreWorkedOn
    <3>2. CASE u = t
      BY <2>1, <3>1, <3>2
    <3>3. CASE u # t
      BY <1>1, <3>1, <3>3 DEF Untouched
    <3> QED
      BY <3>2, <3>3
  <2>2. CASE UNCHANGED row /\ (AtItsRow(k) => AtItsRow(task'[t]) /\ task'[t].run = k.run
                                              /\ task'[t].ix = k.ix)
    BY <2>1, <2>2
  <2>3. CASE Writes(k, {"skipped", "pending", "failed", "done", "unknown"})
    BY <1>3, <2>1, <2>3 DEF Writes
  <2>4. CASE /\ Writes(k, {"running"})
             /\ AtItsRow(task'[t]) /\ task'[t].run = k.run /\ task'[t].ix = k.ix
    <3>1. CASE r = k.run /\ ix = k.ix
      BY <2>4, <3>1
    <3>2. CASE ~(r = k.run /\ ix = k.ix)
      BY <2>1, <2>4, <3>2 DEF Writes
    <3> QED
      BY <3>1, <3>2
  <2> QED
    BY <1>1, <2>2, <2>3, <2>4 DEF RowStep
<1> QED
  BY <1>2, <1>3 DEF RowsAreWorkedOn, CallsWithARow, Warm

\* Whoever looks as if it ran has a runner.
LiveRunsAreHeld ==
  \A r \in Runs :
    (run[r] = "running" \/ (run[r] = "queued" /\ r \notin EmptyRuns)) => Holders(r) # {}

\* A request that makes or takes a run gives it a runner, and leaves the others
\* theirs; the rows it touches are of runs that rest.
LEMMA SpawnedHolds ==
  ASSUME TypeOK, LiveRunsAreHeld, NEW c \in Runs, NEW ix, NEW via, Spawn(c, ix, via),
         NEW s, run' = [run EXCEPT ![c] = s]
  PROVE  LiveRunsAreHeld'
<1>0. TasksOK /\ run \in [Runs -> RunStates]
  BY DEF TypeOK
<1>1. PICK t \in Tasks : task[t].pc = "free" /\ SetTask(t, Spawned(c, ix, via))
  BY DEF Spawn
<1>2. Untouched(t) /\ task'[t] = Spawned(c, ix, via)
  BY <1>0, <1>1, SetTaskKeeps
<1>3. task'[t].run = c /\ Active(task'[t])
  BY <1>2 DEF Spawned, Active
<1>4. \A u \in Tasks : Active(task[u]) => task'[u] = task[u]
  BY <1>1, <1>2 DEF Untouched, Active
<1>5. \A r \in Runs : Holders(r) \subseteq Holders(r)'
  BY <1>4 DEF Holders
<1>6. t \in Holders(c)'
  BY <1>3 DEF Holders
<1>7. \A r \in Runs \ {c} : run'[r] = run[r]
  BY <1>0
<1> QED
  BY <1>5, <1>6, <1>7 DEF LiveRunsAreHeld

LEMMA RunnersLeaveNothingAlive ==
  ASSUME AdHocRuns \subseteq EmptyRuns, TypeOK, RunnersHoldTheirRuns, LiveRunsAreHeld,
         NEW t \in Tasks, RunnerStep(t)
  PROVE  LiveRunsAreHeld'
<1> DEFINE R == task[t].run
<1>0. R \in Runs /\ run \in [Runs -> RunStates] /\ TaskForm(task[t])
  BY TaskFacts DEF TypeOK, RunnersHoldTheirRuns
<1>1. WorksOn(t) \/ LetsGo(t) \/ IsGone(t)
  BY RunnerShape
<1> SUFFICES ASSUME NEW r \in Runs,
                    run'[r] = "running" \/ (run'[r] = "queued" /\ r \notin EmptyRuns)
             PROVE  \E u \in Tasks : Active(task'[u]) /\ task'[u].run = r
  BY DEF LiveRunsAreHeld, Holders
<1>2. CASE WorksOn(t) /\ r = R
  BY <1>2 DEF WorksOn
<1>3. ASSUME run'[r] = run[r], \A u \in Tasks \ {t} : task'[u] = task[u],
             ~(Active(task[t]) /\ R = r)
      PROVE  \E u \in Tasks : Active(task'[u]) /\ task'[u].run = r
  <2>1. PICK u \in Tasks : Active(task[u]) /\ task[u].run = r
    BY <1>3 DEF LiveRunsAreHeld, Holders
  <2>2. u # t
    BY <1>3, <2>1
  <2> QED
    BY <1>3, <2>1, <2>2
<1>4. CASE IsGone(t)
  BY <1>3, <1>4 DEF IsGone, Untouched
<1>5. CASE (WorksOn(t) \/ LetsGo(t)) /\ r # R
  <2>1. run'[r] = run[r]
    BY <1>0, <1>5 DEF WorksOn, LetsGo, SetRun
  <2> QED
    BY <1>3, <1>5, <2>1 DEF WorksOn, LetsGo, Untouched
<1>6. CASE LetsGo(t) /\ r = R
  <2>1. CASE UNCHANGED run /\ run[R] \in {"cancelled", "failed"}
    BY <1>6, <2>1
  <2>2. ASSUME NEW s \in {"gated", "done", "failed"}, NEW unless \in {{"cancelled"}, Ended},
               SetRun(R, s, unless)
        PROVE  FALSE
    <3>1. run'[R] \in {"gated", "done", "failed", "cancelled"}
      BY <1>0, <2>2 DEF SetRun, Ended
    <3> QED
      BY <1>6, <3>1
  <2>3. CASE task[t].via = "step" /\ SetRun(R, "queued", {"cancelled"})
    <3>1. R \in EmptyRuns
      BY <1>0, <2>3 DEF TaskForm
    <3>2. run'[R] \in {"queued", "cancelled"}
      BY <1>0, <2>3 DEF SetRun
    <3> QED
      BY <1>6, <3>1, <3>2
  <2> QED
    BY <1>6, <2>1, <2>2, <2>3 DEF LetsGo
<1> QED
  BY <1>1, <1>2, <1>4, <1>5, <1>6

\* What a request does to the rows: a pick closes one.
LEMMA RequestsOpenNoRow ==
  ASSUME TypeOK, Request
  PROVE  /\ \A r \in Runs, ix \in Ix : row'[r][ix].state = "running" => row[r][ix].state = "running"
         /\ \A t \in Tasks : task'[t] = task[t]
                             \/ (task[t].pc = "free" /\ task'[t].pc = "start")
<1>1. UNCHANGED row \/ \E r \in Runs, ix \in Ix : FinishStep(r, ix, "done")
  BY DEF Request, StartRun, Resume, AddStep, Cancel, Pick, Ack, FanOut, ledger
<1>2. ASSUME NEW q \in Runs, NEW x \in Ix, FinishStep(q, x, "done")
      PROVE  \A r \in Runs, ix \in Ix : row'[r][ix].state = "running" => row[r][ix].state = "running"
  <2> DEFINE new == [row[q][x] EXCEPT !.state = "done", !.stage = ""]
  <2>1. new.state = "done"
    BY RowFacts DEF Rows
  <2> HIDE DEF new
  <2>2. PutRow(q, x, new)
    BY <1>2 DEF FinishStep, new
  <2> QED
    BY <2>1, <2>2, PutRowReads
<1>3. UNCHANGED task \/ \E r, ix, via : Spawn(r, ix, via)
  BY DEF Request, StartRun, Resume, AddStep, Cancel, Pick, Ack, FanOut
<1>4. ASSUME NEW r, NEW ix, NEW via, Spawn(r, ix, via), NEW t \in Tasks
      PROVE  task'[t] = task[t] \/ (task[t].pc = "free" /\ task'[t].pc = "start")
  <2>1. PICK u \in Tasks : task[u].pc = "free" /\ SetTask(u, Spawned(r, ix, via))
    BY <1>4 DEF Spawn
  <2>2. Untouched(u) /\ task'[u].pc = "start"
    BY <2>1, SetTaskKeeps DEF TypeOK, Spawned
  <2> QED
    BY <2>1, <2>2 DEF Untouched
<1> QED
  BY <1>1, <1>2, <1>3, <1>4

\* A running run, a queued run of a procedure and a running row have a live
\* runner, whatever ended the runners before: an exception, a cancel, a crash.
THEOREM NothingLooksAlive ==
  ASSUME AdHocRuns \subseteq EmptyRuns
  PROVE  Spec => []NothingLooksAliveThatIsNot
<1> DEFINE IInv == RowsAreWorkedOn /\ LiveRunsAreHeld
<1>free. Free.pc = "free"
  BY DEF Free, Spawned
<1>1. Init => IInv
  <2> SUFFICES ASSUME Init PROVE IInv
    OBVIOUS
  <2>1. \A r \in Runs, ix \in Ix : row[r][ix].state = "none"
    BY DEF Init, NoRow
  <2> QED
    BY <1>free, <2>1 DEF Init, RowsAreWorkedOn, CallsWithARow, LiveRunsAreHeld
<1>2. TypeOK /\ RunnersHoldTheirRuns /\ IInv /\ [Next]_vars => IInv'
  <2> SUFFICES ASSUME TypeOK, RunnersHoldTheirRuns, RowsAreWorkedOn, LiveRunsAreHeld, [Next]_vars
               PROVE  IInv'
    OBVIOUS
  <2>0. run \in [Runs -> RunStates]
    BY DEF TypeOK
  <2>1. ASSUME NEW t \in Tasks, RunnerStep(t) PROVE IInv'
    BY <2>1, RowsStayWorkedOn, RunnersLeaveNothingAlive
  <2>2. CASE Request
    <3>1. RowsAreWorkedOn'
      <4>1. \A t \in Tasks : (AtItsRow(task[t]) => task'[t] = task[t])
                             /\ (task'[t] = task[t] \/ task'[t].pc = "start")
        BY <2>2, RequestsOpenNoRow DEF AtItsRow
      <4>2. \A t \in Tasks : CallsWithARow(task'[t])
        BY <4>1 DEF RowsAreWorkedOn, CallsWithARow
      <4>3. \A r \in Runs, ix \in Ix : row'[r][ix].state = "running" =>
              \E t \in Tasks : AtItsRow(task'[t]) /\ task'[t].run = r /\ task'[t].ix = ix
        BY <2>2, <4>1, RequestsOpenNoRow DEF RowsAreWorkedOn
      <4> QED
        BY <4>2, <4>3 DEF RowsAreWorkedOn, CallsWithARow, Warm
    <3>2. LiveRunsAreHeld'
      <4>1. PICK r \in Runs : SpawnsOn(r) \/ MakesEmpty(r) \/ (Cancel(r) /\ UNCHANGED task)
        BY <2>2, RequestShape
      <4>2. CASE SpawnsOn(r)
        BY <4>2, SpawnedHolds DEF SpawnsOn
      <4>3. CASE MakesEmpty(r)
        BY <2>0, <4>3 DEF MakesEmpty, LiveRunsAreHeld, Holders
      <4>4. CASE Cancel(r) /\ UNCHANGED task
        BY <2>0, <4>4 DEF Cancel, LiveRunsAreHeld, Holders
      <4> QED
        BY <4>1, <4>2, <4>3, <4>4
    <3> QED
      BY <3>1, <3>2
  <2>3. CASE Restart
    <3>1. \A t \in Tasks : task'[t] = Free
      BY <2>3 DEF Restart
    <3>2. \A r \in Runs : run'[r] \notin {"queued", "running"}
      BY <2>3 DEF Restart
    <3>3. \A r \in Runs, ix \in Ix : row'[r][ix].state # "running"
      <4> SUFFICES ASSUME NEW r \in Runs, NEW ix \in Ix PROVE row'[r][ix].state # "running"
        OBVIOUS
      <4> DEFINE closed == [row[r][ix] EXCEPT !.state = "unknown"]
      <4>1. closed.state = "unknown"
        BY RowFacts DEF Rows
      <4> HIDE DEF closed
      <4>2. row'[r][ix] = IF row[r][ix].state = "running" THEN closed ELSE row[r][ix]
        BY <2>3 DEF Restart, closed
      <4> QED
        BY <4>1, <4>2
    <3> QED
      BY <1>free, <3>1, <3>2, <3>3 DEF RowsAreWorkedOn, CallsWithARow, LiveRunsAreHeld
  <2>4. CASE UNCHANGED vars
    BY <2>4 DEF vars, ledger, RowsAreWorkedOn, CallsWithARow, LiveRunsAreHeld, Holders, Warm
  <2> QED
    BY <2>1, <2>2, <2>3, <2>4 DEF Next
<1>3. IInv => NothingLooksAliveThatIsNot
  <2>1. \A k : AtItsRow(k) => Active(k)
    BY DEF AtItsRow, Active
  <2> QED
    BY <2>1 DEF RowsAreWorkedOn, LiveRunsAreHeld, Holders, NothingLooksAliveThatIsNot
<1> HIDE DEF IInv
<1>4. Spec => []RunnersHoldTheirRuns
  <2>1. Spec => [](RunnersHoldTheirRuns /\ OneRunner)
    BY RunsHaveOneRunner
  <2> QED
    BY <2>1, PTL
<1> QED
  BY TypeCorrect, <1>1, <1>2, <1>3, <1>4, PTL DEF Spec
-----------------------------------------------------------------------------
(* What goes out after a cancel.                                             *)

\* A runner that will send without another look at the ledger.
MaySend(k) == k.pc \in {"begin", "lock", "spend"} \/ (k.pc = "boundary" /\ k.via = "step")

\* Once a call has gone out after the cancel, no runner of the run is past its
\* last look at the ledger.
LateRunsAreStopped ==
  \A r \in Runs :
    \/ late[r] = 0
    \/ /\ late[r] = 1 /\ run[r] = "cancelled"
       /\ \A t \in Tasks : task[t].run = r => ~MaySend(task[t])

LEMMA SendersHaveLooked ==
  ASSUME TypeOK, NEW t \in Tasks, RunnerStep(t)
  PROVE  /\ Untouched(t)
         /\ MaySend(task'[t]) => /\ task'[t].run = task[t].run
                                 /\ MaySend(task[t]) \/ run[task[t].run] # "cancelled"
         /\ Send(t) \/ UNCHANGED late
<1> DEFINE k == task[t]
           Looked == MaySend(task'[t]) => /\ task'[t].run = k.run
                                          /\ MaySend(k) \/ run[k.run] # "cancelled"
<1>0. TasksOK /\ k \in TaskRecords
  BY TaskFacts
<1>st. ~Stopped(k) => run[k.run] # "cancelled"
  BY DEF Stopped
<1>go. ASSUME NEW pc, Go(t, pc), pc \notin {"begin", "lock", "spend", "boundary"}
       PROVE  Untouched(t) /\ Looked
  BY <1>0, <1>go, GoKeeps DEF Keeps, MaySend
<1>1. CASE Bookkeeping(t)
  BY <1>1, BookkeepingIsAway DEF Away, MaySend
<1>2. CASE PlanStep(t)
  <2> DEFINE new == [k EXCEPT !.ix = @ + 1]
  <2>1. new.pc = "plan"
    BY <1>0, <1>2 DEF TaskRecords, PlanStep
  <2> HIDE DEF new
  <2>2. SetTask(t, new) /\ UNCHANGED late
    BY <1>2 DEF PlanStep, new, history
  <2> QED
    BY <1>0, <2>1, <2>2, SetTaskKeeps DEF MaySend
<1>3. CASE Hold(t)
  BY <1>0, <1>3, GoKeeps DEF Hold, Keeps, MaySend, history
<1>4. CASE Boundary(t) \/ Preview(t)
  <2>1. UNCHANGED late
    BY <1>4 DEF Boundary, Preview, history
  <2>2. \/ Go(t, "close") \/ Go(t, "fail") \/ Go(t, "preview")
        \/ /\ ~Stopped(k)
           /\ \/ \E next \in {"card", "refuse"} : \E fp : BeginAs(t, next, fp)
              \/ \E fp : Call(t, fp)
    <3>1. CASE Boundary(t)
      BY <3>1 DEF Boundary
    <3>2. CASE Preview(t)
      BY <3>2 DEF Preview
    <3> QED
      BY <1>4, <3>1, <3>2
  <2>3. ASSUME NEW fp, NEW next \in {"card", "refuse"}, BeginAs(t, next, fp)
        PROVE  Untouched(t) /\ task'[t].run = k.run
    BY <1>0, <2>3, BeginKeeps DEF Keeps
  <2>4. ASSUME NEW fp, Call(t, fp)
        PROVE  Untouched(t) /\ task'[t].run = k.run
    BY <1>0, <2>4, CallKeeps DEF Keeps
  <2> QED
    BY <1>st, <1>go, <2>1, <2>2, <2>3, <2>4
<1>5. CASE StepArgs(t)
  <2>1. UNCHANGED late /\ MaySend(k) /\ (\E fp : BeginAs(t, "refuse", fp) \/ Call(t, fp))
    BY <1>5 DEF StepArgs, history, MaySend
  <2>2. Untouched(t) /\ task'[t].run = k.run
    BY <1>0, <2>1, BeginKeeps, CallKeeps DEF Keeps
  <2> QED
    BY <2>1, <2>2
<1>6. CASE Begin(t)
  <2>1. UNCHANGED late /\ MaySend(k)
    BY <1>6 DEF Begin, history, MaySend
  <2>2. Untouched(t) /\ task'[t].run = k.run
    BY <1>6, BegunMoves DEF Keeps
  <2> QED
    BY <2>1, <2>2
<1>7. CASE Card(t) \/ Refuse(t)
  <2>1. UNCHANGED late /\ (Go(t, "pause") \/ Go(t, "fail"))
    BY <1>7 DEF Card, Refuse, history
  <2> QED
    BY <1>go, <2>1
<1>8. CASE Lock(t)
  <2>1. UNCHANGED late /\ MaySend(k) /\ Go(t, "spend")
    BY <1>8 DEF Lock, history, MaySend
  <2> QED
    BY <1>0, <2>1, GoKeeps DEF Keeps
<1>9. CASE Send(t)
  <2>1. Go(t, "calling")
    BY <1>9 DEF Send
  <2> QED
    BY <1>go, <1>9, <2>1
<1>10. CASE NotSpent(t) \/ Return(t)
  <2>1. UNCHANGED late
    BY <1>10 DEF NotSpent, Return, history
  <2> QED
    BY <1>10, <2>1, AnsweredMoves DEF Keeps, MaySend
<1>11. CASE AfterFailure(t) \/ AfterWarmup(t) \/ AfterStep(t) \/ AfterAdHoc(t) \/ AfterSelect(t)
  <2>1. ~Stopped(k) /\ UNCHANGED late
    BY <1>11 DEF AfterFailure, AfterWarmup, AfterStep, AfterAdHoc, AfterSelect, history
  <2>2. \/ Go(t, "fail") \/ Go(t, "rest") \/ Go(t, "pause")
        \/ NextStep(t) \/ \E v \in Values : NextStepWith(t, v)
    BY <1>11 DEF AfterFailure, AfterWarmup, AfterStep, AfterAdHoc, AfterSelect
  <2>3. CASE NextStep(t) \/ \E v \in Values : NextStepWith(t, v)
    BY <1>0, <1>st, <2>1, <2>3, NextStepKeeps DEF Keeps
  <2> QED
    BY <1>go, <2>1, <2>2, <2>3
<1> QED
  BY <1>1, <1>2, <1>3, <1>4, <1>5, <1>6, <1>7, <1>8, <1>9, <1>10, <1>11
  DEF RunnerStep, Bookkeeping

\* A cancel takes effect at the next step boundary: whatever is retried, picked
\* or approved meanwhile, no more than the one call under way goes out after it.
THEOREM CancelsStopCalls ==
  ASSUME AdHocRuns \subseteq EmptyRuns
  PROVE  Spec => []OneCallAfterCancel
<1>free. Free.pc = "free"
  BY DEF Free, Spawned
<1>1. Init => LateRunsAreStopped
  BY DEF Init, LateRunsAreStopped
<1>2. TypeOK /\ RunnersHoldTheirRuns /\ LateRunsAreStopped /\ [Next]_vars => LateRunsAreStopped'
  <2> SUFFICES ASSUME TypeOK, RunnersHoldTheirRuns, LateRunsAreStopped, [Next]_vars, NEW r \in Runs
               PROVE  \/ late'[r] = 0
                      \/ /\ late'[r] = 1 /\ run'[r] = "cancelled"
                         /\ \A u \in Tasks : task'[u].run = r => ~MaySend(task'[u])
    BY DEF LateRunsAreStopped, MaySend
  <2>0. /\ run \in [Runs -> RunStates] /\ late \in [Runs -> Nat]
        /\ \A t \in Tasks : task[t].run \in Runs
        /\ \/ late[r] = 0
           \/ /\ late[r] = 1 /\ run[r] = "cancelled"
              /\ \A u \in Tasks : task[u].run = r => ~MaySend(task[u])
    BY TaskFacts DEF TypeOK, LateRunsAreStopped
  <2>same. ASSUME late'[r] = late[r], run[r] = "cancelled" => run'[r] = "cancelled",
                  \A u \in Tasks : task'[u] = task[u] \/ ~MaySend(task'[u])
           PROVE  \/ late'[r] = 0
                  \/ /\ late'[r] = 1 /\ run'[r] = "cancelled"
                     /\ \A u \in Tasks : task'[u].run = r => ~MaySend(task'[u])
    BY <2>0, <2>same
  <2>1. ASSUME NEW t \in Tasks, RunnerStep(t)
        PROVE  \/ late'[r] = 0
               \/ /\ late'[r] = 1 /\ run'[r] = "cancelled"
                  /\ \A u \in Tasks : task'[u].run = r => ~MaySend(task'[u])
    <3> DEFINE R == task[t].run
    <3>0. /\ Untouched(t) /\ R \in Runs
          /\ MaySend(task'[t]) => task'[t].run = R /\ (MaySend(task[t]) \/ run[R] # "cancelled")
      BY <2>0, <2>1, SendersHaveLooked
    <3>1. run[r] = "cancelled" => run'[r] = "cancelled"
      BY <2>0, <2>1, RunnersSpareCancels DEF SetRun
    <3>2. CASE late'[r] = late[r]
      <4>1. CASE late[r] = 0
        BY <3>2, <4>1
      <4>2. CASE late[r] = 1 /\ run[r] = "cancelled"
                 /\ \A u \in Tasks : task[u].run = r => ~MaySend(task[u])
        <5>1. \A u \in Tasks : task'[u].run = r => ~MaySend(task'[u])
          BY <3>0, <4>2 DEF Untouched
        <5> QED
          BY <3>1, <3>2, <4>2, <5>1
      <4> QED
        BY <2>0, <4>1, <4>2
    <3>3. CASE late'[r] # late[r]
      <4>1. Send(t) /\ r = R /\ run[R] = "cancelled" /\ late'[r] = late[r] + 1
        <5>1. Send(t)
          BY <2>1, <3>3, SendersHaveLooked
        <5>2. late' = IF run[R] = "cancelled" THEN [late EXCEPT ![R] = @ + 1] ELSE late
          BY <5>1 DEF Send
        <5>3. run[R] = "cancelled" /\ r = R
          BY <2>0, <3>3, <5>2
        <5>4. late'[r] = late[r] + 1
          BY <2>0, <5>2, <5>3
        <5> QED
          BY <5>1, <5>3, <5>4
      <4>2. task[t].pc = "spend" /\ MaySend(task[t]) /\ Go(t, "calling")
        BY <4>1 DEF Send, MaySend
      <4>3. late[r] = 0
        BY <2>0, <4>1, <4>2
      <4>4. task'[t].pc = "calling"
        BY <4>2, GoKeeps, TaskFacts DEF Keeps
      <4>5. ASSUME NEW u \in Tasks, task'[u].run = r, MaySend(task'[u]) PROVE FALSE
        <5>1. u # t /\ task'[u] = task[u]
          BY <3>0, <4>4, <4>5 DEF MaySend, Untouched
        <5>2. Active(task[u]) /\ Active(task[t])
          BY <4>2, <4>5, <5>1 DEF MaySend, Active
        <5> QED
          BY <4>1, <4>5, <5>1, <5>2 DEF RunnersHoldTheirRuns, OneRunner
      <4> QED
        BY <3>1, <4>1, <4>3, <4>5
    <3> QED
      BY <3>2, <3>3
  <2>2. CASE Request
    <3>1. late' = late
      BY <2>2 DEF Request, StartRun, Resume, AddStep, Cancel, Pick, Ack, FanOut, history
    <3>2. \A u \in Tasks : task'[u] = task[u] \/ ~MaySend(task'[u])
      BY <2>2, RequestsOpenNoRow DEF MaySend
    <3>3. PICK q \in Runs : SpawnsOn(q) \/ MakesEmpty(q) \/ (Cancel(q) /\ UNCHANGED task)
      BY <2>2, RequestShape
    <3>4. run[r] = "cancelled" => run'[r] = "cancelled"
      BY <2>0, <3>3 DEF SpawnsOn, MakesEmpty, Cancel, Rests
    <3> QED
      BY <2>same, <3>1, <3>2, <3>4
  <2>3. CASE Restart
    <3>1. late' = late /\ \A u \in Tasks : ~MaySend(task'[u])
      BY <1>free, <2>3 DEF Restart, history, MaySend
    <3>2. run[r] = "cancelled" => run'[r] = "cancelled"
      BY <2>0, <2>3 DEF Restart
    <3> QED
      BY <2>same, <3>1, <3>2
  <2>4. CASE UNCHANGED vars
    BY <2>same, <2>4 DEF vars, ledger, history
  <2> QED
    BY <2>1, <2>2, <2>3, <2>4 DEF Next
<1>3. LateRunsAreStopped => OneCallAfterCancel
  BY DEF LateRunsAreStopped, OneCallAfterCancel
<1>4. Spec => []RunnersHoldTheirRuns
  <2>1. Spec => [](RunnersHoldTheirRuns /\ OneRunner)
    BY RunsHaveOneRunner
  <2> QED
    BY <2>1, PTL
<1> QED
  BY TypeCorrect, <1>1, <1>2, <1>3, <1>4, PTL DEF Spec
-----------------------------------------------------------------------------
(* What a run that waits for a person shows.                                 *)

\* A pending step that a person can answer.
IsCard(q) == q.state = "pending" /\ (q.stage = "gate" \/ q.cands)

\* A runner that is about to say that its run waits has its card on the ledger.
PausesShowCards ==
  \A t \in Tasks : task[t].pc = "pause" =>
    task[t].ix \in Ix /\ IsCard(row[task[t].run][task[t].ix])

\* What is left of a runner that has let its run go.
LEMMA GoneRunnersClose ==
  ASSUME NEW t \in Tasks, RunnerStep(t), ~Active(task[t])
  PROVE  UNCHANGED <<run, row, inputs, ack, late>> /\ Close(t)
<1>1. task[t].pc \in {"free", "close"}
  BY DEF Active
<1>2. ~(Start(t) \/ StartStep(t) \/ PlanStep(t) \/ PlanDone(t) \/ Acquire(t) \/ Open(t))
  BY <1>1 DEF Start, StartStep, PlanStep, PlanDone, Acquire, Open
<1>3. ~(Opened(t) \/ Drift(t) \/ Hold(t) \/ Boundary(t) \/ StepArgs(t) \/ Preview(t) \/ Begin(t))
  BY <1>1 DEF Opened, Drift, Hold, Boundary, StepArgs, Preview, Begin
<1>4. ~(Card(t) \/ Refuse(t) \/ Lock(t) \/ Send(t) \/ NotSpent(t) \/ Return(t))
  BY <1>1 DEF Card, Refuse, Lock, Send, NotSpent, Return
<1>5. ~(AfterStopped(t) \/ AfterFailure(t) \/ AfterWarmup(t) \/ AfterStep(t) \/ AfterAdHoc(t)
        \/ AfterSelect(t))
  BY <1>1 DEF AfterStopped, AfterFailure, AfterWarmup, AfterStep, AfterAdHoc, AfterSelect
<1>6. ~(Fail(t) \/ Pause(t) \/ Finish(t) \/ Rest(t) \/ Callback(t) \/ StepFail(t))
  BY <1>1 DEF Fail, Pause, Finish, Rest, Callback, StepFail
<1>7. Close(t)
  BY <1>2, <1>3, <1>4, <1>5, <1>6 DEF RunnerStep
<1> QED
  BY <1>7 DEF Close, ledger, history

LEMMA CardsShow ==
  ASSUME TypeOK, NEW t \in Tasks, RunnerStep(t), task'[t].pc = "pause"
  PROVE  /\ task'[t].run = task[t].run /\ task'[t].ix \in Ix
         /\ IsCard(row'[task'[t].run][task'[t].ix])
<1> DEFINE k == task[t]
<1>0. /\ TasksOK /\ k \in TaskRecords /\ k.run \in Runs
      /\ k.next \in {"card", "refuse", "lock", "spend"} /\ (AtAStep(k) => k.ix \in Ix)
  BY TaskFacts
<1>not. ASSUME NEW pc, Keeps(t, pc), pc # "pause" PROVE FALSE
  BY <1>not DEF Keeps
<1>1. ~Bookkeeping(t)
  BY BookkeepingIsAway DEF Away
<1>2. ~PlanStep(t)
  <2> SUFFICES ASSUME PlanStep(t) PROVE FALSE
    OBVIOUS
  <2> DEFINE new == [k EXCEPT !.ix = @ + 1]
  <2>1. new.pc = "plan"
    BY <1>0 DEF TaskRecords, PlanStep
  <2> HIDE DEF new
  <2>2. SetTask(t, new)
    BY DEF PlanStep, new
  <2> QED
    BY <1>0, <2>1, <2>2, SetTaskKeeps
<1>3. ~(Hold(t) \/ Lock(t) \/ Send(t) \/ Refuse(t) \/ AfterFailure(t))
  <2> SUFFICES ASSUME Hold(t) \/ Lock(t) \/ Send(t) \/ Refuse(t) \/ AfterFailure(t) PROVE FALSE
    OBVIOUS
  <2>1. \E pc \in {"close", "boundary", "spend", "calling", "fail"} : Go(t, pc)
    BY DEF Hold, Lock, Send, Refuse, AfterFailure
  <2> QED
    BY <1>0, <1>not, <2>1, GoKeeps
<1>4. ~(Boundary(t) \/ StepArgs(t) \/ Preview(t))
  <2> SUFFICES ASSUME Boundary(t) \/ StepArgs(t) \/ Preview(t) PROVE FALSE
    OBVIOUS
  <2>1. \/ \E pc \in {"close", "fail", "preview"} : Go(t, pc)
        \/ \E next \in {"card", "refuse"} : \E fp : BeginAs(t, next, fp)
        \/ \E fp : Call(t, fp)
    <3>1. CASE Boundary(t)
      BY <3>1 DEF Boundary
    <3>2. CASE StepArgs(t)
      BY <3>2 DEF StepArgs
    <3>3. CASE Preview(t)
      BY <3>3 DEF Preview
    <3> QED
      BY <3>1, <3>2, <3>3
  <2> QED
    BY <1>0, <1>not, <2>1, GoKeeps, BeginKeeps, CallKeeps
<1>5. ~(Begin(t) \/ NotSpent(t) \/ Return(t))
  BY <1>0, <1>not, BegunMoves, AnsweredMoves
<1>6. ~(AfterWarmup(t) \/ AfterStep(t) \/ AfterAdHoc(t))
  <2> SUFFICES ASSUME AfterWarmup(t) \/ AfterStep(t) \/ AfterAdHoc(t) PROVE FALSE
    OBVIOUS
  <2>1. Go(t, "rest") \/ NextStep(t) \/ \E v \in Values : NextStepWith(t, v)
    BY DEF AfterWarmup, AfterStep, AfterAdHoc
  <2> QED
    BY <1>0, <1>not, <2>1, GoKeeps, NextStepKeeps
<1>7. CASE Card(t)
  <2> DEFINE new == [row[k.run][k.ix] EXCEPT !.state = "pending", !.stage = "gate"]
  <2>1. k.pc = "card" /\ PutRow(k.run, k.ix, new) /\ Go(t, "pause") /\ k.ix \in Ix
    BY <1>0, <1>7 DEF Card, AtAStep, StepPCs
  <2>q. row[k.run][k.ix] \in Rows
    BY <1>0, <2>1, RowFacts
  <2>2. IsCard(new)
    BY <2>q DEF Rows, IsCard
  <2> HIDE DEF new
  <2>3. row'[k.run][k.ix] = new
    BY <1>0, <2>1, PutRowReads
  <2> QED
    BY <1>0, <2>1, <2>2, <2>3, GoMoves DEF Moved, Keeps
<1>8. CASE AfterSelect(t)
  <2> DEFINE new == [row[k.run][k.ix] EXCEPT !.state = "pending",
                                             !.stage = "select:ask", !.cands = TRUE]
  <2>1. k.pc = "after" /\ k.ix \in Ix
    BY <1>0, <1>8 DEF AfterSelect, AtAStep, StepPCs
  <2>q. row[k.run][k.ix] \in Rows
    BY <1>0, <2>1, RowFacts
  <2>2. IsCard(new)
    BY <2>q DEF Rows, IsCard
  <2> HIDE DEF new
  <2>3. PutRow(k.run, k.ix, new) /\ Go(t, "pause")
    <3>1. ~(NextStep(t) \/ \E v \in Values : NextStepWith(t, v)) /\ ~Go(t, "fail")
      BY <1>0, <1>not, NextStepKeeps, GoKeeps
    <3> QED
      BY <1>8, <3>1 DEF AfterSelect, new
  <2>4. row'[k.run][k.ix] = new
    BY <1>0, <2>1, <2>3, PutRowReads
  <2> QED
    BY <1>0, <2>1, <2>2, <2>3, <2>4, GoMoves DEF Moved, Keeps
<1> QED
  BY <1>1, <1>2, <1>3, <1>4, <1>5, <1>6, <1>7, <1>8 DEF RunnerStep, Bookkeeping

LEMMA OnlyAPauseWaits ==
  ASSUME TypeOK, NEW t \in Tasks, RunnerStep(t), NEW r \in Runs, run'[r] = "gated"
  PROVE  run[r] = "gated" \/ (Pause(t) /\ r = task[t].run)
<1>0. run \in [Runs -> RunStates] /\ task[t].run \in Runs
  BY TaskFacts DEF TypeOK
<1>1. ASSUME NEW s, s # "gated", NEW unless, SetRun(task[t].run, s, unless)
      PROVE  run[r] = "gated"
  BY <1>0, <1>1 DEF SetRun
<1>2. CASE UNCHANGED run
  BY <1>2
<1>3. CASE Pause(t)
  BY <1>0, <1>3 DEF Pause, SetRun
<1>4. CASE PlanDone(t) \/ Drift(t) \/ Hold(t) \/ Callback(t) \/ StepFail(t)
  BY <1>1, <1>4 DEF PlanDone, Drift, Hold, Callback, StepFail
<1>5. CASE Fail(t) \/ Finish(t) \/ Rest(t)
  BY <1>1, <1>5 DEF Fail, Finish, Rest
<1>6. CASE Start(t) \/ StartStep(t) \/ PlanStep(t) \/ Acquire(t) \/ Open(t) \/ Opened(t)
  BY <1>2, <1>6 DEF Start, StartStep, PlanStep, Acquire, Open, Opened, ledger
<1>7. CASE Boundary(t) \/ StepArgs(t) \/ Preview(t) \/ Begin(t) \/ Card(t) \/ Refuse(t)
  BY <1>2, <1>7 DEF Boundary, StepArgs, Preview, Begin, Card, Refuse, ledger
<1>8. CASE Lock(t) \/ Send(t) \/ NotSpent(t) \/ Return(t) \/ Close(t)
  BY <1>2, <1>8 DEF Lock, Send, NotSpent, Return, Close, ledger
<1>9. CASE AfterStopped(t) \/ AfterFailure(t) \/ AfterWarmup(t) \/ AfterStep(t)
           \/ AfterAdHoc(t) \/ AfterSelect(t)
  BY <1>2, <1>9 DEF AfterStopped, AfterFailure, AfterWarmup, AfterStep, AfterAdHoc,
                    AfterSelect, ledger
<1> QED
  BY <1>3, <1>4, <1>5, <1>6, <1>7, <1>8, <1>9 DEF RunnerStep

\* A runner writes the row it is at, and no other.
LEMMA RunnersWriteTheirRow ==
  ASSUME TypeOK, NEW t \in Tasks, RunnerStep(t)
  PROVE  \A r \in Runs, ix \in Ix :
           row'[r][ix] = row[r][ix] \/ (r = task[t].run /\ ix = task[t].ix)
<1>0. row \in [Runs -> [Ix -> Rows]]
  BY DEF TypeOK
<1>1. UNCHANGED row \/ \E new : PutRow(task[t].run, task[t].ix, new)
  <2>1. CASE Bookkeeping(t)
    BY <2>1, BookkeepingIsAway
  <2>2. CASE Hold(t) \/ Boundary(t) \/ StepArgs(t) \/ Preview(t) \/ Lock(t) \/ Send(t)
             \/ AfterFailure(t) \/ AfterWarmup(t) \/ AfterStep(t) \/ AfterAdHoc(t)
    BY <2>2 DEF Hold, Boundary, StepArgs, Preview, Lock, Send, AfterFailure, AfterWarmup,
                AfterStep, AfterAdHoc, ledger
  <2>3. CASE PlanStep(t) \/ Begin(t) \/ Card(t) \/ Refuse(t) \/ NotSpent(t) \/ Return(t)
             \/ AfterSelect(t)
    BY <2>3 DEF PlanStep, Begin, Card, Refuse, NotSpent, Return, AfterSelect, FinishStep
  <2> QED
    BY <2>1, <2>2, <2>3 DEF RunnerStep, Bookkeeping
<1> QED
  BY <1>0, <1>1 DEF PutRow

\* A request writes rows of the run it takes, and of no other.
LEMMA RequestsWriteRestingRuns ==
  ASSUME TypeOK, Request, NEW r \in Runs
  PROVE  \/ \A ix \in Ix : row'[r][ix] = row[r][ix]
         \/ Rests(r) /\ run'[r] = "running"
<1>1. UNCHANGED row \/ \E q \in Runs, x \in Ix : Pick(q, x)
  BY DEF Request, StartRun, Resume, AddStep, Cancel, Ack, FanOut, ledger
<1>2. ASSUME NEW q \in Runs, NEW x \in Ix, Pick(q, x), q # r
      PROVE  \A ix \in Ix : row'[r][ix] = row[r][ix]
  <2>1. FinishStep(q, x, "done") /\ row \in [Runs -> [Ix -> Rows]]
    BY <1>2 DEF Pick, TypeOK
  <2> QED
    BY <1>2, <2>1 DEF FinishStep, PutRow
<1>3. ASSUME NEW x \in Ix, Pick(r, x) PROVE Rests(r) /\ run'[r] = "running"
  BY <1>3 DEF Pick, Take, Rests, TypeOK
<1> QED
  BY <1>1, <1>2, <1>3

\* A run that waits for a person shows what it waits for: also after an answer, a
\* second pick, a cancel or a restart, no run waits without a card.
THEOREM WaitingRunsHaveCards ==
  ASSUME AdHocRuns \subseteq EmptyRuns
  PROVE  Spec => []WaitingRunHasACard
<1> DEFINE IInv == PausesShowCards /\ WaitingRunHasACard
<1>free. Free.pc = "free"
  BY DEF Free, Spawned
<1>1. Init => IInv
  BY <1>free DEF Init, PausesShowCards, WaitingRunHasACard
<1>2. TypeOK /\ RunnersHoldTheirRuns /\ IInv /\ [Next]_vars => IInv'
  <2> SUFFICES ASSUME TypeOK, RunnersHoldTheirRuns, PausesShowCards, WaitingRunHasACard, [Next]_vars
               PROVE  IInv'
    OBVIOUS
  <2> USE DEF IsCard
  <2>0. run \in [Runs -> RunStates] /\ \A t \in Tasks : task[t].run \in Runs
    BY TaskFacts DEF TypeOK
  <2>1. ASSUME NEW t \in Tasks, RunnerStep(t) PROVE IInv'
    <3> DEFINE R == task[t].run
    <3>0. R \in Runs /\ Untouched(t)
      BY <2>0, <2>1, RunnerShape DEF WorksOn, LetsGo, IsGone
    <3>1. \A r \in Runs \ {R}, ix \in Ix : row'[r][ix] = row[r][ix]
      BY <2>1, RunnersWriteTheirRow
    <3>2. Active(task[t]) \/ UNCHANGED row
      BY <2>1, GoneRunnersClose
    <3>3. ASSUME NEW u \in Tasks, task'[u].pc = "pause"
          PROVE  task'[u].ix \in Ix /\ IsCard(row'[task'[u].run][task'[u].ix])
      <4>1. CASE u = t
        BY <2>1, <3>3, <4>1, CardsShow
      <4>2. CASE u # t
        <5>1. task'[u] = task[u] /\ Active(task[u])
          BY <3>0, <3>3, <4>2 DEF Untouched, Active
        <5>2. UNCHANGED row \/ task[u].run # R
          BY <3>2, <4>2, <5>1 DEF RunnersHoldTheirRuns, OneRunner
        <5>3. task[u].ix \in Ix /\ IsCard(row[task[u].run][task[u].ix])
          BY <3>3, <5>1 DEF PausesShowCards
        <5> QED
          BY <2>0, <3>1, <5>1, <5>2, <5>3
      <4> QED
        BY <4>1, <4>2
    <3>4. ASSUME NEW r \in Runs, run'[r] = "gated"
          PROVE  \E ix \in Ix : IsCard(row'[r][ix])
      <4>1. CASE run[r] = "gated"
        <5>1. Holders(r) = {}
          BY <4>1, RestingRunIsFree DEF Rests
        <5>2. UNCHANGED row \/ r # R
          BY <3>2, <5>1 DEF Holders
        <5> QED
          BY <3>1, <4>1, <5>2 DEF WaitingRunHasACard
      <4>2. CASE Pause(t) /\ r = R
        <5>1. task[t].pc = "pause" /\ UNCHANGED row
          BY <4>2 DEF Pause
        <5> QED
          BY <4>2, <5>1 DEF PausesShowCards
      <4> QED
        BY <2>1, <3>4, <4>1, <4>2, OnlyAPauseWaits
    <3> QED
      BY <3>3, <3>4 DEF PausesShowCards, WaitingRunHasACard
  <2>2. CASE Request
    <3>1. ASSUME NEW u \in Tasks, task'[u].pc = "pause"
          PROVE  task'[u].ix \in Ix /\ IsCard(row'[task'[u].run][task'[u].ix])
      <4>1. task'[u] = task[u]
        BY <2>2, <3>1, RequestsOpenNoRow
      <4>2. ~Rests(task[u].run)
        BY <2>0, <3>1, <4>1, RestingRunIsFree DEF Holders, Active
      <4>3. \A ix \in Ix : row'[task[u].run][ix] = row[task[u].run][ix]
        BY <2>0, <2>2, <4>2, RequestsWriteRestingRuns
      <4> QED
        BY <3>1, <4>1, <4>3 DEF PausesShowCards
    <3>2. ASSUME NEW r \in Runs, run'[r] = "gated"
          PROVE  \E ix \in Ix : IsCard(row'[r][ix])
      <4>1. \A ix \in Ix : row'[r][ix] = row[r][ix]
        BY <2>2, <3>2, RequestsWriteRestingRuns
      <4>2. PICK q \in Runs : SpawnsOn(q) \/ MakesEmpty(q) \/ (Cancel(q) /\ UNCHANGED task)
        BY <2>2, RequestShape
      <4>3. run[r] = "gated"
        BY <2>0, <3>2, <4>2 DEF SpawnsOn, MakesEmpty, Cancel
      <4> QED
        BY <4>1, <4>3 DEF WaitingRunHasACard
    <3> QED
      BY <3>1, <3>2 DEF PausesShowCards, WaitingRunHasACard
  <2>3. CASE Restart
    <3>1. \A u \in Tasks : task'[u].pc = "free"
      BY <1>free, <2>3 DEF Restart
    <3>2. \A r \in Runs, ix \in Ix : row[r][ix].state = "pending" => row'[r][ix] = row[r][ix]
      BY <2>3 DEF Restart
    <3>3. \A r \in Runs : run'[r] = "gated" => run[r] = "gated"
      BY <2>3 DEF Restart
    <3> QED
      BY <3>1, <3>2, <3>3 DEF PausesShowCards, WaitingRunHasACard
  <2>4. CASE UNCHANGED vars
    BY <2>4 DEF vars, ledger, PausesShowCards, WaitingRunHasACard
  <2> QED
    BY <2>1, <2>2, <2>3, <2>4 DEF Next
<1>3. IInv => WaitingRunHasACard
  OBVIOUS
<1> HIDE DEF IInv
<1>4. Spec => []RunnersHoldTheirRuns
  <2>1. Spec => [](RunnersHoldTheirRuns /\ OneRunner)
    BY RunsHaveOneRunner
  <2> QED
    BY <2>1, PTL
<1> QED
  BY TypeCorrect, <1>1, <1>2, <1>3, <1>4, PTL DEF Spec
-----------------------------------------------------------------------------
(* What a step goes out with: the runner's copy of the carried value.        *)

\* The runner may still put its copy of the carried value into a call.
Carries(k) ==
  k.pc \in {"sem", "open", "opened", "hold", "boundary", "preview", "begin", "lock", "spend",
            "calling", "after"}

\* The copy is what the ledger has, and what a call is made with is the copy.
CarriesTheLedgers(t) ==
  LET k == task[t] IN
  /\ Carries(k) => k.scope = inputs[k.run]
  /\ (/\ k.pc \in {"lock", "spend"} \/ (k.pc = "begin" /\ k.next \in {"lock", "spend"})
      /\ k.ix \in PickUsers)
     => k.fp.arg = k.scope

\* A runner that goes to a place where it carries nothing any more, or that only
\* goes on.
LEMMA GoingOnCarries ==
  ASSUME TasksOK, NEW t \in Tasks, CarriesTheLedgers(t), NEW pc, Go(t, pc), UNCHANGED inputs,
         pc \in {"lock", "spend"} => task[t].pc \in {"lock", "spend"},
         pc # "begin",
         Carries(task'[t]) => Carries(task[t])
  PROVE  Untouched(t) /\ CarriesTheLedgers(t)'
<1>1. Moved(t, pc)
  BY GoMoves
<1> QED
  BY <1>1 DEF Moved, Keeps, CarriesTheLedgers, Carries

LEMMA BeginningCarries ==
  ASSUME TasksOK, NEW t \in Tasks, CarriesTheLedgers(t), Carries(task[t]), UNCHANGED inputs,
         NEW view, NEW fp, fp = Fingerprint(task[t].ix, task[t].scope, view),
         Call(t, fp)
  PROVE  Untouched(t) /\ CarriesTheLedgers(t)'
<1>1. task[t].ix \in PickUsers => fp.arg = task[t].scope
  BY DEF Fingerprint
<1>2. Called(t, fp)
  BY CallMoves
<1> QED
  BY <1>1, <1>2 DEF Called, Began, Keeps, CarriesTheLedgers, Carries

LEMMA RefusingCarries ==
  ASSUME TasksOK, NEW t \in Tasks, CarriesTheLedgers(t), Carries(task[t]), UNCHANGED inputs,
         NEW next \in {"card", "refuse"}, NEW fp, BeginAs(t, next, fp)
  PROVE  Untouched(t) /\ CarriesTheLedgers(t)'
<1>1. Began(t, next, fp)
  BY BeginMoves
<1> QED
  BY <1>1 DEF Began, Keeps, CarriesTheLedgers, Carries

\* A value is taken along by the runner and the ledger together, or by neither.
LEMMA AdvancingCarries ==
  ASSUME TypeOK, NEW t \in Tasks, CarriesTheLedgers(t), task[t].pc = "after",
         \/ NextStep(t) /\ UNCHANGED inputs
         \/ \E v \in Values : /\ inputs' = [inputs EXCEPT ![task[t].run] = v]
                              /\ NextStepWith(t, v)
  PROVE  Untouched(t) /\ CarriesTheLedgers(t)'
<1>0. TasksOK /\ task[t] \in TaskRecords /\ task[t].run \in Runs
      /\ inputs \in [Runs -> Values \cup {NoValue}]
  BY TaskFacts DEF TypeOK
<1>1. Keeps(t, "boundary")
  BY <1>0, NextStepKeeps
<1>2. CASE NextStep(t) /\ UNCHANGED inputs
  <2> DEFINE k == [task[t] EXCEPT !.pc = "boundary", !.ix = @ + 1]
  <2>1. k.scope = task[t].scope
    BY <1>0 DEF TaskRecords
  <2> HIDE DEF k
  <2>2. task'[t] = k
    BY <1>0, <1>2, SetTaskKeeps DEF NextStep, k
  <2> QED
    BY <1>1, <1>2, <2>1, <2>2 DEF Keeps, CarriesTheLedgers, Carries
<1>3. ASSUME NEW v \in Values, inputs' = [inputs EXCEPT ![task[t].run] = v], NextStepWith(t, v)
      PROVE  CarriesTheLedgers(t)'
  <2> DEFINE k == [task[t] EXCEPT !.pc = "boundary", !.ix = @ + 1, !.scope = v]
  <2>1. k.scope = v
    BY <1>0 DEF TaskRecords
  <2> HIDE DEF k
  <2>2. task'[t] = k
    BY <1>0, <1>3, SetTaskKeeps DEF NextStepWith, k
  <2>3. inputs'[task[t].run] = v
    BY <1>0, <1>3
  <2> QED
    BY <1>1, <2>1, <2>2, <2>3 DEF Keeps, CarriesTheLedgers, Carries
<1> QED
  BY <1>1, <1>2, <1>3 DEF Keeps

LEMMA RunnersCarryTheLedgers ==
  ASSUME SaveSteps = {}, TypeOK, NEW t \in Tasks, CarriesTheLedgers(t), RunnerStep(t)
  PROVE  /\ Untouched(t) /\ CarriesTheLedgers(t)'
         /\ UNCHANGED inputs \/ (Active(task[t]) /\ \E v : inputs' = [inputs EXCEPT ![task[t].run] = v])
<1> DEFINE k == task[t]
<1>0. TasksOK /\ k \in TaskRecords /\ Free.pc = "free"
  BY TaskFacts DEF Free, Spawned
<1>1. CASE Start(t)
  <2> DEFINE new == IF mode[k.run] = "plan"
                    THEN [k EXCEPT !.pc = "plan", !.scope = inputs[k.run], !.ix = 1]
                    ELSE [k EXCEPT !.pc = "sem", !.scope = inputs[k.run]]
  <2>1. new.pc \in {"plan", "sem"} /\ new.run = k.run /\ new.scope = inputs[k.run]
    BY <1>0 DEF TaskRecords
  <2> HIDE DEF new
  <2>2. SetTask(t, new) /\ UNCHANGED inputs
    BY <1>1 DEF Start, new, ledger
  <2> QED
    BY <1>0, <2>1, <2>2, SetTaskKeeps DEF CarriesTheLedgers
<1>2. CASE StartStep(t)
  <2> DEFINE new == [k EXCEPT !.pc = "sem", !.scope = inputs[k.run],
                              !.ix = Cardinality(RowsOf(k.run)) + 1]
  <2>1. new.pc = "sem" /\ new.run = k.run /\ new.scope = inputs[k.run]
    BY <1>0 DEF TaskRecords
  <2> HIDE DEF new
  <2>2. (Go(t, "stepfail") \/ SetTask(t, new)) /\ UNCHANGED inputs
    BY <1>2 DEF StartStep, new, ledger
  <2>3. CASE Go(t, "stepfail")
    BY <1>0, <2>2, <2>3, GoKeeps DEF Keeps, CarriesTheLedgers, Carries
  <2> QED
    BY <1>0, <2>1, <2>2, <2>3, SetTaskKeeps DEF CarriesTheLedgers
<1>3. CASE PlanStep(t)
  <2> DEFINE new == [k EXCEPT !.ix = @ + 1]
  <2>1. new.pc = "plan"
    BY <1>0, <1>3 DEF TaskRecords, PlanStep
  <2> HIDE DEF new
  <2>2. SetTask(t, new) /\ UNCHANGED inputs
    BY <1>3 DEF PlanStep, new
  <2> QED
    BY <1>0, <2>1, <2>2, SetTaskKeeps DEF CarriesTheLedgers, Carries
<1>4. CASE PlanDone(t) \/ Callback(t) \/ StepFail(t)
  <2>1. SetTask(t, Free) /\ UNCHANGED inputs
    BY <1>4 DEF PlanDone, Callback, StepFail
  <2> QED
    BY <1>0, <2>1, SetTaskKeeps DEF CarriesTheLedgers, Carries
<1>go. ASSUME NEW pc, Go(t, pc), UNCHANGED inputs, pc \notin {"sem", "boundary", "begin", "lock", "spend"},
              pc \in {"open", "opened", "hold", "preview", "calling", "after"} => Carries(k)
       PROVE  Untouched(t) /\ CarriesTheLedgers(t)'
  BY <1>0, <1>go, GoMoves DEF Moved, Keeps, CarriesTheLedgers, Carries
<1>5. CASE Acquire(t) \/ Opened(t) \/ Drift(t) \/ AfterStopped(t)
  <2>1. UNCHANGED inputs
    BY <1>5 DEF Acquire, Opened, Drift, AfterStopped, ledger
  <2>2. \/ Go(t, "stepfail") \/ Go(t, "callback") \/ Go(t, "close") \/ Go(t, "drift")
        \/ Carries(k) /\ (Go(t, "open") \/ Go(t, "hold"))
    BY <1>5 DEF Acquire, Opened, Drift, AfterStopped, Carries
  <2> QED
    BY <1>go, <2>1, <2>2
<1>6. CASE Open(t)
  <2>1. UNCHANGED inputs /\ Carries(k)
    BY <1>6 DEF Open, ledger, Carries
  <2>2. CASE Go(t, "opened")
    BY <1>go, <2>1, <2>2
  <2>3. ASSUME NEW how \in {"yes", "runner"},
               SetTask(t, [task[t] EXCEPT !.pc = "close", !.crashed = how])
        PROVE  Untouched(t) /\ CarriesTheLedgers(t)'
    <3> DEFINE new == [task[t] EXCEPT !.pc = "close", !.crashed = how]
    <3>1. new.pc = "close"
      BY <1>0 DEF TaskRecords
    <3> HIDE DEF new
    <3>2. SetTask(t, new)
      BY <2>3 DEF new
    <3> QED
      BY <1>0, <3>1, <3>2, SetTaskKeeps DEF CarriesTheLedgers, Carries
  <2> QED
    BY <1>6, <2>1, <2>2, <2>3 DEF Open
<1>7. CASE Fail(t) \/ Pause(t) \/ Finish(t) \/ Rest(t) \/ Card(t) \/ Refuse(t)
  <2>1. UNCHANGED inputs /\ (Go(t, "close") \/ Go(t, "pause") \/ Go(t, "fail"))
    BY <1>7 DEF Fail, Pause, Finish, Rest, Card, Refuse
  <2> QED
    BY <1>go, <2>1
<1>8. CASE Close(t)
  <2>1. UNCHANGED inputs /\ (SetTask(t, Free) \/ Go(t, "stepfail") \/ Go(t, "callback"))
    BY <1>8 DEF Close, ledger
  <2>2. CASE SetTask(t, Free)
    BY <1>0, <2>1, <2>2, SetTaskKeeps DEF CarriesTheLedgers, Carries
  <2> QED
    BY <1>go, <2>1, <2>2
<1>9. CASE Hold(t)
  <2>1. UNCHANGED inputs /\ Carries(k) /\ (Go(t, "close") \/ Go(t, "boundary"))
    BY <1>9 DEF Hold, Carries
  <2> QED
    BY <1>0, <1>go, <2>1, GoingOnCarries
<1>10. CASE Boundary(t) \/ StepArgs(t) \/ Preview(t)
  <2>1. UNCHANGED inputs /\ Carries(k)
    BY <1>10 DEF Boundary, StepArgs, Preview, ledger, Carries
  <2>2. \/ Go(t, "close") \/ Go(t, "fail") \/ Go(t, "preview")
        \/ \E next \in {"card", "refuse"} : \E fp : BeginAs(t, next, fp)
        \/ \E view : Call(t, Fingerprint(k.ix, k.scope, view))
    <3>1. CASE Boundary(t)
      BY <3>1 DEF Boundary
    <3>2. CASE StepArgs(t)
      BY <3>2 DEF StepArgs
    <3>3. CASE Preview(t)
      BY <3>3 DEF Preview
    <3> QED
      BY <1>10, <3>1, <3>2, <3>3
  <2>3. ASSUME NEW view, Call(t, Fingerprint(k.ix, k.scope, view))
        PROVE  Untouched(t) /\ CarriesTheLedgers(t)'
    BY <1>0, <2>1, <2>3, BeginningCarries
  <2> QED
    BY <1>0, <1>go, <2>1, <2>2, <2>3, RefusingCarries
<1>11. CASE Begin(t)
  <2>1. UNCHANGED inputs /\ k.pc = "begin"
    BY <1>11 DEF Begin
  <2>2. /\ Keeps(t, k.next) /\ task'[t].ix = k.ix /\ task'[t].scope = k.scope
        /\ task'[t].fp = k.fp
    BY <1>11, BegunMoves
  <2>3. k.next \in {"card", "refuse", "lock", "spend"}
    BY TaskFacts
  <2> QED
    BY <2>1, <2>2, <2>3 DEF Keeps, CarriesTheLedgers, Carries
<1>12. CASE Lock(t) \/ Send(t)
  <2>1. /\ UNCHANGED inputs /\ Carries(k)
        /\ (k.pc = "lock" /\ Go(t, "spend")) \/ Go(t, "calling")
    BY <1>12 DEF Lock, Send, ledger, Carries
  <2> QED
    BY <1>0, <1>go, <2>1, GoingOnCarries
<1>13. CASE NotSpent(t) \/ Return(t)
  <2>1. UNCHANGED inputs /\ Carries(k)
    BY <1>13 DEF NotSpent, Return, Carries
  <2>2. Keeps(t, "after") /\ task'[t].scope = k.scope
    BY <1>13, AnsweredMoves
  <2> QED
    BY <2>1, <2>2 DEF Keeps, CarriesTheLedgers, Carries
<1>14. CASE AfterFailure(t) \/ AfterWarmup(t) \/ AfterStep(t) \/ AfterAdHoc(t)
  <2>1. UNCHANGED inputs /\ k.pc = "after"
    BY <1>14 DEF AfterFailure, AfterWarmup, AfterStep, AfterAdHoc, ledger
  <2>2. Go(t, "fail") \/ Go(t, "rest") \/ NextStep(t)
    BY <1>14 DEF AfterFailure, AfterWarmup, AfterStep, AfterAdHoc
  <2> QED
    BY <1>go, <2>1, <2>2, AdvancingCarries
<1>15. CASE AfterSelect(t)
  <2>1. k.pc = "after" /\ Active(k)
    BY <1>15 DEF AfterSelect, Active
  <2>2. \/ UNCHANGED inputs /\ (Go(t, "pause") \/ Go(t, "fail") \/ NextStep(t))
        \/ \E v \in Values : inputs' = [inputs EXCEPT ![k.run] = v] /\ NextStepWith(t, v)
    BY <1>15 DEF AfterSelect
  <2> QED
    BY <1>go, <2>1, <2>2, AdvancingCarries
<1> QED
  BY <1>1, <1>2, <1>3, <1>4, <1>5, <1>6, <1>7, <1>8, <1>9, <1>10, <1>11, <1>12, <1>13, <1>14,
     <1>15 DEF RunnerStep

\* What a step goes out with is what the ledger says was picked: nobody changes
\* it under a runner.  (A value of a `save` step may be too long for the ledger,
\* so the theorem is about procedures without one.)
THEOREM CallsGoOutAsRecorded ==
  ASSUME AdHocRuns \subseteq EmptyRuns, SaveSteps = {}
  PROVE  Spec => CallsMatchTheLedger
<1> DEFINE IInv == \A t \in Tasks : CarriesTheLedgers(t)
<1>free. Free.pc = "free"
  BY DEF Free, Spawned
<1>1. Init => IInv
  BY <1>free DEF Init, CarriesTheLedgers, Carries
<1>2. TypeOK /\ RunnersHoldTheirRuns /\ IInv /\ [Next]_vars => IInv'
  <2> SUFFICES ASSUME TypeOK, RunnersHoldTheirRuns, IInv, [Next]_vars, NEW u \in Tasks
               PROVE  CarriesTheLedgers(u)'
    OBVIOUS
  <2>0. /\ \A t \in Tasks : task[t].run \in Runs /\ CarriesTheLedgers(t)
        /\ inputs \in [Runs -> Values \cup {NoValue}]
    BY TaskFacts DEF TypeOK
  <2>same. ASSUME task'[u] = task[u], Carries(task[u]) => inputs'[task[u].run] = inputs[task[u].run]
           PROVE  CarriesTheLedgers(u)'
    BY <2>0, <2>same DEF CarriesTheLedgers, Carries
  <2>1. ASSUME NEW t \in Tasks, RunnerStep(t) PROVE CarriesTheLedgers(u)'
    <3>1. /\ Untouched(t) /\ CarriesTheLedgers(t)'
          /\ \/ UNCHANGED inputs
             \/ Active(task[t]) /\ \E v : inputs' = [inputs EXCEPT ![task[t].run] = v]
      BY <2>0, <2>1, RunnersCarryTheLedgers
    <3>2. ASSUME u # t, Carries(task[u]) PROVE inputs'[task[u].run] = inputs[task[u].run]
      <4>1. Active(task[t]) => task[u].run # task[t].run
        BY <3>2 DEF Carries, Active, RunnersHoldTheirRuns, OneRunner
      <4> QED
        BY <2>0, <3>1, <4>1
    <3> QED
      BY <2>same, <3>1, <3>2 DEF Untouched
  <2>2. CASE Request
    <3>1. task'[u] = task[u] \/ task'[u].pc = "start"
      BY <2>2, RequestsOpenNoRow
    <3>2. ASSUME Carries(task[u]) PROVE inputs'[task[u].run] = inputs[task[u].run]
      <4>1. Holders(task[u].run) # {}
        BY <3>2 DEF Carries, Active, Holders
      <4>2. ~Rests(task[u].run)
        BY <2>0, <4>1, RestingRunIsFree
      <4>3. UNCHANGED inputs \/ \E r \in Runs, ix \in Ix : Pick(r, ix) \/ \E c \in Runs : FanOut(r, ix, c)
        BY <2>2 DEF Request, StartRun, Resume, AddStep, Cancel, Ack, ledger
      <4>4. ASSUME NEW r \in Runs, NEW ix \in Ix, Pick(r, ix)
            PROVE  r # task[u].run /\ \E v : inputs' = [inputs EXCEPT ![r] = v]
        BY <4>2, <4>4 DEF Pick, Take, Rests
      <4>5. ASSUME NEW r \in Runs, NEW ix \in Ix, NEW c \in Runs, FanOut(r, ix, c)
            PROVE  c # task[u].run /\ \E v : inputs' = [inputs EXCEPT ![c] = v]
        BY <4>2, <4>5 DEF FanOut, Rests
      <4> QED
        BY <2>0, <4>3, <4>4, <4>5
    <3>3. CASE task'[u].pc = "start"
      BY <3>3 DEF CarriesTheLedgers, Carries
    <3> QED
      BY <2>same, <3>1, <3>2, <3>3
  <2>3. CASE Restart
    <3>1. task'[u].pc = "free"
      BY <1>free, <2>3 DEF Restart
    <3> QED
      BY <3>1 DEF CarriesTheLedgers, Carries
  <2>4. CASE UNCHANGED vars
    BY <2>same, <2>4 DEF vars, ledger
  <2> QED
    BY <2>1, <2>2, <2>3, <2>4 DEF Next
<1>3. IInv => \A t \in Tasks : (Sends(t) /\ task[t].ix \in PickUsers)
                                 => task[t].fp.arg = inputs[task[t].run]
  BY DEF Sends, CarriesTheLedgers, Carries
<1> HIDE DEF IInv
<1>4. Spec => []RunnersHoldTheirRuns
  <2>1. Spec => [](RunnersHoldTheirRuns /\ OneRunner)
    BY RunsHaveOneRunner
  <2> QED
    BY <2>1, PTL
<1>5. Spec => []IInv
  BY TypeCorrect, <1>1, <1>2, <1>4, PTL DEF Spec
<1>6. IInv /\ [Next]_vars =>
        [\A t \in Tasks : (Sends(t) /\ task[t].ix \in PickUsers)
                            => task[t].fp.arg = inputs[task[t].run]]_vars
  BY <1>3
<1> QED
  BY <1>5, <1>6, PTL DEF Spec, CallsMatchTheLedger
-----------------------------------------------------------------------------
(* The numbers of the steps that are added to an empty run.                  *)

\* A task keeps its run and what it was spawned for until it is let go.
LEMMA TasksKeepTheirRun ==
  ASSUME TypeOK, NEW t \in Tasks, RunnerStep(t)
  PROVE  task'[t] = Free \/ (task'[t].run = task[t].run /\ task'[t].via = task[t].via)
<1> DEFINE k == task[t]
           Kept == task'[t].run = k.run /\ task'[t].via = k.via
<1>0. TasksOK /\ k \in TaskRecords
  BY TaskFacts
<1>1. CASE Bookkeeping(t)
  BY <1>1, BookkeepingIsAway
<1>2. CASE PlanStep(t)
  <2> DEFINE new == [k EXCEPT !.ix = @ + 1]
  <2>1. new.run = k.run /\ new.via = k.via
    BY <1>0 DEF TaskRecords
  <2> HIDE DEF new
  <2>2. SetTask(t, new)
    BY <1>2 DEF PlanStep, new
  <2> QED
    BY <1>0, <2>1, <2>2, SetTaskKeeps
<1>3. CASE Hold(t) \/ Card(t) \/ Refuse(t) \/ Lock(t) \/ Send(t) \/ AfterFailure(t)
  <2>1. \E pc : Go(t, pc)
    BY <1>3 DEF Hold, Card, Refuse, Lock, Send, AfterFailure
  <2> QED
    BY <1>0, <2>1, GoKeeps DEF Keeps
<1>4. CASE Boundary(t) \/ StepArgs(t) \/ Preview(t)
  <2>1. (\E pc : Go(t, pc)) \/ (\E next, fp : BeginAs(t, next, fp)) \/ (\E fp : Call(t, fp))
    <3>1. CASE Boundary(t)
      BY <3>1 DEF Boundary
    <3>2. CASE StepArgs(t)
      BY <3>2 DEF StepArgs
    <3>3. CASE Preview(t)
      BY <3>3 DEF Preview
    <3> QED
      BY <1>4, <3>1, <3>2, <3>3
  <2> QED
    BY <1>0, <2>1, GoKeeps, BeginKeeps, CallKeeps DEF Keeps
<1>5. CASE Begin(t) \/ NotSpent(t) \/ Return(t)
  BY <1>5, BegunMoves, AnsweredMoves DEF Keeps
<1>6. CASE AfterWarmup(t) \/ AfterStep(t) \/ AfterAdHoc(t) \/ AfterSelect(t)
  <2>1. (\E pc : Go(t, pc)) \/ NextStep(t) \/ \E v \in Values : NextStepWith(t, v)
    BY <1>6 DEF AfterWarmup, AfterStep, AfterAdHoc, AfterSelect
  <2> QED
    BY <1>0, <2>1, GoKeeps, NextStepKeeps DEF Keeps
<1> QED
  BY <1>1, <1>2, <1>3, <1>4, <1>5, <1>6 DEF RunnerStep, Bookkeeping

\* The rows of a run are numbered from one on, without a gap.
InOrder(r) == \E m \in 0 .. N : RowsOf(r) = 1 .. m

\* A step that is added has the next number until begin_step, and a row from then on.
IsNext(t) ==
  LET k == task[t] IN
  /\ k.pc \notin {"plan", "preview"}
  /\ k.pc \in {"sem", "open", "opened", "hold", "boundary", "begin"} => RowsOf(k.run) = 1 .. k.ix - 1
  /\ AtItsRow(k) => row[k.run][k.ix].state # "none"

\* Steps are added to empty runs, which nothing else works on.
AddedStepsAreNext ==
  /\ \A t \in Tasks : task[t].via = "step" => IsNext(t)
  /\ \A t \in Tasks : (Active(task[t]) /\ task[t].via # "step") => task[t].run \notin EmptyRuns
  /\ \A r \in EmptyRuns : InOrder(r)

LEMMA SameRows ==
  ASSUME NEW r, \A ix \in Ix : row'[r][ix].state = "none" <=> row[r][ix].state = "none"
  PROVE  RowsOf(r)' = RowsOf(r)
BY DEF RowsOf

\* The number that step_once takes.
LEMMA NextNumber ==
  ASSUME NEW r, NEW m \in 0 .. N, RowsOf(r) = 1 .. m
  PROVE  Cardinality(RowsOf(r)) = m
<1>1. m \in Nat /\ 1 \in Int
  BY SizeAssumption
<1>2. Cardinality(1 .. m) = IF 1 > m THEN 0 ELSE m - 1 + 1
  BY <1>1, FS_Interval
<1> QED
  BY <1>1, <1>2

LEMMA OneMore ==
  ASSUME NEW n \in Ix
  PROVE  (1 .. n - 1) \cup {n} = 1 .. n
BY SizeAssumption DEF Ix

LEMMA AddedStepsStayNext ==
  ASSUME TypeOK, NEW t \in Tasks, NEW r \in Runs, task[t].run = r,
         CallsWithARow(task[t]), RunnerStep(t), task[t].via = "step", IsNext(t), InOrder(r)
  PROVE  InOrder(r)' /\ (task'[t].via = "step" => IsNext(t)')
<1> DEFINE k == task[t]
           Early == {"sem", "open", "opened", "hold", "boundary", "begin"}
<1>0. /\ TasksOK /\ k \in TaskRecords /\ k.run = r
      /\ k.next \in {"card", "refuse", "lock", "spend"} /\ (AtAStep(k) => k.ix \in Ix)
      /\ Free.via = "run"
  BY TaskFacts DEF Free, Spawned
<1>ix. k.ix \in Ix /\ k.pc \notin {"plan", "preview"}
  BY <1>0 DEF AtAStep, IsNext
<1>rows. row \in [Runs -> [Ix -> Rows]]
  BY DEF TypeOK
<1>quiet. ASSUME UNCHANGED row, task'[t].run = r, task'[t].pc \notin {"plan", "preview"},
                 task'[t].pc \in Early => k.pc \in Early /\ task'[t].ix = k.ix,
                 AtItsRow(task'[t]) => AtItsRow(k) /\ task'[t].ix = k.ix
          PROVE  InOrder(r)' /\ IsNext(t)'
  <2>1. RowsOf(r)' = RowsOf(r)
    BY <1>quiet DEF RowsOf
  <2> QED
    BY <1>quiet, <2>1 DEF InOrder, IsNext
<1>writes. ASSUME AtItsRow(k) \/ row[r][k.ix].state # "none", task'[t].run = r,
                  NEW states, "none" \notin states, Writes(k, states),
                  task'[t].pc \in {"after", "pause", "fail"}
           PROVE  InOrder(r)' /\ IsNext(t)'
  <2>1. row[r][k.ix].state # "none"
    BY <1>writes DEF IsNext
  <2>2. RowsOf(r)' = RowsOf(r)
    BY <1>0, <1>writes, <2>1, SameRows DEF Writes
  <2> QED
    BY <1>writes, <2>2 DEF InOrder, IsNext, AtItsRow
<1>1. CASE StartStep(t)
  <2> DEFINE new == [k EXCEPT !.pc = "sem", !.scope = inputs[r], !.ix = Cardinality(RowsOf(r)) + 1]
  <2>1. new.pc = "sem" /\ new.run = r /\ new.ix = Cardinality(RowsOf(r)) + 1
    BY <1>0 DEF TaskRecords
  <2> HIDE DEF new
  <2>2. UNCHANGED row /\ (Go(t, "stepfail") \/ SetTask(t, new))
    BY <1>1 DEF StartStep, new, ledger
  <2>3. CASE Go(t, "stepfail")
    BY <1>0, <1>quiet, <2>2, <2>3, GoMoves DEF Moved, Keeps, AtItsRow
  <2>4. CASE SetTask(t, new)
    <3>1. task'[t] = new
      BY <1>0, <2>4, SetTaskKeeps
    <3>2. RowsOf(r)' = RowsOf(r)
      BY <2>2 DEF RowsOf
    <3>3. PICK m \in 0 .. N : RowsOf(r) = 1 .. m
      BY DEF InOrder
    <3>4. Cardinality(RowsOf(r)) = m
      BY <3>3, NextNumber
    <3>5. RowsOf(r) = 1 .. new.ix - 1
      BY <2>1, <3>3, <3>4, SizeAssumption
    <3> QED
      BY <2>1, <3>1, <3>2, <3>3, <3>5 DEF InOrder, IsNext, AtItsRow
  <2> QED
    BY <2>2, <2>3, <2>4
<1>2. CASE Acquire(t) \/ Opened(t) \/ Drift(t) \/ AfterStopped(t) \/ Fail(t) \/ Pause(t)
           \/ Finish(t) \/ Rest(t) \/ AfterFailure(t) \/ Lock(t) \/ Send(t)
  <2>1. UNCHANGED row
    BY <1>2 DEF Acquire, Opened, Drift, AfterStopped, Fail, Pause, Finish, Rest, AfterFailure,
                Lock, Send, ledger
  <2>2. \/ \E pc \in {"close", "callback", "stepfail", "drift", "fail"} : Go(t, pc)
        \/ k.pc \in Early /\ \E pc \in {"open", "hold"} : Go(t, pc)
        \/ k.pc = "lock" /\ Go(t, "spend")
        \/ k.pc = "spend" /\ Go(t, "calling")
    BY <1>2 DEF Acquire, Opened, Drift, AfterStopped, Fail, Pause, Finish, Rest, AfterFailure,
                Lock, Send
  <2>3. PICK pc : /\ Go(t, pc) /\ pc \notin {"plan", "preview"}
                  /\ pc \in Early => k.pc \in Early
                  /\ pc \in {"card", "refuse", "lock", "spend", "calling"} =>
                       k.pc \in {"lock", "spend"}
    BY <2>2
  <2>4. /\ task'[t].pc = pc /\ task'[t].run = r /\ task'[t].ix = k.ix /\ task'[t].via = k.via
    BY <1>0, <2>3, GoMoves DEF Moved, Keeps
  <2>5. AtItsRow(task'[t]) => AtItsRow(k)
    BY <2>3, <2>4 DEF AtItsRow, Warm
  <2> QED
    BY <1>quiet, <2>1, <2>3, <2>4, <2>5
<1>3. CASE Open(t)
  <2>1. UNCHANGED row /\ k.pc = "open"
    BY <1>3 DEF Open, ledger
  <2>2. CASE Go(t, "opened")
    BY <1>0, <1>quiet, <2>1, <2>2, GoMoves DEF Moved, Keeps, AtItsRow
  <2>3. ASSUME NEW how \in {"yes", "runner"},
               SetTask(t, [task[t] EXCEPT !.pc = "close", !.crashed = how])
        PROVE  InOrder(r)' /\ IsNext(t)'
    <3> DEFINE new == [task[t] EXCEPT !.pc = "close", !.crashed = how]
    <3>1. new.pc = "close" /\ new.run = r
      BY <1>0 DEF TaskRecords
    <3> HIDE DEF new
    <3>2. task'[t] = new
      BY <1>0, <2>3, SetTaskKeeps DEF new
    <3> QED
      BY <1>quiet, <2>1, <3>1, <3>2 DEF AtItsRow
  <2> QED
    BY <1>3, <2>1, <2>2, <2>3 DEF Open
<1>4. CASE Callback(t) \/ StepFail(t) \/ Close(t)
  <2>1. UNCHANGED row
    BY <1>4 DEF Callback, StepFail, Close, ledger
  <2>2. SetTask(t, Free) \/ \E pc \in {"stepfail", "callback"} : Go(t, pc)
    BY <1>4 DEF Callback, StepFail, Close
  <2>3. CASE SetTask(t, Free)
    <3>1. task'[t].via = "run"
      BY <1>0, <2>3, SetTaskKeeps
    <3>2. RowsOf(r)' = RowsOf(r)
      BY <2>1 DEF RowsOf
    <3> QED
      BY <3>1, <3>2 DEF InOrder
  <2>4. ASSUME NEW pc \in {"stepfail", "callback"}, Go(t, pc) PROVE InOrder(r)' /\ IsNext(t)'
    BY <1>0, <1>quiet, <2>1, <2>4, GoMoves DEF Moved, Keeps, AtItsRow
  <2> QED
    BY <2>2, <2>3, <2>4
<1>5. CASE Hold(t)
  <2>1. UNCHANGED row /\ k.pc = "hold" /\ (Go(t, "close") \/ Go(t, "boundary"))
    BY <1>5 DEF Hold
  <2> QED
    BY <1>0, <1>quiet, <2>1, GoMoves DEF Moved, Keeps, AtItsRow
<1>6. CASE StepArgs(t)
  <2>1. UNCHANGED row /\ k.pc = "boundary" /\ \E fp : BeginAs(t, "refuse", fp) \/ Call(t, fp)
    BY <1>6 DEF StepArgs, ledger
  <2>2. PICK fp : BeginAs(t, "refuse", fp) \/ Call(t, fp)
    BY <2>1
  <2>3. ~Warm(k)
    BY DEF Warm
  <2>4. task'[t].run = r /\ task'[t].ix = k.ix /\ task'[t].pc = "begin"
    BY <1>0, <2>2, <2>3, BeginMoves, CallMoves DEF Called, Began, Keeps
  <2> QED
    BY <1>quiet, <2>1, <2>4 DEF AtItsRow
<1>7. CASE Begin(t)
  <2> DEFINE new == [NoRow EXCEPT !.state = "running", !.fp = k.fp]
  <2>1. k.pc = "begin" /\ PutRow(r, k.ix, new) /\ RowsOf(r) = 1 .. k.ix - 1
    BY <1>7 DEF Begin, IsNext
  <2>2. new.state = "running"
    BY DEF NoRow
  <2> HIDE DEF new
  <2>3. \A ix \in Ix : row'[r][ix] = IF ix = k.ix THEN new ELSE row[r][ix]
    BY <1>0, <1>ix, <2>1, PutRowReads
  <2>4. RowsOf(r)' = RowsOf(r) \cup {k.ix}
    BY <1>ix, <2>2, <2>3 DEF RowsOf
  <2>5. RowsOf(r)' = 1 .. k.ix
    BY <1>ix, <2>1, <2>4, OneMore
  <2>6. k.ix \in 0 .. N
    BY <1>ix, SizeAssumption DEF Ix
  <2>7. Keeps(t, k.next) /\ task'[t].ix = k.ix
    BY <1>7, BegunMoves
  <2> QED
    BY <1>0, <1>ix, <2>2, <2>3, <2>5, <2>6, <2>7 DEF Keeps, InOrder, IsNext
<1>8. CASE Card(t)
  <2> DEFINE new == [row[r][k.ix] EXCEPT !.state = "pending", !.stage = "gate"]
  <2>1. k.pc = "card" /\ PutRow(r, k.ix, new) /\ Go(t, "pause")
    BY <1>8 DEF Card
  <2>2. row[r][k.ix] \in Rows
    BY <1>0, <1>ix, RowFacts
  <2>3. new.state = "pending"
    BY <2>2 DEF Rows
  <2> HIDE DEF new
  <2>4. Writes(k, {"pending"}) /\ AtItsRow(k)
    BY <1>0, <1>ix, <2>1, <2>3, PutRowReads DEF Writes, AtItsRow
  <2>5. task'[t].pc = "pause" /\ task'[t].run = r
    BY <1>0, <2>1, GoKeeps DEF Keeps
  <2> QED
    BY <1>writes, <2>4, <2>5
<1>9. CASE Refuse(t)
  <2>1. k.pc = "refuse" /\ FinishStep(r, k.ix, "failed") /\ Go(t, "fail")
    BY <1>9 DEF Refuse
  <2>2. Writes(k, {"failed"}) /\ AtItsRow(k)
    BY <1>ix, <2>1, FinishWrites DEF AtItsRow
  <2>3. task'[t].pc = "fail" /\ task'[t].run = r
    BY <1>0, <2>1, GoKeeps DEF Keeps
  <2> QED
    BY <1>writes, <2>2, <2>3
<1>10. CASE NotSpent(t) \/ Return(t)
  <2>1. ~Warm(k)
    BY DEF Warm
  <2>2. PICK s \in {"done", "failed", "unknown"} : FinishStep(r, k.ix, s)
    BY <1>10, <2>1 DEF NotSpent, Return
  <2>3. Writes(k, {s}) /\ AtItsRow(k)
    BY <1>ix, <1>10, <2>1, <2>2, FinishWrites DEF AtItsRow, NotSpent, Return
  <2>4. task'[t].pc = "after" /\ task'[t].run = r
    BY <1>10, AnsweredMoves DEF Keeps
  <2> QED
    BY <1>writes, <2>2, <2>3, <2>4
<1>11. CASE AfterAdHoc(t)
  <2>1. UNCHANGED row /\ Go(t, "rest")
    BY <1>11 DEF AfterAdHoc
  <2> QED
    BY <1>0, <1>quiet, <2>1, GoMoves DEF Moved, Keeps, AtItsRow
<1>12. ~(Start(t) \/ PlanStep(t) \/ PlanDone(t) \/ Boundary(t) \/ Preview(t)
         \/ AfterWarmup(t) \/ AfterStep(t) \/ AfterSelect(t))
  BY <1>ix DEF Start, PlanStep, PlanDone, Boundary, Preview, AfterWarmup, AfterStep, AfterSelect,
               Warm
<1> QED
  BY <1>1, <1>2, <1>3, <1>4, <1>5, <1>6, <1>7, <1>8, <1>9, <1>10, <1>11, <1>12 DEF RunnerStep
LEMMA NextAsBefore ==
  ASSUME NEW u \in Tasks, NEW r, task[u].run = r, task[u].ix \in Ix,
         task'[u] = task[u], \A ix \in Ix : row'[r][ix] = row[r][ix], IsNext(u)
  PROVE  IsNext(u)'
<1>1. RowsOf(r)' = RowsOf(r)
  BY SameRows
<1> QED
  BY <1>1 DEF IsNext, AtItsRow

LEMMA InOrderAsBefore ==
  ASSUME NEW r, \A ix \in Ix : row'[r][ix] = row[r][ix], InOrder(r)
  PROVE  InOrder(r)'
BY SameRows DEF InOrder

LEMMA RequestsAddNext ==
  ASSUME AdHocRuns \subseteq EmptyRuns, TypeOK, RunnersHoldTheirRuns, AddedStepsAreNext, Request
  PROVE  AddedStepsAreNext'
<1>0. \A t \in Tasks : task[t].via = "step" =>
         task[t].run \in EmptyRuns /\ (AtAStep(task[t]) => task[t].ix \in Ix)
  BY TaskFacts DEF RunnersHoldTheirRuns, TaskForm
<1>1. UNCHANGED row \/ \E q \in Runs \ EmptyRuns, x \in Ix : FinishStep(q, x, "done")
  BY DEF Request, StartRun, Resume, AddStep, Cancel, Pick, Ack, FanOut, ledger
<1>2. \A r \in EmptyRuns, ix \in Ix : row'[r][ix] = row[r][ix]
  <2>1. ASSUME NEW q \in Runs \ EmptyRuns, NEW x \in Ix, FinishStep(q, x, "done")
        PROVE  \A r \in EmptyRuns, ix \in Ix : row'[r][ix] = row[r][ix]
    <3>1. row \in [Runs -> [Ix -> Rows]] /\ EmptyRuns \subseteq Runs
      BY RunAssumption DEF TypeOK
    <3> QED
      BY <2>1, <3>1 DEF FinishStep, PutRow
  <2> QED
    BY <1>1, <2>1
<1>3. UNCHANGED task \/ \E r \in Runs : \E ix, via : Spawn(r, ix, via) /\ (via # "step" => r \notin EmptyRuns)
  BY DEF Request, StartRun, Resume, AddStep, Cancel, Pick, Ack, FanOut
<1>4. \A t \in Tasks : \/ task'[t] = task[t]
                       \/ task'[t].pc = "start" /\ (task'[t].via # "step" => task'[t].run \notin EmptyRuns)
  <2>1. ASSUME NEW r \in Runs, NEW ix, NEW via, Spawn(r, ix, via), via # "step" => r \notin EmptyRuns,
               NEW t \in Tasks
        PROVE  \/ task'[t] = task[t]
               \/ task'[t].pc = "start" /\ (task'[t].via # "step" => task'[t].run \notin EmptyRuns)
    <3>1. PICK u \in Tasks : task[u].pc = "free" /\ SetTask(u, Spawned(r, ix, via))
      BY <2>1 DEF Spawn
    <3>2. Untouched(u) /\ task'[u].pc = "start" /\ task'[u].via = via /\ task'[u].run = r
      BY <3>1, SetTaskKeeps DEF TypeOK, Spawned
    <3> QED
      BY <2>1, <3>2 DEF Untouched
  <2> QED
    BY <1>3, <2>1
<1>5. ASSUME NEW u \in Tasks, task'[u].via = "step" PROVE IsNext(u)'
  <2>1. CASE task'[u] = task[u]
    BY <1>0, <1>2, <1>5, <2>1, NextAsBefore DEF AddedStepsAreNext, IsNext, AtAStep
  <2>2. CASE task'[u].pc = "start"
    BY <2>2 DEF IsNext, AtItsRow
  <2> QED
    BY <1>4, <2>1, <2>2
<1>6. \A u \in Tasks : (Active(task'[u]) /\ task'[u].via # "step") => task'[u].run \notin EmptyRuns
  BY <1>4 DEF AddedStepsAreNext
<1>7. \A r \in EmptyRuns : InOrder(r)'
  BY <1>2, InOrderAsBefore DEF AddedStepsAreNext
<1> QED
  BY <1>5, <1>6, <1>7 DEF AddedStepsAreNext

LEMMA RunnersAddNext ==
  ASSUME AdHocRuns \subseteq EmptyRuns, TypeOK, RunnersHoldTheirRuns, AddedStepsAreNext,
         NEW t \in Tasks, RunnerStep(t)
  PROVE  AddedStepsAreNext'
<1> DEFINE R == task[t].run
<1>0. /\ Untouched(t) /\ (Active(task'[t]) => Active(task[t]) /\ task'[t].run = R)
      /\ \A u \in Tasks : task[u].via = "step" =>
           task[u].run \in EmptyRuns /\ (AtAStep(task[u]) => task[u].ix \in Ix)
      /\ \A u \in Tasks : task[u].run \in Runs
      /\ \A r \in Runs \ {R}, ix \in Ix : row'[r][ix] = row[r][ix]
      /\ EmptyRuns \subseteq Runs
  BY RunnerShape, RunnersWriteTheirRow, TaskFacts, RunAssumption
  DEF RunnersHoldTheirRuns, TaskForm, WorksOn, LetsGo, IsGone
<1>1. Active(task[t]) \/ UNCHANGED row
  BY GoneRunnersClose
<1>2. CASE task[t].via = "step"
  <2>1. ~Warm(task[t])
    BY <1>2 DEF Warm
  <2>2. InOrder(R)
    BY <1>0, <1>2 DEF AddedStepsAreNext
  <2>3. \A r : r = R => InOrder(r)'
    BY <1>0, <1>2, <2>1, <2>2, AddedStepsStayNext DEF CallsWithARow, AddedStepsAreNext
  <2>4. task'[t].via = "step" => IsNext(t)'
    BY <1>0, <1>2, <2>1, <2>2, AddedStepsStayNext DEF CallsWithARow, AddedStepsAreNext
  <2>5. ASSUME NEW u \in Tasks, task'[u].via = "step" PROVE IsNext(u)'
    <3>1. CASE u # t /\ Active(task[u]) /\ Active(task[t])
      <4>1. task[u].run # R
        BY <3>1 DEF RunnersHoldTheirRuns, OneRunner
      <4> QED
        BY <1>0, <2>5, <3>1, <4>1, NextAsBefore DEF Untouched, AddedStepsAreNext, IsNext, AtAStep
    <3>2. CASE u # t /\ ~Active(task[t])
      BY <1>0, <1>1, <2>5, <3>2, NextAsBefore DEF Untouched, AddedStepsAreNext, IsNext, AtAStep
    <3>3. CASE u # t /\ ~Active(task[u])
      <4>1. task'[u].pc \in {"free", "close"}
        BY <1>0, <3>3 DEF Untouched, Active
      <4> QED
        BY <4>1 DEF IsNext, AtItsRow
    <3> QED
      BY <2>4, <2>5, <3>1, <3>2, <3>3
  <2>6. ASSUME NEW u \in Tasks, Active(task'[u]), task'[u].via # "step"
        PROVE  task'[u].run \notin EmptyRuns
    <3>1. u # t
      BY <1>0, <1>2, <2>6, TasksKeepTheirRun DEF Active, Free, Spawned
    <3> QED
      BY <1>0, <2>6, <3>1 DEF Untouched, AddedStepsAreNext
  <2>7. \A r \in EmptyRuns : InOrder(r)'
    BY <1>0, <2>3, InOrderAsBefore DEF AddedStepsAreNext
  <2> QED
    BY <2>5, <2>6, <2>7 DEF AddedStepsAreNext
<1>3. CASE task[t].via # "step"
  <2>1. \A r \in EmptyRuns, ix \in Ix : row'[r][ix] = row[r][ix]
    <3>1. UNCHANGED row \/ R \notin EmptyRuns
      BY <1>1, <1>3 DEF AddedStepsAreNext
    <3> QED
      BY <1>0, <3>1
  <2>2. task'[t].via # "step" /\ (Active(task'[t]) => task'[t].run \notin EmptyRuns)
    <3>1. Free.via = "run" /\ Free.pc = "free"
      BY DEF Free, Spawned
    <3> QED
      BY <1>0, <1>3, <3>1, TasksKeepTheirRun DEF AddedStepsAreNext
  <2>3. ASSUME NEW u \in Tasks, task'[u].via = "step" PROVE IsNext(u)'
    BY <1>0, <2>1, <2>2, <2>3, NextAsBefore DEF Untouched, AddedStepsAreNext, IsNext, AtAStep
  <2>4. \A u \in Tasks : (Active(task'[u]) /\ task'[u].via # "step") => task'[u].run \notin EmptyRuns
    BY <1>0, <2>2 DEF Untouched, AddedStepsAreNext
  <2>5. \A r \in EmptyRuns : InOrder(r)'
    BY <2>1, InOrderAsBefore DEF AddedStepsAreNext
  <2> QED
    BY <2>3, <2>4, <2>5 DEF AddedStepsAreNext
<1> QED
  BY <1>2, <1>3

\* A step that is added gets a number of its own: begin_step writes the row of a
\* step, and where the number was that of another one, its record would be lost.
THEOREM AddedStepsAreNew ==
  ASSUME AdHocRuns \subseteq EmptyRuns
  PROVE  Spec => StepsNeverOverwrite
<1>1. Init => AddedStepsAreNext
  <2> SUFFICES ASSUME Init PROVE AddedStepsAreNext
    OBVIOUS
  <2>1. \A t \in Tasks : task[t].pc = "free" /\ task[t].via = "run"
    BY DEF Init, Free, Spawned
  <2>2. \A r \in EmptyRuns : RowsOf(r) = {}
    BY RunAssumption DEF Init, NoRow, RowsOf
  <2>3. \A r \in EmptyRuns : RowsOf(r) = 1 .. 0 /\ 0 \in 0 .. N
    BY <2>2, SizeAssumption
  <2> QED
    BY <2>1, <2>3 DEF AddedStepsAreNext, Active, InOrder
<1>2. TypeOK /\ RunnersHoldTheirRuns /\ AddedStepsAreNext /\ [Next]_vars => AddedStepsAreNext'
  <2> SUFFICES ASSUME TypeOK, RunnersHoldTheirRuns, AddedStepsAreNext, [Next]_vars
               PROVE  AddedStepsAreNext'
    OBVIOUS
  <2>1. ASSUME NEW t \in Tasks, RunnerStep(t) PROVE AddedStepsAreNext'
    BY <2>1, RunnersAddNext
  <2>2. CASE Request
    BY <2>2, RequestsAddNext
  <2>3. CASE Restart
    <3>1. \A u \in Tasks : task'[u].pc = "free" /\ task'[u].via = "run"
      BY <2>3 DEF Restart, Free, Spawned
    <3>2. ASSUME NEW r \in EmptyRuns, NEW ix \in Ix
          PROVE  row'[r][ix].state = "none" <=> row[r][ix].state = "none"
      <4> DEFINE closed == [row[r][ix] EXCEPT !.state = "unknown"]
      <4>1. closed.state = "unknown"
        BY RowFacts, RunAssumption DEF Rows
      <4> HIDE DEF closed
      <4>2. row'[r][ix] = IF row[r][ix].state = "running" THEN closed ELSE row[r][ix]
        BY <2>3, RunAssumption DEF Restart, closed
      <4> QED
        BY <4>1, <4>2
    <3>3. \A r \in EmptyRuns : InOrder(r)'
      BY <3>2, SameRows DEF AddedStepsAreNext, InOrder
    <3> QED
      BY <3>1, <3>3 DEF AddedStepsAreNext, Active
  <2>4. CASE UNCHANGED vars
    BY <2>4 DEF vars, ledger, AddedStepsAreNext, IsNext, AtItsRow, Warm, InOrder, RowsOf, Active
  <2> QED
    BY <2>1, <2>2, <2>3, <2>4 DEF Next
<1>3. TypeOK /\ AddedStepsAreNext =>
        \A t \in Tasks : (task[t].pc = "begin" /\ task[t].via = "step")
                            => row[task[t].run][task[t].ix].state = "none"
  <2> SUFFICES ASSUME TypeOK, AddedStepsAreNext, NEW t \in Tasks, task[t].pc = "begin", task[t].via = "step"
               PROVE  row[task[t].run][task[t].ix].state = "none"
    OBVIOUS
  <2>1. task[t].ix \in Ix /\ RowsOf(task[t].run) = 1 .. task[t].ix - 1
    BY TaskFacts DEF AtAStep, AddedStepsAreNext, IsNext
  <2>2. task[t].ix \notin RowsOf(task[t].run)
    BY <2>1, SizeAssumption DEF Ix
  <2> QED
    BY <2>1, <2>2 DEF RowsOf
<1>4. Spec => []RunnersHoldTheirRuns
  <2>1. Spec => [](RunnersHoldTheirRuns /\ OneRunner)
    BY RunsHaveOneRunner
  <2> QED
    BY <2>1, PTL
<1>5. TypeOK /\ AddedStepsAreNext /\ [Next]_vars =>
        [\A t \in Tasks : LET k == task[t] IN
           (k.pc = "begin" /\ k.via = "step" /\ task'[t].pc = k.next)
             => row[k.run][k.ix].state = "none"]_vars
  BY <1>3
<1> QED
  BY TypeCorrect, <1>1, <1>2, <1>4, <1>5, PTL DEF Spec, StepsNeverOverwrite
-----------------------------------------------------------------------------
(* What a run that is done has on the ledger.                                *)

\* The row says that its step is not, or is behind the run.
Fine(q) == q.state \in {"none", "done", "skipped"}
AllFine(rows) == \A ix \in Ix : Fine(rows[ix])
FineBut(rows, x) == \A ix \in Ix \ {x} : Fine(rows[ix])

\* A run of a procedure has one open step at most, and none if it is to be made, has
\* been done, or is only planned.  The candidates that still show are of steps that select,
\* and no earlier step is open.
OneOpenStep(r) ==
  /\ \E x : FineBut(row[r], x)
  /\ (run[r] \in {"none", "done"} \/ mode[r] = "plan") => AllFine(row[r])
  /\ (run[r] = "none" \/ mode[r] = "plan") => \A ix \in Ix : ~row[r][ix].cands
  /\ \A ix \in Ix :
       /\ ix \in WarmSteps => Fine(row[r][ix])
       /\ row[r][ix].cands => /\ ix \in SelectSteps /\ row[r][ix].state # "none"
                              /\ \A i \in Ix : i < ix => Fine(row[r][i])

\* A runner is at the open step, if there is one, and past what shows candidates; a warm-up
\* step is never open.
IsAtTheOpenStep(t) ==
  LET k == task[t] IN
  /\ FineBut(row[k.run], k.ix)
  /\ \A ix \in Ix : row[k.run][ix].cands => ix <= k.ix
  /\ mode[k.run] = "plan" => k.pc \in {"start", "plan"}
  /\ (k.pc = "after" /\ k.ok) => AllFine(row[k.run])
  /\ k.pc \in {"begin", "card", "refuse", "lock", "preview"} => k.ix \notin WarmSteps

RunsAreWhole ==
  /\ \A r \in Runs \ EmptyRuns : OneOpenStep(r)
  /\ \A t \in Tasks : (Active(task[t]) /\ task[t].run \notin EmptyRuns) => IsAtTheOpenStep(t)

\* What is left of a bookkeeping step that does not begin a runner: the step it is at.
LEMMA BookkeepingStays ==
  ASSUME TypeOK, NEW t \in Tasks, Bookkeeping(t), ~Start(t), ~StartStep(t)
  PROVE  ~Active(task'[t]) \/ (task'[t].run = task[t].run /\ task'[t].ix = task[t].ix)
<1> DEFINE k == task[t]
<1>0. TasksOK /\ k \in TaskRecords
  BY TaskFacts
<1>1. CASE PlanDone(t) \/ Callback(t) \/ StepFail(t)
  BY <1>0, <1>1, FreedTask DEF PlanDone, Callback, StepFail
<1>2. CASE Open(t)
  <2>1. CASE Go(t, "opened")
    BY <1>0, <2>1, GoMoves DEF Moved, Keeps
  <2>2. ASSUME NEW how \in {"yes", "runner"},
               SetTask(t, [task[t] EXCEPT !.pc = "close", !.crashed = how])
        PROVE  task'[t].run = k.run /\ task'[t].ix = k.ix
    <3> DEFINE new == [task[t] EXCEPT !.pc = "close", !.crashed = how]
    <3>1. new.run = k.run /\ new.ix = k.ix
      BY <1>0 DEF TaskRecords
    <3> HIDE DEF new
    <3>2. SetTask(t, new)
      BY <2>2 DEF new
    <3> QED
      BY <1>0, <3>1, <3>2, SetTaskKeeps
  <2> QED
    BY <1>2, <2>1, <2>2 DEF Open
<1>3. CASE Acquire(t) \/ Opened(t) \/ Drift(t) \/ AfterStopped(t)
  <2>1. \E pc : Go(t, pc)
    BY <1>3 DEF Acquire, Opened, Drift, AfterStopped
  <2> QED
    BY <1>0, <2>1, GoMoves DEF Moved, Keeps
<1>4. CASE Fail(t) \/ Pause(t) \/ Finish(t) \/ Rest(t)
  <2>1. Go(t, "close")
    BY <1>4 DEF Fail, Pause, Finish, Rest
  <2> QED
    BY <1>0, <2>1, GoMoves DEF Moved, Keeps
<1>5. CASE Close(t)
  <2>1. SetTask(t, Free) \/ \E pc : Go(t, pc)
    BY <1>5 DEF Close
  <2> QED
    BY <1>0, <2>1, FreedTask, GoMoves DEF Moved, Keeps
<1> QED
  BY <1>1, <1>2, <1>3, <1>4, <1>5 DEF Bookkeeping

\* What a step of a runner does to its run: the rows stay whole, and it is at the open one.
StaysWhole(t) ==
  LET k == task[t] IN
  /\ Active(task'[t]) => task'[t].run = k.run /\ IsAtTheOpenStep(t)'
  /\ mode'[k.run] = "plan" => AllFine(row'[k.run])
  /\ k.ix \in Ix /\ k.ix \in WarmSteps => Fine(row'[k.run][k.ix])
  /\ \A ix \in Ix : row'[k.run][ix].cands =>
       /\ ix <= k.ix /\ ix \in SelectSteps /\ row'[k.run][ix].state # "none"
       /\ mode'[k.run] # "plan"

\* A step that leaves the rows, and goes where nothing more is asked of it.
LEMMA QuietStaysWhole ==
  ASSUME TypeOK, NEW t \in Tasks, OneOpenStep(task[t].run), IsAtTheOpenStep(t),
         UNCHANGED <<row, mode>>, mode[task[t].run] # "plan",
         ~Active(task'[t]) \/
           /\ task'[t].run = task[t].run
           /\ \/ task'[t].ix = task[t].ix
              \/ task'[t].ix = task[t].ix + 1 /\ AllFine(row[task[t].run])
           /\ task'[t].pc \notin {"after", "begin", "card", "refuse", "lock", "preview"}
              \/ (task'[t].pc # "after" /\ task'[t].ix \notin WarmSteps)
  PROVE  StaysWhole(t)
<1> USE SizeAssumption DEF Ix
<1>1. task[t].ix \in Nat
  BY TaskFacts
<1> QED
  BY <1>1 DEF StaysWhole, IsAtTheOpenStep, OneOpenStep, FineBut, AllFine, Fine

LEMMA NextStepIsNext ==
  ASSUME TypeOK, NEW t \in Tasks, NextStep(t) \/ \E v \in Values : NextStepWith(t, v)
  PROVE  task'[t].ix = task[t].ix + 1
<1>1. TasksOK /\ task[t] \in TaskRecords
  BY TaskFacts
<1>2. CASE NextStep(t)
  <2> DEFINE k == [task[t] EXCEPT !.pc = "boundary", !.ix = @ + 1]
  <2>1. k.ix = task[t].ix + 1
    BY <1>1 DEF TaskRecords
  <2> HIDE DEF k
  <2>2. SetTask(t, k)
    BY <1>2 DEF NextStep, k
  <2> QED
    BY <1>1, <2>1, <2>2, SetTaskKeeps
<1>3. ASSUME NEW v \in Values, NextStepWith(t, v) PROVE task'[t].ix = task[t].ix + 1
  <2> DEFINE k == [task[t] EXCEPT !.pc = "boundary", !.ix = @ + 1, !.scope = v]
  <2>1. k.ix = task[t].ix + 1
    BY <1>1 DEF TaskRecords
  <2> HIDE DEF k
  <2>2. SetTask(t, k)
    BY <1>3 DEF NextStepWith, k
  <2> QED
    BY <1>1, <2>1, <2>2, SetTaskKeeps
<1> QED
  BY <1>2, <1>3

LEMMA RunnersStayWhole ==
  ASSUME TypeOK, WarmSteps \cap (GateSteps \cup PickUsers) = {},
         NEW t \in Tasks, RunnerStep(t), Active(task[t]), task[t].via # "step",
         OneOpenStep(task[t].run), IsAtTheOpenStep(t)
  PROVE  StaysWhole(t)
<1> DEFINE k == task[t]
           R == k.run
<1>0. /\ TasksOK /\ k \in TaskRecords /\ R \in Runs /\ k.ix \in 1 .. N + 1
      /\ k.next \in {"card", "refuse", "lock", "spend"} /\ (AtAStep(k) => k.ix \in Ix)
  BY TaskFacts
<1>ix. k.pc \in StepPCs => k.ix \in Ix
  BY <1>0 DEF AtAStep
<1>w. Warm(k) <=> k.ix \in WarmSteps
  BY DEF Warm
<1>p. PublishSteps \subseteq GateSteps
  BY StepAssumption
<1>m. UNCHANGED mode
  BY DEF RunnerStep, Start, StartStep, PlanStep, PlanDone, Acquire, Open, Opened, Drift, Hold,
         Boundary, StepArgs, Preview, Begin, Card, Refuse, Lock, Send, NotSpent, Return,
         AfterStopped, AfterFailure, AfterWarmup, AfterStep, AfterAdHoc, AfterSelect, Fail, Pause,
         Finish, Rest, Close, Callback, StepFail, ledger
<1>n. ASSUME k.pc \notin {"start", "plan"} PROVE mode[R] # "plan"
  BY <1>n DEF IsAtTheOpenStep
<1>o. \A ix \in Ix : row[R][ix].cands =>
        ix <= k.ix /\ ix \in SelectSteps /\ row[R][ix].state # "none" /\ mode[R] # "plan"
  BY DEF OneOpenStep, IsAtTheOpenStep
\* The row that is written, when it is that of the step.
<1>r. ASSUME NEW new, k.ix \in Ix, PutRow(R, k.ix, new),
             new.cands => k.ix \in SelectSteps /\ new.state # "none" /\ mode[R] # "plan"
      PROVE  /\ row'[R][k.ix] = new
             /\ FineBut(row'[R], k.ix)
             /\ new.state \in {"none", "done", "skipped"} => AllFine(row'[R])
             /\ \A ix \in Ix : row'[R][ix].cands =>
                  ix <= k.ix /\ ix \in SelectSteps /\ row'[R][ix].state # "none" /\ mode[R] # "plan"
  <2>1. \A ix \in Ix : row'[R][ix] = IF ix = k.ix THEN new ELSE row[R][ix]
    BY <1>0, <1>r, PutRowReads
  <2>2. k.ix <= k.ix
    BY <1>r, SizeAssumption DEF Ix
  <2> QED
    BY <1>o, <1>r, <2>1, <2>2 DEF IsAtTheOpenStep, FineBut, AllFine, Fine
<1> DEFINE Showing == \A ix \in Ix : row'[R][ix].cands =>
             ix <= k.ix /\ ix \in SelectSteps /\ row'[R][ix].state # "none" /\ mode'[R] # "plan"
<1>c. ASSUME k.ix \in Ix PROVE row[R][k.ix] \in Rows
  BY <1>0, <1>c, RowFacts
<1>1. CASE Start(t)
  <2> DEFINE new == IF mode[R] = "plan"
                    THEN [k EXCEPT !.pc = "plan", !.scope = inputs[R], !.ix = 1]
                    ELSE [k EXCEPT !.pc = "sem", !.scope = inputs[R]]
  <2>1. /\ new.run = R
        /\ (mode[R] = "plan" /\ new.pc = "plan") \/ (mode[R] # "plan" /\ new.pc = "sem" /\ new.ix = k.ix)
    BY <1>0 DEF TaskRecords
  <2> HIDE DEF new
  <2>2. SetTask(t, new) /\ UNCHANGED row
    BY <1>1 DEF Start, new, ledger
  <2>3. task'[t] = new
    BY <1>0, <2>2, SetTaskKeeps
  <2> QED
    BY <1>m, <2>1, <2>2, <2>3
    DEF StaysWhole, IsAtTheOpenStep, OneOpenStep, FineBut, AllFine, Fine
<1>2. CASE Bookkeeping(t) /\ ~Start(t)
  <2>1. /\ UNCHANGED row /\ task'[t].pc \in Away
        /\ ~Active(task'[t]) \/ (task'[t].run = R /\ task'[t].ix = k.ix)
    BY <1>2, BookkeepingIsAway, BookkeepingStays DEF StartStep
  <2>2. CASE PlanDone(t)
    <3>1. ~Active(task'[t])
      BY <1>0, <2>2, FreedTask DEF PlanDone
    <3> QED
      BY <1>m, <1>o, <2>1, <3>1 DEF StaysWhole, OneOpenStep, AllFine, Fine
  <2>3. CASE ~PlanDone(t)
    <3>1. k.pc \notin {"start", "plan"}
      BY <1>2, <2>3 DEF Bookkeeping, StartStep, Acquire, Open, Opened, Drift, AfterStopped,
                        Fail, Pause, Finish, Rest, Close, Callback, StepFail
    <3> QED
      BY <1>m, <1>n, <2>1, <3>1, QuietStaysWhole DEF Away
  <2> QED
    BY <2>2, <2>3
<1>3. CASE PlanStep(t)
  <2> DEFINE new == [k EXCEPT !.ix = @ + 1]
             skipped == [NoRow EXCEPT !.state = "skipped",
                                      !.fp = Fingerprint(k.ix, k.scope, NoView)]
  <2>1. new.pc = "plan" /\ new.run = R /\ new.ix = k.ix + 1 /\ k.ix \in Ix
    BY <1>0, <1>3 DEF TaskRecords, PlanStep
  <2> HIDE DEF new
  <2>2. SetTask(t, new) /\ PutRow(R, k.ix, skipped)
    BY <1>3 DEF PlanStep, new
  <2>3. skipped.state = "skipped" /\ ~skipped.cands
    BY DEF NoRow
  <2> HIDE DEF skipped
  <2>4. task'[t] = new
    BY <1>0, <2>2, SetTaskKeeps
  <2>5. AllFine(row'[R]) /\ Showing
    BY <1>m, <1>r, <2>1, <2>2, <2>3
  <2>6. \A ix \in Ix : ix <= k.ix => ix <= new.ix
    BY <2>1, SizeAssumption DEF Ix
  <2> QED
    BY <2>1, <2>4, <2>5, <2>6 DEF StaysWhole, IsAtTheOpenStep, FineBut, AllFine, Fine
<1>4. CASE Hold(t) \/ Lock(t) \/ Send(t) \/ AfterFailure(t)
  <2>1. /\ UNCHANGED row /\ k.pc \in {"hold", "lock", "spend", "after"}
        /\ \E pc \in {"close", "boundary", "spend", "calling", "fail"} : Go(t, pc)
    BY <1>4 DEF Hold, Lock, Send, AfterFailure, ledger
  <2>2. PICK pc \in {"close", "boundary", "spend", "calling", "fail"} : Moved(t, pc)
    BY <1>0, <2>1, GoMoves
  <2> QED
    BY <1>m, <1>n, <2>1, <2>2, QuietStaysWhole DEF Moved, Keeps
<1>5. CASE Boundary(t) \/ Preview(t)
  <2>1. UNCHANGED row /\ k.pc \in {"boundary", "preview"}
    BY <1>5 DEF Boundary, Preview, ledger
  <2>n. k.pc = "preview" => k.ix \notin WarmSteps
    BY DEF IsAtTheOpenStep
  <2>2. \/ Go(t, "close") \/ Go(t, "fail") \/ (Go(t, "preview") /\ k.ix \notin WarmSteps)
        \/ \E next \in {"card", "refuse"} : \E fp : BeginAs(t, next, fp) /\ k.ix \notin WarmSteps
        \/ \E fp : Call(t, fp)
    <3>1. CASE Boundary(t)
      BY <1>p, <3>1 DEF Boundary, Unresolved
    <3>3. CASE Preview(t)
      BY <2>n, <3>3 DEF Preview
    <3> QED
      BY <1>5, <3>1, <3>3
  <2>3. CASE Go(t, "close") \/ Go(t, "fail") \/ (Go(t, "preview") /\ k.ix \notin WarmSteps)
    <3>1. /\ Moved(t, "close") \/ Moved(t, "fail") \/ (Moved(t, "preview") /\ k.ix \notin WarmSteps)
      BY <1>0, <2>3, GoMoves
    <3> QED
      BY <1>m, <1>n, <2>1, <3>1, QuietStaysWhole DEF Moved, Keeps
  <2>4. ASSUME NEW fp, NEW next \in {"card", "refuse", "lock", "spend"}, Began(t, next, fp), k.ix \notin WarmSteps
        PROVE  StaysWhole(t)
    BY <1>m, <1>n, <2>1, <2>4, QuietStaysWhole DEF Began, Keeps
  <2>5. ASSUME NEW fp, Call(t, fp) PROVE StaysWhole(t)
    <3>1. Called(t, fp)
      BY <1>0, <2>5, CallMoves
    <3>2. CASE Keeps(t, "spend") /\ task'[t].ix = k.ix
      BY <1>m, <1>n, <2>1, <3>2, QuietStaysWhole DEF Keeps
    <3> QED
      BY <1>w, <2>4, <3>1, <3>2 DEF Called
  <2> QED
    BY <1>0, <2>2, <2>3, <2>4, <2>5, BeginMoves
<1>6. CASE Begin(t)
  <2> DEFINE new == [NoRow EXCEPT !.state = "running", !.fp = k.fp]
  <2>1. k.pc = "begin" /\ PutRow(R, k.ix, new) /\ k.ix \in Ix
    BY <1>6, <1>ix DEF Begin, StepPCs
  <2>2. ~new.cands
    BY DEF NoRow
  <2> HIDE DEF new
  <2>3. Keeps(t, k.next) /\ task'[t].ix = k.ix
    BY <1>6, BegunMoves
  <2>4. k.ix \notin WarmSteps /\ mode[R] # "plan"
    BY <1>n, <2>1 DEF IsAtTheOpenStep
  <2>5. FineBut(row'[R], k.ix) /\ Showing
    BY <1>m, <1>r, <2>1, <2>2
  <2> QED
    BY <1>0, <1>m, <2>3, <2>4, <2>5 DEF StaysWhole, IsAtTheOpenStep, Keeps, FineBut, Fine
<1>7. CASE Card(t) \/ Refuse(t)
  <2>1. k.pc \in {"card", "refuse"} /\ k.ix \in Ix
    BY <1>7, <1>ix DEF Card, Refuse, StepPCs
  <2>2. PICK s \in {"pending", "failed"}, stage \in {"", "gate"} :
          PutRow(R, k.ix, [row[R][k.ix] EXCEPT !.state = s, !.stage = stage])
    BY <1>7 DEF Card, Refuse, FinishStep
  <2> DEFINE new == [row[R][k.ix] EXCEPT !.state = s, !.stage = stage]
  <2>3. new.cands = row[R][k.ix].cands /\ new.state # "none"
    BY <1>c, <2>1 DEF Rows
  <2>4. PutRow(R, k.ix, new)
    BY <2>2
  <2> HIDE DEF new
  <2>5. FineBut(row'[R], k.ix) /\ Showing
    BY <1>m, <1>o, <1>r, <2>1, <2>3, <2>4
  <2>6. k.ix \notin WarmSteps /\ mode[R] # "plan"
    BY <1>n, <2>1 DEF IsAtTheOpenStep
  <2>7. \E pc \in {"pause", "fail"} : Go(t, pc)
    BY <1>7 DEF Card, Refuse
  <2>8. PICK pc \in {"pause", "fail"} : Moved(t, pc)
    BY <1>0, <2>7, GoMoves
  <2> QED
    BY <1>m, <2>5, <2>6, <2>8 DEF StaysWhole, IsAtTheOpenStep, Moved, Keeps, FineBut, Fine
<1>8. CASE NotSpent(t) \/ Return(t)
  <2>1. k.pc \in {"spend", "calling"} /\ k.ix \in Ix
    BY <1>8, <1>ix DEF NotSpent, Return, StepPCs
  <2>2. Keeps(t, "after") /\ task'[t].ix = k.ix /\ mode[R] # "plan"
    BY <1>8, <1>n, <2>1, AnsweredMoves
  <2>3. CASE Warm(k)
    <3>1. UNCHANGED row
      BY <1>8, <2>3 DEF NotSpent, Return
    <3>2. AllFine(row[R])
      BY <1>w, <2>1, <2>3 DEF IsAtTheOpenStep, OneOpenStep, FineBut, AllFine
    <3> QED
      BY <1>m, <1>o, <2>1, <2>2, <3>1, <3>2 DEF StaysWhole, IsAtTheOpenStep, Keeps, FineBut, AllFine, Fine
  <2>4. CASE ~Warm(k)
    <3>1. PICK s \in {"done", "failed", "unknown"} :
            FinishStep(R, k.ix, s) /\ (s # "done" => ~task'[t].ok)
      <4>1. CASE NotSpent(t)
        <5> DEFINE new == [k EXCEPT !.pc = "after", !.ok = FALSE]
        <5>1. FinishStep(R, k.ix, "failed") /\ SetTask(t, new)
          BY <2>4, <4>1 DEF NotSpent
        <5>2. ~new.ok
          BY <1>0 DEF TaskRecords
        <5> QED
          BY <1>0, <5>1, <5>2, SetTaskKeeps
      <4>2. CASE Return(t)
        <5>1. PICK s \in {"done", "failed", "unknown"} :
                FinishStep(R, k.ix, s) /\ SetTask(t, [k EXCEPT !.pc = "after", !.ok = (s = "done")])
          BY <2>4, <4>2 DEF Return
        <5> DEFINE new == [k EXCEPT !.pc = "after", !.ok = (s = "done")]
        <5>2. s # "done" => ~new.ok
          BY <1>0 DEF TaskRecords
        <5>3. SetTask(t, new)
          BY <5>1
        <5> HIDE DEF new
        <5> QED
          BY <1>0, <5>1, <5>2, <5>3, SetTaskKeeps
      <4> QED
        BY <1>8, <4>1, <4>2
    <3> DEFINE new == [row[R][k.ix] EXCEPT !.state = s, !.stage = ""]
    <3>2. new.state = s /\ new.cands = row[R][k.ix].cands
      BY <1>c, <2>1 DEF Rows
    <3>3. PutRow(R, k.ix, new)
      BY <3>1 DEF FinishStep
    <3> HIDE DEF new
    <3>4. FineBut(row'[R], k.ix) /\ Showing /\ (s = "done" => AllFine(row'[R]))
      BY <1>m, <1>o, <1>r, <2>1, <3>2, <3>3
    <3> QED
      BY <1>m, <1>w, <2>2, <2>4, <3>1, <3>4
      DEF StaysWhole, IsAtTheOpenStep, Keeps, FineBut, AllFine, Fine
  <2> QED
    BY <2>3, <2>4
<1>9. CASE AfterWarmup(t) \/ AfterStep(t)
  <2>1. k.pc = "after" /\ UNCHANGED row /\ k.ix \in Ix
    BY <1>9, <1>ix DEF AfterWarmup, AfterStep, StepPCs, ledger
  <2>2. Warm(k) \/ k.ok
    BY <1>9 DEF AfterWarmup, AfterStep
  <2>3. AllFine(row[R])
    BY <1>w, <2>1, <2>2 DEF IsAtTheOpenStep, OneOpenStep, FineBut, AllFine
  <2>4. Keeps(t, "boundary") /\ task'[t].ix = k.ix + 1
    BY <1>0, <1>9, NextStepKeeps, NextStepIsNext DEF AfterWarmup, AfterStep
  <2> QED
    BY <1>m, <1>n, <2>1, <2>3, <2>4, QuietStaysWhole DEF Keeps
<1>10. ASSUME AfterSelect(t) PROVE StaysWhole(t)
  <2>1. /\ k.pc = "after" /\ k.ok /\ k.ix \in Ix /\ k.ix \in SelectSteps /\ k.ix \notin WarmSteps
        /\ mode[R] # "plan"
    BY <1>10, <1>ix, <1>n, StepAssumption DEF AfterSelect, StepPCs
  <2>2. AllFine(row[R])
    BY <2>1 DEF IsAtTheOpenStep
  <2>3. ASSUME NEW s \in {"skipped", "failed"}, FinishStep(R, k.ix, s)
        PROVE  FineBut(row'[R], k.ix) /\ Showing /\ (s = "skipped" => AllFine(row'[R]))
    <3> DEFINE new == [row[R][k.ix] EXCEPT !.state = s, !.stage = ""]
    <3>1. new.state = s /\ new.cands = row[R][k.ix].cands
      BY <1>c, <2>1 DEF Rows
    <3>2. PutRow(R, k.ix, new)
      BY <2>3 DEF FinishStep
    <3> HIDE DEF new
    <3> QED
      BY <1>m, <1>o, <1>r, <2>1, <2>3, <3>1, <3>2
  <2>4. ASSUME NextStep(t) \/ \E v \in Values : NextStepWith(t, v),
               AllFine(row'[R]) /\ Showing
        PROVE  StaysWhole(t)
    <3>1. Keeps(t, "boundary") /\ task'[t].ix = k.ix + 1
      BY <1>0, <2>4, NextStepKeeps, NextStepIsNext
    <3>2. \A ix \in Ix : ix <= k.ix => ix <= k.ix + 1
      BY <2>1, SizeAssumption DEF Ix
    <3> QED
      BY <1>m, <2>1, <2>4, <3>1, <3>2 DEF StaysWhole, IsAtTheOpenStep, Keeps, FineBut, AllFine, Fine
  <2>5. ASSUME NEW pc \in {"pause", "fail"}, Go(t, pc), FineBut(row'[R], k.ix) /\ Showing
        PROVE  StaysWhole(t)
    <3>1. Moved(t, pc)
      BY <1>0, <2>5, GoMoves
    <3> QED
      BY <1>m, <2>1, <2>5, <3>1 DEF StaysWhole, IsAtTheOpenStep, Moved, Keeps, FineBut, Fine
  <2>6. CASE FinishStep(R, k.ix, "skipped") /\ NextStep(t)
    BY <2>3, <2>4, <2>6
  <2>7. CASE (\E v \in Values : NextStepWith(t, v)) /\ UNCHANGED row
    BY <1>m, <1>o, <2>2, <2>4, <2>7
  <2>8. CASE /\ PutRow(R, k.ix, [row[R][k.ix] EXCEPT !.state = "pending",
                                                   !.stage = "select:ask", !.cands = TRUE])
             /\ Go(t, "pause")
    <3> DEFINE new == [row[R][k.ix] EXCEPT !.state = "pending", !.stage = "select:ask",
                                           !.cands = TRUE]
    <3>1. new.state # "none"
      BY <1>c, <2>1 DEF Rows
    <3>2. PutRow(R, k.ix, new)
      BY <2>8
    <3> HIDE DEF new
    <3>3. FineBut(row'[R], k.ix) /\ Showing
      BY <1>m, <1>r, <2>1, <3>1, <3>2
    <3> QED
      BY <2>5, <2>8, <3>3
  <2>9. CASE FinishStep(R, k.ix, "failed") /\ Go(t, "fail")
    BY <2>3, <2>5, <2>9
  <2> QED
    BY <1>10, <2>6, <2>7, <2>8, <2>9 DEF AfterSelect
<1>11. ~StartStep(t) /\ ~StepArgs(t) /\ ~AfterAdHoc(t)
  BY DEF StartStep, StepArgs, AfterAdHoc
<1> QED
  BY <1>1, <1>2, <1>3, <1>4, <1>5, <1>6, <1>7, <1>8, <1>9, <1>10, <1>11 DEF RunnerStep, Bookkeeping

\* What says that a run is done: the end of its loop, or of its plan.
LEMMA OnlyAnEndIsDone ==
  ASSUME TypeOK, NEW t \in Tasks, RunnerStep(t), NEW r \in Runs, run'[r] \in {"none", "done"}
  PROVE  run[r] = run'[r] \/ ((Finish(t) \/ PlanDone(t)) /\ r = task[t].run)
<1>0. run \in [Runs -> RunStates] /\ task[t].run \in Runs
  BY TaskFacts DEF TypeOK
<1>1. ASSUME NEW s, s \notin {"none", "done"}, NEW unless, SetRun(task[t].run, s, unless)
      PROVE  run[r] = run'[r]
  BY <1>0, <1>1 DEF SetRun
<1>2. CASE UNCHANGED run
  BY <1>2
<1>3. CASE Finish(t) \/ PlanDone(t)
  BY <1>0, <1>3 DEF Finish, PlanDone, SetRun
<1>4. CASE Drift(t) \/ Hold(t) \/ Callback(t) \/ StepFail(t)
  BY <1>1, <1>4 DEF Drift, Hold, Callback, StepFail
<1>5. CASE Fail(t) \/ Pause(t) \/ Rest(t)
  BY <1>1, <1>5 DEF Fail, Pause, Rest
<1>6. CASE Start(t) \/ StartStep(t) \/ PlanStep(t) \/ Acquire(t) \/ Open(t) \/ Opened(t)
  BY <1>2, <1>6 DEF Start, StartStep, PlanStep, Acquire, Open, Opened, ledger
<1>7. CASE Boundary(t) \/ StepArgs(t) \/ Preview(t) \/ Begin(t) \/ Card(t) \/ Refuse(t)
  BY <1>2, <1>7 DEF Boundary, StepArgs, Preview, Begin, Card, Refuse, ledger
<1>8. CASE Lock(t) \/ Send(t) \/ NotSpent(t) \/ Return(t) \/ Close(t)
  BY <1>2, <1>8 DEF Lock, Send, NotSpent, Return, Close, ledger
<1>9. CASE AfterStopped(t) \/ AfterFailure(t) \/ AfterWarmup(t) \/ AfterStep(t)
           \/ AfterAdHoc(t) \/ AfterSelect(t)
  BY <1>2, <1>9 DEF AfterStopped, AfterFailure, AfterWarmup, AfterStep, AfterAdHoc,
                    AfterSelect, ledger
<1> QED
  BY <1>3, <1>4, <1>5, <1>6, <1>7, <1>8, <1>9 DEF RunnerStep

LEMMA RunnersLeaveTheModes ==
  ASSUME NEW t \in Tasks, RunnerStep(t) PROVE UNCHANGED mode
BY DEF RunnerStep, Start, StartStep, PlanStep, PlanDone, Acquire, Open, Opened, Drift, Hold,
       Boundary, StepArgs, Preview, Begin, Card, Refuse, Lock, Send, NotSpent, Return,
       AfterStopped, AfterFailure, AfterWarmup, AfterStep, AfterAdHoc, AfterSelect, Fail, Pause,
       Finish, Rest, Close, Callback, StepFail, ledger

LEMMA RunnersKeepRunsWhole ==
  ASSUME TypeOK, RunnersHoldTheirRuns, RunsAreWhole, AdHocRuns \subseteq EmptyRuns,
         WarmSteps \cap (GateSteps \cup PickUsers) = {},
         NEW t \in Tasks, RunnerStep(t)
  PROVE  RunsAreWhole'
<1> DEFINE k == task[t]
           R == k.run
<1>0. run \in [Runs -> RunStates] /\ \A u \in Tasks : task[u].run \in Runs
  BY TaskFacts DEF TypeOK
<1>1. Untouched(t) /\ UNCHANGED mode
  BY RunnerShape, RunnersLeaveTheModes DEF WorksOn, LetsGo, IsGone
<1>2. \A r \in Runs, ix \in Ix : row'[r][ix] = row[r][ix] \/ (r = R /\ ix = k.ix)
  BY RunnersWriteTheirRow
<1>3. \A r \in Runs \ {R} : run'[r] = run[r]
  BY <1>0, RunnerShape DEF WorksOn, LetsGo, IsGone, SetRun
<1>4. ~Active(k) => UNCHANGED <<run, row>> /\ ~Active(task'[t])
  BY GoneRunnersClose, RunnerShape DEF WorksOn, LetsGo, IsGone
<1>5. Active(task'[t]) => Active(k) /\ task'[t].run = R
  BY <1>4, RunnerShape DEF WorksOn, LetsGo, IsGone
<1>6. ASSUME Active(k), R \notin EmptyRuns
      PROVE  StaysWhole(t) /\ OneOpenStep(R) /\ IsAtTheOpenStep(t) /\ run[R] \notin {"none", "done"}
  <2>1. k.via # "step"
    BY <1>6 DEF RunnersHoldTheirRuns, TaskForm
  <2>2. OneOpenStep(R) /\ IsAtTheOpenStep(t) /\ run[R] \notin {"none", "done"}
    BY <1>0, <1>6 DEF RunsAreWhole, RunnersHoldTheirRuns
  <2> QED
    BY <1>6, <2>1, <2>2, RunnersStayWhole
<1>7. ASSUME NEW u \in Tasks, Active(task'[u]), task'[u].run \notin EmptyRuns
      PROVE  IsAtTheOpenStep(u)'
  <2>1. CASE u = t
    BY <1>5, <1>6, <1>7, <2>1 DEF StaysWhole
  <2>2. CASE u # t
    <3>1. task'[u] = task[u] /\ IsAtTheOpenStep(u)
      BY <1>1, <1>7, <2>2 DEF Untouched, RunsAreWhole
    <3>2. \A ix \in Ix : row'[task[u].run][ix] = row[task[u].run][ix]
      BY <1>0, <1>2, <1>4, <1>7, <2>2, <3>1 DEF RunnersHoldTheirRuns, OneRunner
    <3> QED
      BY <1>1, <3>1, <3>2 DEF IsAtTheOpenStep, FineBut, AllFine
  <2> QED
    BY <2>1, <2>2
<1>8. ASSUME NEW r \in Runs \ EmptyRuns PROVE OneOpenStep(r)'
  <2>1. CASE r # R \/ ~Active(k)
    <3>1. run'[r] = run[r] /\ \A ix \in Ix : row'[r][ix] = row[r][ix]
      BY <1>2, <1>3, <1>4, <1>8, <2>1
    <3>2. OneOpenStep(r)
      BY <1>8 DEF RunsAreWhole
    <3> QED
      BY <1>1, <3>1, <3>2 DEF OneOpenStep, FineBut, AllFine
  <2>2. CASE r = R /\ Active(k)
    <3>1. StaysWhole(t) /\ OneOpenStep(R) /\ IsAtTheOpenStep(t) /\ run[R] \notin {"none", "done"}
      BY <1>6, <1>8, <2>2
    <3>2. FineBut(row'[R], k.ix)
      BY <1>0, <1>2, <3>1 DEF IsAtTheOpenStep, FineBut
    <3>3. run'[R] \in {"none", "done"} => AllFine(row'[R])
      <4> SUFFICES ASSUME run'[R] \in {"none", "done"} PROVE AllFine(row'[R])
        OBVIOUS
      <4>1. Finish(t) \/ PlanDone(t)
        BY <1>0, <3>1, OnlyAnEndIsDone
      <4>2. k.ix = N + 1
        BY <4>1 DEF Finish, PlanDone
      <4>3. k.ix \notin Ix
        BY <4>2, SizeAssumption DEF Ix
      <4> QED
        BY <3>2, <4>3 DEF FineBut, AllFine
    <3>4. \A ix \in Ix : ix \in WarmSteps => Fine(row'[R][ix])
      BY <1>0, <1>2, <3>1 DEF StaysWhole, OneOpenStep
    <3>5. run'[R] # "none"
      BY <1>0, <3>1, OnlyAnEndIsDone DEF Finish, PlanDone, SetRun
    <3>6. ASSUME NEW ix \in Ix, row'[R][ix].cands, NEW i \in Ix, i < ix PROVE Fine(row'[R][i])
      <4>1. ix <= k.ix
        BY <3>1, <3>6 DEF StaysWhole
      <4>2. i # k.ix
        BY <3>6, <4>1, SizeAssumption DEF Ix
      <4> QED
        BY <3>2, <4>2 DEF FineBut
    <3> QED
      BY <2>2, <3>1, <3>2, <3>3, <3>4, <3>5, <3>6 DEF OneOpenStep, StaysWhole
  <2> QED
    BY <2>1, <2>2
<1> QED
  BY <1>7, <1>8 DEF RunsAreWhole

\* A resume starts at the open step, or there is none; with two steps it also starts past
\* what shows candidates, since that has a row.
LEMMA ResumesAtTheOpenStep ==
  ASSUME NEW r \in Runs, OneOpenStep(r), row \in [Runs -> [Ix -> Rows]],
         SelectSteps # {} => N <= 2,
         \A ix \in Ix : row[r][ix].state # "running"
  PROVE  /\ FineBut(row[r], ResumeAt(r))
         /\ \A ix \in Ix : row[r][ix].cands => ix <= ResumeAt(r)
<1> DEFINE open == {ix \in Ix : row[r][ix].state \in {"failed", "unknown", "pending"}}
<1>0. \A ix \in Ix : row[r][ix] \in Rows
  OBVIOUS
<1>1. \A ix \in Ix : Fine(row[r][ix]) \/ ix \in open
  BY <1>0 DEF Fine, Rows
<1>2. PICK x : FineBut(row[r], x)
  BY DEF OneOpenStep
<1>3. open \subseteq {x}
  BY <1>2 DEF FineBut, Fine
<1>4. CASE open = {}
  <2>1. \A ix \in Ix : row[r][ix].cands => ix <= ResumeAt(r)
    <3> SUFFICES ASSUME NEW ix \in Ix, row[r][ix].cands PROVE ix <= ResumeAt(r)
      OBVIOUS
    <3>1. N \in Nat /\ ix \in Nat /\ ix <= 2 /\ ix \in RowsOf(r)
      <4>1. ix \in SelectSteps /\ row[r][ix].state # "none"
        BY DEF OneOpenStep
      <4>2. N \in Nat /\ N <= 2
        BY <4>1, SizeAssumption
      <4>3. ix \in Nat /\ ix <= 2
        BY <4>2 DEF Ix
      <4> QED
        BY <4>1, <4>2, <4>3 DEF RowsOf
    <3>2. IsFiniteSet(RowsOf(r)) /\ Cardinality(RowsOf(r)) \in Nat
      <4>1. IsFiniteSet(1 .. N) /\ RowsOf(r) \subseteq 1 .. N
        BY SizeAssumption, FS_Interval DEF RowsOf, Ix
      <4> QED
        BY <4>1, FS_Subset, FS_CardinalityType
    <3>3. Cardinality(RowsOf(r)) # 0
      BY <3>1, <3>2, FS_EmptySet
    <3>4. ResumeAt(r) = Cardinality(RowsOf(r)) + 1
      BY <1>4 DEF ResumeAt
    <3> QED
      BY <3>1, <3>2, <3>3, <3>4
  <2> QED
    BY <1>1, <1>4, <2>1 DEF FineBut
<1>5. CASE open # {}
  <2>1. open = {x} /\ x \in Ix
    BY <1>3, <1>5
  <2>2. ResumeAt(r) = CHOOSE ix \in open : \A other \in open : ix <= other
    BY <1>5 DEF ResumeAt
  <2>3. x \in open /\ \A other \in open : x <= other
    <3>1. x \in Nat
      BY <2>1, SizeAssumption DEF Ix
    <3>2. \A other \in open : x <= other
      BY <2>1, <3>1
    <3> QED
      BY <2>1, <3>2
  <2>4. ResumeAt(r) = x
    BY <2>1, <2>2, <2>3
  <2>5. \A ix \in Ix : x < ix => ~row[r][ix].cands
    BY <2>1 DEF OneOpenStep, Fine
  <2> QED
    BY <1>2, <2>1, <2>4, <2>5, SizeAssumption DEF Ix
<1> QED
  BY <1>4, <1>5

\* All requests but a pick leave the rows, and a runner they start is where it may be.
LEMMA RequestsKeepRunsWhole ==
  ASSUME TypeOK, RunnersHoldTheirRuns, NothingLooksAliveThatIsNot, RunsAreWhole,
         AdHocRuns \subseteq EmptyRuns, SelectSteps # {} => N <= 2, Request,
         \A r \in Runs, ix \in Ix : ~Pick(r, ix)
  PROVE  RunsAreWhole'
<1>0. /\ TasksOK /\ run \in [Runs -> RunStates] /\ row \in [Runs -> [Ix -> Rows]]
      /\ mode \in [Runs -> {"plan", "live"}] /\ \A u \in Tasks : task[u].run \in Runs
  BY TaskFacts DEF TypeOK
<1>2. UNCHANGED row
  BY DEF Request, StartRun, Resume, AddStep, Cancel, Ack, FanOut, ledger
<1>3. \A r \in Runs : mode'[r] = mode[r] \/ run[r] = "none"
  BY <1>0 DEF Request, StartRun, Resume, AddStep, Cancel, Ack, FanOut
<1>4. \A r \in Runs : run'[r] \in {"none", "done"} => run[r] = run'[r]
  BY <1>0, RequestShape DEF SpawnsOn, MakesEmpty, Cancel
<1>5. ASSUME NEW r \in Runs \ EmptyRuns PROVE OneOpenStep(r) /\ OneOpenStep(r)'
  BY <1>2, <1>3, <1>4 DEF RunsAreWhole, OneOpenStep
<1>6. ASSUME NEW u \in Tasks, Active(task[u]), task'[u] = task[u], task[u].run \notin EmptyRuns
      PROVE  IsAtTheOpenStep(u)'
  <2>1. run[task[u].run] # "none" /\ IsAtTheOpenStep(u)
    BY <1>6 DEF RunnersHoldTheirRuns, RunsAreWhole
  <2>2. mode'[task[u].run] = mode[task[u].run]
    BY <1>0, <1>3, <2>1
  <2> QED
    BY <1>2, <1>6, <2>1, <2>2 DEF IsAtTheOpenStep
<1>7. CASE UNCHANGED task
  BY <1>5, <1>6, <1>7 DEF RunsAreWhole
<1>8. ASSUME NEW r \in Runs, NEW ix, NEW via, Spawn(r, ix, via),
             r \in EmptyRuns \/ (/\ FineBut(row[r], ix)
                                /\ \A i \in Ix : row[r][i].cands => i <= ix)
      PROVE  RunsAreWhole'
  <2>1. PICK t \in Tasks : SetTask(t, Spawned(r, ix, via))
    BY <1>8 DEF Spawn
  <2> DEFINE k == Spawned(r, ix, via)
  <2>2. k.pc = "start" /\ k.run = r /\ k.ix = ix
    BY DEF Spawned
  <2> HIDE DEF k
  <2>3. Untouched(t) /\ task'[t] = k
    BY <1>0, <2>1, SetTaskKeeps DEF k
  <2>4. ASSUME NEW u \in Tasks, Active(task'[u]), task'[u].run \notin EmptyRuns
        PROVE  IsAtTheOpenStep(u)'
    <3>1. CASE u = t
      BY <1>2, <1>8, <2>2, <2>3, <2>4, <3>1 DEF IsAtTheOpenStep
    <3>2. CASE u # t
      BY <1>6, <2>3, <2>4, <3>2 DEF Untouched
    <3> QED
      BY <3>1, <3>2
  <2> QED
    BY <1>5, <2>4 DEF RunsAreWhole
<1>9. ASSUME NEW r \in Runs, StartRun(r) PROVE RunsAreWhole'
  <2>1. CASE r \in EmptyRuns
    BY <1>7, <1>9, <2>1 DEF StartRun
  <2>2. CASE r \notin EmptyRuns
    <3>1. FineBut(row[r], 1) /\ Spawn(r, 1, "run") /\ \A i \in Ix : ~row[r][i].cands
      BY <1>5, <1>9, <2>2 DEF StartRun, OneOpenStep, AllFine, FineBut
    <3> QED
      BY <1>8, <3>1
  <2> QED
    BY <2>1, <2>2
<1>10. ASSUME NEW r \in Runs, Resume(r) PROVE RunsAreWhole'
  <2>1. r \notin EmptyRuns /\ run[r] = "failed" /\ Spawn(r, ResumeAt(r), "resume")
    BY <1>10 DEF Resume, Take
  <2>2. Holders(r) = {}
    BY <2>1, RestingRunIsFree DEF Rests
  <2>3. \A ix \in Ix : row[r][ix].state # "running"
    BY <2>2 DEF NothingLooksAliveThatIsNot, Holders
  <2>4. FineBut(row[r], ResumeAt(r)) /\ \A i \in Ix : row[r][i].cands => i <= ResumeAt(r)
    BY <1>0, <1>5, <2>1, <2>3, ResumesAtTheOpenStep
  <2> QED
    BY <1>8, <2>1, <2>4
<1>11. ASSUME NEW r \in Runs, NEW ix \in Ix, Ack(r, ix) PROVE RunsAreWhole'
  <2>1. r \notin EmptyRuns /\ ~Fine(row[r][ix]) /\ Spawn(r, ix, "ack")
    BY <1>11 DEF Ack, Fine
  <2>2. FineBut(row[r], ix)
    BY <1>5, <2>1 DEF OneOpenStep, FineBut
  <2>3. \A i \in Ix : row[r][i].cands => i <= ix
    <3>1. \A i \in Ix : ix < i => ~row[r][i].cands
      BY <1>5, <2>1 DEF OneOpenStep
    <3> QED
      BY <3>1, SizeAssumption DEF Ix
  <2> QED
    BY <1>8, <2>1, <2>2, <2>3
<1>12. ASSUME NEW r \in Runs, AddStep(r) PROVE RunsAreWhole'
  BY <1>8, <1>12 DEF AddStep
<1>13. ASSUME NEW r \in Runs, Cancel(r) PROVE RunsAreWhole'
  BY <1>7, <1>13 DEF Cancel
<1>14. ASSUME NEW r \in Runs, NEW ix \in Ix, NEW c \in Runs, FanOut(r, ix, c) PROVE RunsAreWhole'
  <2>1. run[c] = "none" /\ c \notin EmptyRuns /\ Spawn(c, ix + 1, "run")
    BY <1>14 DEF FanOut
  <2>2. FineBut(row[c], ix + 1) /\ \A i \in Ix : ~row[c][i].cands
    BY <1>5, <2>1 DEF OneOpenStep, AllFine, FineBut
  <2> QED
    BY <1>8, <2>1, <2>2
<1> QED
  BY <1>9, <1>10, <1>11, <1>12, <1>13, <1>14 DEF Request

\* A pick makes the row of its step fine, and its runner begins behind it, past all that is
\* open and all that shows candidates: with two steps there is nothing else.
LEMMA PicksKeepRunsWhole ==
  ASSUME TypeOK, RunnersHoldTheirRuns, RunsAreWhole, SelectSteps # {} => N <= 2,
         NEW r \in Runs, NEW ix \in Ix, Pick(r, ix)
  PROVE  RunsAreWhole'
<1> DEFINE new == [row[r][ix] EXCEPT !.state = "done", !.stage = ""]
<1>0. /\ TasksOK /\ run \in [Runs -> RunStates] /\ row[r][ix] \in Rows
      /\ \A u \in Tasks : task[u].run \in Runs
  BY TaskFacts, RowFacts DEF TypeOK
<1>1. /\ r \notin EmptyRuns /\ row[r][ix].cands /\ run[r] \in {"gated", "done", "failed"}
      /\ run' = [run EXCEPT ![r] = "running"] /\ UNCHANGED mode
      /\ Spawn(r, ix + 1, "pick")
  BY DEF Pick, Take
<1>2. new.state = "done" /\ new.cands = row[r][ix].cands
  BY <1>0 DEF Rows
<1>3. PutRow(r, ix, new)
  BY DEF Pick, FinishStep
<1> HIDE DEF new
<1>4. \A q \in Runs, i \in Ix : row'[q][i] = IF q = r /\ i = ix THEN new ELSE row[q][i]
  BY <1>3, PutRowReads
<1>5. OneOpenStep(r)
  BY <1>1 DEF RunsAreWhole
<1>6. ix \in SelectSteps /\ mode[r] # "plan" /\ \A i \in Ix : i < ix => Fine(row[r][i])
  BY <1>1, <1>5 DEF OneOpenStep
<1>7. N \in Nat /\ N <= 2 /\ ix \in Nat /\ 1 <= ix /\ ix <= N
  BY <1>6, SizeAssumption DEF Ix
<1>8. Fine(new) /\ new.state # "none"
  BY <1>2 DEF Fine
<1>9. \A i \in Ix : i <= ix + 1 /\ (i # ix + 1 => Fine(row'[r][i]))
  <2>1. \A i \in Ix : i <= ix + 1 /\ (i # ix + 1 => i < ix \/ i = ix)
    BY <1>7 DEF Ix
  <2> QED
    BY <1>4, <1>6, <1>8, <2>1
<1>10. FineBut(row'[r], ix + 1)
  BY <1>9 DEF FineBut
<1>11. ASSUME NEW q \in Runs \ EmptyRuns PROVE OneOpenStep(q)'
  <2>1. CASE q # r
    <3>1. run'[q] = run[q] /\ \A i \in Ix : row'[q][i] = row[q][i]
      BY <1>0, <1>1, <1>4, <1>11, <2>1
    <3>2. OneOpenStep(q)
      BY <1>11 DEF RunsAreWhole
    <3> QED
      BY <1>1, <3>1, <3>2 DEF OneOpenStep, FineBut, AllFine
  <2>2. CASE q = r
    <3>1. run'[r] = "running" /\ mode'[r] # "plan"
      BY <1>0, <1>1, <1>6
    <3>2. \A i \in Ix : i \in WarmSteps => Fine(row'[r][i])
      BY <1>4, <1>5, <1>8 DEF OneOpenStep
    <3>3. \A i \in Ix : row'[r][i].cands => i \in SelectSteps /\ row'[r][i].state # "none"
      BY <1>2, <1>4, <1>5, <1>6, <1>8 DEF OneOpenStep
    <3>4. \A i, j \in Ix : (row'[r][i].cands /\ j < i) => Fine(row'[r][j])
      BY <1>2, <1>4, <1>5, <1>6, <1>8 DEF OneOpenStep
    <3> QED
      BY <1>10, <2>2, <3>1, <3>2, <3>3, <3>4 DEF OneOpenStep
  <2> QED
    BY <2>1, <2>2
<1>12. PICK t \in Tasks : SetTask(t, Spawned(r, ix + 1, "pick"))
  BY <1>1 DEF Spawn
<1> DEFINE k == Spawned(r, ix + 1, "pick")
<1>13. k.pc = "start" /\ k.run = r /\ k.ix = ix + 1
  BY DEF Spawned
<1> HIDE DEF k
<1>14. Untouched(t) /\ task'[t] = k
  BY <1>0, <1>12, SetTaskKeeps DEF k
<1>15. ASSUME NEW u \in Tasks, Active(task'[u]), task'[u].run \notin EmptyRuns
      PROVE  IsAtTheOpenStep(u)'
  <2>1. CASE u = t
    BY <1>9, <1>10, <1>13, <1>14, <2>1 DEF IsAtTheOpenStep
  <2>2. CASE u # t
    <3>1. task'[u] = task[u] /\ IsAtTheOpenStep(u)
      BY <1>14, <1>15, <2>2 DEF Untouched, RunsAreWhole
    <3>2. Holders(r) = {}
      BY <1>1, RestingRunIsFree DEF Rests
    <3>3. task[u].run # r
      BY <1>15, <3>1, <3>2 DEF Holders
    <3>4. \A i \in Ix : row'[task[u].run][i] = row[task[u].run][i]
      BY <1>0, <1>4, <3>3
    <3> QED
      BY <1>1, <3>1, <3>4 DEF IsAtTheOpenStep, FineBut, AllFine
  <2> QED
    BY <2>1, <2>2
<1> QED
  BY <1>11, <1>15 DEF RunsAreWhole


LEMMA RunsStayWhole ==
  ASSUME AdHocRuns \subseteq EmptyRuns, SelectSteps # {} => N <= 2, WarmSteps \cap (GateSteps \cup PickUsers) = {}
  PROVE  Spec => []RunsAreWhole
<1>free. Free.pc = "free"
  BY DEF Free, Spawned
<1>1. Init => RunsAreWhole
  <2> SUFFICES ASSUME Init PROVE RunsAreWhole
    OBVIOUS
  <2>1. \A r \in Runs, ix \in Ix : Fine(row[r][ix]) /\ ~row[r][ix].cands
    BY DEF Init, NoRow, Fine
  <2> QED
    BY <1>free, <2>1 DEF Init, RunsAreWhole, OneOpenStep, FineBut, AllFine, Active
<1>2. TypeOK /\ RunnersHoldTheirRuns /\ NothingLooksAliveThatIsNot /\ RunsAreWhole /\ [Next]_vars
        => RunsAreWhole'
  <2> SUFFICES ASSUME TypeOK, RunnersHoldTheirRuns, NothingLooksAliveThatIsNot, RunsAreWhole, [Next]_vars
               PROVE  RunsAreWhole'
    OBVIOUS
  <2>1. CASE Restart
    <3>1. \A r \in Runs, ix \in Ix : /\ row'[r][ix].cands = row[r][ix].cands
                                     /\ Fine(row'[r][ix]) <=> Fine(row[r][ix])
                                     /\ row'[r][ix].state = "none" <=> row[r][ix].state = "none"
      <4> SUFFICES ASSUME NEW r \in Runs, NEW ix \in Ix
                   PROVE  /\ row'[r][ix].cands = row[r][ix].cands
                          /\ Fine(row'[r][ix]) <=> Fine(row[r][ix])
                          /\ row'[r][ix].state = "none" <=> row[r][ix].state = "none"
        OBVIOUS
      <4> DEFINE closed == [row[r][ix] EXCEPT !.state = "unknown"]
      <4>1. closed.state = "unknown" /\ closed.cands = row[r][ix].cands
        BY RowFacts DEF Rows
      <4> HIDE DEF closed
      <4>2. row'[r][ix] = IF row[r][ix].state = "running" THEN closed ELSE row[r][ix]
        BY <2>1 DEF Restart, closed
      <4> QED
        BY <4>1, <4>2 DEF Fine
    <3>2. \A u \in Tasks : ~Active(task'[u])
      BY <2>1, NothingHeldAfterRestart
    <3>3. \A r \in Runs : (run'[r] \in {"none", "done"} => run[r] = run'[r]) /\ mode'[r] = mode[r]
      BY <2>1 DEF Restart
    <3> QED
      BY <3>1, <3>2, <3>3 DEF RunsAreWhole, OneOpenStep, FineBut, AllFine
  <2>2. CASE UNCHANGED vars
    BY <2>2 DEF vars, ledger, RunsAreWhole, OneOpenStep, IsAtTheOpenStep, FineBut, AllFine
  <2> QED
    BY <2>1, <2>2, RunnersKeepRunsWhole, RequestsKeepRunsWhole, PicksKeepRunsWhole DEF Next
<1>4. Spec => []RunnersHoldTheirRuns
  <2>1. Spec => [](RunnersHoldTheirRuns /\ OneRunner)
    BY RunsHaveOneRunner
  <2> QED
    BY <2>1, PTL
<1>5. Spec => []NothingLooksAliveThatIsNot
  BY NothingLooksAlive
<1> QED
  BY TypeCorrect, <1>1, <1>2, <1>4, <1>5, PTL DEF Spec

\* A run of a procedure that has ended as done has no step that failed, waits for a person,
\* or of which nobody knows: approvals, resumes and restarts leave one open step at most, and
\* the runner that ends the run is past it.  (In procedures of more than two steps, a step that
\* selects may be picked for again, over an open step behind it; a warm-up call leaves the card
\* of its approval open.)
THEOREM DoneRunsAreWhole ==
  ASSUME AdHocRuns \subseteq EmptyRuns, SelectSteps # {} => N <= 2,
         WarmSteps \cap (GateSteps \cup PickUsers) = {}
  PROVE  Spec => []DoneIsWhole
<1>1. RunsAreWhole => DoneIsWhole
  BY DEF RunsAreWhole, OneOpenStep, AllFine, Fine, DoneIsWhole
<1>2. Spec => []RunsAreWhole
  BY RunsStayWhole
<1> QED
  BY <1>1, <1>2, PTL

-----------------------------------------------------------------------------
(* What a resume finds done.                                                 *)

\* The rows of a run are those up to a number; an open one is the last.
NumberedOn(rows) == \E m \in 0 .. N : \A i \in Ix : rows[i].state # "none" <=> i <= m
OpenIsLast(rows) == \A i, j \in Ix : (~Fine(rows[i]) /\ i < j) => rows[j].state = "none"

\* The steps before this one have their rows, and none after it.
InTurn(rows, ix) ==
  \A i \in Ix : (i < ix => rows[i].state # "none") /\ (i > ix => rows[i].state = "none")

Ahead == {"start", "sem", "open", "opened", "hold", "boundary", "preview", "begin"}
Past == {"card", "refuse", "lock", "spend", "calling", "after"}

\* A runner that calls is at the last row, if that is open, or at the next one.
IsInTurn(t) ==
  LET k    == task[t]
      rows == row[k.run]
  IN
  /\ k.pc = "plan" =>
       mode[k.run] = "plan" /\ \A i \in Ix : i < k.ix => rows[i].state # "none"
  /\ (k.pc \in Ahead /\ mode[k.run] # "plan") =>
       InTurn(rows, k.ix) /\ (k.ix \in Ix => rows[k.ix].state \notin {"done", "skipped"})
  /\ k.pc \in Past => InTurn(rows, k.ix) /\ rows[k.ix].state # "none"
  /\ k.pc \in {"lock", "spend"} => k.prev # "done"

RunsAreInTurn ==
  /\ \A r \in Runs \ EmptyRuns :
       /\ NumberedOn(row[r]) /\ OpenIsLast(row[r])
       /\ run[r] = "none" => \A ix \in Ix : row[r][ix].state = "none"
  /\ \A t \in Tasks : (Active(task[t]) /\ task[t].run \notin EmptyRuns) => IsInTurn(t)
  /\ \A t \in Tasks : (Active(task[t]) /\ task[t].via = "resume") => task[t].run \notin EmptyRuns

LEMMA InTurnAsBefore ==
  ASSUME TypeOK, NEW u \in Tasks, IsInTurn(u), task'[u] = task[u],
         mode'[task[u].run] = mode[task[u].run],
         \A ix \in Ix : row'[task[u].run][ix] = row[task[u].run][ix]
  PROVE  IsInTurn(u)'
<1> DEFINE R == task[u].run
<1>1. \A ix : InTurn(row[R], ix) => InTurn(row'[R], ix)
  BY DEF InTurn
<1>2. task[u].pc \in Past => task[u].ix \in Ix
  BY TaskFacts DEF AtAStep, StepPCs, Past
<1> QED
  BY <1>1, <1>2 DEF IsInTurn

\* The run stays in turn through a step of its runner.
StaysInTurn(t) ==
  LET rows == row'[task[t].run] IN
  /\ Active(task'[t]) => task'[t].run = task[t].run /\ IsInTurn(t)'
  /\ NumberedOn(rows) /\ OpenIsLast(rows)

\* A row that is written in its turn keeps the numbers.
LEMMA WrittenInTurn ==
  ASSUME TypeOK, NEW t \in Tasks, task[t].ix \in Ix,
         FineBut(row[task[t].run], task[t].ix), InTurn(row[task[t].run], task[t].ix),
         NEW states, "none" \notin states, Writes(task[t], states)
  PROVE  LET rows == row'[task[t].run] IN
         /\ InTurn(rows, task[t].ix) /\ rows[task[t].ix].state # "none"
         /\ NumberedOn(rows) /\ OpenIsLast(rows)
<1> DEFINE R == task[t].run
           n == task[t].ix
           rows == row'[R]
<1>1. n \in Ix /\ n \in 0 .. N
  BY SizeAssumption DEF Ix
<1>2. \A i \in Ix : IF i = n THEN rows[i].state \in states ELSE rows[i] = row[R][i]
  BY TaskFacts DEF Writes
<1>3. InTurn(rows, n) /\ rows[n].state # "none"
  BY <1>1, <1>2 DEF InTurn
<1>4. \A i \in Ix : rows[i].state # "none" <=> i <= n
  BY <1>1, <1>3, SizeAssumption DEF InTurn, Ix
<1>5. NumberedOn(rows)
  BY <1>1, <1>4 DEF NumberedOn
<1>6. OpenIsLast(rows)
  BY <1>1, <1>2, <1>3 DEF OpenIsLast, InTurn, FineBut, Fine
<1> QED
  BY <1>3, <1>5, <1>6

\* A step that leaves the rows and the step it is at.
LEMMA QuietStaysInTurn ==
  ASSUME NEW t \in Tasks, IsInTurn(t), NumberedOn(row[task[t].run]), OpenIsLast(row[task[t].run]),
         UNCHANGED <<row, mode>>,
         ~Active(task'[t]) \/
           /\ task'[t].run = task[t].run
           /\ \/ task'[t].pc \notin Ahead \cup Past \cup {"plan"}
              \/ /\ task'[t].ix = task[t].ix
                 /\ \/ task'[t].pc \in Ahead /\ task[t].pc \in Ahead
                    \/ task'[t].pc \in Past /\ task[t].pc \in {"lock", "spend"}
                       /\ task'[t].prev = task[t].prev
  PROVE  StaysInTurn(t)
BY DEF StaysInTurn, IsInTurn, Ahead, Past

LEMMA RunnersStayInTurn ==
  ASSUME TypeOK, SelectSteps = {}, WarmSteps = {},
         NEW t \in Tasks, RunnerStep(t), Active(task[t]), task[t].via # "step",
         IsAtTheOpenStep(t), IsInTurn(t), NumberedOn(row[task[t].run]), OpenIsLast(row[task[t].run])
  PROVE  StaysInTurn(t)
<1> DEFINE k == task[t]
           R == k.run
<1>0. /\ TasksOK /\ k \in TaskRecords /\ R \in Runs /\ k.ix \in 1 .. N + 1
      /\ k.next \in {"card", "refuse", "lock", "spend"} /\ (AtAStep(k) => k.ix \in Ix)
  BY TaskFacts
<1>ix. k.pc \in StepPCs => k.ix \in Ix
  BY <1>0 DEF AtAStep
<1>w. ~Warm(k)
  BY DEF Warm
<1>m. UNCHANGED mode
  BY RunnersLeaveTheModes
<1>n. k.pc \notin {"start", "plan"} => mode[R] # "plan"
  BY DEF IsAtTheOpenStep
<1>a. k.pc \in Ahead => k.pc \notin Past
  BY DEF Ahead, Past
<1>1. CASE Start(t)
  <2> DEFINE new == IF mode[R] = "plan"
                    THEN [k EXCEPT !.pc = "plan", !.scope = inputs[R], !.ix = 1]
                    ELSE [k EXCEPT !.pc = "sem", !.scope = inputs[R]]
  <2>1. /\ new.run = R
        /\ \/ mode[R] = "plan" /\ new.pc = "plan" /\ new.ix = 1
           \/ mode[R] # "plan" /\ new.pc = "sem" /\ new.ix = k.ix
    BY <1>0 DEF TaskRecords
  <2> HIDE DEF new
  <2>2. SetTask(t, new) /\ UNCHANGED row /\ k.pc = "start"
    BY <1>1 DEF Start, new, ledger
  <2>3. task'[t] = new
    BY <1>0, <2>2, SetTaskKeeps
  <2>4. \A i \in Ix : ~(i < 1)
    BY SizeAssumption DEF Ix
  <2> QED
    BY <1>m, <2>1, <2>2, <2>3, <2>4 DEF StaysInTurn, IsInTurn, Ahead, Past
<1>2. CASE Bookkeeping(t) /\ ~Start(t)
  <2>1. /\ UNCHANGED row /\ task'[t].pc \in Away
        /\ ~Active(task'[t]) \/ (task'[t].run = R /\ task'[t].ix = k.ix)
    BY <1>2, BookkeepingIsAway, BookkeepingStays DEF StartStep
  <2>2. CASE Acquire(t) \/ Open(t) \/ Opened(t)
    <3>1. k.pc \in Ahead
      BY <2>2 DEF Acquire, Open, Opened, Ahead
    <3>2. task'[t].pc # "plan"
      <4>1. CASE Acquire(t) \/ Opened(t)
        <5>1. \E pc \in {"open", "stepfail", "callback", "close", "hold", "drift"} : Go(t, pc)
          BY <4>1 DEF Acquire, Opened
        <5> QED
          BY <1>0, <5>1, GoKeeps DEF Keeps
      <4>2. CASE Open(t)
        <5>1. CASE Go(t, "opened")
          BY <1>0, <5>1, GoKeeps DEF Keeps
        <5>2. ASSUME NEW how \in {"yes", "runner"},
                     SetTask(t, [task[t] EXCEPT !.pc = "close", !.crashed = how])
              PROVE  task'[t].pc # "plan"
          <6> DEFINE new == [task[t] EXCEPT !.pc = "close", !.crashed = how]
          <6>1. new.pc = "close"
            BY <1>0 DEF TaskRecords
          <6> HIDE DEF new
          <6>2. SetTask(t, new)
            BY <5>2 DEF new
          <6> QED
            BY <1>0, <6>1, <6>2, SetTaskKeeps
        <5> QED
          BY <4>2, <5>1, <5>2 DEF Open
      <4> QED
        BY <2>2, <4>1, <4>2
    <3>3. task'[t].pc \in Ahead \/ task'[t].pc \notin Ahead \cup Past \cup {"plan"}
      BY <2>1, <3>2 DEF Away, Past
    <3> QED
      BY <1>m, <2>1, <3>1, <3>3, QuietStaysInTurn
  <2>3. CASE PlanDone(t) \/ Callback(t) \/ StepFail(t)
    <3>1. ~Active(task'[t])
      BY <1>0, <2>3, FreedTask DEF PlanDone, Callback, StepFail
    <3> QED
      BY <1>m, <2>1, <3>1, QuietStaysInTurn
  <2>4. CASE Drift(t) \/ AfterStopped(t) \/ Fail(t) \/ Pause(t) \/ Finish(t) \/ Rest(t) \/ Close(t)
    <3>1. SetTask(t, Free) \/ \E pc \in {"close", "stepfail", "callback"} : Go(t, pc)
      BY <2>4 DEF Drift, AfterStopped, Fail, Pause, Finish, Rest, Close
    <3>2. ~Active(task'[t]) \/ task'[t].pc \in {"close", "stepfail", "callback"}
      BY <1>0, <3>1, FreedTask, GoKeeps DEF Keeps
    <3>3. ~Active(task'[t]) \/ task'[t].pc \notin Ahead \cup Past \cup {"plan"}
      BY <3>2 DEF Ahead, Past
    <3> QED
      BY <1>m, <2>1, <3>3, QuietStaysInTurn
  <2> QED
    BY <1>2, <2>2, <2>3, <2>4 DEF Bookkeeping, StartStep
<1>3. CASE PlanStep(t)
  <2> DEFINE new == [k EXCEPT !.ix = @ + 1]
             skipped == [NoRow EXCEPT !.state = "skipped",
                                      !.fp = Fingerprint(k.ix, k.scope, NoView)]
  <2>1. new.pc = "plan" /\ new.run = R /\ new.ix = k.ix + 1 /\ k.ix \in Ix /\ k.pc = "plan"
    BY <1>0, <1>3 DEF TaskRecords, PlanStep
  <2> HIDE DEF new
  <2>2. SetTask(t, new) /\ PutRow(R, k.ix, skipped)
    BY <1>3 DEF PlanStep, new
  <2>3. skipped.state = "skipped"
    BY DEF NoRow
  <2> HIDE DEF skipped
  <2>4. task'[t] = new
    BY <1>0, <2>2, SetTaskKeeps
  <2>5. \A i \in Ix : row'[R][i] = IF i = k.ix THEN skipped ELSE row[R][i]
    BY <1>0, <2>1, <2>2, PutRowReads
  <2>6. mode[R] = "plan" /\ \A i \in Ix : i < k.ix => row[R][i].state # "none"
    BY <2>1 DEF IsInTurn
  <2>7. \A i \in Ix : i < k.ix + 1 => row'[R][i].state # "none"
    BY <2>1, <2>3, <2>5, <2>6, SizeAssumption DEF Ix
  <2>8. NumberedOn(row'[R])
    <3>1. PICK m \in 0 .. N : \A i \in Ix : row[R][i].state # "none" <=> i <= m
      BY DEF NumberedOn
    <3>2. CASE k.ix <= m
      BY <2>3, <2>5, <3>1, <3>2 DEF NumberedOn
    <3>3. CASE ~(k.ix <= m)
      <4>1. k.ix \in 0 .. N /\ \A i \in Ix : i <= k.ix <=> (i < k.ix \/ i = k.ix)
        BY <2>1, SizeAssumption DEF Ix
      <4>2. \A i \in Ix : row'[R][i].state # "none" <=> i <= k.ix
        BY <2>1, <2>3, <2>5, <2>6, <3>1, <3>3, <4>1, SizeAssumption DEF Ix
      <4> QED
        BY <4>1, <4>2 DEF NumberedOn
    <3> QED
      BY <3>2, <3>3
  <2>9. OpenIsLast(row'[R])
    BY <2>1, <2>3, <2>5 DEF IsAtTheOpenStep, FineBut, OpenIsLast, Fine
  <2> QED
    BY <1>m, <2>1, <2>4, <2>6, <2>7, <2>8, <2>9 DEF StaysInTurn, IsInTurn, Ahead, Past
<1>4. CASE Hold(t) \/ Boundary(t) \/ Preview(t)
  <2>1. UNCHANGED row /\ k.pc \in Ahead
    BY <1>4 DEF Hold, Boundary, Preview, ledger, Ahead
  <2>2. \/ \E pc \in {"close", "fail", "preview", "boundary"} : Go(t, pc)
        \/ \E next, fp : BeginAs(t, next, fp)
        \/ \E fp : Call(t, fp)
    <3>1. CASE Boundary(t)
      BY <3>1 DEF Boundary
    <3>2. CASE Preview(t)
      BY <3>2 DEF Preview
    <3>3. CASE Hold(t)
      BY <3>3 DEF Hold
    <3> QED
      BY <1>4, <3>1, <3>2, <3>3
  <2>3. /\ task'[t].run = R /\ task'[t].ix = k.ix
        /\ task'[t].pc \in {"close", "fail", "preview", "boundary", "begin"}
    <3>1. ASSUME NEW pc \in {"close", "fail", "preview", "boundary"}, Go(t, pc)
          PROVE  task'[t].run = R /\ task'[t].ix = k.ix /\ task'[t].pc = pc
      BY <1>0, <3>1, GoMoves DEF Moved, Keeps
    <3>2. ASSUME NEW next, NEW fp, BeginAs(t, next, fp)
          PROVE  task'[t].run = R /\ task'[t].ix = k.ix /\ task'[t].pc = "begin"
      BY <1>0, <3>2, BeginMoves DEF Began, Keeps
    <3>3. ASSUME NEW fp, Call(t, fp)
          PROVE  task'[t].run = R /\ task'[t].ix = k.ix /\ task'[t].pc = "begin"
      BY <1>0, <1>w, <3>3, CallMoves DEF Called, Began, Keeps
    <3> QED
      BY <2>2, <3>1, <3>2, <3>3
  <2>4. task'[t].pc \in Ahead \/ task'[t].pc \notin Ahead \cup Past \cup {"plan"}
    BY <2>3 DEF Ahead, Past
  <2> QED
    BY <1>m, <2>1, <2>3, <2>4, QuietStaysInTurn
<1>5. CASE Lock(t) \/ Send(t) \/ AfterFailure(t)
  <2>1. /\ UNCHANGED row
        /\ \/ k.pc = "lock" /\ Go(t, "spend")
           \/ k.pc = "spend" /\ Go(t, "calling")
           \/ Go(t, "fail")
    BY <1>5 DEF Lock, Send, AfterFailure, ledger
  <2>2. /\ task'[t].run = R /\ task'[t].ix = k.ix /\ task'[t].prev = k.prev
        /\ \/ k.pc = "lock" /\ task'[t].pc = "spend"
           \/ k.pc = "spend" /\ task'[t].pc = "calling"
           \/ task'[t].pc = "fail"
    BY <1>0, <2>1, GoMoves DEF Moved, Keeps
  <2> QED
    BY <1>m, <2>1, <2>2, QuietStaysInTurn DEF Ahead, Past
<1>6. CASE Begin(t)
  <2> DEFINE new == [NoRow EXCEPT !.state = "running", !.fp = k.fp]
  <2>1. k.pc = "begin" /\ PutRow(R, k.ix, new) /\ k.ix \in Ix
    BY <1>6, <1>ix DEF Begin, StepPCs
  <2>2. new.state = "running"
    BY DEF NoRow
  <2> HIDE DEF new
  <2>3. Writes(k, {"running"})
    BY <1>0, <2>1, <2>2, PutRowReads DEF Writes
  <2>4. InTurn(row[R], k.ix) /\ row[R][k.ix].state # "done" /\ mode[R] # "plan"
    BY <1>n, <2>1 DEF IsInTurn, Ahead
  <2>5. Keeps(t, k.next) /\ task'[t].ix = k.ix /\ task'[t].prev # "done"
    BY <1>6, <2>4, BegunMoves
  <2>6. /\ InTurn(row'[R], k.ix) /\ row'[R][k.ix].state # "none"
        /\ NumberedOn(row'[R]) /\ OpenIsLast(row'[R])
    BY <2>1, <2>3, <2>4, WrittenInTurn DEF IsAtTheOpenStep
  <2> QED
    BY <1>0, <1>m, <2>4, <2>5, <2>6 DEF StaysInTurn, IsInTurn, Keeps, Ahead
<1>7. CASE Card(t) \/ Refuse(t) \/ NotSpent(t) \/ Return(t)
  <2>1. k.pc \in Past /\ k.ix \in Ix
    BY <1>7, <1>ix DEF Card, Refuse, NotSpent, Return, StepPCs, Past
  <2>2. \E s \in {"pending", "done", "failed", "unknown"} : Writes(k, {s})
    <3>1. CASE Card(t)
      <4> DEFINE new == [row[R][k.ix] EXCEPT !.state = "pending", !.stage = "gate"]
      <4>0. row[R][k.ix] \in Rows
        BY <1>0, <2>1, RowFacts
      <4>1. new.state = "pending"
        BY <4>0 DEF Rows
      <4>2. PutRow(R, k.ix, new)
        BY <3>1 DEF Card
      <4> HIDE DEF new
      <4> QED
        BY <1>0, <2>1, <4>1, <4>2, PutRowReads DEF Writes
    <3>2. CASE Refuse(t) \/ NotSpent(t) \/ Return(t)
      <4>1. \E s \in {"done", "failed", "unknown"} : FinishStep(R, k.ix, s)
        BY <1>w, <3>2 DEF Refuse, NotSpent, Return
      <4> QED
        BY <2>1, <4>1, FinishWrites
    <3> QED
      BY <1>7, <3>1, <3>2
  <2>3. task'[t].run = R /\ task'[t].ix = k.ix /\ task'[t].pc \in {"pause", "fail", "after"}
    <3>1. CASE Card(t) \/ Refuse(t)
      <4>1. \E pc \in {"pause", "fail"} : Go(t, pc)
        BY <3>1 DEF Card, Refuse
      <4> QED
        BY <1>0, <4>1, GoMoves DEF Moved, Keeps
    <3>2. CASE NotSpent(t) \/ Return(t)
      BY <3>2, AnsweredMoves DEF Keeps
    <3> QED
      BY <1>7, <3>1, <3>2
  <2>4. /\ InTurn(row'[R], k.ix) /\ row'[R][k.ix].state # "none"
        /\ NumberedOn(row'[R]) /\ OpenIsLast(row'[R])
    BY <2>1, <2>2, WrittenInTurn DEF IsAtTheOpenStep, IsInTurn
  <2> QED
    BY <2>3, <2>4 DEF StaysInTurn, IsInTurn, Ahead, Past
<1>8. CASE AfterWarmup(t) \/ AfterStep(t)
  <2>1. k.pc = "after" /\ UNCHANGED row /\ k.ix \in Ix
    BY <1>8, <1>ix DEF AfterWarmup, AfterStep, StepPCs, ledger
  <2>2. InTurn(row[R], k.ix) /\ row[R][k.ix].state # "none" /\ mode[R] # "plan"
    BY <1>n, <2>1 DEF IsInTurn, Past
  <2>3. Keeps(t, "boundary") /\ task'[t].ix = k.ix + 1
    BY <1>0, <1>8, NextStepMoves DEF AfterWarmup, AfterStep, Advanced
  <2>4. InTurn(row[R], k.ix + 1) /\ (k.ix + 1 \in Ix => row[R][k.ix + 1].state = "none")
    <3>1. \A i \in Ix : (i < k.ix + 1 => i < k.ix \/ i = k.ix) /\ (i > k.ix + 1 => i > k.ix)
      BY <2>1, SizeAssumption DEF Ix
    <3>2. k.ix + 1 > k.ix
      BY <2>1, SizeAssumption DEF Ix
    <3> QED
      BY <2>2, <3>1, <3>2 DEF InTurn
  <2> QED
    BY <1>m, <2>1, <2>2, <2>3, <2>4 DEF StaysInTurn, IsInTurn, Keeps, Ahead, Past
<1>9. ~StartStep(t) /\ ~StepArgs(t) /\ ~AfterAdHoc(t) /\ ~AfterSelect(t)
  BY DEF StartStep, StepArgs, AfterAdHoc, AfterSelect
<1> QED
  BY <1>1, <1>2, <1>3, <1>4, <1>5, <1>6, <1>7, <1>8, <1>9 DEF RunnerStep, Bookkeeping

LEMMA RunnersKeepTurns ==
  ASSUME TypeOK, RunnersHoldTheirRuns, RunsAreWhole, RunsAreInTurn,
         AdHocRuns \subseteq EmptyRuns, SelectSteps = {}, WarmSteps = {},
         NEW t \in Tasks, RunnerStep(t)
  PROVE  RunsAreInTurn'
<1> DEFINE k == task[t]
           R == k.run
<1>0. run \in [Runs -> RunStates] /\ \A u \in Tasks : task[u].run \in Runs
  BY TaskFacts DEF TypeOK
<1>1. Untouched(t) /\ UNCHANGED mode
  BY RunnerShape, RunnersLeaveTheModes DEF WorksOn, LetsGo, IsGone
<1>2. \A r \in Runs, ix \in Ix : row'[r][ix] = row[r][ix] \/ (r = R /\ ix = k.ix)
  BY RunnersWriteTheirRow
<1>3. \A r \in Runs : run'[r] = "none" => run[r] = "none"
  BY <1>0, RunnerShape DEF WorksOn, LetsGo, IsGone, SetRun
<1>4. ~Active(k) => UNCHANGED <<run, row>> /\ ~Active(task'[t])
  BY GoneRunnersClose, RunnerShape DEF WorksOn, LetsGo, IsGone
<1>5. Active(task'[t]) => Active(k) /\ task'[t].run = R
  BY <1>4, RunnerShape DEF WorksOn, LetsGo, IsGone
<1>6. ASSUME Active(k), R \notin EmptyRuns
      PROVE  StaysInTurn(t) /\ run[R] # "none"
  <2>1. k.via # "step"
    BY <1>6 DEF RunnersHoldTheirRuns, TaskForm
  <2>2. IsAtTheOpenStep(t) /\ IsInTurn(t) /\ NumberedOn(row[R]) /\ OpenIsLast(row[R]) /\ run[R] # "none"
    BY <1>0, <1>6 DEF RunsAreWhole, RunsAreInTurn, RunnersHoldTheirRuns
  <2> QED
    BY <1>6, <2>1, <2>2, RunnersStayInTurn
<1>7. ASSUME NEW u \in Tasks, Active(task'[u]), task'[u].run \notin EmptyRuns
      PROVE  IsInTurn(u)'
  <2>1. CASE u = t
    BY <1>5, <1>6, <1>7, <2>1 DEF StaysInTurn
  <2>2. CASE u # t
    <3>1. task'[u] = task[u] /\ IsInTurn(u)
      BY <1>1, <1>7, <2>2 DEF Untouched, RunsAreInTurn
    <3>2. \A ix \in Ix : row'[task[u].run][ix] = row[task[u].run][ix]
      BY <1>0, <1>2, <1>4, <1>7, <2>2, <3>1 DEF RunnersHoldTheirRuns, OneRunner
    <3> QED
      BY <1>1, <3>1, <3>2, InTurnAsBefore
  <2> QED
    BY <2>1, <2>2
<1>8. ASSUME NEW r \in Runs \ EmptyRuns
      PROVE  /\ NumberedOn(row'[r]) /\ OpenIsLast(row'[r])
             /\ run'[r] = "none" => \A ix \in Ix : row'[r][ix].state = "none"
  <2>1. CASE r # R \/ ~Active(k)
    <3>1. \A ix \in Ix : row'[r][ix] = row[r][ix]
      BY <1>2, <1>4, <1>8, <2>1
    <3> QED
      BY <1>3, <1>8, <3>1 DEF RunsAreInTurn, NumberedOn, OpenIsLast
  <2>2. CASE r = R /\ Active(k)
    BY <1>3, <1>6, <1>8, <2>2 DEF StaysInTurn
  <2> QED
    BY <2>1, <2>2
<1>9. ASSUME NEW u \in Tasks, Active(task'[u]), task'[u].via = "resume"
      PROVE  task'[u].run \notin EmptyRuns
  <2>1. CASE u = t
    <3>1. task'[t] # Free
      BY <1>9, <2>1 DEF Free, Spawned
    <3> QED
      BY <1>5, <1>9, <2>1, <3>1, TasksKeepTheirRun DEF RunsAreInTurn
  <2>2. CASE u # t
    BY <1>1, <1>9, <2>2 DEF Untouched, RunsAreInTurn
  <2> QED
    BY <2>1, <2>2
<1> QED
  BY <1>7, <1>8, <1>9 DEF RunsAreInTurn

\* An open step is its run's last.
LEMMA OpenIsInTurn ==
  ASSUME NEW r, NumberedOn(row[r]), OpenIsLast(row[r]), NEW ix \in Ix, ~Fine(row[r][ix])
  PROVE  InTurn(row[r], ix) /\ row[r][ix].state \notin {"none", "done", "skipped"}
<1>1. PICK m \in 0 .. N : \A i \in Ix : row[r][i].state # "none" <=> i <= m
  BY DEF NumberedOn
<1>2. row[r][ix].state \notin {"none", "done", "skipped"}
  BY DEF Fine
<1>3. \A i \in Ix : i < ix => i <= m
  BY <1>1, <1>2, SizeAssumption DEF Ix
<1> QED
  BY <1>1, <1>2, <1>3 DEF InTurn, OpenIsLast

\* A resume starts in turn, on a step that has not passed.
LEMMA ResumesInTurn ==
  ASSUME NEW r \in Runs, NumberedOn(row[r]), OpenIsLast(row[r]),
         row \in [Runs -> [Ix -> Rows]], \A ix \in Ix : row[r][ix].state # "running",
         ResumeAt(r) \in Ix
  PROVE  InTurn(row[r], ResumeAt(r)) /\ row[r][ResumeAt(r)].state \notin {"done", "skipped"}
<1> DEFINE open == {ix \in Ix : row[r][ix].state \in {"failed", "unknown", "pending"}}
<1>0. \A ix \in Ix : row[r][ix] \in Rows
  OBVIOUS
<1>1. \A ix \in Ix : Fine(row[r][ix]) \/ ix \in open
  BY <1>0 DEF Fine, Rows
<1>2. PICK m \in 0 .. N : \A i \in Ix : row[r][i].state # "none" <=> i <= m
  BY DEF NumberedOn
<1>3. CASE open = {}
  <2>1. ResumeAt(r) = Cardinality(RowsOf(r)) + 1
    BY <1>3 DEF ResumeAt
  <2>2. RowsOf(r) = 1 .. m
    BY <1>2, SizeAssumption DEF RowsOf, Ix
  <2>3. ResumeAt(r) = m + 1
    BY <2>1, <2>2, NextNumber
  <2>4. \A i \in Ix : (i < m + 1 => i <= m) /\ (i > m + 1 => ~(i <= m)) /\ ~(m + 1 <= m)
    BY SizeAssumption DEF Ix
  <2> QED
    BY <1>2, <2>3, <2>4 DEF InTurn
<1>4. CASE open # {}
  <2>1. PICK x \in open : TRUE
    BY <1>4
  <2>2. \A y \in open : y = x
    <3>1. \A y \in open : ~(x < y) /\ ~(y < x)
      BY <2>1 DEF OpenIsLast, Fine
    <3>2. x \in Int /\ \A y \in open : y \in Int
      BY <2>1, SizeAssumption DEF Ix
    <3> QED
      BY <3>1, <3>2
  <2>3. \A y \in open : x <= y
    <3>1. x <= x
      BY <2>1, SizeAssumption DEF Ix
    <3> QED
      BY <2>2, <3>1
  <2>4. ResumeAt(r) = CHOOSE ix \in open : \A other \in open : ix <= other
    BY <1>4 DEF ResumeAt
  <2>5. ResumeAt(r) \in open
    BY <2>1, <2>3, <2>4
  <2>6. ~Fine(row[r][ResumeAt(r)])
    BY <2>5 DEF Fine
  <2> QED
    BY <2>6, OpenIsInTurn
<1> QED
  BY <1>3, <1>4

LEMMA RequestsKeepTurns ==
  ASSUME TypeOK, RunnersHoldTheirRuns, NothingLooksAliveThatIsNot, RunsAreWhole, RunsAreInTurn,
         AdHocRuns \subseteq EmptyRuns, SelectSteps = {}, Request
  PROVE  RunsAreInTurn'
<1>0. /\ TasksOK /\ run \in [Runs -> RunStates] /\ row \in [Runs -> [Ix -> Rows]]
      /\ mode \in [Runs -> {"plan", "live"}] /\ \A u \in Tasks : task[u].run \in Runs
  BY TaskFacts DEF TypeOK
<1>1. \A r \in Runs \ EmptyRuns, ix \in Ix : ~Pick(r, ix) /\ \A c \in Runs : ~FanOut(r, ix, c)
  BY DEF Pick, FanOut, RunsAreWhole, OneOpenStep
<1>2. UNCHANGED row
  BY <1>1 DEF Request, StartRun, Resume, AddStep, Cancel, Pick, Ack, FanOut, ledger
<1>3. \A r \in Runs : mode'[r] = mode[r] \/ run[r] = "none"
  BY <1>0, <1>1 DEF Request, StartRun, Resume, AddStep, Cancel, Pick, Ack, FanOut
<1>4. \A r \in Runs : run'[r] = "none" => run[r] = "none"
  BY <1>0, RequestShape DEF SpawnsOn, MakesEmpty, Cancel
<1>5. ASSUME NEW r \in Runs \ EmptyRuns
      PROVE  /\ NumberedOn(row[r]) /\ OpenIsLast(row[r])
             /\ NumberedOn(row'[r]) /\ OpenIsLast(row'[r])
             /\ run'[r] = "none" => \A ix \in Ix : row'[r][ix].state = "none"
  BY <1>2, <1>4 DEF RunsAreInTurn
<1>6. ASSUME NEW u \in Tasks, Active(task[u]), task'[u] = task[u], task[u].run \notin EmptyRuns
      PROVE  IsInTurn(u)'
  <2>1. run[task[u].run] # "none" /\ IsInTurn(u)
    BY <1>6 DEF RunnersHoldTheirRuns, RunsAreInTurn
  <2>2. mode'[task[u].run] = mode[task[u].run]
    BY <1>0, <1>3, <2>1
  <2> QED
    BY <1>2, <1>6, <2>1, <2>2, InTurnAsBefore
<1>7. CASE UNCHANGED task
  BY <1>5, <1>6, <1>7 DEF RunsAreInTurn
<1>8. ASSUME NEW r \in Runs, NEW ix, NEW via, Spawn(r, ix, via), via = "resume" => r \notin EmptyRuns,
             r \in EmptyRuns \/
               (InTurn(row[r], ix) /\ (ix \in Ix => row[r][ix].state \notin {"done", "skipped"}))
      PROVE  RunsAreInTurn'
  <2>1. PICK t \in Tasks : SetTask(t, Spawned(r, ix, via))
    BY <1>8 DEF Spawn
  <2> DEFINE k == Spawned(r, ix, via)
  <2>2. k.pc = "start" /\ k.run = r /\ k.ix = ix /\ k.via = via
    BY DEF Spawned
  <2> HIDE DEF k
  <2>3. Untouched(t) /\ task'[t] = k
    BY <1>0, <2>1, SetTaskKeeps DEF k
  <2>4. ASSUME NEW u \in Tasks, Active(task'[u]), task'[u].run \notin EmptyRuns
        PROVE  IsInTurn(u)'
    <3>1. CASE u = t
      BY <1>2, <1>8, <2>2, <2>3, <2>4, <3>1 DEF IsInTurn, Ahead, Past
    <3>2. CASE u # t
      BY <1>6, <2>3, <2>4, <3>2 DEF Untouched
    <3> QED
      BY <3>1, <3>2
  <2>5. \A u \in Tasks : (Active(task'[u]) /\ task'[u].via = "resume") => task'[u].run \notin EmptyRuns
    BY <1>8, <2>2, <2>3 DEF Untouched, RunsAreInTurn
  <2> QED
    BY <1>5, <2>4, <2>5 DEF RunsAreInTurn
<1>9. ASSUME NEW r \in Runs, StartRun(r) PROVE RunsAreInTurn'
  <2>1. CASE r \in EmptyRuns
    BY <1>7, <1>9, <2>1 DEF StartRun
  <2>2. CASE r \notin EmptyRuns
    <3>1. Spawn(r, 1, "run") /\ \A ix \in Ix : row[r][ix].state = "none"
      BY <1>9, <2>2 DEF StartRun, RunsAreInTurn
    <3>2. \A ix \in Ix : ~(ix < 1)
      BY SizeAssumption DEF Ix
    <3>3. InTurn(row[r], 1)
      BY <3>1, <3>2 DEF InTurn
    <3>4. 1 \in Ix => row[r][1].state \notin {"done", "skipped"}
      BY <3>1
    <3> QED
      BY <1>8, <3>1, <3>3, <3>4
  <2> QED
    BY <2>1, <2>2
<1>10. ASSUME NEW r \in Runs, Resume(r) PROVE RunsAreInTurn'
  <2>1. /\ r \notin EmptyRuns /\ run[r] = "failed" /\ Spawn(r, ResumeAt(r), "resume")
        /\ ResumeAt(r) \in Ix
    BY <1>10 DEF Resume, Take
  <2>2. Holders(r) = {}
    BY <2>1, RestingRunIsFree DEF Rests
  <2>3. \A ix \in Ix : row[r][ix].state # "running"
    BY <2>2 DEF NothingLooksAliveThatIsNot, Holders
  <2>4. InTurn(row[r], ResumeAt(r)) /\ row[r][ResumeAt(r)].state \notin {"done", "skipped"}
    BY <1>0, <1>5, <2>1, <2>3, ResumesInTurn
  <2> QED
    BY <1>8, <2>1, <2>4
<1>11. ASSUME NEW r \in Runs, NEW ix \in Ix, Ack(r, ix) PROVE RunsAreInTurn'
  <2>1. r \notin EmptyRuns /\ ~Fine(row[r][ix]) /\ Spawn(r, ix, "ack")
    BY <1>11 DEF Ack, Fine
  <2>2. InTurn(row[r], ix) /\ row[r][ix].state \notin {"done", "skipped"}
    BY <1>5, <2>1, OpenIsInTurn
  <2> QED
    BY <1>8, <2>1, <2>2
<1>12. ASSUME NEW r \in Runs, AddStep(r) PROVE RunsAreInTurn'
  BY <1>8, <1>12 DEF AddStep
<1>13. ASSUME NEW r \in Runs, Cancel(r) PROVE RunsAreInTurn'
  BY <1>7, <1>13 DEF Cancel
<1>14. \A r \in EmptyRuns, ix \in Ix : ~Pick(r, ix) /\ \A c \in Runs : ~FanOut(r, ix, c)
  BY DEF Pick, FanOut
<1> QED
  BY <1>1, <1>9, <1>10, <1>11, <1>12, <1>13, <1>14 DEF Request

LEMMA RunsStayInTurn ==
  ASSUME AdHocRuns \subseteq EmptyRuns, SelectSteps = {}, WarmSteps = {}
  PROVE  Spec => []RunsAreInTurn
<1>free. Free.pc = "free"
  BY DEF Free, Spawned
<1>1. Init => RunsAreInTurn
  <2> SUFFICES ASSUME Init PROVE RunsAreInTurn
    OBVIOUS
  <2>1. \A r \in Runs, ix \in Ix : row[r][ix].state = "none"
    BY DEF Init, NoRow
  <2>2. 0 \in 0 .. N /\ \A ix \in Ix : ~(ix <= 0)
    BY SizeAssumption DEF Ix
  <2>3. \A r \in Runs : NumberedOn(row[r]) /\ OpenIsLast(row[r])
    BY <2>1, <2>2 DEF NumberedOn, OpenIsLast
  <2> QED
    BY <1>free, <2>1, <2>3 DEF Init, RunsAreInTurn, Active
<1>2. TypeOK /\ RunnersHoldTheirRuns /\ NothingLooksAliveThatIsNot /\ RunsAreWhole /\ RunsAreInTurn
        /\ [Next]_vars => RunsAreInTurn'
  <2> SUFFICES ASSUME TypeOK, RunnersHoldTheirRuns, NothingLooksAliveThatIsNot, RunsAreWhole,
                      RunsAreInTurn, [Next]_vars
               PROVE  RunsAreInTurn'
    OBVIOUS
  <2>1. CASE Restart
    <3>1. ASSUME NEW r \in Runs, NEW ix \in Ix
          PROVE  /\ Fine(row'[r][ix]) = Fine(row[r][ix])
                 /\ (row'[r][ix].state = "none") = (row[r][ix].state = "none")
      <4> DEFINE closed == [row[r][ix] EXCEPT !.state = "unknown"]
      <4>1. closed.state = "unknown"
        BY <3>1, RowFacts DEF Rows
      <4> HIDE DEF closed
      <4>2. row'[r][ix] = IF row[r][ix].state = "running" THEN closed ELSE row[r][ix]
        BY <2>1, <3>1 DEF Restart, closed
      <4> QED
        BY <4>1, <4>2 DEF Fine
    <3>2. \A u \in Tasks : ~Active(task'[u])
      BY <2>1, NothingHeldAfterRestart
    <3>3. \A r \in Runs : run'[r] = "none" => run[r] = "none"
      BY <2>1 DEF Restart
    <3>4. ASSUME NEW r \in Runs \ EmptyRuns
          PROVE  /\ NumberedOn(row'[r]) /\ OpenIsLast(row'[r])
                 /\ run'[r] = "none" => \A ix \in Ix : row'[r][ix].state = "none"
      BY <3>1, <3>3, <3>4 DEF RunsAreInTurn, NumberedOn, OpenIsLast
    <3> QED
      BY <3>2, <3>4 DEF RunsAreInTurn
  <2>2. CASE UNCHANGED vars
    BY <2>2 DEF vars, ledger, RunsAreInTurn, IsInTurn
  <2> QED
    BY <2>1, <2>2, RunnersKeepTurns, RequestsKeepTurns DEF Next
<1>3. Spec => []RunnersHoldTheirRuns
  <2>1. Spec => [](RunnersHoldTheirRuns /\ OneRunner)
    BY RunsHaveOneRunner
  <2> QED
    BY <2>1, PTL
<1>4. Spec => []NothingLooksAliveThatIsNot
  BY NothingLooksAlive
<1>5. Spec => []RunsAreWhole
  BY RunsStayWhole
<1> QED
  BY TypeCorrect, <1>1, <1>2, <1>3, <1>4, <1>5, PTL DEF Spec

\* A resume goes on where its run stopped: no call of a resumed runner repeats a step that is
\* done, because the open step is the last row, and a runner without one is behind all of them.
\* (A step that selects may be picked for again under later rows; a warm-up call has no row, so
\* the number of rows is not the number of steps.)
THEOREM ResumesSkipDone ==
  ASSUME AdHocRuns \subseteq EmptyRuns, SelectSteps = {}, WarmSteps = {}
  PROVE  Spec => ResumeNeverRepeatsDone
<1>1. RunsAreInTurn /\ [Next]_vars
        => [\A t \in Tasks : (Sends(t) /\ task[t].via = "resume") => task[t].prev # "done"]_vars
  <2> SUFFICES ASSUME RunsAreInTurn, NEW t \in Tasks, Sends(t), task[t].via = "resume"
               PROVE  task[t].prev # "done"
    OBVIOUS
  <2>1. Active(task[t])
    BY DEF Sends, Active
  <2> QED
    BY <2>1 DEF RunsAreInTurn, IsInTurn, Sends
<1>2. Spec => []RunsAreInTurn
  BY RunsStayInTurn
<1> QED
  BY <1>1, <1>2, PTL DEF Spec, ResumeNeverRepeatsDone
-----------------------------------------------------------------------------
(* What a resume finds unknown.                                              *)

\* The writes that go out without a card, and what they are asked about with.
Unasked == (WriteSteps \ GateSteps) \cap Ix
Plain == [arg |-> NoValue, view |-> NoView]

\* The ledger knows such a write by one fingerprint, and so does a runner that is about to
\* call it (it has no preview); a resumed one that finds it unknown has its approval.
IsConfirmed(t) ==
  LET k == task[t] IN
  k.ix \in Unasked =>
    /\ k.pc # "preview"
    /\ k.pc \in {"begin", "lock", "spend"} => k.fp = Plain
    /\ (/\ k.via = "resume" /\ mode[k.run] # "plan"
        /\ \/ k.pc \in Ahead /\ row[k.run][k.ix].state = "unknown"
           \/ k.pc \in {"lock", "spend"} /\ k.prev = "unknown")
       => ack[k.run][k.ix] = [state |-> "unused", fp |-> Plain]

UnknownWritesAreConfirmed ==
  /\ \A r \in Runs \ EmptyRuns, ix \in Unasked : row[r][ix].fp = Plain
  /\ \A t \in Tasks : (Active(task[t]) /\ task[t].run \notin EmptyRuns) => IsConfirmed(t)

LEMMA PlainWrites ==
  ASSUME Unasked \cap PickUsers = {}, NEW ix \in Unasked, NEW scope
  PROVE  Fingerprint(ix, scope, NoView) = Plain /\ ix \notin GateSteps \cup PublishSteps
BY StepAssumption DEF Fingerprint, Plain, Unasked

\* A step of a runner leaves the fingerprints of the rows, but for its own.
LEMMA FingerprintsStay ==
  ASSUME TypeOK, SelectSteps = {}, NEW t \in Tasks, RunnerStep(t), task[t].via # "step"
  PROVE  \A r \in Runs, ix \in Ix :
           \/ row'[r][ix].fp = row[r][ix].fp
           \/ /\ r = task[t].run /\ ix = task[t].ix
              /\ \/ task[t].pc = "begin" /\ row'[r][ix].fp = task[t].fp
                 \/ row'[r][ix].fp = Fingerprint(ix, task[t].scope, NoView)
<1> DEFINE k == task[t]
           R == k.run
           n == k.ix
           Kept == \A r \in Runs, ix \in Ix : row'[r][ix].fp = row[r][ix].fp
<1>0. TasksOK /\ R \in Runs
  BY TaskFacts
<1>1. CASE PlanStep(t)
  <2> DEFINE new == [NoRow EXCEPT !.state = "skipped", !.fp = Fingerprint(n, k.scope, NoView)]
  <2>1. new.fp = Fingerprint(n, k.scope, NoView)
    BY DEF NoRow
  <2> HIDE DEF new
  <2>2. n \in Ix /\ PutRow(R, n, new)
    BY <1>1 DEF PlanStep, new
  <2> QED
    BY <1>0, <2>1, <2>2, PutRowReads
<1>2. CASE Begin(t)
  <2> DEFINE new == [NoRow EXCEPT !.state = "running", !.fp = k.fp]
  <2>1. new.fp = k.fp
    BY DEF NoRow
  <2> HIDE DEF new
  <2>2. k.pc = "begin" /\ n \in Ix /\ PutRow(R, n, new)
    BY <1>2, TaskFacts DEF Begin, AtAStep, StepPCs, new
  <2> QED
    BY <1>0, <2>1, <2>2, PutRowReads
<1>3. CASE Card(t)
  <2> DEFINE new == [row[R][n] EXCEPT !.state = "pending", !.stage = "gate"]
  <2>1. n \in Ix /\ PutRow(R, n, new)
    BY <1>3, TaskFacts DEF Card, AtAStep, StepPCs
  <2>2. row[R][n] \in Rows
    BY <1>0, <2>1, RowFacts
  <2>3. new.fp = row[R][n].fp
    BY <2>2 DEF Rows
  <2> HIDE DEF new
  <2> QED
    BY <1>0, <2>1, <2>3, PutRowReads
<1>4. CASE Refuse(t) \/ NotSpent(t) \/ Return(t)
  <2>1. n \in Ix /\ (UNCHANGED row \/ \E s : FinishStep(R, n, s))
    BY <1>4, TaskFacts DEF Refuse, NotSpent, Return, AtAStep, StepPCs
  <2>2. row[R][n] \in Rows
    BY <1>0, <2>1, RowFacts
  <2>3. ASSUME NEW s, FinishStep(R, n, s) PROVE Kept
    <3> DEFINE new == [row[R][n] EXCEPT !.state = s, !.stage = ""]
    <3>1. new.fp = row[R][n].fp
      BY <2>2 DEF Rows
    <3> HIDE DEF new
    <3>2. PutRow(R, n, new)
      BY <2>3 DEF FinishStep, new
    <3> QED
      BY <1>0, <2>1, <3>1, <3>2, PutRowReads
  <2> QED
    BY <2>1, <2>3
<1>5. CASE Bookkeeping(t)
  BY <1>5, BookkeepingIsAway
<1>6. CASE Hold(t) \/ Boundary(t) \/ Preview(t) \/ Lock(t) \/ Send(t) \/ AfterFailure(t)
           \/ AfterWarmup(t) \/ AfterStep(t)
  BY <1>6 DEF Hold, Boundary, Preview, Lock, Send, AfterFailure, AfterWarmup, AfterStep, ledger
<1>7. ~StartStep(t) /\ ~StepArgs(t) /\ ~AfterAdHoc(t) /\ ~AfterSelect(t)
  BY DEF StartStep, StepArgs, AfterAdHoc, AfterSelect
<1> QED
  BY <1>1, <1>2, <1>3, <1>4, <1>5, <1>6, <1>7 DEF RunnerStep, Bookkeeping

\* A runner that finds an unknown write keeps its approval up to the call.
LEMMA RunnersAreConfirmed ==
  ASSUME TypeOK, SelectSteps = {}, WarmSteps = {}, Unasked \cap PickUsers = {},
         NEW t \in Tasks, RunnerStep(t), Active(task[t]), task[t].via # "step", Active(task'[t]),
         IsAtTheOpenStep(t), IsInTurn(t), IsConfirmed(t)
  PROVE  IsConfirmed(t)'
<1> DEFINE k == task[t]
           R == k.run
<1>0. /\ TasksOK /\ k \in TaskRecords /\ R \in Runs /\ k.ix \in 1 .. N + 1
      /\ k.next \in {"card", "refuse", "lock", "spend"} /\ (AtAStep(k) => k.ix \in Ix)
  BY TaskFacts
<1>ix. k.pc \in StepPCs => k.ix \in Ix
  BY <1>0 DEF AtAStep
<1>w. ~Warm(k)
  BY DEF Warm
<1>m. UNCHANGED mode
  BY RunnersLeaveTheModes
<1>n. k.pc \notin {"start", "plan"} => mode[R] # "plan"
  BY DEF IsAtTheOpenStep
<1>r. task'[t].run = R /\ task'[t].via = k.via
  BY TasksKeepTheirRun DEF Active, Free, Spawned
<1>away. ASSUME task'[t].pc \notin Ahead \cup {"lock", "spend"} PROVE IsConfirmed(t)'
  BY <1>away DEF IsConfirmed, Ahead
<1>on. ASSUME k.pc \in Ahead, task'[t].pc \in Ahead, task'[t].ix = k.ix, UNCHANGED <<row, ack>>,
              k.ix \in Unasked =>
                task'[t].pc # "preview" /\ (task'[t].pc = "begin" => task'[t].fp = Plain)
       PROVE  IsConfirmed(t)'
  BY <1>m, <1>r, <1>on DEF IsConfirmed, Ahead
<1>1. CASE Bookkeeping(t)
  <2>1. UNCHANGED <<row, ack>> /\ task'[t].pc \in Away
    BY <1>1, BookkeepingIsAway
  <2>2. CASE Start(t)
    <3> DEFINE new == IF mode[R] = "plan"
                      THEN [k EXCEPT !.pc = "plan", !.scope = inputs[R], !.ix = 1]
                      ELSE [k EXCEPT !.pc = "sem", !.scope = inputs[R]]
    <3>1. new.pc = "plan" \/ (new.pc = "sem" /\ new.ix = k.ix)
      BY <1>0 DEF TaskRecords
    <3> HIDE DEF new
    <3>2. SetTask(t, new) /\ k.pc = "start"
      BY <2>2 DEF Start, new
    <3>3. task'[t] = new
      BY <1>0, <3>2, SetTaskKeeps
    <3> QED
      BY <1>away, <1>on, <2>1, <3>1, <3>2, <3>3 DEF Ahead
  <2>3. CASE Acquire(t) \/ Open(t) \/ Opened(t)
    <3>1. k.pc \in Ahead /\ task'[t].ix = k.ix
      BY <1>1, <2>3, BookkeepingStays DEF Acquire, Open, Opened, Ahead, Start, StartStep
    <3>2. task'[t].pc # "preview" /\ task'[t].pc # "begin" /\ task'[t].pc \notin {"lock", "spend"}
      BY <2>1 DEF Away
    <3> QED
      BY <1>away, <1>on, <2>1, <3>1, <3>2
  <2>4. CASE PlanDone(t) \/ Callback(t) \/ StepFail(t)
    BY <1>0, <2>4, FreedTask DEF PlanDone, Callback, StepFail
  <2>5. CASE Drift(t) \/ AfterStopped(t) \/ Fail(t) \/ Pause(t) \/ Finish(t) \/ Rest(t) \/ Close(t)
    <3>1. SetTask(t, Free) \/ \E pc \in {"close", "stepfail", "callback"} : Go(t, pc)
      BY <2>5 DEF Drift, AfterStopped, Fail, Pause, Finish, Rest, Close
    <3>2. task'[t].pc \in {"close", "stepfail", "callback"}
      BY <1>0, <3>1, FreedTask, GoKeeps DEF Keeps
    <3> QED
      BY <1>away, <3>2 DEF Ahead
  <2> QED
    BY <1>1, <2>2, <2>3, <2>4, <2>5 DEF Bookkeeping, StartStep
<1>2. CASE PlanStep(t)
  <2> DEFINE new == [k EXCEPT !.ix = @ + 1]
  <2>1. new.pc = "plan"
    BY <1>0, <1>2 DEF TaskRecords, PlanStep
  <2> HIDE DEF new
  <2>2. SetTask(t, new)
    BY <1>2 DEF PlanStep, new
  <2>3. task'[t] = new
    BY <1>0, <2>2, SetTaskKeeps
  <2> QED
    BY <1>away, <2>1, <2>3 DEF Ahead
<1>3. CASE Hold(t) \/ Boundary(t) \/ Preview(t)
  <2>1. UNCHANGED <<row, ack>> /\ k.pc \in Ahead
    BY <1>3 DEF Hold, Boundary, Preview, ledger, Ahead
  <2> DEFINE fp == Fingerprint(k.ix, k.scope, NoView)
  <2>2. \/ \E pc \in {"close", "fail", "boundary"} : Go(t, pc)
        \/ Go(t, "preview") /\ k.ix \in PublishSteps
        \/ \E next : BeginAs(t, next, fp)
        \/ Call(t, fp)
        \/ k.pc = "preview" /\ \E other : (\E next : BeginAs(t, next, other)) \/ Call(t, other)
    <3>1. CASE Boundary(t)
      BY <3>1 DEF Boundary
    <3>2. CASE Preview(t)
      BY <3>2 DEF Preview
    <3>3. CASE Hold(t)
      BY <3>3 DEF Hold
    <3> QED
      BY <1>3, <3>1, <3>2, <3>3
  <2>3. ASSUME NEW pc \in {"close", "fail", "boundary"}, Go(t, pc) PROVE IsConfirmed(t)'
    <3>1. task'[t].pc = pc /\ task'[t].ix = k.ix
      BY <1>0, <2>3, GoMoves DEF Moved, Keeps
    <3> QED
      BY <1>away, <1>on, <2>1, <3>1 DEF Ahead
  <2>4. ASSUME Go(t, "preview"), k.ix \in PublishSteps PROVE IsConfirmed(t)'
    <3>1. task'[t].pc = "preview" /\ task'[t].ix = k.ix
      BY <1>0, <2>4, GoMoves DEF Moved, Keeps
    <3>2. k.ix \notin Unasked
      BY <2>4, StepAssumption DEF Unasked
    <3> QED
      BY <1>on, <2>1, <3>1, <3>2 DEF Ahead
  <2>5. ASSUME NEW other, (\E next : BeginAs(t, next, other)) \/ Call(t, other),
               other = fp \/ k.pc = "preview"
        PROVE  IsConfirmed(t)'
    <3>1. task'[t].pc = "begin" /\ task'[t].ix = k.ix /\ task'[t].fp = other
      <4>1. ASSUME NEW next, BeginAs(t, next, other)
            PROVE  task'[t].pc = "begin" /\ task'[t].ix = k.ix /\ task'[t].fp = other
        BY <1>0, <4>1, BeginMoves DEF Began, Keeps
      <4>2. ASSUME Call(t, other)
            PROVE  task'[t].pc = "begin" /\ task'[t].ix = k.ix /\ task'[t].fp = other
        BY <1>0, <1>w, <4>2, CallMoves DEF Called, Began, Keeps
      <4> QED
        BY <2>5, <4>1, <4>2
    <3>2. k.ix \in Unasked => other = Plain
      BY <2>5, PlainWrites DEF IsConfirmed
    <3> QED
      BY <1>on, <2>1, <3>1, <3>2 DEF Ahead
  <2> QED
    BY <2>2, <2>3, <2>4, <2>5
<1>4. CASE Begin(t)
  <2>1. /\ k.pc = "begin" /\ UNCHANGED ack /\ mode[R] # "plan"
        /\ task'[t].pc \in {"card", "refuse", "lock", "spend"}
        /\ task'[t].ix = k.ix /\ task'[t].fp = k.fp
        /\ task'[t].prev = "unknown" => row[R][k.ix].state = "unknown"
    BY <1>0, <1>4, <1>n, BegunMoves DEF Begin, Keeps
  <2> QED
    BY <1>m, <1>r, <2>1 DEF IsConfirmed, Ahead
<1>5. CASE Lock(t)
  <2>1. /\ k.pc = "lock" /\ UNCHANGED ack /\ task'[t].pc = "spend"
        /\ task'[t].ix = k.ix /\ task'[t].fp = k.fp /\ task'[t].prev = k.prev
    BY <1>0, <1>5, GoMoves DEF Lock, ledger, Moved, Keeps
  <2> QED
    BY <1>m, <1>r, <2>1 DEF IsConfirmed, Ahead
<1>6. CASE Send(t) \/ AfterFailure(t) \/ Card(t) \/ Refuse(t) \/ NotSpent(t) \/ Return(t)
  <2>1. (\E pc \in {"calling", "fail", "pause"} : Go(t, pc)) \/ NotSpent(t) \/ Return(t)
    BY <1>6 DEF Send, AfterFailure, Card, Refuse
  <2>2. task'[t].pc \in {"calling", "fail", "pause", "after"}
    BY <1>0, <2>1, GoMoves, AnsweredMoves DEF Moved, Keeps
  <2> QED
    BY <1>away, <2>2 DEF Ahead
<1>7. CASE AfterWarmup(t) \/ AfterStep(t)
  <2>1. k.pc = "after" /\ UNCHANGED row /\ k.ix \in Ix
    BY <1>7, <1>ix DEF AfterWarmup, AfterStep, StepPCs, ledger
  <2>2. InTurn(row[R], k.ix) /\ mode[R] # "plan"
    BY <1>n, <2>1 DEF IsInTurn, Past
  <2>3. task'[t].pc = "boundary" /\ task'[t].ix = k.ix + 1
    BY <1>0, <1>7, NextStepMoves DEF AfterWarmup, AfterStep, Advanced, Keeps
  <2>4. task'[t].ix \in Ix => row'[R][task'[t].ix].state = "none"
    <3>1. k.ix + 1 > k.ix
      BY <2>1, SizeAssumption DEF Ix
    <3> QED
      BY <2>1, <2>2, <2>3, <3>1 DEF InTurn
  <2> QED
    BY <1>r, <2>3, <2>4 DEF IsConfirmed, Ahead, Unasked
<1>8. ~StartStep(t) /\ ~StepArgs(t) /\ ~AfterAdHoc(t) /\ ~AfterSelect(t)
  BY DEF StartStep, StepArgs, AfterAdHoc, AfterSelect
<1> QED
  BY <1>1, <1>2, <1>3, <1>4, <1>5, <1>6, <1>7, <1>8 DEF RunnerStep, Bookkeeping

LEMMA RunnersKeepConfirmed ==
  ASSUME TypeOK, RunnersHoldTheirRuns, RunsAreWhole, RunsAreInTurn, UnknownWritesAreConfirmed,
         AdHocRuns \subseteq EmptyRuns, SelectSteps = {}, WarmSteps = {}, Unasked \cap PickUsers = {},
         NEW t \in Tasks, RunnerStep(t)
  PROVE  UnknownWritesAreConfirmed'
<1> DEFINE k == task[t]
           R == k.run
<1>0. /\ ack \in [Runs -> [Ix -> Acks]] /\ \A u \in Tasks : task[u].run \in Runs
      /\ \A ix \in Unasked : ix \in Ix
  BY TaskFacts DEF TypeOK, Unasked
<1>1. Untouched(t) /\ UNCHANGED mode
  BY RunnerShape, RunnersLeaveTheModes DEF WorksOn, LetsGo, IsGone
<1>2. \A r \in Runs \ {R} : ack'[r] = ack[r] /\ \A ix \in Ix : row'[r][ix] = row[r][ix]
  <2>1. \A r \in Runs \ {R}, ix \in Ix : row'[r][ix] = row[r][ix]
    BY RunnersWriteTheirRow
  <2>2. \A r \in Runs \ {R} : ack'[r] = ack[r]
    BY <1>0, ApprovalsUntouched DEF Send
  <2> QED
    BY <2>1, <2>2
<1>4. ~Active(k) => UNCHANGED <<row, ack>> /\ ~Active(task'[t])
  BY GoneRunnersClose, RunnerShape DEF WorksOn, LetsGo, IsGone
<1>5. Active(task'[t]) => Active(k) /\ task'[t].run = R
  BY <1>4, RunnerShape DEF WorksOn, LetsGo, IsGone
<1>6. (Active(k) /\ R \notin EmptyRuns) => IsConfirmed(t) /\ k.via # "step"
  BY DEF UnknownWritesAreConfirmed, RunnersHoldTheirRuns, TaskForm
<1>7. ASSUME NEW u \in Tasks, Active(task'[u]), task'[u].run \notin EmptyRuns
      PROVE  IsConfirmed(u)'
  <2>1. CASE u = t
    BY <1>5, <1>6, <1>7, <2>1, RunnersAreConfirmed DEF RunsAreWhole, RunsAreInTurn
  <2>2. CASE u # t
    <3>1. task'[u] = task[u] /\ IsConfirmed(u)
      BY <1>1, <1>7, <2>2 DEF Untouched, UnknownWritesAreConfirmed
    <3>2. ack'[task[u].run] = ack[task[u].run]
          /\ \A ix \in Ix : row'[task[u].run][ix] = row[task[u].run][ix]
      BY <1>0, <1>2, <1>4, <1>7, <2>2, <3>1 DEF RunnersHoldTheirRuns, OneRunner
    <3> QED
      BY <1>0, <1>1, <3>1, <3>2 DEF IsConfirmed
  <2> QED
    BY <2>1, <2>2
<1>8. ASSUME NEW r \in Runs \ EmptyRuns, NEW ix \in Unasked PROVE row'[r][ix].fp = Plain
  <2>1. row[r][ix].fp = Plain /\ ix \in Ix
    BY <1>0, <1>8 DEF UnknownWritesAreConfirmed
  <2>2. CASE r # R \/ ~Active(k)
    BY <1>2, <1>4, <1>8, <2>1, <2>2
  <2>3. CASE r = R /\ Active(k)
    BY <1>6, <1>8, <2>1, <2>3, FingerprintsStay, PlainWrites DEF IsConfirmed
  <2> QED
    BY <2>2, <2>3
<1> QED
  BY <1>7, <1>8 DEF UnknownWritesAreConfirmed

LEMMA RequestsKeepConfirmed ==
  ASSUME TypeOK, RunnersHoldTheirRuns, RunsAreWhole, UnknownWritesAreConfirmed,
         AdHocRuns \subseteq EmptyRuns, SelectSteps = {}, Request
  PROVE  UnknownWritesAreConfirmed'
<1>0. /\ TasksOK /\ run \in [Runs -> RunStates] /\ ack \in [Runs -> [Ix -> Acks]]
      /\ mode \in [Runs -> {"plan", "live"}] /\ \A u \in Tasks : task[u].run \in Runs
      /\ \A ix \in Unasked : ix \in Ix
  BY TaskFacts DEF TypeOK, Unasked
<1>1. \A r \in Runs \ EmptyRuns, ix \in Ix : ~Pick(r, ix) /\ \A c \in Runs : ~FanOut(r, ix, c)
  BY DEF Pick, FanOut, RunsAreWhole, OneOpenStep
<1>2. UNCHANGED row
  BY <1>1 DEF Request, StartRun, Resume, AddStep, Cancel, Pick, Ack, FanOut, ledger
<1>3. \A r \in Runs : mode'[r] = mode[r] \/ run[r] = "none"
  BY <1>0, <1>1 DEF Request, StartRun, Resume, AddStep, Cancel, Pick, Ack, FanOut
<1>4. \A r \in Runs : ack'[r] = ack[r] \/ Rests(r)
  <2>1. ASSUME NEW q \in Runs, NEW x \in Ix, Ack(q, x)
        PROVE  \A r \in Runs : ack'[r] = ack[r] \/ Rests(r)
    <3>1. Rests(q)
      BY <2>1 DEF Ack, Take, Rests
    <3>2. \A r \in Runs \ {q} : ack'[r] = ack[r]
      BY <1>0, <2>1 DEF Ack
    <3> QED
      BY <3>1, <3>2
  <2> QED
    BY <1>1, <2>1 DEF Request, StartRun, Resume, AddStep, Cancel, Pick, FanOut, ledger
<1>5. \A r \in Runs \ EmptyRuns, ix \in Unasked : row'[r][ix].fp = Plain
  BY <1>2 DEF UnknownWritesAreConfirmed
<1>6. ASSUME NEW u \in Tasks, Active(task[u]), task'[u] = task[u], task[u].run \notin EmptyRuns
      PROVE  IsConfirmed(u)'
  <2>1. ~Rests(task[u].run) /\ IsConfirmed(u)
    BY <1>0, <1>6, RestingRunIsFree DEF Holders, UnknownWritesAreConfirmed
  <2>2. mode'[task[u].run] = mode[task[u].run] /\ ack'[task[u].run] = ack[task[u].run]
    BY <1>0, <1>3, <1>4, <2>1 DEF Rests
  <2> QED
    BY <1>2, <1>6, <2>1, <2>2 DEF IsConfirmed
<1>7. CASE UNCHANGED task
  BY <1>5, <1>6, <1>7 DEF UnknownWritesAreConfirmed
<1>8. ASSUME NEW r \in Runs, NEW ix, NEW via, Spawn(r, ix, via),
             \/ r \in EmptyRuns \/ via # "resume"
             \/ (ix \in Unasked /\ row[r][ix].state = "unknown")
                  => ack'[r][ix] = [state |-> "unused", fp |-> Plain]
      PROVE  UnknownWritesAreConfirmed'
  <2>1. PICK t \in Tasks : SetTask(t, Spawned(r, ix, via))
    BY <1>8 DEF Spawn
  <2> DEFINE k == Spawned(r, ix, via)
  <2>2. k.pc = "start" /\ k.run = r /\ k.ix = ix /\ k.via = via
    BY DEF Spawned
  <2> HIDE DEF k
  <2>3. Untouched(t) /\ task'[t] = k
    BY <1>0, <2>1, SetTaskKeeps DEF k
  <2>4. ASSUME NEW u \in Tasks, Active(task'[u]), task'[u].run \notin EmptyRuns
        PROVE  IsConfirmed(u)'
    <3>1. CASE u = t
      BY <1>2, <1>8, <2>2, <2>3, <2>4, <3>1 DEF IsConfirmed
    <3>2. CASE u # t
      BY <1>6, <2>3, <2>4, <3>2 DEF Untouched
    <3> QED
      BY <3>1, <3>2
  <2> QED
    BY <1>5, <2>4 DEF UnknownWritesAreConfirmed
<1>9. ASSUME NEW r \in Runs, StartRun(r) PROVE UnknownWritesAreConfirmed'
  BY <1>7, <1>8, <1>9 DEF StartRun
<1>10. ASSUME NEW r \in Runs, Resume(r) PROVE UnknownWritesAreConfirmed'
  <2>1. r \notin EmptyRuns /\ UNCHANGED ack /\ Spawn(r, ResumeAt(r), "resume")
    BY <1>10 DEF Resume
  <2>2. (ResumeAt(r) \in Unasked /\ row[r][ResumeAt(r)].state = "unknown")
          => ack[r][ResumeAt(r)] = [state |-> "unused", fp |-> Plain]
    BY <1>10, <2>1 DEF Resume, Unasked, Approved, UnknownWritesAreConfirmed
  <2> QED
    BY <1>8, <2>1, <2>2
<1>11. ASSUME NEW r \in Runs, NEW ix \in Ix, Ack(r, ix) PROVE UnknownWritesAreConfirmed'
  <2>1. Spawn(r, ix, "ack")
    BY <1>11 DEF Ack
  <2> QED
    BY <1>8, <2>1
<1>12. ASSUME NEW r \in Runs, AddStep(r) PROVE UnknownWritesAreConfirmed'
  <2>1. Spawn(r, 1, "step")
    BY <1>12 DEF AddStep
  <2> QED
    BY <1>8, <2>1
<1>13. ASSUME NEW r \in Runs, Cancel(r) PROVE UnknownWritesAreConfirmed'
  BY <1>7, <1>13 DEF Cancel
<1>14. \A r \in EmptyRuns, ix \in Ix : ~Pick(r, ix) /\ \A c \in Runs : ~FanOut(r, ix, c)
  BY DEF Pick, FanOut
<1> QED
  BY <1>1, <1>9, <1>10, <1>11, <1>12, <1>13, <1>14 DEF Request

LEMMA UnknownWritesStayConfirmed ==
  ASSUME AdHocRuns \subseteq EmptyRuns, SelectSteps = {}, WarmSteps = {}, Unasked \cap PickUsers = {}
  PROVE  Spec => []UnknownWritesAreConfirmed
<1>free. Free.pc = "free"
  BY DEF Free, Spawned
<1>1. Init => UnknownWritesAreConfirmed
  <2> SUFFICES ASSUME Init PROVE UnknownWritesAreConfirmed
    OBVIOUS
  <2>1. NoRow.fp = Plain
    BY DEF NoRow, Plain
  <2>2. \A r \in Runs, ix \in Unasked : row[r][ix] = NoRow
    BY DEF Init, Unasked
  <2>3. \A t \in Tasks : ~Active(task[t])
    BY <1>free DEF Init, Active
  <2> QED
    BY <2>1, <2>2, <2>3 DEF UnknownWritesAreConfirmed
<1>2. TypeOK /\ RunnersHoldTheirRuns /\ RunsAreWhole /\ RunsAreInTurn /\ UnknownWritesAreConfirmed
        /\ [Next]_vars => UnknownWritesAreConfirmed'
  <2> SUFFICES ASSUME TypeOK, RunnersHoldTheirRuns, RunsAreWhole, RunsAreInTurn,
                      UnknownWritesAreConfirmed, [Next]_vars
               PROVE  UnknownWritesAreConfirmed'
    OBVIOUS
  <2>1. CASE Restart
    <3>1. ASSUME NEW r \in Runs \ EmptyRuns, NEW ix \in Unasked PROVE row'[r][ix].fp = Plain
      <4> DEFINE closed == [row[r][ix] EXCEPT !.state = "unknown"]
      <4>0. ix \in Ix /\ row[r][ix].fp = Plain
        BY DEF Unasked, UnknownWritesAreConfirmed
      <4>1. closed.fp = row[r][ix].fp
        BY <3>1, <4>0, RowFacts DEF Rows
      <4> HIDE DEF closed
      <4>2. row'[r][ix] = IF row[r][ix].state = "running" THEN closed ELSE row[r][ix]
        BY <2>1, <3>1, <4>0 DEF Restart, closed
      <4> QED
        BY <4>0, <4>1, <4>2
    <3>2. \A u \in Tasks : ~Active(task'[u])
      BY <2>1, NothingHeldAfterRestart
    <3> QED
      BY <3>1, <3>2 DEF UnknownWritesAreConfirmed
  <2>2. CASE UNCHANGED vars
    BY <2>2 DEF vars, ledger, UnknownWritesAreConfirmed, IsConfirmed
  <2> QED
    BY <2>1, <2>2, RunnersKeepConfirmed, RequestsKeepConfirmed DEF Next
<1>3. Spec => []RunnersHoldTheirRuns
  <2>1. Spec => [](RunnersHoldTheirRuns /\ OneRunner)
    BY RunsHaveOneRunner
  <2> QED
    BY <2>1, PTL
<1>4. Spec => []RunsAreWhole
  BY RunsStayWhole
<1>5. Spec => []RunsAreInTurn
  BY RunsStayInTurn
<1> QED
  BY TypeCorrect, <1>1, <1>2, <1>3, <1>4, <1>5, PTL DEF Spec

\* A call goes out by Send.
LEMMA CallsAreSent ==
  ASSUME TypeOK, [Next]_vars, NEW t \in Tasks, Sends(t)
  PROVE  Send(t)
<1>0. task[t].pc = "spend" /\ task'[t].pc = "calling" /\ task'[t] # task[t]
  BY DEF Sends
<1>1. RunnerStep(t)
  <2>1. ASSUME NEW u \in Tasks, RunnerStep(u), u # t PROVE FALSE
    BY <1>0, <2>1, SendersHaveLooked DEF Untouched
  <2>2. CASE Request
    BY <1>0, <2>2, RequestsOpenNoRow
  <2>3. CASE Restart
    BY <1>0, <2>3, NothingHeldAfterRestart DEF Active
  <2> QED
    BY <1>0, <2>1, <2>2, <2>3 DEF Next, vars
<1>2. Send(t) \/ NotSpent(t)
  <2>1. ~Bookkeeping(t)
    BY <1>0, BookkeepingIsAway
  <2>2. /\ ~PlanStep(t) /\ ~Boundary(t) /\ ~StepArgs(t) /\ ~Preview(t) /\ ~Begin(t) /\ ~Card(t)
        /\ ~Refuse(t) /\ ~Lock(t) /\ ~Return(t) /\ ~Hold(t)
    BY <1>0 DEF PlanStep, Boundary, StepArgs, Preview, Begin, Card, Refuse, Lock, Return, Hold
  <2>3. /\ ~AfterFailure(t) /\ ~AfterWarmup(t) /\ ~AfterStep(t) /\ ~AfterAdHoc(t) /\ ~AfterSelect(t)
    BY <1>0 DEF AfterFailure, AfterWarmup, AfterStep, AfterAdHoc, AfterSelect
  <2> QED
    BY <1>1, <2>1, <2>2, <2>3 DEF RunnerStep, Bookkeeping
<1>3. ~NotSpent(t)
  BY <1>0, AnsweredMoves DEF Keeps
<1> QED
  BY <1>2, <1>3

\* A write of which nobody knows whether it ran goes out again by a resume only with a person's
\* approval of that call: the resume looked at the row it starts at, which is the only open one,
\* and nobody but its runner can use the approval.  (A step that selects may be picked for again
\* before an unknown write: the resume then looks at another row.  A write that names a value
\* may be approved with one that did not reach the ledger, and go out with an older one.)
THEOREM ResumesAskFirst ==
  ASSUME AdHocRuns \subseteq EmptyRuns, SelectSteps = {}, WarmSteps = {},
         (WriteSteps \ GateSteps) \cap PickUsers = {}
  PROVE  Spec => ResumeConfirmsUnknownWrites
<1>0. Unasked \cap PickUsers = {}
  BY DEF Unasked
<1>1. TypeOK /\ RunsAreInTurn /\ RunsAreWhole /\ UnknownWritesAreConfirmed /\ [Next]_vars
        => [\A t \in Tasks :
              LET k == task[t] IN
              (Sends(t) /\ k.via = "resume" /\ k.prev = "unknown" /\ k.ix \in WriteSteps)
                => Approved(k.run, k.ix, k.fp)]_vars
  <2> SUFFICES ASSUME TypeOK, RunsAreInTurn, RunsAreWhole, UnknownWritesAreConfirmed, [Next]_vars,
                      NEW t \in Tasks, Sends(t), task[t].via = "resume",
                      task[t].prev = "unknown", task[t].ix \in WriteSteps
               PROVE  Approved(task[t].run, task[t].ix, task[t].fp)
    OBVIOUS
  <2>1. Active(task[t]) /\ task[t].run \notin EmptyRuns /\ task[t].ix \in Ix
    BY TaskFacts DEF Sends, Active, RunsAreInTurn, AtAStep, StepPCs
  <2>2. CASE task[t].ix \in GateSteps
    BY <2>2, CallsAreSent DEF NeedsApproval, Send
  <2>3. CASE task[t].ix \notin GateSteps
    BY <2>1, <2>3 DEF UnknownWritesAreConfirmed, IsConfirmed, RunsAreWhole, IsAtTheOpenStep,
                      Unasked, Sends, Approved
  <2> QED
    BY <2>2, <2>3
<1>2. Spec => []UnknownWritesAreConfirmed
  BY <1>0, UnknownWritesStayConfirmed
<1>3. Spec => []RunsAreInTurn
  BY RunsStayInTurn
<1>4. Spec => []RunsAreWhole
  BY RunsStayWhole
<1> QED
  BY TypeCorrect, <1>1, <1>2, <1>3, <1>4, PTL DEF Spec, ResumeConfirmsUnknownWrites
=============================================================================
