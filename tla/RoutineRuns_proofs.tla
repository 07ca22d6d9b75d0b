------------------------- MODULE RoutineRuns_proofs -------------------------
(***************************************************************************)
(* Theorems about RoutineRuns, for every value of its constants: any       *)
(* number of threads asked for anything, of steps, budgets and             *)
(* deliberations; and about RoutinePlan, for any backends and tools.       *)
(***************************************************************************)
EXTENDS RoutineRuns, TLAPS

\* A request goes on only from a state of the run that admits it, and only these write how
\* the run stands.
ReadsAdmit ==
  \A h \in Handlers :
    /\ hs[h].pc # "idle" => hs[h].saw \in Accepted[hs[h].what]
    /\ hs[h].pc \in {"stage", "run"} => hs[h].what \in {"close", "pick", "report"}

\* Every call that counts for the budget of its step is among the calls of the step.
PaidIsCounted == \A s \in Steps : paid[s] <= stage[s].calls

\* A call that is about to be entered names a step there is; a deliberation is started only
\* in a step that may, and one that works is in the ledger or about to be entered.
StartsAreKnown ==
  /\ \A h \in Handlers : (hs[h].pc = "enter" /\ hs[h].job # NoJob) =>
       hs[h].step \in DelibSteps /\ job[hs[h].job] # "none"
  /\ \A s \in Steps, j \in Jobs : j \in ledger[s] => s \in DelibSteps /\ job[j] # "none"
  /\ \A j \in Jobs : job[j] = "up" =>
       \/ \E h \in Handlers : hs[h].pc = "enter" /\ hs[h].job = j
       \/ \E s \in Steps : j \in ledger[s]

\* No request but the stop itself is about to write that the run was stopped, and one that
\* opens a step again is about to write the run as well.
OnlyAStopCancels ==
  \A h \in Handlers :
    /\ hs[h].pc \in {"stage", "run"} => hs[h].next # "cancelled"
    /\ (hs[h].pc = "stage" /\ hs[h].status = "ambiguous") => hs[h].next # "none"

\* A stop has yet to read step s or its deliberations, or is about to fold j.
InHand(j, s) ==
  \E h \in Handlers :
    \/ hs[h].pc = "open"
    \/ hs[h].pc = "jobs" /\ s \in hs[h].open
    \/ hs[h].pc = "fold" /\ j \in hs[h].jobs

\* While a run is stopped, and nobody is about to write otherwise, each deliberation of a
\* step that is open was named to the person or is still before the stop.
StopsReachTheRest ==
  (run.state = "cancelled" /\ \A h \in Handlers : hs[h].pc # "run") =>
    \A s \in Steps, j \in Jobs :
      (job[j] = "up" /\ j \in ledger[s] /\ Open(s)) => j \in told \/ InHand(j, s)

-----------------------------------------------------------------------------
(* Types                                                                   *)

LEMMA IdleType == Idle \in HandlerState
<1>1. "call" \in Requests
  BY DEF Requests, Accepted
<1>2. "none" \in RUN_STATES /\ "ok" \in EnvelopeStates
  BY DEF RUN_STATES, EnvelopeStates
<1>3. 0 \in 0 .. N
  BY RoutineAssumption
<1> QED
  BY <1>1, <1>2, <1>3 DEF Idle, HandlerState

LEMMA VerdictType ==
  ASSUME NEW s \in Steps, NEW said \in EnvelopeStates, NEW c
  PROVE  Verdict(s, said, c) \in EnvelopeStates
BY DEF Verdict, EnvelopeStates

LEMMA AfterType ==
  ASSUME NEW s, NEW status, NEW saw
  PROVE  After(s, status, saw) \in RUN_STATES
BY DEF After, RUN_STATES, Ends

\* A handler is left in one of its states.
LEMMA HandlerType ==
  ASSUME TypeOK, NEW h \in Handlers, NEW k \in HandlerState, hs' = [hs EXCEPT ![h] = k]
  PROVE  hs' \in [Handlers -> HandlerState]
BY DEF TypeOK

LEMMA RestType ==
  ASSUME TypeOK, NEW h \in Handlers, Rest(h)
  PROVE  hs' \in [Handlers -> HandlerState]
BY IdleType, HandlerType DEF Rest

LEMMA InitType == Init => TypeOK
<1> SUFFICES ASSUME Init PROVE TypeOK
  OBVIOUS
<1>1. run \in RunRow
  BY DEF Init, RunRow, RUN_STATES
<1>2. stage \in [Steps -> StageRow]
  BY DEF Init, StageRow
<1>3. hs \in [Handlers -> HandlerState]
  BY IdleType DEF Init
<1> QED
  BY <1>1, <1>2, <1>3, RoutineAssumption DEF Init, TypeOK

LEMMA StartRunType == ASSUME TypeOK, StartRun PROVE TypeOK'
<1>1. run' \in RunRow
  BY DEF StartRun, TypeOK, RunRow, RUN_STATES, Ends
<1>2. stage' \in [Steps -> StageRow]
  <2>1. PICK ready \in [Steps -> {"pending"} \cup
                                 (Outcomes \cap {"denied", "not_connected", "unavailable"})] :
          stage' = [s \in Steps |-> [stage[s] EXCEPT !.state = ready[s]]]
    BY DEF StartRun
  <2>2. ASSUME NEW s \in Steps PROVE [stage[s] EXCEPT !.state = ready[s]] \in StageRow
    <3>1. ready[s] \in EnvelopeStates \cup {"pending", "running"}
      BY DEF EnvelopeStates
    <3>2. stage[s] \in StageRow
      BY DEF TypeOK
    <3> QED
      BY <3>1, <3>2 DEF StageRow
  <2> QED
    BY <2>1, <2>2
<1> QED
  BY <1>1, <1>2 DEF StartRun, TypeOK

LEMMA TimeIsUpType == ASSUME TypeOK, TimeIsUp PROVE TypeOK'
<1>1. run' \in RunRow
  BY DEF TimeIsUp, TypeOK, RunRow
<1> QED
  BY <1>1 DEF TimeIsUp, TypeOK

LEMMA AskType == ASSUME TypeOK, NEW h \in Handlers, Ask(h) PROVE TypeOK'
<1>1. PICK w \in May[h] :
        /\ run.state \in Accepted[w]
        /\ hs' = [hs EXCEPT ![h] = [Idle EXCEPT !.pc = "look", !.what = w,
                                                !.saw = run.state, !.late = run.overdue]]
  BY DEF Ask
<1>2. w \in Requests /\ run.state \in RUN_STATES /\ run.overdue \in BOOLEAN
  BY RoutineAssumption DEF TypeOK, RunRow
<1>3. [Idle EXCEPT !.pc = "look", !.what = w, !.saw = run.state, !.late = run.overdue]
        \in HandlerState
  BY <1>2, IdleType DEF HandlerState
<1>4. hs' \in [Handlers -> HandlerState]
  BY <1>1, <1>3, HandlerType
<1>5. asks' \in 0 .. MaxAsks
  BY RoutineAssumption DEF Ask, TypeOK
<1> QED
  BY <1>4, <1>5 DEF Ask, TypeOK

LEMMA LookCallType == ASSUME TypeOK, NEW h \in Handlers, LookCall(h) PROVE TypeOK'
<1>1. PICK s \in Steps, kind \in {"plain", "start", "result"}, ok \in BOOLEAN :
        \E j \in IF kind = "start" /\ ok THEN {i \in Jobs : job[i] = "none"} ELSE {NoJob} :
          /\ kind = "start" => s \in DelibSteps
          /\ stage[s].state \in {"pending", "running"}
          /\ BudgetFree(s, kind) \/ stage[s].calls < StepBudget
          /\ hs[h].late => kind = "result"
          /\ hs' = [hs EXCEPT ![h].pc = "enter", ![h].step = s, ![h].ok = ok, ![h].job = j,
                              ![h].free = BudgetFree(s, kind)]
          /\ job' = [i \in Jobs |-> IF i = j THEN "up" ELSE job[i]]
  BY DEF LookCall
<1>2. PICK j \in IF kind = "start" /\ ok THEN {i \in Jobs : job[i] = "none"} ELSE {NoJob} :
        /\ kind = "start" => s \in DelibSteps
        /\ stage[s].state \in {"pending", "running"}
        /\ BudgetFree(s, kind) \/ stage[s].calls < StepBudget
        /\ hs[h].late => kind = "result"
        /\ hs' = [hs EXCEPT ![h].pc = "enter", ![h].step = s, ![h].ok = ok, ![h].job = j,
                            ![h].free = BudgetFree(s, kind)]
        /\ job' = [i \in Jobs |-> IF i = j THEN "up" ELSE job[i]]
  BY <1>1
<1> DEFINE k == [hs[h] EXCEPT !.pc = "enter", !.step = s, !.ok = ok, !.job = j,
                              !.free = BudgetFree(s, kind)]
<1>3. hs[h] \in HandlerState /\ hs \in [Handlers -> HandlerState]
  BY DEF TypeOK
<1>4. BudgetFree(s, kind) \in BOOLEAN /\ s \in 0 .. N
  BY RoutineAssumption DEF BudgetFree, Steps
<1>5. j \in Jobs \cup {NoJob}
  BY <1>2
<1>6. k \in HandlerState
  BY <1>3, <1>4, <1>5 DEF HandlerState
<1>7. hs' = [hs EXCEPT ![h] = k]
  BY <1>2, <1>3 DEF HandlerState
<1>8. hs' \in [Handlers -> HandlerState]
  BY <1>6, <1>7, HandlerType
<1>9. job' \in [Jobs -> {"none", "up", "folded"}]
  BY <1>2 DEF TypeOK
<1> QED
  BY <1>8, <1>9 DEF LookCall, TypeOK

LEMMA AddCallType == ASSUME TypeOK, NEW h \in Handlers, AddCall(h) PROVE TypeOK'
<1>1. hs' \in [Handlers -> HandlerState]
  BY RestType DEF AddCall
<1>2. hs[h] \in HandlerState /\ stage \in [Steps -> StageRow] /\ run \in RunRow
  BY DEF TypeOK
<1> DEFINE s == hs[h].step
<1>3. CASE Enters(h) /\ run' = [run EXCEPT !.calls = run.calls + 1]
           /\ stage' = [stage EXCEPT ![s].calls = stage[s].calls + 1, ![s].state = "running",
                                     ![s].good = stage[s].good \/ hs[h].ok]
           /\ ledger' = [ledger EXCEPT ![s] = ledger[s] \cup ({hs[h].job} \ {NoJob})]
           /\ paid' = [paid EXCEPT ![s] = IF hs[h].free THEN paid[s] ELSE paid[s] + 1]
           /\ UNCHANGED job
  <2>1. run' \in RunRow
    <3>1. run.calls + 1 \in Nat
      BY <1>2 DEF RunRow
    <3>2. [run EXCEPT !.calls = run.calls + 1] \in RunRow
      BY <1>2, <3>1 DEF RunRow
    <3> QED
      BY <1>3, <3>2
  <2>2. ASSUME s \in Steps PROVE stage' \in [Steps -> StageRow]
    <3> DEFINE g == stage[s].good \/ hs[h].ok
               k == [stage[s] EXCEPT !.calls = stage[s].calls + 1, !.state = "running", !.good = g]
    <3>1. stage[s] \in StageRow
      BY <1>2, <2>2
    <3>2. g \in BOOLEAN /\ stage[s].calls + 1 \in Nat
      BY <3>1 DEF StageRow
    <3>3. stage' = [stage EXCEPT ![s] = k]
      BY <1>2, <1>3, <3>1 DEF StageRow
    <3> HIDE DEF g
    <3>4. k \in StageRow
      BY <3>1, <3>2 DEF StageRow
    <3> QED
      BY <3>3, <3>4, <1>2
  <2>3. ASSUME s \notin Steps PROVE stage' = stage
    BY <2>3, <1>2, <1>3
  <2>4. ledger' \in [Steps -> SUBSET Jobs]
    <3>1. {hs[h].job} \ {NoJob} \subseteq Jobs
      BY <1>2 DEF HandlerState
    <3> QED
      BY <1>3, <3>1 DEF TypeOK
  <2>5. paid' \in [Steps -> Nat]
    <3>1. ASSUME s \in Steps PROVE (IF hs[h].free THEN paid[s] ELSE paid[s] + 1) \in Nat
      BY <3>1 DEF TypeOK
    <3> QED
      BY <1>3, <3>1 DEF TypeOK
  <2> QED
    BY <1>1, <1>2, <1>3, <2>1, <2>2, <2>3, <2>4, <2>5 DEF AddCall, TypeOK
<1>4. CASE job' = [i \in Jobs |-> IF i = hs[h].job THEN "folded" ELSE job[i]]
           /\ UNCHANGED <<run, stage, ledger, paid>>
  <2>1. job' \in [Jobs -> {"none", "up", "folded"}]
    BY <1>4 DEF TypeOK
  <2> QED
    BY <1>1, <1>4, <2>1 DEF AddCall, TypeOK
<1> QED
  BY <1>3, <1>4 DEF AddCall

LEMMA LookCloseType == ASSUME TypeOK, NEW h \in Handlers, LookClose(h) PROVE TypeOK'
<1>1. PICK s \in Steps, said \in Outcomes, c \in BOOLEAN :
        LET status == Verdict(s, said, c) IN
        /\ c => said = "ambiguous"
        /\ stage[s].state \in {"pending", "running", "ambiguous"}
        /\ hs' = [hs EXCEPT ![h].pc = "stage", ![h].step = s, ![h].status = status,
                            ![h].cands = c, ![h].next = After(s, status, hs[h].saw)]
  BY DEF LookClose
<1> DEFINE v == Verdict(s, said, c)
           n == After(s, v, hs[h].saw)
           k == [hs[h] EXCEPT !.pc = "stage", !.step = s, !.status = v, !.cands = c, !.next = n]
<1>2. hs[h] \in HandlerState /\ hs \in [Handlers -> HandlerState]
  BY DEF TypeOK
<1>3. v \in EnvelopeStates /\ n \in RUN_STATES /\ s \in 0 .. N
  BY VerdictType, AfterType, RoutineAssumption DEF Steps
<1> HIDE DEF v, n
<1>4. k \in HandlerState
  BY <1>2, <1>3 DEF HandlerState
<1>5. hs' = [hs EXCEPT ![h] = k]
  BY <1>1, <1>2 DEF HandlerState, v, n
<1>6. hs' \in [Handlers -> HandlerState]
  BY <1>4, <1>5, HandlerType
<1> QED
  BY <1>6 DEF LookClose, TypeOK

LEMMA LookPickType == ASSUME TypeOK, NEW h \in Handlers, LookPick(h) PROVE TypeOK'
<1>1. PICK s \in Steps :
        hs' = [hs EXCEPT ![h].pc = "stage", ![h].step = s, ![h].status = "ok",
                         ![h].cands = TRUE, ![h].next = "running"]
  BY DEF LookPick
<1> DEFINE k == [hs[h] EXCEPT !.pc = "stage", !.step = s, !.status = "ok",
                              !.cands = TRUE, !.next = "running"]
<1>2. hs[h] \in HandlerState /\ hs \in [Handlers -> HandlerState] /\ s \in 0 .. N
  BY RoutineAssumption DEF TypeOK, Steps
<1>3. "running" \in RUN_STATES /\ "ok" \in EnvelopeStates
  BY DEF RUN_STATES, EnvelopeStates
<1>4. k \in HandlerState
  BY <1>2, <1>3 DEF HandlerState
<1>5. hs' = [hs EXCEPT ![h] = k]
  BY <1>1, <1>2 DEF HandlerState
<1>6. hs' \in [Handlers -> HandlerState]
  BY <1>4, <1>5, HandlerType
<1> QED
  BY <1>6 DEF LookPick, TypeOK

LEMMA SetStageType == ASSUME TypeOK, NEW h \in Handlers, SetStage(h) PROVE TypeOK'
<1>1. hs[h] \in HandlerState /\ stage \in [Steps -> StageRow]
  BY DEF TypeOK
<1> DEFINE s == hs[h].step
           k == [stage[s] EXCEPT !.state = hs[h].status, !.cands = hs[h].cands]
<1>2. ASSUME s \in Steps PROVE stage' \in [Steps -> StageRow]
  <2>1. stage[s] \in StageRow /\ hs[h].status \in EnvelopeStates /\ hs[h].cands \in BOOLEAN
    BY <1>1, <1>2 DEF HandlerState
  <2>2. k \in StageRow
    BY <2>1 DEF StageRow
  <2>3. stage' = [stage EXCEPT ![s] = k]
    BY <1>1, <2>1 DEF SetStage, StageRow
  <2> QED
    BY <1>1, <2>2, <2>3
<1>3. ASSUME s \notin Steps PROVE stage' = stage
  BY <1>1, <1>3 DEF SetStage
<1>4. hs' \in [Handlers -> HandlerState]
  <2>1. [hs[h] EXCEPT !.pc = "run"] \in HandlerState
    BY <1>1 DEF HandlerState
  <2>2. CASE hs' = [hs EXCEPT ![h].pc = "run"]
    BY <2>1, <2>2, HandlerType
  <2> QED
    BY <2>2, RestType DEF SetStage
<1> QED
  BY <1>1, <1>2, <1>3, <1>4 DEF SetStage, TypeOK

LEMMA RunWritesType ==
  ASSUME TypeOK, NEW h \in Handlers, SetRun(h) \/ RaResult(h) \/ Resume(h)
  PROVE  TypeOK'
<1>1. hs' \in [Handlers -> HandlerState]
  BY RestType DEF SetRun, RaResult, Resume
<1>2. hs[h] \in HandlerState /\ run \in RunRow
  BY DEF TypeOK
<1>3. hs[h].next \in RUN_STATES /\ hs[h].late \in BOOLEAN
  BY <1>2 DEF HandlerState
<1>4. run' \in RunRow
  BY <1>2, <1>3 DEF SetRun, RaResult, Resume, RunRow
<1> QED
  BY <1>1, <1>4 DEF SetRun, RaResult, Resume, TypeOK

LEMMA LookReportType == ASSUME TypeOK, NEW h \in Handlers, LookReport(h) PROVE TypeOK'
<1>1. hs[h] \in HandlerState /\ hs \in [Handlers -> HandlerState] /\ "done" \in RUN_STATES
  BY DEF TypeOK, RUN_STATES, Ends
<1> DEFINE k == [hs[h] EXCEPT !.pc = "run", !.next = "done"]
<1>2. k \in HandlerState
  BY <1>1 DEF HandlerState
<1>3. hs' = [hs EXCEPT ![h] = k]
  BY <1>1 DEF LookReport, HandlerState
<1>4. hs' \in [Handlers -> HandlerState]
  BY <1>2, <1>3, HandlerType
<1> QED
  BY <1>4 DEF LookReport, TypeOK

LEMMA StopType ==
  ASSUME TypeOK, NEW h \in Handlers,
         CancelRun(h) \/ OpenDelibs(h) \/ StartedJobs(h) \/ FoldDelibs(h)
  PROVE  TypeOK'
<1>1. hs[h] \in HandlerState /\ hs \in [Handlers -> HandlerState] /\ run \in RunRow
  BY DEF TypeOK
<1>2. CASE CancelRun(h)
  <2>1. run' \in RunRow
    BY <1>1, <1>2 DEF CancelRun, RunRow, RUN_STATES, Ends
  <2>2. [hs[h] EXCEPT !.pc = "open"] \in HandlerState
    BY <1>1 DEF HandlerState
  <2>3. hs' \in [Handlers -> HandlerState]
    BY <1>2, <2>2, HandlerType DEF CancelRun
  <2> QED
    BY <1>2, <2>1, <2>3 DEF CancelRun, TypeOK
<1>3. CASE OpenDelibs(h)
  <2> DEFINE open == {s \in DelibSteps : Open(s)}
  <2>1. open \subseteq Steps
    BY RoutineAssumption
  <2> HIDE DEF open
  <2>2. [hs[h] EXCEPT !.pc = "jobs", !.open = open] \in HandlerState
    BY <1>1, <2>1 DEF HandlerState
  <2>3. hs' = [hs EXCEPT ![h] = [hs[h] EXCEPT !.pc = "jobs", !.open = open]]
    BY <1>1, <1>3 DEF OpenDelibs, HandlerState, open
  <2>4. hs' \in [Handlers -> HandlerState]
    BY <2>2, <2>3, HandlerType
  <2> QED
    BY <1>3, <2>4 DEF OpenDelibs, TypeOK
<1>4. CASE StartedJobs(h)
  <2> DEFINE js == UNION {ledger[s] : s \in hs[h].open}
  <2>1. js \subseteq Jobs
    BY <1>1 DEF HandlerState, TypeOK
  <2>2. CASE Rest(h)
    BY <1>4, <2>2, RestType DEF StartedJobs, TypeOK
  <2>3. CASE hs' = [hs EXCEPT ![h].pc = "fold", ![h].jobs = js]
    <3> HIDE DEF js
    <3>1. [hs[h] EXCEPT !.pc = "fold", !.jobs = js] \in HandlerState
      BY <1>1, <2>1 DEF HandlerState
    <3>2. hs' = [hs EXCEPT ![h] = [hs[h] EXCEPT !.pc = "fold", !.jobs = js]]
      BY <1>1, <2>3 DEF HandlerState
    <3>3. hs' \in [Handlers -> HandlerState]
      BY <3>1, <3>2, HandlerType
    <3> QED
      BY <1>4, <3>3 DEF StartedJobs, TypeOK
  <2> QED
    BY <1>4, <2>2, <2>3 DEF StartedJobs
<1>5. CASE FoldDelibs(h)
  <2>1. PICK done \in SUBSET hs[h].jobs :
          /\ job' = [j \in Jobs |-> IF j \in done THEN "folded" ELSE job[j]]
          /\ told' = told \cup (hs[h].jobs \ done)
    BY <1>5 DEF FoldDelibs
  <2>2. hs[h].jobs \subseteq Jobs
    BY <1>1 DEF HandlerState
  <2>3. job' \in [Jobs -> {"none", "up", "folded"}] /\ told' \subseteq Jobs
    BY <2>1, <2>2 DEF TypeOK
  <2> QED
    BY <1>5, <2>3, RestType DEF FoldDelibs, TypeOK
<1> QED
  BY <1>2, <1>3, <1>4, <1>5

\* Rows, handlers and histories keep their shapes.
THEOREM TypeCorrect == Spec => []TypeOK
<1>1. TypeOK /\ [Next]_vars => TypeOK'
  <2> SUFFICES ASSUME TypeOK, [Next]_vars PROVE TypeOK'
    OBVIOUS
  <2>1. ASSUME NEW h \in Handlers, Handle(h) PROVE TypeOK'
    <3>1. CASE Refuse(h)
      BY <3>1, RestType DEF Refuse, TypeOK
    <3> QED
      BY <2>1, <3>1, AskType, LookCallType, AddCallType, LookCloseType, LookPickType,
         SetStageType, RunWritesType, LookReportType, StopType DEF Handle
  <2>2. CASE UNCHANGED vars
    BY <2>2 DEF vars, TypeOK
  <2> QED
    BY <2>1, <2>2, StartRunType, TimeIsUpType DEF Next
<1> QED
  BY InitType, <1>1, PTL DEF Spec
-----------------------------------------------------------------------------
(* Budgets                                                                 *)

\* Nothing but a call that is entered counts.
LEMMA OthersDoNotCount ==
  ASSUME TypeOK, Next, \A h \in Handlers : ~ AddCall(h)
  PROVE  run'.calls = run.calls /\ paid' = paid /\ \A s \in Steps : stage'[s].calls = stage[s].calls
<1>1. run \in RunRow /\ stage \in [Steps -> StageRow]
  BY DEF TypeOK
<1>2. CASE StartRun
  BY <1>1, <1>2 DEF StartRun, RunRow, StageRow
<1>3. CASE TimeIsUp
  BY <1>1, <1>3 DEF TimeIsUp, RunRow
<1>4. ASSUME NEW h \in Handlers, Handle(h)
      PROVE  run'.calls = run.calls /\ paid' = paid /\ \A s \in Steps : stage'[s].calls = stage[s].calls
  <2>1. CASE Ask(h) \/ Refuse(h) \/ LookCall(h) \/ LookClose(h) \/ LookPick(h)
    BY <2>1 DEF Ask, Refuse, LookCall, LookClose, LookPick
  <2>2. CASE LookReport(h) \/ OpenDelibs(h) \/ StartedJobs(h) \/ FoldDelibs(h)
    BY <2>2 DEF LookReport, OpenDelibs, StartedJobs, FoldDelibs
  <2>3. CASE SetStage(h)
    BY <1>1, <2>3 DEF SetStage, StageRow
  <2>4. CASE SetRun(h) \/ RaResult(h) \/ Resume(h) \/ CancelRun(h)
    BY <1>1, <2>4 DEF SetRun, RaResult, Resume, CancelRun, RunRow
  <2> QED
    BY <1>4, <2>1, <2>2, <2>3, <2>4 DEF Handle
<1> QED
  BY <1>2, <1>3, <1>4 DEF Next

\* A call that is entered was within both budgets when it was.
LEMMA AddCallCounts ==
  ASSUME TypeOK, BudgetsHold, PaidIsCounted, NEW h \in Handlers, AddCall(h)
  PROVE  BudgetsHold' /\ PaidIsCounted'
<1>1. run \in RunRow /\ stage \in [Steps -> StageRow] /\ paid \in [Steps -> Nat]
  BY DEF TypeOK
<1> DEFINE s == hs[h].step
<1>2. CASE UNCHANGED <<run, stage, paid>>
  BY <1>2 DEF BudgetsHold, PaidIsCounted
<1>3. CASE /\ Enters(h)
           /\ run' = [run EXCEPT !.calls = run.calls + 1]
           /\ stage' = [stage EXCEPT ![s].calls = stage[s].calls + 1, ![s].state = "running",
                                     ![s].good = stage[s].good \/ hs[h].ok]
           /\ paid' = [paid EXCEPT ![s] = IF hs[h].free THEN paid[s] ELSE paid[s] + 1]
  <2>1. run'.calls <= RunBudget
    <3>1. run.calls \in Nat /\ run.calls < RunBudget
      BY <1>1, <1>3 DEF Enters, RunRow
    <3>2. run'.calls = run.calls + 1
      BY <1>1, <1>3 DEF RunRow
    <3> QED
      BY <3>1, <3>2, RoutineAssumption
  <2>2. ASSUME NEW x \in Steps PROVE paid'[x] <= StepBudget /\ paid'[x] <= stage'[x].calls
    <3>1. paid[x] <= StepBudget /\ paid[x] <= stage[x].calls
      BY DEF BudgetsHold, PaidIsCounted
    <3>2. paid[x] \in Nat /\ stage[x].calls \in Nat /\ stage[x] \in StageRow
      BY <1>1 DEF StageRow
    <3>3. CASE x # s
      BY <1>1, <1>3, <3>1, <3>3
    <3>4. CASE x = s
      <4>1. stage'[x].calls = stage[x].calls + 1
        BY <1>1, <1>3, <3>2, <3>4 DEF StageRow
      <4>2. paid'[x] = IF hs[h].free THEN paid[x] ELSE paid[x] + 1
        BY <1>1, <1>3, <3>4
      <4>3. hs[h].free \/ stage[x].calls < StepBudget
        BY <1>3, <3>4 DEF Enters
      <4> QED
        BY <3>1, <3>2, <4>1, <4>2, <4>3, RoutineAssumption
    <3> QED
      BY <3>3, <3>4
  <2> QED
    BY <2>1, <2>2 DEF BudgetsHold, PaidIsCounted
<1> QED
  BY <1>2, <1>3 DEF AddCall

\* However many calls are under way at once, neither the budget of a step nor that of the
\* run is exceeded: what counts towards the step is among the calls the transaction looks
\* at (add_call).
THEOREM BudgetsAlwaysHold == Spec => []BudgetsHold
<1>1. Init => BudgetsHold /\ PaidIsCounted
  BY RoutineAssumption DEF Init, BudgetsHold, PaidIsCounted
<1>2. TypeOK /\ BudgetsHold /\ PaidIsCounted /\ [Next]_vars => BudgetsHold' /\ PaidIsCounted'
  <2> SUFFICES ASSUME TypeOK, BudgetsHold, PaidIsCounted, [Next]_vars
               PROVE  BudgetsHold' /\ PaidIsCounted'
    OBVIOUS
  <2>1. CASE UNCHANGED vars
    BY <2>1 DEF vars, BudgetsHold, PaidIsCounted
  <2>2. CASE Next /\ \A h \in Handlers : ~ AddCall(h)
    BY <2>2, OthersDoNotCount DEF BudgetsHold, PaidIsCounted
  <2> QED
    BY <2>1, <2>2, AddCallCounts
<1> QED
  BY <1>1, <1>2, TypeCorrect, PTL DEF Spec
-----------------------------------------------------------------------------
(* Ends                                                                    *)

\* A request that is served: the handlers other than h are left as they are.
LEMMA OneHandlerMoves ==
  ASSUME TypeOK, NEW h \in Handlers, Handle(h), NEW g \in Handlers, g # h
  PROVE  hs'[g] = hs[g]
<1>1. hs \in [Handlers -> HandlerState]
  BY DEF TypeOK
<1>2. CASE Rest(h)
  BY <1>1, <1>2 DEF Rest
<1>3. CASE Ask(h) \/ LookCall(h) \/ LookClose(h) \/ LookPick(h) \/ LookReport(h)
  <2>1. CASE Ask(h)
    BY <1>1, <2>1 DEF Ask
  <2>2. CASE LookCall(h)
    BY <1>1, <2>2 DEF LookCall
  <2>3. CASE LookClose(h)
    BY <1>1, <2>3 DEF LookClose
  <2>4. CASE LookPick(h) \/ LookReport(h)
    BY <1>1, <2>4 DEF LookPick, LookReport
  <2> QED
    BY <1>3, <2>1, <2>2, <2>3, <2>4
<1>4. CASE SetStage(h) \/ CancelRun(h) \/ OpenDelibs(h) \/ StartedJobs(h)
  BY <1>1, <1>2, <1>4 DEF SetStage, CancelRun, OpenDelibs, StartedJobs
<1>5. CASE Refuse(h) \/ AddCall(h) \/ SetRun(h) \/ RaResult(h) \/ Resume(h) \/ FoldDelibs(h)
  BY <1>2, <1>5 DEF Refuse, AddCall, SetRun, RaResult, Resume, FoldDelibs
<1> QED
  BY <1>3, <1>4, <1>5 DEF Handle

\* What a request does keeps what it read.
LEMMA MoverAdmits ==
  ASSUME TypeOK, ReadsAdmit, NEW h \in Handlers, Handle(h)
  PROVE  /\ hs'[h].pc # "idle" => hs'[h].saw \in Accepted[hs'[h].what]
         /\ hs'[h].pc \in {"stage", "run"} => hs'[h].what \in {"close", "pick", "report"}
<1>1. hs \in [Handlers -> HandlerState] /\ hs[h] \in HandlerState
  BY DEF TypeOK
<1>2. CASE Rest(h)
  <2>1. hs'[h].pc = "idle"
    BY <1>1, <1>2 DEF Rest, Idle
  <2> QED
    BY <2>1
<1>3. CASE Ask(h)
  <2>1. PICK w \in May[h] :
          /\ run.state \in Accepted[w]
          /\ hs' = [hs EXCEPT ![h] = [Idle EXCEPT !.pc = "look", !.what = w,
                                                  !.saw = run.state, !.late = run.overdue]]
    BY <1>3 DEF Ask
  <2>2. hs'[h].pc = "look" /\ hs'[h].what = w /\ hs'[h].saw = run.state
    BY <1>1, <2>1 DEF Idle
  <2> QED
    BY <2>1, <2>2
<1>4. ASSUME hs[h].pc # "idle", hs'[h].what = hs[h].what, hs'[h].saw = hs[h].saw,
             hs'[h].pc \in {"stage", "run"} => hs[h].what \in {"close", "pick", "report"}
      PROVE  /\ hs'[h].pc # "idle" => hs'[h].saw \in Accepted[hs'[h].what]
             /\ hs'[h].pc \in {"stage", "run"} => hs'[h].what \in {"close", "pick", "report"}
  BY <1>4 DEF ReadsAdmit
<1>5. CASE LookCall(h)
  <2>1. hs[h].pc = "look" /\ hs'[h].pc = "enter" /\ hs'[h].what = hs[h].what /\ hs'[h].saw = hs[h].saw
    BY <1>1, <1>5 DEF LookCall, At, HandlerState
  <2> QED
    BY <1>4, <2>1
<1>6. CASE LookClose(h)
  <2>1. hs[h].pc = "look" /\ hs[h].what = "close" /\ hs'[h].what = hs[h].what /\ hs'[h].saw = hs[h].saw
    BY <1>1, <1>6 DEF LookClose, At, HandlerState
  <2> QED
    BY <1>4, <2>1
<1>7. CASE LookPick(h)
  <2>1. hs[h].pc = "look" /\ hs[h].what = "pick" /\ hs'[h].what = hs[h].what /\ hs'[h].saw = hs[h].saw
    BY <1>1, <1>7 DEF LookPick, At, HandlerState
  <2> QED
    BY <1>4, <2>1
<1>8. CASE LookReport(h)
  <2>1. hs[h].pc = "look" /\ hs[h].what = "report" /\ hs'[h].what = hs[h].what /\ hs'[h].saw = hs[h].saw
    BY <1>1, <1>8 DEF LookReport, At, HandlerState
  <2> QED
    BY <1>4, <2>1
<1>9. CASE hs[h].pc = "stage" /\ hs' = [hs EXCEPT ![h].pc = "run"]
  <2>1. hs[h].what \in {"close", "pick", "report"}
    BY <1>9 DEF ReadsAdmit
  <2>2. hs'[h].what = hs[h].what /\ hs'[h].saw = hs[h].saw
    BY <1>1, <1>9 DEF HandlerState
  <2> QED
    BY <1>4, <1>9, <2>1, <2>2
<1>10. CASE CancelRun(h) \/ OpenDelibs(h) \/ (StartedJobs(h) /\ ~ Rest(h))
  <2>1. /\ hs[h].pc # "idle" /\ hs'[h].pc \in {"open", "jobs", "fold"}
        /\ hs'[h].what = hs[h].what /\ hs'[h].saw = hs[h].saw
    BY <1>1, <1>10 DEF CancelRun, OpenDelibs, StartedJobs, At, HandlerState
  <2> QED
    BY <1>4, <2>1
<1>11. CASE SetStage(h)
  BY <1>2, <1>9, <1>11 DEF SetStage
<1>12. CASE Refuse(h) \/ AddCall(h) \/ SetRun(h) \/ RaResult(h) \/ Resume(h) \/ FoldDelibs(h)
  BY <1>2, <1>12 DEF Refuse, AddCall, SetRun, RaResult, Resume, FoldDelibs
<1> QED
  BY <1>2, <1>3, <1>5, <1>6, <1>7, <1>8, <1>10, <1>11, <1>12 DEF Handle

LEMMA ReadsAdmitStep == TypeOK /\ ReadsAdmit /\ [Next]_vars => ReadsAdmit'
<1> SUFFICES ASSUME TypeOK, ReadsAdmit, [Next]_vars PROVE ReadsAdmit'
  OBVIOUS
<1>1. CASE hs' = hs
  BY <1>1 DEF ReadsAdmit
<1>2. ASSUME NEW h \in Handlers, Handle(h) PROVE ReadsAdmit'
  BY <1>2, OneHandlerMoves, MoverAdmits DEF ReadsAdmit
<1> QED
  BY <1>1, <1>2 DEF Next, StartRun, TimeIsUp, vars

\* A request that changes how the run stands was admitted before the run ended.
LEMMA WritersSawNoEnd ==
  ASSUME TypeOK, ReadsAdmit, NEW h \in Handlers, Handle(h), run'.state # run.state
  PROVE  hs[h].saw \notin Ends
<1>1. run \in RunRow
  BY DEF TypeOK
<1>2. SetRun(h) \/ CancelRun(h)
  <2>1. ~ (Ask(h) \/ Refuse(h) \/ LookCall(h) \/ LookClose(h) \/ LookPick(h) \/ SetStage(h))
    BY DEF Ask, Refuse, LookCall, LookClose, LookPick, SetStage
  <2>2. ~ (LookReport(h) \/ OpenDelibs(h) \/ StartedJobs(h) \/ FoldDelibs(h))
    BY DEF LookReport, OpenDelibs, StartedJobs, FoldDelibs
  <2>3. ~ (AddCall(h) \/ RaResult(h) \/ Resume(h))
    BY <1>1 DEF AddCall, RaResult, Resume, RunRow
  <2> QED
    BY <2>1, <2>2, <2>3 DEF Handle
<1>3. hs[h].what \in {"close", "pick", "report", "cancel"} /\ hs[h].saw \in Accepted[hs[h].what]
  BY <1>2 DEF SetRun, CancelRun, At, ReadsAdmit
<1> QED
  BY <1>3 DEF Accepted, Ends

\* A run that has ended is changed only by requests that read it before: none that comes
\* later makes it run, wait or end otherwise.
THEOREM EndsAreSettled == Spec => SettledEndsStay
<1>1. Init => ReadsAdmit
  BY DEF Init, ReadsAdmit, Idle
<1>2. TypeOK /\ ReadsAdmit /\ [Next]_vars =>
        [\A h \in Handlers :
           (run.state \in Ends /\ run'.state # run.state /\ hs'[h] # hs[h]) =>
             hs[h].saw \notin Ends]_vars
  <2> SUFFICES ASSUME TypeOK, ReadsAdmit, Next, NEW g \in Handlers,
                      run.state \in Ends, run'.state # run.state, hs'[g] # hs[g]
               PROVE  hs[g].saw \notin Ends
    BY DEF Next
  <2>1. PICK h \in Handlers : Handle(h)
    BY DEF Next, StartRun, TimeIsUp, Ends
  <2>2. g = h
    BY <2>1, OneHandlerMoves
  <2> QED
    BY <2>1, <2>2, WritersSawNoEnd
<1> QED
  BY <1>1, <1>2, ReadsAdmitStep, TypeCorrect, PTL DEF Spec, SettledEndsStay
-----------------------------------------------------------------------------
(* The stop                                                                *)

\* Only calls start deliberations and enter them.
LEMMA OthersStartNothing ==
  ASSUME TypeOK, NEW h \in Handlers, Handle(h), ~ LookCall(h), ~ AddCall(h)
  PROVE  /\ hs[h].pc # "enter" /\ hs'[h].pc # "enter" /\ ledger' = ledger
         /\ \A j \in Jobs : job'[j] = job[j] \/ job'[j] = "folded"
<1>1. hs \in [Handlers -> HandlerState] /\ hs[h] \in HandlerState /\ job \in [Jobs -> {"none", "up", "folded"}]
  BY DEF TypeOK
<1>2. Rest(h) => hs'[h].pc = "idle"
  BY <1>1 DEF Rest, Idle
<1>3. CASE Ask(h)
  <2>1. hs'[h].pc = "look"
    BY <1>1, <1>3 DEF Ask, Idle
  <2> QED
    BY <1>3, <2>1 DEF Ask
<1>4. CASE Refuse(h) \/ RaResult(h) \/ Resume(h)
  BY <1>2, <1>4 DEF Refuse, RaResult, Resume, At
<1>5. CASE LookClose(h) \/ LookPick(h) \/ LookReport(h)
  <2>1. LookClose(h) => hs'[h].pc = "stage"
    BY <1>1 DEF LookClose, HandlerState
  <2>2. LookPick(h) => hs'[h].pc = "stage"
    BY <1>1 DEF LookPick, HandlerState
  <2>3. LookReport(h) => hs'[h].pc = "run"
    BY <1>1 DEF LookReport, HandlerState
  <2> QED
    BY <1>5, <2>1, <2>2, <2>3 DEF LookClose, LookPick, LookReport, At
<1>6. CASE SetStage(h) \/ SetRun(h)
  <2>1. hs'[h].pc \in {"idle", "run"}
    BY <1>1, <1>2, <1>6 DEF SetStage, SetRun, HandlerState
  <2> QED
    BY <1>6, <2>1 DEF SetStage, SetRun
<1>7. CASE CancelRun(h) \/ OpenDelibs(h) \/ StartedJobs(h)
  <2>1. hs'[h].pc \in {"idle", "open", "jobs", "fold"}
    BY <1>1, <1>2, <1>7 DEF CancelRun, OpenDelibs, StartedJobs, HandlerState
  <2> QED
    BY <1>7, <2>1 DEF CancelRun, OpenDelibs, StartedJobs, At
<1>8. CASE FoldDelibs(h)
  <2>1. \A j \in Jobs : job'[j] = job[j] \/ job'[j] = "folded"
    BY <1>8 DEF FoldDelibs
  <2> QED
    BY <1>2, <1>8, <2>1 DEF FoldDelibs, At
<1> QED
  BY <1>3, <1>4, <1>5, <1>6, <1>7, <1>8 DEF Handle

\* The deliberation a call starts is the one it is about to enter.
LEMMA LookCallStarts ==
  ASSUME TypeOK, NEW h \in Handlers, LookCall(h)
  PROVE  /\ hs[h].pc = "look" /\ hs'[h].pc = "enter" /\ ledger' = ledger
         /\ hs'[h].job # NoJob => hs'[h].step \in DelibSteps /\ hs'[h].job \in Jobs
                                  /\ job[hs'[h].job] = "none"
         /\ \A j \in Jobs : job'[j] = IF j = hs'[h].job THEN "up" ELSE job[j]
<1>1. hs \in [Handlers -> HandlerState] /\ hs[h] \in HandlerState
  BY DEF TypeOK
<1>2. PICK s \in Steps, kind \in {"plain", "start", "result"}, ok \in BOOLEAN :
        \E j \in IF kind = "start" /\ ok THEN {i \in Jobs : job[i] = "none"} ELSE {NoJob} :
          /\ kind = "start" => s \in DelibSteps
          /\ stage[s].state \in {"pending", "running"}
          /\ BudgetFree(s, kind) \/ stage[s].calls < StepBudget
          /\ hs[h].late => kind = "result"
          /\ hs' = [hs EXCEPT ![h].pc = "enter", ![h].step = s, ![h].ok = ok, ![h].job = j,
                              ![h].free = BudgetFree(s, kind)]
          /\ job' = [i \in Jobs |-> IF i = j THEN "up" ELSE job[i]]
  BY DEF LookCall
<1>3. PICK j \in IF kind = "start" /\ ok THEN {i \in Jobs : job[i] = "none"} ELSE {NoJob} :
        /\ kind = "start" => s \in DelibSteps
        /\ stage[s].state \in {"pending", "running"}
        /\ BudgetFree(s, kind) \/ stage[s].calls < StepBudget
        /\ hs[h].late => kind = "result"
        /\ hs' = [hs EXCEPT ![h].pc = "enter", ![h].step = s, ![h].ok = ok, ![h].job = j,
                            ![h].free = BudgetFree(s, kind)]
        /\ job' = [i \in Jobs |-> IF i = j THEN "up" ELSE job[i]]
  BY <1>2
<1>4. hs'[h].pc = "enter" /\ hs'[h].step = s /\ hs'[h].job = j
  BY <1>1, <1>3 DEF HandlerState
<1>5. j # NoJob => s \in DelibSteps /\ j \in Jobs /\ job[j] = "none"
  BY <1>3
<1> QED
  BY <1>3, <1>4, <1>5 DEF LookCall, At

LEMMA StartsAreKnownStep == TypeOK /\ StartsAreKnown /\ [Next]_vars => StartsAreKnown'
<1> SUFFICES ASSUME TypeOK, StartsAreKnown, [Next]_vars PROVE StartsAreKnown'
  OBVIOUS
<1>1. hs \in [Handlers -> HandlerState] /\ ledger \in [Steps -> SUBSET Jobs] /\ DelibSteps \subseteq Steps
  BY RoutineAssumption DEF TypeOK
<1>2. CASE UNCHANGED <<hs, job, ledger>>
  BY <1>2 DEF StartsAreKnown
<1>3. ASSUME NEW h \in Handlers, Handle(h), ~ LookCall(h), ~ AddCall(h) PROVE StartsAreKnown'
  <2>1. /\ hs[h].pc # "enter" /\ hs'[h].pc # "enter" /\ ledger' = ledger
        /\ \A j \in Jobs : job'[j] = job[j] \/ job'[j] = "folded"
    BY <1>3, OthersStartNothing
  <2>2. \A g \in Handlers : g # h => hs'[g] = hs[g]
    BY <1>3, OneHandlerMoves
  <2>3. \A g \in Handlers : hs'[g].pc = "enter" => hs[g].pc = "enter" /\ hs'[g] = hs[g]
    BY <2>1, <2>2
  <2>4. \A g \in Handlers : hs[g].pc = "enter" => hs'[g] = hs[g]
    BY <2>1, <2>2
  <2>5. \A g \in Handlers : hs[g].job # NoJob => hs[g].job \in Jobs
    BY <1>1 DEF HandlerState
  <2>6. \A j \in Jobs : /\ job[j] # "none" => job'[j] # "none"
                        /\ job'[j] = "up" => job[j] = "up"
    BY <2>1
  <2>7. \A j \in Jobs : job'[j] = "up" =>
          \/ \E g \in Handlers : hs'[g].pc = "enter" /\ hs'[g].job = j
          \/ \E s \in Steps : j \in ledger'[s]
    <3>1. SUFFICES ASSUME NEW j \in Jobs, job'[j] = "up"
                   PROVE  \/ \E g \in Handlers : hs'[g].pc = "enter" /\ hs'[g].job = j
                          \/ \E s \in Steps : j \in ledger'[s]
      OBVIOUS
    <3>2. PICK y : \/ y \in Handlers /\ hs[y].pc = "enter" /\ hs[y].job = j
                   \/ y \in Steps /\ j \in ledger[y]
      BY <2>6, <3>1 DEF StartsAreKnown
    <3> QED
      BY <2>1, <2>4, <3>2
  <2> QED
    BY <2>1, <2>3, <2>5, <2>6, <2>7 DEF StartsAreKnown
<1>4. ASSUME NEW h \in Handlers, LookCall(h) PROVE StartsAreKnown'
  <2> DEFINE i == hs'[h].job
  <2>1. /\ hs[h].pc = "look" /\ hs'[h].pc = "enter" /\ ledger' = ledger
        /\ i # NoJob => hs'[h].step \in DelibSteps /\ i \in Jobs /\ job[i] = "none"
        /\ \A j \in Jobs : job'[j] = IF j = i THEN "up" ELSE job[j]
    BY <1>4, LookCallStarts
  <2>2. \A g \in Handlers : g # h => hs'[g] = hs[g]
    BY <1>4, OneHandlerMoves DEF Handle
  <2>3. \A g \in Handlers : (hs'[g].pc = "enter" /\ hs'[g].job # NoJob) =>
          hs'[g].step \in DelibSteps /\ job'[hs'[g].job] # "none"
    <3>1. SUFFICES ASSUME NEW g \in Handlers, hs'[g].pc = "enter", hs'[g].job # NoJob
                   PROVE  hs'[g].step \in DelibSteps /\ job'[hs'[g].job] # "none"
      OBVIOUS
    <3>2. CASE g = h
      BY <2>1, <3>1, <3>2
    <3>3. CASE g # h
      <4>1. hs'[g] = hs[g] /\ hs[g].job \in Jobs
        BY <1>1, <2>2, <3>1, <3>3 DEF HandlerState
      <4> QED
        BY <2>1, <3>1, <4>1 DEF StartsAreKnown
    <3> QED
      BY <3>2, <3>3
  <2>4. \A s \in Steps, j \in Jobs : j \in ledger'[s] => s \in DelibSteps /\ job'[j] # "none"
    BY <2>1 DEF StartsAreKnown
  <2>5. \A j \in Jobs : job'[j] = "up" =>
          \/ \E g \in Handlers : hs'[g].pc = "enter" /\ hs'[g].job = j
          \/ \E s \in Steps : j \in ledger'[s]
    <3>1. SUFFICES ASSUME NEW j \in Jobs, job'[j] = "up"
                   PROVE  \/ \E g \in Handlers : hs'[g].pc = "enter" /\ hs'[g].job = j
                          \/ \E s \in Steps : j \in ledger'[s]
      OBVIOUS
    <3>2. CASE j = i
      BY <2>1, <3>2
    <3>3. CASE j # i
      <4>1. job[j] = "up"
        BY <2>1, <3>1, <3>3
      <4>2. PICK x : \/ x \in Handlers /\ hs[x].pc = "enter" /\ hs[x].job = j
                     \/ x \in Steps /\ j \in ledger[x]
        BY <4>1 DEF StartsAreKnown
      <4>3. CASE x \in Handlers /\ hs[x].pc = "enter" /\ hs[x].job = j
        BY <2>1, <2>2, <4>3
      <4> QED
        BY <2>1, <4>2, <4>3
    <3> QED
      BY <3>2, <3>3
  <2> QED
    BY <2>3, <2>4, <2>5 DEF StartsAreKnown
<1>5. ASSUME NEW h \in Handlers, AddCall(h) PROVE StartsAreKnown'
  <2> DEFINE i == hs[h].job
             x == hs[h].step
  <2>1. hs[h].pc = "enter" /\ hs'[h].pc = "idle" /\ i \in Jobs \cup {NoJob}
    BY <1>1, <1>5 DEF AddCall, At, Rest, Idle, HandlerState
  <2>2. \A g \in Handlers : g # h => hs'[g] = hs[g]
    BY <1>5, OneHandlerMoves DEF Handle
  <2>3. i # NoJob => x \in DelibSteps /\ job[i] # "none"
    BY <2>1 DEF StartsAreKnown
  <2>4. CASE ledger' = [ledger EXCEPT ![x] = ledger[x] \cup ({i} \ {NoJob})] /\ UNCHANGED job
    <3>1. \A s \in Steps, j \in Jobs : j \in ledger'[s] => s \in DelibSteps /\ job'[j] # "none"
      <4>1. SUFFICES ASSUME NEW s \in Steps, NEW j \in Jobs, j \in ledger'[s]
                     PROVE  s \in DelibSteps /\ job[j] # "none"
        BY <2>4
      <4>2. j \in ledger[s] \/ (s = x /\ j = i /\ i # NoJob)
        BY <1>1, <2>4, <4>1
      <4> QED
        BY <2>3, <4>2 DEF StartsAreKnown
    <3>2. \A j \in Jobs : job'[j] = "up" =>
            \/ \E g \in Handlers : hs'[g].pc = "enter" /\ hs'[g].job = j
            \/ \E s \in Steps : j \in ledger'[s]
      <4>1. SUFFICES ASSUME NEW j \in Jobs, job[j] = "up"
                     PROVE  \/ \E g \in Handlers : hs'[g].pc = "enter" /\ hs'[g].job = j
                            \/ \E s \in Steps : j \in ledger'[s]
        BY <2>4
      <4>2. \A s \in Steps : ledger[s] \subseteq ledger'[s]
        BY <1>1, <2>4
      <4>3. CASE j = i
        <5>1. i # NoJob /\ x \in Steps
          BY <1>1, <2>3, <4>3, RoutineAssumption
        <5>2. i \in ledger'[x]
          BY <1>1, <2>4, <5>1
        <5> QED
          BY <4>3, <5>1, <5>2
      <4>4. CASE j # i
        <5>1. PICK y : \/ y \in Handlers /\ hs[y].pc = "enter" /\ hs[y].job = j
                       \/ y \in Steps /\ j \in ledger[y]
          BY <4>1 DEF StartsAreKnown
        <5> QED
          BY <2>2, <4>2, <4>4, <5>1
      <4> QED
        BY <4>3, <4>4
    <3>3. \A g \in Handlers : (hs'[g].pc = "enter" /\ hs'[g].job # NoJob) =>
            hs'[g].step \in DelibSteps /\ job'[hs'[g].job] # "none"
      BY <2>1, <2>2, <2>4 DEF StartsAreKnown
    <3> QED
      BY <3>1, <3>2, <3>3 DEF StartsAreKnown
  <2>5. CASE job' = [j \in Jobs |-> IF j = i THEN "folded" ELSE job[j]] /\ UNCHANGED ledger
    <3>1. \A j \in Jobs : /\ job[j] # "none" => job'[j] # "none"
                          /\ job'[j] = "up" => job[j] = "up" /\ j # i
      BY <2>5
    <3>2. \A g \in Handlers : (hs'[g].pc = "enter" /\ hs'[g].job # NoJob) =>
            hs'[g].step \in DelibSteps /\ job'[hs'[g].job] # "none"
      <4>1. SUFFICES ASSUME NEW g \in Handlers, hs'[g].pc = "enter", hs'[g].job # NoJob
                     PROVE  hs'[g].step \in DelibSteps /\ job'[hs'[g].job] # "none"
        OBVIOUS
      <4>2. hs'[g] = hs[g] /\ hs[g].job \in Jobs
        BY <1>1, <2>1, <2>2, <4>1 DEF HandlerState
      <4> QED
        BY <3>1, <4>1, <4>2 DEF StartsAreKnown
    <3>3. \A s \in Steps, j \in Jobs : j \in ledger'[s] => s \in DelibSteps /\ job'[j] # "none"
      BY <2>5, <3>1 DEF StartsAreKnown
    <3>4. \A j \in Jobs : job'[j] = "up" =>
            \/ \E g \in Handlers : hs'[g].pc = "enter" /\ hs'[g].job = j
            \/ \E s \in Steps : j \in ledger'[s]
      <4>1. SUFFICES ASSUME NEW j \in Jobs, job'[j] = "up"
                     PROVE  \/ \E g \in Handlers : hs'[g].pc = "enter" /\ hs'[g].job = j
                            \/ \E s \in Steps : j \in ledger'[s]
        OBVIOUS
      <4>2. PICK y : \/ y \in Handlers /\ hs[y].pc = "enter" /\ hs[y].job = j
                     \/ y \in Steps /\ j \in ledger[y]
        BY <3>1, <4>1 DEF StartsAreKnown
      <4> QED
        BY <2>2, <2>5, <3>1, <4>1, <4>2
    <3> QED
      BY <3>2, <3>3, <3>4 DEF StartsAreKnown
  <2> QED
    BY <1>5, <2>4, <2>5 DEF AddCall
<1> QED
  BY <1>2, <1>3, <1>4, <1>5 DEF Next, StartRun, TimeIsUp, vars

LEMMA AfterIsNoStop ==
  ASSUME NEW s, NEW status, NEW saw
  PROVE  /\ After(s, status, saw) # "cancelled"
         /\ status = "ambiguous" => After(s, status, saw) # "none"
BY DEF After

LEMMA OnlyAStopCancelsStep == TypeOK /\ OnlyAStopCancels /\ [Next]_vars => OnlyAStopCancels'
<1> SUFFICES ASSUME TypeOK, OnlyAStopCancels, [Next]_vars PROVE OnlyAStopCancels'
  OBVIOUS
<1> DEFINE Fits(k) == /\ k.pc \in {"stage", "run"} => k.next # "cancelled"
                      /\ (k.pc = "stage" /\ k.status = "ambiguous") => k.next # "none"
<1>1. hs \in [Handlers -> HandlerState]
  BY DEF TypeOK
<1>2. CASE hs' = hs
  BY <1>2 DEF OnlyAStopCancels
<1>3. ASSUME NEW h \in Handlers, Handle(h) PROVE Fits(hs'[h])
  <2>1. hs[h] \in HandlerState
    BY <1>1
  <2>2. CASE Rest(h)
    BY <1>1, <2>2 DEF Rest, Idle
  <2>3. CASE Ask(h)
    BY <1>1, <2>3 DEF Ask, Idle
  <2>4. CASE LookCall(h)
    BY <2>4, LookCallStarts
  <2>5. CASE LookClose(h)
    <3>1. PICK s \in Steps, said \in Outcomes, c \in BOOLEAN :
            LET status == Verdict(s, said, c) IN
            /\ c => said = "ambiguous"
            /\ stage[s].state \in {"pending", "running", "ambiguous"}
            /\ hs' = [hs EXCEPT ![h].pc = "stage", ![h].step = s, ![h].status = status,
                                ![h].cands = c, ![h].next = After(s, status, hs[h].saw)]
      BY <2>5 DEF LookClose
    <3> DEFINE v == Verdict(s, said, c)
               n == After(s, v, hs[h].saw)
    <3>2. n # "cancelled" /\ (v = "ambiguous" => n # "none")
      BY AfterIsNoStop
    <3> HIDE DEF v, n
    <3>3. hs'[h].pc = "stage" /\ hs'[h].status = v /\ hs'[h].next = n
      BY <1>1, <2>1, <3>1 DEF HandlerState, v, n
    <3> QED
      BY <3>2, <3>3
  <2>6. CASE LookPick(h)
    <3>1. hs'[h].next = "running"
      BY <1>1, <2>1, <2>6 DEF LookPick, HandlerState
    <3> QED
      BY <3>1
  <2>7. CASE LookReport(h)
    <3>1. hs'[h].next = "done"
      BY <1>1, <2>1, <2>7 DEF LookReport, HandlerState
    <3>2. hs'[h].pc = "run"
      BY <1>1, <2>1, <2>7 DEF LookReport, HandlerState
    <3> QED
      BY <3>1, <3>2
  <2>8. CASE SetStage(h) /\ hs' = [hs EXCEPT ![h].pc = "run"]
    <3>1. hs'[h].pc = "run" /\ hs'[h].next = hs[h].next /\ hs[h].pc = "stage"
      BY <1>1, <2>1, <2>8 DEF SetStage, HandlerState
    <3> QED
      BY <3>1 DEF OnlyAStopCancels
  <2>9. CASE CancelRun(h) \/ OpenDelibs(h) \/ (StartedJobs(h) /\ ~ Rest(h))
    <3>1. hs'[h].pc \in {"open", "jobs", "fold"}
      BY <1>1, <2>1, <2>9 DEF CancelRun, OpenDelibs, StartedJobs, HandlerState
    <3> QED
      BY <3>1
  <2>10. CASE SetStage(h)
    BY <2>2, <2>8, <2>10 DEF SetStage
  <2>11. CASE Refuse(h) \/ AddCall(h) \/ SetRun(h) \/ RaResult(h) \/ Resume(h) \/ FoldDelibs(h)
    BY <2>2, <2>11 DEF Refuse, AddCall, SetRun, RaResult, Resume, FoldDelibs
  <2> QED
    BY <1>3, <2>2, <2>3, <2>4, <2>5, <2>6, <2>7, <2>9, <2>10, <2>11 DEF Handle
<1>4. ASSUME NEW h \in Handlers, Handle(h) PROVE OnlyAStopCancels'
  <2>1. \A g \in Handlers : Fits(hs[g])
    BY DEF OnlyAStopCancels
  <2>2. \A g \in Handlers : Fits(hs'[g])
    BY <1>3, <1>4, <2>1, OneHandlerMoves
  <2> QED
    BY <2>2 DEF OnlyAStopCancels
<1> QED
  BY <1>2, <1>4 DEF Next, StartRun, TimeIsUp, vars

\* A request that neither stops the run, nor writes it or a step, leaves a stopped run's
\* steps and ledger alone and begins no stop.
LEMMA OthersLeaveTheStop ==
  ASSUME TypeOK, NEW h \in Handlers, run'.state = "cancelled",
         \/ Ask(h) \/ Refuse(h) \/ LookCall(h) \/ AddCall(h) \/ LookClose(h) \/ LookPick(h)
         \/ LookReport(h) \/ RaResult(h) \/ Resume(h)
  PROVE  /\ run.state = "cancelled" /\ stage' = stage /\ ledger' = ledger /\ told' = told
         /\ hs[h].pc \notin {"run", "open", "jobs", "fold"}
<1>1. run \in RunRow
  BY DEF TypeOK
<1>2. CASE Ask(h) \/ Refuse(h) \/ LookCall(h) \/ LookClose(h) \/ LookPick(h) \/ LookReport(h)
  BY <1>2 DEF Ask, Refuse, LookCall, LookClose, LookPick, LookReport, At
<1>3. CASE RaResult(h) \/ Resume(h)
  BY <1>1, <1>3 DEF RaResult, Resume, RunRow, At
<1>4. CASE AddCall(h)
  <2>1. CASE Enters(h) /\ run' = [run EXCEPT !.calls = run.calls + 1]
    BY <1>1, <2>1 DEF Enters, RunRow
  <2> QED
    BY <1>4, <2>1 DEF AddCall, At
<1> QED
  BY <1>2, <1>3, <1>4

LEMMA StopsReachTheRestStep ==
  ASSUME TypeOK, StartsAreKnown, OnlyAStopCancels, StopsReachTheRest, [Next]_vars
  PROVE  StopsReachTheRest'
<1>1. /\ hs \in [Handlers -> HandlerState] /\ run \in RunRow /\ stage \in [Steps -> StageRow]
      /\ job \in [Jobs -> {"none", "up", "folded"}]
  BY DEF TypeOK
<1>2. CASE run'.state = run.state /\ UNCHANGED <<stage, hs, job, ledger, told>>
  BY <1>2 DEF StopsReachTheRest, InHand, Open
<1>3. CASE StartRun
  <2>1. run'.state # "cancelled"
    BY <1>1, <1>3 DEF StartRun, RunRow
  <2> QED
    BY <2>1 DEF StopsReachTheRest
<1>4. CASE TimeIsUp
  BY <1>1, <1>2, <1>4 DEF TimeIsUp, RunRow
<1>5. ASSUME NEW h \in Handlers, Handle(h) PROVE StopsReachTheRest'
  <2> SUFFICES ASSUME run'.state = "cancelled", \A g \in Handlers : hs'[g].pc # "run",
                      NEW s \in Steps, NEW j \in Jobs,
                      job'[j] = "up", j \in ledger'[s], Open(s)'
               PROVE  j \in told' \/ InHand(j, s)'
    BY DEF StopsReachTheRest
  <2>1. hs[h] \in HandlerState
    BY <1>1
  <2>2. \A g \in Handlers : g # h => hs'[g] = hs[g]
    BY <1>5, OneHandlerMoves
  <2>3. ASSUME run.state = "cancelled", hs[h].pc # "run", job[j] = "up", j \in ledger[s], Open(s)
        PROVE  j \in told \/ InHand(j, s)
    BY <2>2, <2>3 DEF StopsReachTheRest
  <2>4. ASSUME NEW g \in Handlers, g # h,
               \/ hs[g].pc = "open"
               \/ hs[g].pc = "jobs" /\ s \in hs[g].open
               \/ hs[g].pc = "fold" /\ j \in hs[g].jobs
        PROVE  InHand(j, s)'
    BY <2>2, <2>4 DEF InHand
  <2>5. CASE \/ Ask(h) \/ Refuse(h) \/ LookCall(h) \/ AddCall(h) \/ LookClose(h) \/ LookPick(h)
             \/ LookReport(h) \/ RaResult(h) \/ Resume(h)
    <3>1. /\ run.state = "cancelled" /\ stage' = stage /\ ledger' = ledger /\ told' = told
          /\ hs[h].pc \notin {"run", "open", "jobs", "fold"}
      BY <2>5, OthersLeaveTheStop
    <3>2. job[j] = "up"
      <4>1. CASE LookCall(h)
        <5>1. job[j] # "none" /\ j # NoJob
          BY <3>1, RoutineAssumption DEF StartsAreKnown
        <5>2. job'[j] = IF j = hs'[h].job THEN "up" ELSE job[j]
          BY <4>1, LookCallStarts
        <5>3. j # hs'[h].job
          BY <4>1, <5>1, LookCallStarts
        <5> QED
          BY <5>2, <5>3
      <4>2. CASE AddCall(h)
        BY <4>2 DEF AddCall
      <4> QED
        BY <2>5, <4>1, <4>2 DEF Ask, Refuse, LookClose, LookPick, LookReport, RaResult, Resume
    <3>3. j \in told \/ InHand(j, s)
      BY <2>3, <3>1, <3>2 DEF Open
    <3> QED
      BY <2>4, <3>1, <3>3 DEF InHand
  <2>6. CASE SetStage(h)
    <3>1. hs[h].next = "none" /\ hs[h].pc = "stage"
      <4>1. hs' = [hs EXCEPT ![h].pc = "run"] => hs'[h].pc = "run"
        BY <1>1, <2>1 DEF HandlerState
      <4> QED
        BY <2>6, <4>1 DEF SetStage
    <3>2. hs[h].status \in CLOSED
      BY <2>1, <3>1 DEF OnlyAStopCancels, CLOSED, HandlerState
    <3>3. s # hs[h].step
      <4>1. SUFFICES ASSUME s = hs[h].step PROVE FALSE
        OBVIOUS
      <4>2. stage[s] \in StageRow
        BY <1>1
      <4>3. stage'[s].state = hs[h].status
        BY <1>1, <2>6, <4>1, <4>2 DEF SetStage, StageRow
      <4> QED
        BY <3>2, <4>3 DEF Open
    <3>4. Open(s) /\ job[j] = "up" /\ j \in ledger[s] /\ run.state = "cancelled" /\ told' = told
      BY <1>1, <2>6, <3>3 DEF SetStage, Open
    <3>5. j \in told \/ InHand(j, s)
      BY <2>3, <3>1, <3>4
    <3> QED
      BY <2>4, <3>1, <3>4, <3>5 DEF InHand
  <2>7. CASE SetRun(h)
    BY <1>1, <2>7 DEF SetRun, RunRow, OnlyAStopCancels
  <2>8. CASE CancelRun(h)
    <3>1. hs'[h].pc = "open"
      BY <1>1, <2>1, <2>8 DEF CancelRun, HandlerState
    <3> QED
      BY <3>1 DEF InHand
  <2>9. CASE OpenDelibs(h)
    <3>1. s \in DelibSteps /\ Open(s)
      BY <2>9 DEF OpenDelibs, StartsAreKnown, Open
    <3>2. hs'[h].pc = "jobs" /\ hs'[h].open = {x \in DelibSteps : Open(x)}
      BY <1>1, <2>1, <2>9 DEF OpenDelibs, HandlerState
    <3> QED
      BY <3>1, <3>2 DEF InHand
  <2>10. CASE StartedJobs(h)
    <3> DEFINE js == UNION {ledger[x] : x \in hs[h].open}
    <3>1. /\ run.state = "cancelled" /\ told' = told /\ hs[h].pc = "jobs"
          /\ job[j] = "up" /\ j \in ledger[s] /\ Open(s)
      BY <2>10 DEF StartedJobs, At, Open
    <3>2. j \in told \/ InHand(j, s)
      BY <2>3, <3>1
    <3>3. CASE s \in hs[h].open
      <4>1. j \in js
        BY <3>1, <3>3
      <4>2. hs' = [hs EXCEPT ![h].pc = "fold", ![h].jobs = js]
        BY <2>10, <4>1 DEF StartedJobs
      <4> HIDE DEF js
      <4>3. hs'[h].pc = "fold" /\ hs'[h].jobs = js
        BY <1>1, <2>1, <4>2 DEF HandlerState
      <4> QED
        BY <4>1, <4>3 DEF InHand
    <3>4. CASE s \notin hs[h].open
      BY <2>4, <3>1, <3>2, <3>4 DEF InHand
    <3> QED
      BY <3>3, <3>4
  <2>11. CASE FoldDelibs(h)
    <3>1. PICK done \in SUBSET hs[h].jobs :
            /\ job' = [i \in Jobs |-> IF i \in done THEN "folded" ELSE job[i]]
            /\ told' = told \cup (hs[h].jobs \ done)
      BY <2>11 DEF FoldDelibs
    <3>2. /\ run.state = "cancelled" /\ hs[h].pc = "fold" /\ j \in ledger[s] /\ Open(s)
          /\ job[j] = "up" /\ j \notin done
      BY <2>11, <3>1 DEF FoldDelibs, At, Open
    <3>3. j \in told \/ InHand(j, s)
      BY <2>3, <3>2
    <3>4. CASE j \in hs[h].jobs \/ j \in told
      BY <3>1, <3>2, <3>4
    <3>5. CASE j \notin hs[h].jobs /\ j \notin told
      BY <2>4, <3>2, <3>3, <3>5 DEF InHand
    <3> QED
      BY <3>4, <3>5
  <2> QED
    BY <1>5, <2>5, <2>6, <2>7, <2>8, <2>9, <2>10, <2>11 DEF Handle
<1> QED
  BY <1>2, <1>3, <1>4, <1>5 DEF Next, vars

\* When a stop is through and nothing else is under way, each deliberation that works on was
\* named to the person or belongs to a step that was closed (routine_routes.cancel): a call
\* that is entered later is refused, and a step that is opened again makes the run one that
\* is not stopped.
THEOREM NothingOutlivesTheStop == Spec => []NoDeliberationOutlivesTheStop
<1> DEFINE IInv == StartsAreKnown /\ OnlyAStopCancels /\ StopsReachTheRest
<1>1. Init => IInv
  <2> SUFFICES ASSUME Init PROVE IInv
    OBVIOUS
  <2>1. \A h \in Handlers : hs[h].pc = "idle"
    BY DEF Init, Idle
  <2>2. \A s \in Steps : ledger[s] = {}
    BY DEF Init
  <2>3. \A j \in Jobs : job[j] = "none"
    BY DEF Init
  <2>4. run.state = "none"
    BY DEF Init
  <2> QED
    BY <2>1, <2>2, <2>3, <2>4 DEF StartsAreKnown, OnlyAStopCancels, StopsReachTheRest
<1>2. TypeOK /\ IInv /\ [Next]_vars => IInv'
  BY StartsAreKnownStep, OnlyAStopCancelsStep, StopsReachTheRestStep
<1>3. IInv => NoDeliberationOutlivesTheStop
  <2> SUFFICES ASSUME IInv, Quiet, run.state = "cancelled", NEW j \in Jobs, job[j] = "up"
               PROVE  j \in told \/ \E s \in Steps : j \in ledger[s] /\ ~ Open(s)
    BY DEF NoDeliberationOutlivesTheStop
  <2>1. PICK s \in Steps : j \in ledger[s]
    BY DEF StartsAreKnown, Quiet
  <2>2. ~ InHand(j, s)
    BY DEF InHand, Quiet
  <2> QED
    BY <2>1, <2>2 DEF StopsReachTheRest, Quiet
<1> QED
  BY <1>1, <1>2, <1>3, TypeCorrect, PTL DEF Spec
-----------------------------------------------------------------------------
(* The plan of a step, and the screens that say what it will be.           *)

CONSTANTS Backends, Tools, BackendOf, Writey, Stoppers
VARIABLES box, step, pstage, prun

Plan == INSTANCE RoutinePlan WITH stage <- pstage, run <- prun

\* The tools a step may call are those of its tools that the screen offers: a list of what
\* reads, if the gateway gives one, or of what writes; names were checked with the spec.
LEMMA AllowedAreOffered ==
  ASSUME box \in Plan!Boxes, step \in Plan!Steps
  PROVE  Plan!AllowedTools = {t \in Plan!Named : ~ Plan!ShownAsWrite(t)}
<1>1. CASE Plan!ReadMode
  BY <1>1 DEF Plan!AllowedTools, Plan!ShownAsWrite, Plan!ReadMode
<1>2. CASE ~ Plan!ReadMode /\ box.givesReads
  <2>1. Plan!Named = {}
    BY <1>2 DEF Plan!ReadMode, Plan!Named
  <2> QED
    BY <2>1 DEF Plan!AllowedTools
<1>3. CASE ~ box.givesReads
  <2>1. step.tools # {} => \A t \in Plan!Named : t \notin Writey
    BY DEF Plan!Steps, Plan!Named
  <2> QED
    BY <1>3, <2>1 DEF Plan!AllowedTools, Plan!ShownAsWrite, Plan!ReadMode
<1> QED
  BY <1>1, <1>2, <1>3

\* What is left out has a reason that the readiness knows, so a step that is ready and has
\* one of its tools has one it may call.
LEMMA ReadyStepsHaveTools ==
  (Plan!FirstState = "pending")
    <=> (Plan!Readiness = "allowed" /\ (step.tools = {} \/ Plan!Missing # step.tools))
<1>1. Plan!FirstState = "pending" <=> Plan!Readiness = "allowed" /\ Plan!AllowedTools # {}
  BY DEF Plan!FirstState, Plan!Readiness
<1>2. ASSUME Plan!Readiness = "allowed"
      PROVE  Plan!AllowedTools # {} <=> step.tools = {} \/ Plan!Missing # step.tools
  <2>1. \E b \in step.backends : Plan!BackendState(b) = "allowed"
    BY <1>2 DEF Plan!Readiness
  <2>2. ~ (Plan!WriteReason /\ Plan!AllowedTools = {})
    BY <1>2, <2>1 DEF Plan!Readiness
  <2>3. Plan!Missing = step.tools \ Plan!Have
    BY <2>1 DEF Plan!Missing
  <2>4. Plan!AllowedTools \subseteq Plan!Named
    BY DEF Plan!AllowedTools
  <2>5. CASE step.tools = {}
    BY <2>2, <2>5 DEF Plan!WriteReason
  <2>6. CASE step.tools # {}
    <3>1. Plan!Named = step.tools \cap Plan!Have
      BY <2>6 DEF Plan!Named
    <3>2. Plan!AllowedTools = {} => Plan!Named = {}
      BY <2>2, <2>6 DEF Plan!WriteReason, Plan!Dropped
    <3>3. Plan!Missing # step.tools <=> Plan!Named # {}
      BY <2>3, <3>1
    <3> QED
      BY <2>4, <2>6, <3>2, <3>3
  <2> QED
    BY <2>5, <2>6
<1> QED
  BY <1>1, <1>2

\* The start of a run decides on what was there at the start.
PlanIsMade ==
  /\ box \in Plan!Boxes /\ step \in Plan!Steps
  /\ pstage # "none" => pstage = Plan!FirstState

LEMMA PlansAreMade == Plan!Spec => []PlanIsMade
<1>1. Plan!Init => PlanIsMade
  BY DEF Plan!Init, PlanIsMade
<1>2. PlanIsMade /\ [Plan!Next]_Plan!vars => PlanIsMade'
  <2> SUFFICES ASSUME PlanIsMade, [Plan!Next]_Plan!vars PROVE PlanIsMade'
    OBVIOUS
  <2>1. box' = box /\ step' = step
    BY DEF Plan!Next, Plan!StartRun, Plan!vars
  <2>2. Plan!FirstState' = Plan!FirstState
    BY <2>1 DEF Plan!FirstState, Plan!Readiness, Plan!BackendState, Plan!Mine, Plan!WriteReason,
                Plan!Dropped, Plan!AllowedTools, Plan!Named, Plan!GwWrite, Plan!ReadMode, Plan!Have
  <2>3. pstage' = pstage \/ pstage' = Plan!FirstState
    BY DEF Plan!Next, Plan!StartRun, Plan!vars
  <2> QED
    BY <2>1, <2>2, <2>3 DEF PlanIsMade
<1> QED
  BY <1>1, <1>2, PTL DEF Plan!Spec

\* A step the screen shows as ready starts, unless it shows each of its tools as missing, and
\* it may then call those of its tools the screen offered, whatever lists the gateway gives
\* (platforms, readiness_of, plan_steps and first_states decide on their own).
THEOREM ScreensTellTheTruth ==
  Plan!Spec => [](Plan!ReadyStepsStart /\ Plan!PlanAgreesWithTheScreen)
<1>1. PlanIsMade => Plan!ReadyStepsStart /\ Plan!PlanAgreesWithTheScreen
  BY AllowedAreOffered, ReadyStepsHaveTools
     DEF PlanIsMade, Plan!ReadyStepsStart, Plan!PlanAgreesWithTheScreen
<1> QED
  BY <1>1, PlansAreMade, PTL
=============================================================================
