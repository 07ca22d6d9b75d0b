---------------------------- MODULE RoutinePlan ----------------------------
(***************************************************************************)
(* What one step of a routine may call and whether it can run for a        *)
(* person: the screen that offers tools (platforms), the screen that says  *)
(* whether a step is ready (readiness_of), and the plan a run is started   *)
(* with (plan_steps, first_states).  The three decide on their own, from   *)
(* the person's list of tools and from what the gateway says of the tools. *)
(***************************************************************************)
EXTENDS Naturals, FiniteSets

CONSTANTS
  Backends,   \* backends of the gateway
  Tools,      \* tools by their original names, each of one backend
  BackendOf,  \* the backend of a tool
  Writey,     \* tools whose names are those of tools that write
  Stoppers    \* readiness states at which the routine is to stop

VARIABLES
  box,   \* what the gateway answers, and what is registered for the person
  step,  \* the step, as it passed validation
  stage, \* the state the step starts with, "none" before the run
  run    \* the state the run starts with

vars == <<box, step, stage, run>>

\* The gateway lists the person's tools, its apps, and, from some version on, the tools
\* that write and those confirmed to read.
Boxes == [mine : SUBSET Tools, apps : SUBSET Backends, writes : SUBSET Tools,
          reads : SUBSET Tools, givesWrites : BOOLEAN, givesReads : BOOLEAN,
          noToken : SUBSET Backends]

\* Backends are named; tools may be, and tools that write are refused when a routine is saved.
Steps == [backends : SUBSET Backends \ {{}}, tools : SUBSET (Tools \ Writey)]
-----------------------------------------------------------------------------
Mine(b) == {t \in box.mine : BackendOf[t] = b}
Have == {t \in box.mine : BackendOf[t] \in step.backends}
ReadMode == box.givesReads /\ Have # {}
GwWrite(t) == box.givesWrites /\ t \in box.writes

\* Unlisted means all; if the gateway confirms what reads, only that.
Named == IF step.tools = {} THEN Have ELSE step.tools \cap Have

\* The tools the step may call.
AllowedTools ==
  IF ReadMode THEN {t \in Named : t \in box.reads /\ t \notin Writey}
  ELSE {t \in Named : ~ GwWrite(t) /\ (step.tools = {} => t \notin Writey)}

\* The tools that were named and are left out.
Dropped == IF step.tools = {} THEN {} ELSE Named \ AllowedTools

\* There is something to say of what was left out.
WriteReason == Dropped # {} \/ (step.tools = {} /\ AllowedTools = {})

BackendState(b) ==
  IF Mine(b) # {} THEN IF b \in box.noToken THEN "not_connected" ELSE "allowed"
  ELSE IF b \in box.apps THEN "denied" ELSE "unavailable"

\* The best of the backends, whatever is left of the tools.
ReadinessOfBackends ==
  LET states == {BackendState(b) : b \in step.backends} IN
  IF "allowed" \in states THEN "allowed"
  ELSE IF "not_connected" \in states THEN "not_connected"
  ELSE IF "denied" \in states THEN "denied" ELSE "unavailable"

\* The best of the backends; a step left without tools is not there.
Readiness ==
  LET states == {BackendState(b) : b \in step.backends} IN
  IF "allowed" \in states
  THEN IF WriteReason /\ AllowedTools = {} THEN "unavailable" ELSE "allowed"
  ELSE IF "not_connected" \in states THEN "not_connected"
  ELSE IF "denied" \in states THEN "denied" ELSE "unavailable"

\* Named tools the person does not have, as the screen shows them.
Missing ==
  IF \E b \in step.backends : BackendState(b) = "allowed" THEN step.tools \ Have ELSE {}

\* The state the step starts with.
FirstState ==
  IF Readiness # "allowed" THEN Readiness
  ELSE IF AllowedTools = {} THEN "unavailable" ELSE "pending"

\* A tool the screen marks as one that may not be put into a step.
ShownAsWrite(t) ==
  t \in Writey \/ (IF box.givesReads THEN t \notin box.reads ELSE GwWrite(t))
-----------------------------------------------------------------------------
Init ==
  /\ box \in Boxes /\ step \in Steps
  /\ stage = "none" /\ run = "none"

StartRun ==
  /\ stage = "none"
  /\ stage' = FirstState
  /\ run' = IF FirstState \in Stoppers THEN "failed" ELSE "running"
  /\ UNCHANGED <<box, step>>

Next == StartRun

Spec == Init /\ [][Next]_vars
-----------------------------------------------------------------------------
(* Properties                                                              *)

\* A step the screen shows as ready starts, unless it also shows each of its tools as
\* missing; one it shows as not ready does not (readiness_of: "the screen one picks from
\* must not say that it runs").
ReadyStepsStart ==
  stage # "none" =>
    ((stage = "pending") <=> (Readiness = "allowed" /\ (step.tools = {} \/ Missing # step.tools)))

\* The plan lets a step call exactly those of its tools the screen offered as readable:
\* the validation of the spec, the gateway's lists and the plan agree (platforms).
PlanAgreesWithTheScreen ==
  stage # "none" => AllowedTools = {t \in Named : ~ ShownAsWrite(t)}
=============================================================================
