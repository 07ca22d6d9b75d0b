---------------------------- MODULE RunLifecycle ----------------------------
(***************************************************************************)
(* What a run promises the person who owns it, without steps, approvals or *)
(* awaits: a run is in the hands of at most one worker; a worker that lets *)
(* go leaves the run ended or waiting, unless it was cancelled; a cancel   *)
(* is for good; and a run that looks as if it moved has a worker, crashes  *)
(* of the process included.                                                *)
(***************************************************************************)
CONSTANTS Runs, EmptyRuns, Workers

VARIABLES state, owners

vars == <<state, owners>>

Ends == {"done", "failed", "cancelled"}

\* A run that a request may put back to work: it waits for a person, it ended
\* without a cancel, or it is an empty run between two steps.
Waits(r) ==
  \/ state[r] \in {"gated", "done", "failed"}
  \/ state[r] = "queued" /\ r \in EmptyRuns

Init ==
  /\ state = [r \in Runs |-> "none"]
  /\ owners = [r \in Runs |-> {}]

Create(r) ==
  /\ state[r] = "none"
  /\ state' = [state EXCEPT ![r] = "queued"]
  /\ IF r \in EmptyRuns THEN UNCHANGED owners
     ELSE \E w \in Workers : owners' = [owners EXCEPT ![r] = {w}]

Take(r) ==
  /\ Waits(r) /\ owners[r] = {}
  /\ state' = [state EXCEPT ![r] = "running"]
  /\ \E w \in Workers : owners' = [owners EXCEPT ![r] = {w}]

Work(r) ==
  /\ owners[r] # {} /\ state[r] = "queued"
  /\ state' = [state EXCEPT ![r] = "running"]
  /\ UNCHANGED owners

\* The worker writes where the run stands and lets go, in one step.
Settle(r) ==
  /\ owners[r] # {} /\ state[r] \in {"queued", "running"}
  /\ \E s \in {"gated", "done", "failed"} \cup (IF r \in EmptyRuns THEN {"queued"} ELSE {}) :
       state' = [state EXCEPT ![r] = s]
  /\ owners' = [owners EXCEPT ![r] = {}]

Cancel(r) ==
  /\ state[r] \in {"queued", "running", "gated"}
  /\ state' = [state EXCEPT ![r] = "cancelled"]
  /\ UNCHANGED owners

Leave(r) ==
  /\ state[r] = "cancelled" /\ owners[r] # {}
  /\ owners' = [owners EXCEPT ![r] = {}]
  /\ UNCHANGED state

Crash ==
  /\ state' = [r \in Runs |-> IF state[r] \in {"queued", "running"} THEN "failed" ELSE state[r]]
  /\ owners' = [r \in Runs |-> {}]

Next ==
  \/ \E r \in Runs : Create(r) \/ Take(r) \/ Work(r) \/ Settle(r) \/ Cancel(r) \/ Leave(r)
  \/ Crash

Spec == Init /\ [][Next]_vars
=============================================================================
