----------------------------- MODULE ChatRelay -----------------------------
(***************************************************************************)
(* The turns of one conversation as the portal relays them (chat in        *)
(* agent/routes.py).  A turn has two tasks: the response, which writes to  *)
(* the browser and may be left by it, and the pump, which reads the agent  *)
(* server to its end, closes the connection, returns the permit and saves  *)
(* what was said.  A deliberation goes on at the agent server whatever the *)
(* browser does; it is stopped by a request of its own, and either the     *)
(* relay or that request records the stop.  Everything between two awaits  *)
(* is one action: there is one event loop.                                 *)
(***************************************************************************)
EXTENDS Naturals, Sequences, FiniteSets

CONSTANTS
  Turns,        \* requests to chat in the conversation
  Mixes,        \* what the turns may be: functions from Turns to Kinds
  RunOf,        \* of a routine turn: the run it follows; two turns may follow one
  Stoppers,     \* requests to stop a deliberation
  Nobody,       \* holds no lock
  Permits,      \* chats at a time
  Cap,          \* frames the browser may be behind
  MaxDetached,  \* routine turns read on without a browser
  Deletes,      \* the conversation may be deleted
  MaxFails      \* bound: failures of the store

Kinds == {"plain", "delib", "routine"}

ASSUME RelayAssumption ==
  /\ Mixes \subseteq [Turns -> Kinds] /\ DOMAIN RunOf = Turns
  /\ Permits \in Nat \ {0} /\ Cap \in Nat \ {0} /\ MaxDetached \in Nat /\ MaxFails \in Nat
  /\ Deletes \in BOOLEAN /\ Nobody \notin Turns \cup Stoppers /\ Turns \cap Stoppers = {}

VARIABLES
  kind,     \* what each turn is
  turn,     \* of a turn: its response, its pump and what they share
  conv,     \* the messages of the conversation
  gone,     \* the conversation was deleted
  relays,   \* deliberations whose relay is to record a stop (_DELIB_RELAYS)
  by,       \* those of them a stop was recorded for
  lock,     \* who holds the save lock of a run
  stop,     \* requests to stop: where they are, and what they stop
  stopped,  \* history: deliberations the agent server agreed to stop
  unheard,  \* history: those whose agreement did not reach the portal
  lost,     \* history: turns and runs the store did not save
  fails     \* failures of the store so far

vars == <<kind, turn, conv, gone, relays, by, lock, stop, stopped, unheard, lost, fails>>

Frames == {"run", "say", "text", "stopped", "end"}
Keys == {<<"delib", t>> : t \in Turns} \cup {<<"run", RunOf[t]>> : t \in Turns}
TurnStates ==
  [resp : {"idle", "owner", "ask", "asked", "made", "stream", "drain", "leave", "out"},
   pump : {"none", "read", "room", "close", "lock", "look", "put", "done"},
   held : BOOLEAN, counted : BOOLEAN, keep : BOOLEAN, detached : BOOLEAN, room : BOOLEAN,
   box : 0 .. Cap, got : SUBSET Frames]
Message == [role : {"user", "persona", "assistant", "deck"}, of : Turns \cup {Nobody},
            stop : BOOLEAN, end : BOOLEAN, text : BOOLEAN]

Said(role, t) == [role |-> role, of |-> t, stop |-> FALSE, end |-> FALSE, text |-> TRUE]
Answer(t) == [role |-> "assistant", of |-> t, stop |-> "stopped" \in turn[t].got,
              end |-> "end" \in turn[t].got, text |-> "text" \in turn[t].got]
StopNote(t) == [role |-> "assistant", of |-> t, stop |-> TRUE, end |-> FALSE, text |-> FALSE]
Put(m) == conv' = IF gone THEN conv ELSE Append(conv, m)
Messages == {conv[i] : i \in DOMAIN conv}
StopSaid(t) == \E m \in Messages : m.role = "assistant" /\ m.stop /\ m.of = t

Finishing(t) == turn[t].pump \in {"close", "lock", "look", "put", "done"}
Detached == {t \in Turns : turn[t].detached /\ turn[t].pump # "done"}
Over(t) == turn[t].resp = "out" /\ turn[t].pump \in {"none", "done"}

\* The lock of a deliberation only.
NeedsKeyAsDelib(t) == kind[t] = "delib" /\ "run" \in turn[t].got

\* The lock a pump saves under: that of its deliberation, or of its run once that ended.
NeedsKey(t) ==
  \/ (kind[t] = "delib" /\ "run" \in turn[t].got)
  \/ (kind[t] = "routine" /\ "end" \in turn[t].got)
Key(t) == IF kind[t] = "delib" THEN <<"delib", t>> ELSE <<"run", RunOf[t]>>

\* There is something to save as the answer; a routine turn leaves a pointer to its run.
HasReply(t) ==
  "text" \in turn[t].got \/ "stopped" \in turn[t].got
  \/ (kind[t] = "routine" /\ "run" \in turn[t].got)

\* The same end of the same run with the same text is there already.
Answered(t) ==
  /\ kind[t] = "routine" /\ "end" \in turn[t].got
  /\ \E m \in Messages : /\ m.role = "assistant" /\ m.end /\ RunOf[m.of] = RunOf[t]
                         /\ m.text = ("text" \in turn[t].got)
-----------------------------------------------------------------------------
Init ==
  /\ kind \in Mixes
  /\ turn = [t \in Turns |->
       [resp |-> "idle", pump |-> "none", held |-> FALSE, counted |-> FALSE, keep |-> FALSE,
        detached |-> FALSE, room |-> FALSE, box |-> 0, got |-> {}]]
  /\ conv = <<>> /\ gone = FALSE
  /\ relays = {} /\ by = {}
  /\ lock = [k \in Keys |-> Nobody]
  /\ stop = [x \in Stoppers |-> [pc |-> "idle", of |-> Nobody]]
  /\ stopped = {} /\ unheard = {} /\ lost = {} /\ fails = 0

Others == UNCHANGED <<kind, gone, relays, by, lock, stop, stopped, unheard, lost, fails>>
StoreFails == fails < MaxFails /\ fails' = fails + 1
-----------------------------------------------------------------------------
(* The request, up to the response                                         *)

\* A permit is taken, or the request is refused.
Begin(t) ==
  /\ turn[t].resp = "idle"
  /\ Cardinality({u \in Turns : turn[u].held}) < Permits
  /\ turn' = [turn EXCEPT ![t].resp = "owner", ![t].held = TRUE]
  /\ Others /\ UNCHANGED conv

\* A turn that is counted once its question is stored.
CheckOwnerOnly(t) ==
  /\ turn[t].resp = "owner"
  /\ turn' = [turn EXCEPT ![t].resp = IF gone THEN "made" ELSE "ask"]
  /\ Others /\ UNCHANGED conv

\* The turn counts from before its question is stored.
CheckOwner(t) ==
  /\ turn[t].resp = "owner"
  /\ turn' = IF gone THEN [turn EXCEPT ![t].resp = "made"]
             ELSE [turn EXCEPT ![t].resp = "ask", ![t].counted = TRUE]
  /\ Others /\ UNCHANGED conv

\* A failure that only gives the permit back.
FailKeepingCount(t) ==
  /\ turn[t].resp \in {"owner", "ask"} /\ StoreFails
  /\ turn' = [turn EXCEPT ![t].resp = "out", ![t].held = FALSE]
  /\ UNCHANGED <<kind, conv, gone, relays, by, lock, stop, stopped, unheard, lost>>

\* The store fails before there is a response: permit and count are given back here.
Fail(t) ==
  /\ turn[t].resp \in {"owner", "ask"} /\ StoreFails
  /\ turn' = [turn EXCEPT ![t].resp = "out", ![t].held = FALSE, ![t].counted = FALSE]
  /\ UNCHANGED <<kind, conv, gone, relays, by, lock, stop, stopped, unheard, lost>>

\* The question is stored by a thread; the handler hears of it later.
StoreQuestion(t) ==
  /\ turn[t].resp = "ask"
  /\ turn' = [turn EXCEPT ![t].resp = "asked", ![t].keep = ~ gone]
  /\ Put(Said("user", t))
  /\ Others

QuestionStored(t) ==
  /\ turn[t].resp = "asked"
  /\ turn' = [turn EXCEPT ![t].resp = "made", ![t].counted = turn[t].keep]
  /\ Others /\ UNCHANGED conv

Delete ==
  /\ Deletes /\ ~ gone
  /\ gone' = TRUE /\ conv' = <<>>
  /\ UNCHANGED <<kind, turn, relays, by, lock, stop, stopped, unheard, lost, fails>>
-----------------------------------------------------------------------------
(* The pump                                                                *)

\* The run id comes first; a stop is announced only if the agent server agreed to it.
Comes(t) ==
  LET own == IF kind[t] = "plain" THEN {"text"}
             ELSE IF kind[t] = "delib" THEN {"run", "say", "text"} \cup
                                            (IF t \in stopped THEN {"stopped"} ELSE {})
             ELSE {"run", "text", "end"}
  IN IF kind[t] # "plain" /\ "run" \notin turn[t].got THEN {"run"}
     ELSE {f \in own : f \notin turn[t].got}

\* What a frame says is kept before the frame is queued; the pump waits while the browser
\* is too far behind.
Receive(t) ==
  /\ turn[t].pump = "read"
  /\ \E f \in Comes(t) :
       /\ turn' = [turn EXCEPT
            ![t].got = IF turn[t].keep THEN turn[t].got \cup {f} ELSE turn[t].got,
            ![t].pump = IF ~ turn[t].detached /\ turn[t].box = Cap THEN "room" ELSE "read",
            ![t].room = IF ~ turn[t].detached /\ turn[t].box = Cap THEN FALSE ELSE turn[t].room,
            ![t].box = IF turn[t].detached \/ turn[t].box = Cap THEN turn[t].box
                       ELSE turn[t].box + 1]
       /\ relays' = IF f = "run" /\ kind[t] = "delib" /\ turn[t].keep THEN relays \cup {t} ELSE relays
  /\ UNCHANGED <<kind, conv, gone, by, lock, stop, stopped, unheard, lost, fails>>

\* There is room again: the frame is queued, or dropped if nobody is to read it.
Resume(t) ==
  /\ turn[t].pump = "room" /\ turn[t].room
  /\ turn' = IF turn[t].detached THEN [turn EXCEPT ![t].pump = "read"]
             ELSE IF turn[t].box < Cap
             THEN [turn EXCEPT ![t].pump = "read", ![t].box = turn[t].box + 1]
             ELSE [turn EXCEPT ![t].room = FALSE]
  /\ Others /\ UNCHANGED conv

\* The agent server is through, breaks off, or has been silent too long.
StreamEnds(t) ==
  /\ turn[t].pump = "read"
  /\ turn' = [turn EXCEPT ![t].pump = "close"]
  /\ Others /\ UNCHANGED conv

\* The connection is closed, then the permit returned, then what was said is saved.
Close(t) ==
  /\ turn[t].pump = "close"
  /\ turn' = [turn EXCEPT ![t].held = FALSE,
       ![t].pump = IF ~ turn[t].keep THEN "done" ELSE IF NeedsKey(t) THEN "lock" ELSE "look"]
  /\ Others /\ UNCHANGED conv

\* Under the lock of its run, the relay leaves the table; a stop that was asked of it and
\* did not come through the stream is its to record.
TakeLock(t) ==
  /\ turn[t].pump = "lock" /\ lock[Key(t)] = Nobody
  /\ lock' = [lock EXCEPT ![Key(t)] = t]
  /\ relays' = relays \ {t}
  /\ turn' = [turn EXCEPT ![t].pump = "look",
       ![t].got = IF t \in relays \cap by THEN turn[t].got \cup {"stopped"} ELSE turn[t].got]
  /\ UNCHANGED <<kind, conv, gone, by, stop, stopped, unheard, lost, fails>>

\* The lock is given back and the turn no longer counts.
EndPump(t) ==
  /\ turn' = [turn EXCEPT ![t].pump = "done", ![t].counted = FALSE]
  /\ lock' = [k \in Keys |-> IF lock[k] = t THEN Nobody ELSE lock[k]]

\* The utterances are stored, and it is looked up whether the answer is.
Look(t) ==
  /\ turn[t].pump = "look"
  /\ IF "say" \in turn[t].got THEN Put(Said("persona", t)) ELSE UNCHANGED conv
  /\ IF HasReply(t) /\ ~ Answered(t)
     THEN turn' = [turn EXCEPT ![t].pump = "put"] /\ UNCHANGED lock
     ELSE EndPump(t)
  /\ UNCHANGED <<kind, gone, relays, by, stop, stopped, unheard, lost, fails>>

PutAnswer(t) ==
  /\ turn[t].pump = "put"
  /\ Put(Answer(t))
  /\ EndPump(t)
  /\ UNCHANGED <<kind, gone, relays, by, stop, stopped, unheard, lost, fails>>

\* The store fails; what is left is not stored, and only the log says so.
SaveFails(t) ==
  /\ turn[t].pump \in {"look", "put"} /\ StoreFails
  /\ lost' = lost \cup {t}
  /\ EndPump(t)
  /\ UNCHANGED <<kind, conv, gone, relays, by, stop, stopped, unheard>>
-----------------------------------------------------------------------------
(* The response                                                            *)

Start(t) ==
  /\ turn[t].resp = "made"
  /\ turn' = [turn EXCEPT ![t].resp = "stream", ![t].pump = "read"]
  /\ Others /\ UNCHANGED conv

Read(t) ==
  /\ turn[t].resp = "stream" /\ turn[t].box > 0
  /\ turn' = [turn EXCEPT ![t].box = turn[t].box - 1, ![t].room = TRUE]
  /\ Others /\ UNCHANGED conv

\* All is read; the response stays open until the pump has saved.
ReadEnd(t) ==
  /\ turn[t].resp = "stream" /\ turn[t].box = 0 /\ Finishing(t)
  /\ turn' = [turn EXCEPT ![t].resp = "drain"]
  /\ Others /\ UNCHANGED conv

\* The pump is done, or has taken too long and is left behind.
Respond(t) ==
  /\ turn[t].resp \in {"drain", "leave"}
  /\ turn' = [turn EXCEPT ![t].resp = "out", ![t].held = FALSE]
  /\ Others /\ UNCHANGED conv

\* The browser leaves while the headers are sent: there is no pump, and the response gives
\* all back.
LeaveUnstarted(t) ==
  /\ turn[t].resp = "made"
  /\ turn' = [turn EXCEPT ![t].resp = "out", ![t].held = FALSE, ![t].counted = FALSE]
  /\ Others /\ UNCHANGED conv

\* Detaching without a sign to a pump that waits for room.
DetachSilently(t) ==
  [turn EXCEPT ![t].resp = "out", ![t].detached = TRUE, ![t].box = 0]

\* A routine turn is read on without its browser.
Detach(t) ==
  [turn EXCEPT ![t].resp = "out", ![t].detached = TRUE, ![t].box = 0, ![t].room = TRUE]

\* Any other is cut, and what came so far is saved, unless its pump is already finishing.
CutAlways(t) ==
  [turn EXCEPT ![t].resp = "leave",
               ![t].pump = IF Finishing(t) /\ turn[t].pump # "close" THEN "done" ELSE "close"]

Cut(t) ==
  [turn EXCEPT ![t].resp = "leave", ![t].pump = IF Finishing(t) THEN turn[t].pump ELSE "close"]

Leave(t) ==
  /\ turn[t].resp \in {"stream", "drain"}
  /\ LET after == IF kind[t] = "routine" /\ turn[t].pump # "done" /\ Cardinality(Detached) < MaxDetached
                  THEN Detach(t) ELSE Cut(t)
     IN turn' = after \/ (kind[t] # "routine" /\ turn' = [after EXCEPT ![t].held = FALSE])
  /\ Others /\ UNCHANGED conv
-----------------------------------------------------------------------------
(* Stopping a deliberation                                                 *)

\* The agent server agrees, as often as it is asked.
AskStop(x, t) ==
  /\ stop[x].pc = "idle" /\ stop[x].of = Nobody
  /\ kind[t] = "delib" /\ "run" \in turn[t].got /\ ~ gone
  /\ stopped' = stopped \cup {t}
  /\ stop' = [stop EXCEPT ![x] = [pc |-> "wait", of |-> t]]
  /\ UNCHANGED <<kind, turn, conv, gone, relays, by, lock, unheard, lost, fails>>

\* Its answer comes too late for the portal.
StopUnheard(x) ==
  /\ stop[x].pc = "wait"
  /\ unheard' = unheard \cup {stop[x].of}
  /\ stop' = [stop EXCEPT ![x].pc = "idle"]
  /\ UNCHANGED <<kind, turn, conv, gone, relays, by, lock, stopped, lost, fails>>

\* A relay that is still in the table records the stop, even one that is about to save.
StopHeard(x) ==
  /\ stop[x].pc = "wait"
  /\ IF stop[x].of \in relays
     THEN by' = by \cup {stop[x].of} /\ stop' = [stop EXCEPT ![x].pc = "idle"]
     ELSE stop' = [stop EXCEPT ![x].pc = "lock"] /\ UNCHANGED by
  /\ UNCHANGED <<kind, turn, conv, gone, relays, lock, stopped, unheard, lost, fails>>

\* A record that does not wait for a relay that saves.
StopLockNone(x) ==
  /\ stop[x].pc = "lock"
  /\ stop' = [stop EXCEPT ![x].pc = "put"]
  /\ UNCHANGED <<kind, turn, conv, gone, relays, by, lock, stopped, unheard, lost, fails>>

StopLock(x) ==
  /\ stop[x].pc = "lock" /\ lock[<<"delib", stop[x].of>>] = Nobody
  /\ lock' = [lock EXCEPT ![<<"delib", stop[x].of>>] = x]
  /\ stop' = [stop EXCEPT ![x].pc = "put"]
  /\ UNCHANGED <<kind, turn, conv, gone, relays, by, stopped, unheard, lost, fails>>

StopPut(x) ==
  /\ stop[x].pc = "put"
  /\ \/ /\ IF StopSaid(stop[x].of) THEN UNCHANGED conv ELSE Put(StopNote(stop[x].of))
        /\ UNCHANGED <<lost, fails>>
     \/ StoreFails /\ lost' = lost \cup {stop[x].of} /\ UNCHANGED conv
  /\ stop' = [stop EXCEPT ![x].pc = "idle"]
  /\ lock' = [k \in Keys |-> IF lock[k] = x THEN Nobody ELSE lock[k]]
  /\ UNCHANGED <<kind, turn, gone, relays, by, stopped, unheard>>
-----------------------------------------------------------------------------
Pump(t) ==
  Resume(t) \/ StreamEnds(t) \/ Close(t) \/ TakeLock(t) \/ Look(t) \/ PutAnswer(t)

Turn(t) ==
  \/ Begin(t) \/ CheckOwner(t) \/ Fail(t) \/ StoreQuestion(t) \/ QuestionStored(t) \/ Receive(t) \/ SaveFails(t)
  \/ Start(t) \/ Read(t) \/ ReadEnd(t) \/ Respond(t) \/ LeaveUnstarted(t) \/ Leave(t)
  \/ Pump(t)

Stop(x) ==
  (\E t \in Turns : AskStop(x, t)) \/ StopUnheard(x) \/ StopHeard(x) \/ StopLock(x) \/ StopPut(x)

Next == Delete \/ (\E t \in Turns : Turn(t)) \/ (\E x \in Stoppers : Stop(x))

Spec == Init /\ [][Next]_vars

\* The event loop serves every task that can go on; the agent server ends its stream or is
\* cut off when it is silent for too long.  Nothing is asked of browsers.
Fairness ==
  /\ \A t \in Turns : WF_vars(Pump(t)) /\ WF_vars(Respond(t))
  /\ \A t \in Turns : SF_vars(TakeLock(t))
  /\ \A x \in Stoppers : WF_vars(StopPut(x))

LiveSpec == Spec /\ Fairness
-----------------------------------------------------------------------------
(* Properties                                                              *)

\* The tasks, the conversation and the locks have the shapes the handlers give them.
TypeOK ==
  /\ kind \in Mixes /\ turn \in [Turns -> TurnStates]
  /\ \A i \in DOMAIN conv : conv[i] \in Message
  /\ gone \in BOOLEAN /\ relays \subseteq Turns /\ by \subseteq Turns
  /\ lock \in [Keys -> Turns \cup Stoppers \cup {Nobody}]
  /\ stop \in [Stoppers -> [pc : {"idle", "wait", "lock", "put"}, of : Turns \cup {Nobody}]]
  /\ stopped \subseteq Turns /\ unheard \subseteq Turns /\ lost \subseteq Turns
  /\ fails \in 0 .. MaxFails

\* Whatever fails and whoever leaves, a turn that is over has given back its permit and is
\* not counted, and a turn reads the agent server only while it holds one, also without its
\* browser: there are as many connections as permits (_release, turn_end, pumping, _on_close).
PermitsMatchReaders ==
  \A t \in Turns :
    /\ Over(t) => ~ turn[t].held /\ ~ turn[t].counted
    /\ turn[t].pump \in {"read", "room"} => turn[t].held

\* What a turn received as its answer is in the conversation once it is over, though the
\* browser left before, within or after (finishing, _wait_pump).
AnswersAreKept ==
  \A t \in Turns :
    (turn[t].pump = "done" /\ HasReply(t) /\ t \notin lost /\ ~ gone) =>
      Answer(t) \in Messages \/ Answered(t)

\* Two tabs that follow one run to its end leave one report, and a stop is recorded once,
\* though a relay and a request to stop may both be about to (_routine_save_lock).
AnswersAreSaidOnce ==
  \A i, j \in DOMAIN conv :
    (i < j /\ conv[i].role = "assistant" /\ conv[j].role = "assistant") =>
      /\ ~ (conv[i].stop /\ conv[j].stop /\ conv[i].of = conv[j].of)
      /\ ~ (conv[i].end /\ conv[j].end /\ RunOf[conv[i].of] = RunOf[conv[j].of]
            /\ conv[i].text = conv[j].text)

\* A stop the portal heard of is in the conversation when its relay and the requests are
\* through, and after what was said before it (_delib_stop_record).
StopsAreTold ==
  /\ \A t \in stopped :
       (/\ turn[t].pump = "done" /\ t \notin lost \cup unheard /\ ~ gone
        /\ \A x \in Stoppers : stop[x].of = t => stop[x].pc = "idle") => StopSaid(t)
  /\ \A i, j \in DOMAIN conv :
       (i < j /\ conv[i].stop /\ conv[i].of = conv[j].of) => conv[j].role # "persona"

\* A turn whose browser has left comes to its end, one that waited for room included.
LeftTurnsEnd ==
  \A t \in Turns : (turn[t].resp = "leave" \/ turn[t].detached) ~> Over(t)
=============================================================================
