---------------------------- MODULE CardReview -----------------------------
(***************************************************************************)
(* Calls of the card review as the portal relays them (agent/routes.py     *)
(* from _cr_sem on).  A run takes one of a few places, opens a stream at   *)
(* the engine and passes its bytes on, a bit at a time; two places in the  *)
(* code close it, the generator and the response, as the generator may     *)
(* never have begun.  Everything between two awaits is one action.         *)
(***************************************************************************)
EXTENDS Naturals, Sequences, FiniteSets

CONSTANTS
  Calls,   \* requests of the review app
  Places   \* runs at a time (card_review_max_streams)

VARIABLES
  call,  \* where each call is, and what its relay knows of the stream
  sem,   \* free places of the semaphore
  up,    \* calls with a stream open at the engine, which works for them
  left,  \* calls whose client left
  seen,  \* frames that went to the client whole
  said   \* records of how a call ended, in the order they were written

vars == <<call, sem, up, left, seen, said>>

Frames == {"result", "error", "done"}
Nothing == "nothing"
Ends == {"ok", "error", "rejected", "cancelled"}

\* A stream: begun, at work, with something for the client, to be closed by `closers`.
Call == [pc : {"idle", "read", "open", "body", "stream", "unary", "out"},
         gen : {"new", "on", "chunk", "tail", "over"}, half : Frames \cup {Nothing},
         got : SUBSET Frames, code : BOOLEAN, ended : BOOLEAN,
         closers : SUBSET {"generator", "response"}, closing : BOOLEAN, closed : BOOLEAN]
Fresh == [pc |-> "idle", gen |-> "new", half |-> Nothing, got |-> {}, code |-> FALSE,
          ended |-> FALSE, closers |-> {}, closing |-> FALSE, closed |-> FALSE]

Set(q, c) == call' = [call EXCEPT ![q] = c]
Record(q, end) == said' = [said EXCEPT ![q] = Append(@, end)]
-----------------------------------------------------------------------------
Init ==
  /\ call = [q \in Calls |-> Fresh]
  /\ sem = Places /\ up = {} /\ left = {}
  /\ seen = [q \in Calls |-> <<>>]
  /\ said = [q \in Calls |-> <<>>]

Ask(q) ==
  /\ call[q].pc = "idle"
  /\ Set(q, [Fresh EXCEPT !.pc = "read"])
  /\ UNCHANGED <<sem, up, left, seen, said>>

\* A body that is too large or no object, or no place left.
Reject(q) ==
  /\ call[q].pc = "read"
  /\ Set(q, [Fresh EXCEPT !.pc = "out"]) /\ Record(q, "rejected")
  /\ UNCHANGED <<sem, up, left, seen>>

\* limits, pack and plan ask and answer at once; they take no place.
AskUnary(q) ==
  /\ call[q].pc = "read"
  /\ Set(q, [Fresh EXCEPT !.pc = "unary"])
  /\ UNCHANGED <<sem, up, left, seen, said>>

\* The engine's answer as it is, an outdated or broken engine, no answer, or no connection
\* left in the pool.
UnaryAnswered(q) ==
  /\ call[q].pc = "unary"
  /\ Set(q, [Fresh EXCEPT !.pc = "out"])
  /\ \E end \in {"ok", "error", "rejected"} : Record(q, end)
  /\ UNCHANGED <<sem, up, left, seen>>

\* The place is looked for and taken without an await in between; there is no queue.
TakePlace(q) ==
  /\ call[q].pc = "read" /\ sem > 0
  /\ Set(q, [Fresh EXCEPT !.pc = "open"]) /\ sem' = sem - 1
  /\ UNCHANGED <<up, left, seen, said>>

\* The request goes out and no answer comes, or the pool is full.
NotOpened(q) ==
  /\ call[q].pc = "open"
  /\ Set(q, [Fresh EXCEPT !.pc = "out"]) /\ sem' = sem + 1
  /\ \E end \in {"error", "rejected"} : Record(q, end)
  /\ UNCHANGED <<up, left, seen>>

\* The engine answers without a stream; the body of its answer is read to the end.
AnsweredAtOnce(q) ==
  /\ call[q].pc = "open"
  /\ Set(q, [Fresh EXCEPT !.pc = "body"])
  /\ UNCHANGED <<sem, up, left, seen, said>>

AnswerRead(q) ==
  /\ call[q].pc = "body"
  /\ Set(q, [Fresh EXCEPT !.pc = "out"]) /\ sem' = sem + 1
  /\ \E end \in {"ok", "error"} : Record(q, end)
  /\ UNCHANGED <<up, left, seen>>

\* The stream is handed to the response, which closes it when it ends.
Opened(q) ==
  /\ call[q].pc = "open"
  /\ Set(q, [Fresh EXCEPT !.pc = "stream", !.closers = {"response"}])
  /\ up' = up \cup {q}
  /\ UNCHANGED <<sem, left, seen, said>>

\* The first thing the client takes starts the generator.
Begin(q) ==
  /\ call[q].pc = "stream" /\ call[q].gen = "new" /\ call[q].closers = {"response"}
  /\ Set(q, [call[q] EXCEPT !.gen = "on", !.closers = {"generator", "response"}])
  /\ UNCHANGED <<sem, up, left, seen, said>>

\* The engine ends what it says with a result or an error, and then `done`; a chunk is a
\* whole frame, a beginning of one, or the rest of one.
Chunk(q) ==
  /\ call[q].gen = "on"
  /\ \E f \in Frames :
       /\ f \notin call[q].got
       /\ IF f = "done" THEN call[q].got # {} ELSE call[q].got = {}
       /\ call[q].half \in {f, Nothing}
       /\ \/ Set(q, [call[q] EXCEPT !.gen = "chunk", !.half = Nothing, !.got = call[q].got \cup {f},
                                    !.code = call[q].code \/ f = "error"])
             /\ seen' = [seen EXCEPT ![q] = Append(@, f)]
          \/ /\ call[q].half = Nothing
             /\ Set(q, [call[q] EXCEPT !.gen = "chunk", !.half = f])
             /\ UNCHANGED seen
  /\ UNCHANGED <<sem, up, left, said>>

\* The client has taken the chunk.
Sent(q) ==
  /\ call[q].gen = "chunk"
  /\ Set(q, [call[q] EXCEPT !.gen = "on"])
  /\ UNCHANGED <<sem, up, left, seen, said>>

UpstreamEnds(q) ==
  /\ call[q].gen = "on"
  /\ Set(q, [call[q] EXCEPT !.gen = "over", !.ended = TRUE])
  /\ UNCHANGED <<sem, up, left, seen, said>>

\* The relay ends a stream that was cut with an error and `done`, behind the rest of a
\* half frame, unless the engine's own `done` went by.
Cut(q) ==
  IF "done" \in call[q].got
  THEN Set(q, [call[q] EXCEPT !.gen = "over"]) /\ UNCHANGED seen
  ELSE /\ Set(q, [call[q] EXCEPT !.gen = "tail", !.code = TRUE])
       /\ seen' = [seen EXCEPT ![q] = @ \o <<"error", "done">>]

\* The engine is silent for too long, or the connection breaks.
UpstreamBreaks(q) ==
  /\ call[q].gen = "on"
  /\ Cut(q)
  /\ UNCHANGED <<sem, up, left, said>>

TailSent(q) ==
  /\ call[q].gen = "tail"
  /\ Set(q, [call[q] EXCEPT !.gen = "over"])
  /\ UNCHANGED <<sem, up, left, seen, said>>

\* The client leaves; whatever the stream waits for ends.
Leave(q) ==
  /\ call[q].pc = "stream" /\ call[q].gen # "over"
  /\ left' = left \cup {q}
  /\ Set(q, [call[q] EXCEPT !.gen = "over"])
  /\ UNCHANGED <<sem, up, seen, said>>

\* Each of the two closes what it finds open.
CloseEach(q, who) ==
  /\ call[q].gen = "over" /\ who \in call[q].closers /\ ~ call[q].closing
  /\ Set(q, [call[q] EXCEPT !.closers = call[q].closers \ {who}, !.closing = TRUE, !.closed = TRUE])
  /\ UNCHANGED <<sem, up, left, seen, said>>

\* The generator and the response both close; the one that comes second does nothing.
Close(q, who) ==
  /\ call[q].gen = "over" /\ who \in call[q].closers
  /\ Set(q, [call[q] EXCEPT !.closers = call[q].closers \ {who}, !.closed = TRUE,
                            !.closing = call[q].closing \/ ~ call[q].closed])
  /\ UNCHANGED <<sem, up, left, seen, said>>

\* The connection is closed, shielded from the end of the request: the engine stops
\* working, the place is free, and how the run ended is written down.
Closed(q) ==
  /\ call[q].closing
  /\ Set(q, [call[q] EXCEPT !.closing = FALSE])
  /\ up' = up \ {q} /\ sem' = sem + 1
  /\ Record(q, IF call[q].code THEN "error" ELSE IF "result" \in call[q].got THEN "ok"
               ELSE IF call[q].ended THEN "error" ELSE "cancelled")
  /\ UNCHANGED <<left, seen>>

Next ==
  \E q \in Calls :
    \/ Ask(q) \/ Reject(q) \/ AskUnary(q) \/ UnaryAnswered(q)
    \/ TakePlace(q) \/ NotOpened(q) \/ AnsweredAtOnce(q) \/ AnswerRead(q) \/ Opened(q)
    \/ Begin(q) \/ Chunk(q) \/ Sent(q) \/ UpstreamEnds(q) \/ UpstreamBreaks(q) \/ TailSent(q)
    \/ Leave(q) \/ \E who \in {"generator", "response"} : Close(q, who)
    \/ Closed(q)

Spec == Init /\ [][Next]_vars
-----------------------------------------------------------------------------
(* Properties                                                              *)

\* Calls, frames and records have the shapes the relay gives them, and no more places are
\* free than there are.
TypeOK ==
  /\ call \in [Calls -> Call] /\ sem \in 0 .. Places /\ up \subseteq Calls /\ left \subseteq Calls
  /\ seen \in [Calls -> Seq(Frames)] /\ said \in [Calls -> Seq(Ends)]

\* A run holds a place from when it looked for one until its stream at the engine is
\* closed, and the engine works for no run without one (acquire, close, the finally of
\* card_review_run).
Holding(q) == call[q].pc \in {"open", "body"} \/ (call[q].pc = "stream" /\ said[q] = <<>>)
PlacesMatchRuns ==
  /\ \A q \in up : Holding(q)
  /\ sem + Cardinality({q \in Calls : Holding(q)}) = Places

\* How a call ended is written down once, as an end only if nobody left, and as good only
\* if its result went by and nothing was cut (_CrRun.close).
EndsAreRecordedOnce ==
  \A q \in Calls :
    /\ Len(said[q]) <= 1
    /\ call[q].pc = "stream" /\ said[q] # <<>> =>
         /\ said[q][1] = "cancelled" => q \in left
         /\ said[q][1] = "ok" => "result" \in call[q].got

\* The app is told once that a run is over, and before that how, if it stayed to its end
\* and the engine did not end it in silence (cut).
AppIsTold ==
  \A q \in Calls :
    /\ \A i \in 1 .. Len(seen[q]) : seen[q][i] = "done" => i = Len(seen[q])
    /\ call[q].gen = "over" /\ q \notin left /\ ~ call[q].ended =>
         Len(seen[q]) > 1 /\ seen[q][Len(seen[q])] = "done"
=============================================================================
