------------------------- MODULE CardReview_proofs -------------------------
(***************************************************************************)
(* Theorems about CardReview, for any finite number of calls and any       *)
(* number of places.                                                       *)
(*                                                                         *)
(* A step concerns one call, so the invariant is stated call by call       *)
(* (Good), about what its relay knows and what was recorded.  It ties the  *)
(* two closers to one record: a run has its record exactly when its stream *)
(* is closed and nobody is at closing it.  That the free places are those  *)
(* nobody holds is then a matter of counting.  What the app was told       *)
(* (Told) follows what the engine said until one of the two ends it.       *)
(***************************************************************************)
EXTENDS CardReview, FiniteSetTheorems, SequenceTheorems, TLAPS

\* A call c, its records s, who left (L) and whose streams are open (U) fit together.
Good(q, c, s, L, U) ==
  /\ c.pc \in {"idle", "read", "unary", "open", "body"} => s = <<>>
  /\ c.pc # "stream" => c.gen = "new" /\ ~ c.closing /\ ~ c.closed /\ c.closers = {}
  /\ c.pc = "stream" => (s # <<>> <=> c.closed /\ ~ c.closing)
  /\ c.closing => c.closed
  /\ c.closed => c.gen = "over"
  /\ Len(s) <= 1
  /\ "done" \in c.got => "result" \in c.got \/ "error" \in c.got
  /\ "error" \in c.got => c.code
  /\ c.gen = "tail" => c.code
  /\ c.gen = "over" /\ ~ c.code /\ "result" \notin c.got /\ ~ c.ended => q \in L
  /\ c.pc = "stream" /\ s # <<>> =>
       /\ s[1] = "cancelled" => q \in L
       /\ s[1] = "ok" => "result" \in c.got
  /\ q \in U => c.pc = "stream" /\ s = <<>>

Types ==
  /\ call \in [Calls -> Call] /\ sem \in Nat /\ up \subseteq Calls /\ left \subseteq Calls
  /\ seen \in [Calls -> Seq(Frames)] /\ said \in [Calls -> Seq(Ends)]
Inv == Types /\ \A q \in Calls : Good(q, call[q], said[q], left, up)

\* The change of one call to c with the records s.
Moves(q, c, s) ==
  /\ call' = [call EXCEPT ![q] = c] /\ said' = [said EXCEPT ![q] = s]
  /\ left \subseteq left' /\ left' \subseteq Calls
  /\ up' \subseteq Calls /\ up' \subseteq up \cup {q}
  /\ Good(q, c, s, left', up')
-----------------------------------------------------------------------------
LEMMA InitInv == ASSUME Places \in Nat, Init PROVE Inv
<1>1. Fresh \in Call
  BY DEF Fresh, Call, Nothing
<1>2. call \in [Calls -> Call] /\ said \in [Calls -> Seq(Ends)] /\ seen \in [Calls -> Seq(Frames)]
  BY <1>1 DEF Init
<1>3. ASSUME NEW q \in Calls PROVE Good(q, call[q], said[q], left, up)
  BY <1>3 DEF Init, Good, Fresh
<1> QED
  BY <1>2, <1>3 DEF Init, Inv, Types

\* A change of one call leaves the others as they fit.
LEMMA OneMoves ==
  ASSUME Inv, NEW q \in Calls, NEW c \in Call, NEW s \in Seq(Ends), Moves(q, c, s),
         sem' \in Nat, seen' \in [Calls -> Seq(Frames)]
  PROVE  Inv'
<1>1. Types /\ \A p \in Calls : Good(p, call[p], said[p], left, up)
  BY DEF Inv
<1>2. call' = [call EXCEPT ![q] = c] /\ said' = [said EXCEPT ![q] = s]
  BY DEF Moves
<1>3. call' \in [Calls -> Call]
  BY <1>1, <1>2 DEF Types
<1>4. said' \in [Calls -> Seq(Ends)]
  BY <1>1, <1>2 DEF Types
<1>5. Types'
  BY <1>3, <1>4 DEF Moves, Types
<1>6. ASSUME NEW p \in Calls, p # q PROVE Good(p, call'[p], said'[p], left', up')
  <2>1. call'[p] = call[p] /\ said'[p] = said[p]
    BY <1>1, <1>2, <1>6 DEF Types
  <2>2. (p \in left => p \in left') /\ (p \in up' => p \in up)
    BY <1>6 DEF Moves
  <2>3. Good(p, call[p], said[p], left, up)
    BY <1>1
  <2> QED
    BY <2>1, <2>2, <2>3 DEF Good
<1>7. Good(q, call'[q], said'[q], left', up')
  BY <1>1, <1>2 DEF Types, Moves
<1> QED
  BY <1>5, <1>6, <1>7 DEF Inv
-----------------------------------------------------------------------------
\* Calls that take no place, or that get one and no stream.
LEMMA WithoutStream ==
  ASSUME Inv, NEW q \in Calls,
         \/ Ask(q) \/ Reject(q) \/ AskUnary(q) \/ UnaryAnswered(q) \/ TakePlace(q)
         \/ NotOpened(q) \/ AnsweredAtOnce(q) \/ AnswerRead(q)
  PROVE  Inv'
<1>1. Types /\ Good(q, call[q], said[q], left, up) /\ call[q] \in Call /\ said[q] \in Seq(Ends)
  BY DEF Inv, Types
<1>2. UNCHANGED <<up, left, seen>> /\ sem' \in Nat
  BY <1>1 DEF Types, Ask, Reject, AskUnary, UnaryAnswered, TakePlace, NotOpened, AnsweredAtOnce,
              AnswerRead
<1>3. said[q] = <<>> /\ call[q].pc # "stream"
  BY <1>1 DEF Good, Ask, Reject, AskUnary, UnaryAnswered, TakePlace, NotOpened, AnsweredAtOnce,
              AnswerRead
<1>4. q \notin up
  BY <1>1, <1>3 DEF Good
<1>5. PICK pc \in {"read", "unary", "open", "body", "out"} :
        /\ call' = [call EXCEPT ![q] = [Fresh EXCEPT !.pc = pc]]
        /\ \/ pc # "out" /\ said' = said
           \/ pc = "out" /\ \E end \in Ends : said' = [said EXCEPT ![q] = Append(said[q], end)]
  BY DEF Set, Record, Ends, Ask, Reject, AskUnary, UnaryAnswered, TakePlace, NotOpened,
         AnsweredAtOnce, AnswerRead
<1> DEFINE c == [Fresh EXCEPT !.pc = pc]
<1>6. /\ c \in Call /\ c.pc = pc /\ c.gen = "new" /\ c.closing = FALSE /\ c.closed = FALSE
      /\ c.closers = {} /\ c.got = {} /\ c.code = FALSE /\ c.ended = FALSE
  BY DEF Fresh, Call, Nothing
<1>7. CASE pc # "out"
  <2>1. said' = [said EXCEPT ![q] = <<>>]
    BY <1>1, <1>3, <1>5, <1>7 DEF Types
  <2>2. Good(q, c, <<>>, left', up')
    BY <1>2, <1>4, <1>6, <1>7 DEF Good
  <2>3. Moves(q, c, <<>>)
    BY <1>1, <1>2, <1>5, <2>1, <2>2 DEF Moves, Types
  <2>4. <<>> \in Seq(Ends)
    BY <1>1, <1>3
  <2> QED
    BY <1>1, <1>2, <1>6, <2>3, <2>4, OneMoves DEF Types
<1>8. CASE pc = "out"
  <2>1. PICK end \in Ends : said' = [said EXCEPT ![q] = Append(said[q], end)]
    BY <1>5, <1>8
  <2>2. Append(said[q], end) = <<end>> /\ <<end>> \in Seq(Ends) /\ Len(<<end>>) = 1
    BY <1>3
  <2>3. Good(q, c, <<end>>, left', up')
    BY <1>2, <1>4, <1>6, <1>8, <2>2 DEF Good
  <2>4. Moves(q, c, <<end>>)
    BY <1>1, <1>2, <1>5, <2>1, <2>2, <2>3 DEF Moves, Types
  <2> QED
    BY <1>1, <1>2, <1>6, <2>2, <2>4, OneMoves DEF Types
<1> QED
  BY <1>7, <1>8

LEMMA StreamOpened == ASSUME Inv, NEW q \in Calls, Opened(q) PROVE Inv'
<1> DEFINE c == [Fresh EXCEPT !.pc = "stream", !.closers = {"response"}]
<1>1. Types /\ Good(q, call[q], said[q], left, up) /\ said[q] \in Seq(Ends)
  BY DEF Inv, Types
<1>2. said[q] = <<>>
  BY <1>1 DEF Good, Opened
<1>3. /\ c \in Call /\ c.pc = "stream" /\ c.gen = "new" /\ c.closing = FALSE /\ c.closed = FALSE
      /\ c.got = {} /\ c.code = FALSE /\ c.ended = FALSE
  BY DEF Fresh, Call, Nothing
<1>4. /\ call' = [call EXCEPT ![q] = c] /\ up' = up \cup {q}
      /\ UNCHANGED <<sem, left, seen, said>>
  BY DEF Opened, Set
<1>5. said' = [said EXCEPT ![q] = <<>>]
  BY <1>1, <1>2, <1>4 DEF Types
<1>6. Good(q, c, <<>>, left', up')
  BY <1>3 DEF Good
<1>7. Moves(q, c, <<>>)
  BY <1>1, <1>4, <1>5, <1>6 DEF Moves, Types
<1> QED
  BY <1>1, <1>2, <1>3, <1>4, <1>7, OneMoves DEF Types

\* What the generator does with a stream, and how the stream ends.  Nothing is closed yet.
LEMMA StreamRead ==
  ASSUME Inv, NEW q \in Calls,
         Begin(q) \/ Chunk(q) \/ Sent(q) \/ UpstreamEnds(q) \/ UpstreamBreaks(q) \/ TailSent(q)
         \/ Leave(q)
  PROVE  Inv'
<1> DEFINE d == call[q]
<1>1. Types /\ Good(q, d, said[q], left, up) /\ said[q] \in Seq(Ends) /\ d \in Call
  BY DEF Inv, Types
<1>2. d.pc = "stream" /\ d.gen # "over"
  BY <1>1 DEF Good, Begin, Chunk, Sent, UpstreamEnds, UpstreamBreaks, TailSent, Leave
<1>3. ~ d.closed /\ ~ d.closing /\ said[q] = <<>>
  BY <1>1, <1>2 DEF Good
<1>4. PICK c \in Call :
        /\ call' = [call EXCEPT ![q] = c]
        /\ c.pc = d.pc /\ c.closing = d.closing /\ c.closed = d.closed
        /\ \/ /\ UNCHANGED left /\ c.code = d.code /\ c.got = d.got
              /\ \/ c.ended = d.ended /\ c.gen \in {"on", "chunk"}
                 \/ c.ended = TRUE /\ c.gen = "over"
                 \/ c.gen = "over" /\ ("done" \in d.got \/ d.code)
           \/ /\ UNCHANGED left /\ c.code = TRUE /\ c.got = d.got /\ c.gen = "tail"
           \/ /\ UNCHANGED left /\ c.gen = "chunk"
              /\ \E f \in Frames : /\ c.got = d.got \cup {f} /\ c.code = (d.code \/ f = "error")
                                   /\ f = "done" => d.got # {}
           \/ /\ left' = left \cup {q} /\ c.code = d.code /\ c.got = d.got /\ c.gen = "over"
  <2>1. CASE Begin(q) \/ Sent(q)
    <3> DEFINE c == [d EXCEPT !.gen = "on"]
               b == [d EXCEPT !.gen = "on", !.closers = {"generator", "response"}]
    <3>1. c \in Call /\ b \in Call
      BY <1>1 DEF Call
    <3>2. /\ c.pc = d.pc /\ c.closing = d.closing /\ c.closed = d.closed /\ c.gen = "on"
          /\ c.got = d.got /\ c.code = d.code /\ c.ended = d.ended
      BY <1>1 DEF Call
    <3>3. /\ b.pc = d.pc /\ b.closing = d.closing /\ b.closed = d.closed /\ b.gen = "on"
          /\ b.got = d.got /\ b.code = d.code /\ b.ended = d.ended
      BY <1>1 DEF Call
    <3>4. (call' = [call EXCEPT ![q] = c] \/ call' = [call EXCEPT ![q] = b]) /\ UNCHANGED left
      BY <2>1 DEF Begin, Sent, Set
    <3> QED
      BY <3>1, <3>2, <3>3, <3>4
  <2>2. CASE Chunk(q)
    <3>1. PICK f \in Frames :
            /\ f = "done" => d.got # {}
            /\ \/ call' = [call EXCEPT ![q] = [d EXCEPT !.gen = "chunk", !.half = Nothing,
                                         !.got = d.got \cup {f}, !.code = d.code \/ f = "error"]]
               \/ call' = [call EXCEPT ![q] = [d EXCEPT !.gen = "chunk", !.half = f]]
            /\ UNCHANGED left
      BY <2>2 DEF Chunk, Set
    <3> DEFINE c == [d EXCEPT !.gen = "chunk", !.half = Nothing, !.got = d.got \cup {f},
                              !.code = d.code \/ f = "error"]
               b == [d EXCEPT !.gen = "chunk", !.half = f]
    <3>2. c \in Call /\ b \in Call
      BY <1>1 DEF Call
    <3>3. /\ c.pc = d.pc /\ c.closing = d.closing /\ c.closed = d.closed /\ c.gen = "chunk"
          /\ c.got = d.got \cup {f} /\ c.code = (d.code \/ f = "error")
      BY <1>1 DEF Call
    <3>4. /\ b.pc = d.pc /\ b.closing = d.closing /\ b.closed = d.closed /\ b.gen = "chunk"
          /\ b.got = d.got /\ b.code = d.code /\ b.ended = d.ended
      BY <1>1 DEF Call
    <3> QED
      BY <3>1, <3>2, <3>3, <3>4
  <2>3. CASE UpstreamEnds(q)
    <3> DEFINE c == [d EXCEPT !.gen = "over", !.ended = TRUE]
    <3>1. c \in Call
      BY <1>1 DEF Call
    <3>2. /\ c.pc = d.pc /\ c.closing = d.closing /\ c.closed = d.closed /\ c.gen = "over"
          /\ c.got = d.got /\ c.code = d.code /\ c.ended = TRUE
      BY <1>1 DEF Call
    <3>3. call' = [call EXCEPT ![q] = c] /\ UNCHANGED left
      BY <2>3 DEF UpstreamEnds, Set
    <3> QED
      BY <3>1, <3>2, <3>3
  <2>4. CASE UpstreamBreaks(q)
    <3> DEFINE c == [d EXCEPT !.gen = "over"]
               b == [d EXCEPT !.gen = "tail", !.code = TRUE]
    <3>1. c \in Call /\ b \in Call
      BY <1>1 DEF Call
    <3>2. /\ UNCHANGED left
          /\ \/ "done" \in d.got /\ call' = [call EXCEPT ![q] = c]
             \/ call' = [call EXCEPT ![q] = b]
      BY <2>4 DEF UpstreamBreaks, Cut, Set
    <3>3. /\ c.pc = d.pc /\ c.closing = d.closing /\ c.closed = d.closed /\ c.gen = "over"
          /\ c.got = d.got /\ c.code = d.code /\ c.ended = d.ended
      BY <1>1 DEF Call
    <3>4. /\ b.pc = d.pc /\ b.closing = d.closing /\ b.closed = d.closed /\ b.gen = "tail"
          /\ b.got = d.got /\ b.code = TRUE /\ b.ended = d.ended
      BY <1>1 DEF Call
    <3> QED
      BY <3>1, <3>2, <3>3, <3>4
  <2>5. CASE TailSent(q) \/ Leave(q)
    <3> DEFINE c == [d EXCEPT !.gen = "over"]
    <3>1. c \in Call
      BY <1>1 DEF Call
    <3>2. TailSent(q) => d.code
      BY <1>1 DEF Good, TailSent
    <3>3. /\ c.pc = d.pc /\ c.closing = d.closing /\ c.closed = d.closed /\ c.gen = "over"
          /\ c.got = d.got /\ c.code = d.code /\ c.ended = d.ended
      BY <1>1 DEF Call
    <3>4. /\ call' = [call EXCEPT ![q] = c]
          /\ (TailSent(q) /\ UNCHANGED left) \/ left' = left \cup {q}
      BY <2>5 DEF TailSent, Leave, Set
    <3> QED
      BY <3>1, <3>2, <3>3, <3>4
  <2> QED
    BY <2>1, <2>2, <2>3, <2>4, <2>5
<1>5. UNCHANGED <<sem, up, said>> /\ left \subseteq left' /\ left' \subseteq Calls
  BY <1>1 DEF Begin, Chunk, Sent, UpstreamEnds, UpstreamBreaks, TailSent, Leave, Types
<1>6. seen' \in [Calls -> Seq(Frames)]
  <2>1. <<"error", "done">> \in Seq(Frames)
    BY DEF Frames
  <2>2. CASE seen' = seen
    BY <1>1, <2>2 DEF Types
  <2>3. CASE \E f \in Frames : seen' = [seen EXCEPT ![q] = Append(seen[q], f)]
    BY <1>1, <2>3 DEF Types
  <2>4. CASE seen' = [seen EXCEPT ![q] = seen[q] \o <<"error", "done">>]
    <3>1. seen[q] \o <<"error", "done">> \in Seq(Frames)
      BY <1>1, <2>1 DEF Types
    <3> QED
      BY <1>1, <2>4, <3>1 DEF Types
  <2> QED
    BY <2>2, <2>3, <2>4 DEF Begin, Chunk, Sent, UpstreamEnds, UpstreamBreaks, Cut, TailSent, Leave
<1>7. said' = [said EXCEPT ![q] = <<>>]
  BY <1>1, <1>3, <1>5 DEF Types
<1>8. Good(q, c, <<>>, left', up')
  <2>1. q \in up' => q \in up
    BY <1>5
  <2>2. "done" \in d.got => "error" \in d.got \/ "result" \in d.got
    BY <1>1 DEF Good
  <2>3. "error" \in d.got => d.code
    BY <1>1 DEF Good
  <2>4. d.got # {} => "error" \in d.got \/ "result" \in d.got
    BY <1>1, <2>2 DEF Call, Frames
  <2>5. c.pc = "stream" /\ ~ c.closing /\ ~ c.closed /\ c.gen \in {"on", "chunk", "tail", "over"}
    BY <1>2, <1>3, <1>4
  <2>6. /\ "done" \in c.got => "result" \in c.got \/ "error" \in c.got
        /\ "error" \in c.got => c.code
        /\ c.gen = "tail" => c.code
        /\ c.gen = "over" /\ ~ c.code /\ "result" \notin c.got /\ ~ c.ended => q \in left'
    BY <1>4, <2>2, <2>3, <2>4 DEF Frames
  <2> QED
    BY <2>5, <2>6 DEF Good
<1>9. Moves(q, c, <<>>)
  BY <1>1, <1>4, <1>5, <1>7, <1>8 DEF Moves, Types
<1>10. <<>> \in Seq(Ends)
  BY <1>1, <1>3
<1> QED
  BY <1>1, <1>5, <1>6, <1>9, <1>10, OneMoves DEF Types

\* A stream that is over is closed by the first who comes, and by nobody else.
LEMMA StreamClosing ==
  ASSUME Inv, NEW q \in Calls, NEW who \in {"generator", "response"}, Close(q, who)
  PROVE  Inv'
<1> DEFINE d == call[q]
           c == [d EXCEPT !.closers = d.closers \ {who}, !.closed = TRUE,
                          !.closing = d.closing \/ ~ d.closed]
<1>1. Types /\ Good(q, d, said[q], left, up) /\ said[q] \in Seq(Ends) /\ d \in Call
  BY DEF Inv, Types
<1>2. d.gen = "over" /\ d.closers # {}
  BY DEF Close
<1>3. d.pc = "stream"
  BY <1>1, <1>2 DEF Good
<1>4. call' = [call EXCEPT ![q] = c] /\ UNCHANGED <<sem, up, left, seen, said>>
  BY DEF Close, Set
<1>5. c \in Call
  BY <1>1 DEF Call
<1>6. /\ c.pc = d.pc /\ c.gen = d.gen /\ c.got = d.got /\ c.code = d.code
      /\ c.ended = d.ended /\ c.closed = TRUE /\ c.closing = (d.closing \/ ~ d.closed)
  BY <1>1 DEF Call
<1>7. Good(q, c, said[q], left', up')
  BY <1>1, <1>2, <1>3, <1>4, <1>6 DEF Good
<1>8. said' = [said EXCEPT ![q] = said[q]]
  BY <1>1, <1>4 DEF Types
<1>9. Moves(q, c, said[q])
  BY <1>1, <1>4, <1>7, <1>8 DEF Moves, Types
<1> QED
  BY <1>1, <1>4, <1>5, <1>9, OneMoves DEF Types

\* The record is written when the stream is closed, and there was none.
LEMMA StreamClosed == ASSUME Inv, NEW q \in Calls, Closed(q) PROVE Inv'
<1> DEFINE d == call[q]
           c == [d EXCEPT !.closing = FALSE]
           end == IF d.code THEN "error" ELSE IF "result" \in d.got THEN "ok"
                  ELSE IF d.ended THEN "error" ELSE "cancelled"
<1>1. Types /\ Good(q, d, said[q], left, up) /\ said[q] \in Seq(Ends) /\ d \in Call
  BY DEF Inv, Types
<1>2. d.closing /\ d.closed /\ d.gen = "over" /\ d.pc = "stream" /\ said[q] = <<>>
  BY <1>1 DEF Closed, Good
<1>3. /\ call' = [call EXCEPT ![q] = c] /\ up' = up \ {q} /\ sem' = sem + 1
      /\ said' = [said EXCEPT ![q] = Append(said[q], end)] /\ UNCHANGED <<left, seen>>
  BY DEF Closed, Set, Record
<1>4. c \in Call
  BY <1>1 DEF Call
<1>5. /\ c.pc = "stream" /\ c.gen = "over" /\ c.got = d.got /\ c.code = d.code
      /\ c.ended = d.ended /\ c.closed = TRUE /\ c.closing = FALSE
  BY <1>1, <1>2 DEF Call
<1>6. end \in Ends
  BY DEF Ends
<1>7. Append(said[q], end) = <<end>> /\ <<end>> \in Seq(Ends) /\ Len(<<end>>) = 1 /\ <<end>>[1] = end
  BY <1>2, <1>6
<1>8. /\ end = "cancelled" => q \in left
      /\ end = "ok" => "result" \in d.got
  BY <1>1, <1>2 DEF Good
<1>9. Good(q, c, <<end>>, left', up')
  <2>1. q \notin up' /\ left' = left
    BY <1>3
  <2> QED
    BY <1>1, <1>2, <1>5, <1>7, <1>8, <2>1 DEF Good
<1>10. Moves(q, c, <<end>>)
  BY <1>1, <1>3, <1>7, <1>9 DEF Moves, Types
<1>11. sem' \in Nat /\ seen' \in [Calls -> Seq(Frames)]
  BY <1>1, <1>3 DEF Types
<1> QED
  BY <1>4, <1>7, <1>10, <1>11, OneMoves

LEMMA NextInv == Inv /\ [Next]_vars => Inv'
<1> SUFFICES ASSUME Inv, [Next]_vars PROVE Inv'
  OBVIOUS
<1>1. CASE Next
  BY <1>1, WithoutStream, StreamOpened, StreamRead, StreamClosing, StreamClosed DEF Next
<1>2. CASE UNCHANGED vars
  BY <1>2 DEF vars, Inv, Types
<1> QED
  BY <1>1, <1>2

LEMMA AlwaysInv == ASSUME Places \in Nat PROVE Spec => []Inv
<1>1. Init => Inv
  BY InitInv
<1> QED
  BY <1>1, NextInv, PTL DEF Spec

\* However the client leaves, the engine breaks off and the two closers meet, the end of
\* a call is written down once and says how it was (_CrRun.close, card_review_run).
THEOREM EndsRecordedOnce == ASSUME Places \in Nat PROVE Spec => []EndsAreRecordedOnce
<1>1. Inv => EndsAreRecordedOnce
  BY DEF Inv, Good, EndsAreRecordedOnce
<1> QED
  BY <1>1, AlwaysInv, PTL
-----------------------------------------------------------------------------
(* Places                                                                  *)

Holders == {q \in Calls : Holding(q)}

\* A step changes one call: it takes a place, or gives one back, or neither.
Takes(q) == ~ Holding(q) /\ Holding(q)' /\ sem' = sem - 1 /\ sem > 0
GivesBack(q) == Holding(q) /\ ~ Holding(q)' /\ sem' = sem + 1
Keeps(q) == (Holding(q)' <=> Holding(q)) /\ sem' = sem
Counted == sem + Cardinality(Holders) = Places

\* A call's relay without a stream: only `pc` matters.
LEMMA PlainStep ==
  ASSUME Inv, NEW q \in Calls,
         \/ Ask(q) \/ Reject(q) \/ AskUnary(q) \/ UnaryAnswered(q) \/ TakePlace(q)
         \/ NotOpened(q) \/ AnsweredAtOnce(q) \/ AnswerRead(q) \/ Opened(q)
  PROVE  /\ Takes(q) \/ GivesBack(q) \/ Keeps(q)
         /\ \A p \in Calls \ {q} : Holding(p)' <=> Holding(p)
<1>1. call \in [Calls -> Call] /\ said \in [Calls -> Seq(Ends)] /\ Good(q, call[q], said[q], left, up)
  BY DEF Inv, Types
<1>2. said[q] = <<>>
  BY <1>1 DEF Good, Ask, Reject, AskUnary, UnaryAnswered, TakePlace, NotOpened, AnsweredAtOnce,
              AnswerRead, Opened
<1>3. \A p \in Calls \ {q} : call'[p] = call[p] /\ said'[p] = said[p]
  BY <1>1 DEF Ask, Reject, AskUnary, UnaryAnswered, TakePlace, NotOpened, AnsweredAtOnce,
              AnswerRead, Opened, Set, Record
<1>4. \A p \in Calls \ {q} : Holding(p)' <=> Holding(p)
  BY <1>3 DEF Holding
<1> DEFINE At(pc) == [Fresh EXCEPT !.pc = pc]
<1>5. \A pc \in {"read", "unary", "open", "body", "out"} : At(pc).pc = pc
  BY DEF Fresh
<1>6. CASE Ask(q) \/ AskUnary(q) \/ Reject(q) \/ UnaryAnswered(q)
  <2>1. sem' = sem /\ call[q].pc \in {"idle", "read", "unary"}
    BY <1>6 DEF Ask, AskUnary, Reject, UnaryAnswered
  <2>2. \E pc \in {"read", "unary", "out"} : call'[q] = At(pc)
    BY <1>1, <1>6 DEF Ask, AskUnary, Reject, UnaryAnswered, Set
  <2>3. call'[q].pc \in {"read", "unary", "out"}
    BY <1>5, <2>2
  <2> QED
    BY <1>4, <2>1, <2>3 DEF Keeps, Holding
<1>7. CASE TakePlace(q)
  <2>1. sem > 0 /\ sem' = sem - 1 /\ call[q].pc = "read" /\ call'[q] = At("open")
    BY <1>1, <1>7 DEF TakePlace, Set
  <2> QED
    BY <1>4, <1>5, <2>1 DEF Takes, Holding
<1>8. CASE NotOpened(q) \/ AnswerRead(q)
  <2>1. sem' = sem + 1 /\ call[q].pc \in {"open", "body"} /\ call'[q] = At("out")
    BY <1>1, <1>8 DEF NotOpened, AnswerRead, Set
  <2> QED
    BY <1>4, <1>5, <2>1 DEF GivesBack, Holding
<1>9. CASE AnsweredAtOnce(q)
  <2>1. sem' = sem /\ call[q].pc = "open" /\ call'[q] = At("body")
    BY <1>1, <1>9 DEF AnsweredAtOnce, Set
  <2> QED
    BY <1>4, <1>5, <2>1 DEF Keeps, Holding
<1>10. CASE Opened(q)
  <2>1. sem' = sem /\ said' = said /\ call[q].pc = "open"
    BY <1>10 DEF Opened
  <2>2. call'[q] = [Fresh EXCEPT !.pc = "stream", !.closers = {"response"}]
    BY <1>1, <1>10 DEF Opened, Set
  <2>3. call'[q].pc = "stream"
    BY <2>2 DEF Fresh
  <2> QED
    BY <1>2, <1>4, <2>1, <2>3 DEF Keeps, Holding
<1> QED
  BY <1>6, <1>7, <1>8, <1>9, <1>10

\* A stream that is read or about to be closed keeps its place; closing gives it back.
LEMMA StreamStep ==
  ASSUME Inv, NEW q \in Calls,
         \/ Begin(q) \/ Chunk(q) \/ Sent(q) \/ UpstreamEnds(q) \/ UpstreamBreaks(q)
         \/ TailSent(q) \/ Leave(q) \/ \E who \in {"generator", "response"} : Close(q, who)
         \/ Closed(q)
  PROVE  /\ GivesBack(q) \/ Keeps(q)
         /\ \A p \in Calls \ {q} : Holding(p)' <=> Holding(p)
<1>1. /\ call \in [Calls -> Call] /\ said \in [Calls -> Seq(Ends)] /\ call[q] \in Call
      /\ Good(q, call[q], said[q], left, up)
  BY DEF Inv, Types
<1>2. \A p \in Calls \ {q} : call'[p] = call[p] /\ said'[p] = said[p]
  BY <1>1 DEF Begin, Chunk, Sent, UpstreamEnds, UpstreamBreaks, Cut, TailSent, Leave, Close, Closed,
              Set, Record
<1>3. \A p \in Calls \ {q} : Holding(p)' <=> Holding(p)
  BY <1>2 DEF Holding
<1>4. CASE ~ Closed(q)
  <2>1. sem' = sem /\ said' = said
    BY <1>4 DEF Begin, Chunk, Sent, UpstreamEnds, UpstreamBreaks, Cut, TailSent, Leave, Close
  <2>2. call'[q].pc = call[q].pc
    <3> DEFINE d == call[q]
               Read(f) == [d EXCEPT !.gen = "chunk", !.half = Nothing, !.got = d.got \cup {f},
                                    !.code = d.code \/ f = "error"]
    <3>1. CASE Begin(q) \/ Sent(q)
      <4>1. /\ [d EXCEPT !.gen = "on"].pc = d.pc
            /\ [d EXCEPT !.gen = "on", !.closers = {"generator", "response"}].pc = d.pc
        BY <1>1 DEF Call
      <4>2. \/ call'[q] = [d EXCEPT !.gen = "on"]
            \/ call'[q] = [d EXCEPT !.gen = "on", !.closers = {"generator", "response"}]
        BY <1>1, <3>1 DEF Begin, Sent, Set
      <4> QED
        BY <4>1, <4>2
    <3>2. CASE Chunk(q)
      <4>1. \A f \in Frames : Read(f).pc = d.pc /\ [d EXCEPT !.gen = "chunk", !.half = f].pc = d.pc
        BY <1>1 DEF Call
      <4>2. \E f \in Frames : call'[q] = Read(f) \/ call'[q] = [d EXCEPT !.gen = "chunk", !.half = f]
        BY <1>1, <3>2 DEF Chunk, Set
      <4> QED
        BY <4>1, <4>2
    <3>3. CASE UpstreamEnds(q) \/ UpstreamBreaks(q)
      <4>1. /\ [d EXCEPT !.gen = "over", !.ended = TRUE].pc = d.pc
            /\ [d EXCEPT !.gen = "over"].pc = d.pc
            /\ [d EXCEPT !.gen = "tail", !.code = TRUE].pc = d.pc
        BY <1>1 DEF Call
      <4>2. \/ call'[q] = [d EXCEPT !.gen = "over", !.ended = TRUE]
            \/ call'[q] = [d EXCEPT !.gen = "over"]
            \/ call'[q] = [d EXCEPT !.gen = "tail", !.code = TRUE]
        BY <1>1, <3>3 DEF UpstreamEnds, UpstreamBreaks, Cut, Set
      <4> QED
        BY <4>1, <4>2
    <3>4. CASE TailSent(q) \/ Leave(q)
      BY <1>1, <3>4 DEF TailSent, Leave, Set, Call
    <3>5. CASE \E who \in {"generator", "response"} : Close(q, who)
      BY <1>1, <3>5 DEF Close, Set, Call
    <3> QED
      BY <1>4, <3>1, <3>2, <3>3, <3>4, <3>5
  <2> QED
    BY <1>3, <2>1, <2>2 DEF Keeps, Holding
<1>5. CASE Closed(q)
  <2> DEFINE end == IF call[q].code THEN "error" ELSE IF "result" \in call[q].got THEN "ok"
                    ELSE IF call[q].ended THEN "error" ELSE "cancelled"
  <2>1. call[q].pc = "stream" /\ said[q] = <<>> /\ sem' = sem + 1
    BY <1>1, <1>5 DEF Closed, Good
  <2>2. call'[q] = [call[q] EXCEPT !.closing = FALSE] /\ said'[q] = Append(said[q], end)
    BY <1>1, <1>5 DEF Closed, Set, Record
  <2>3. call'[q].pc = "stream" /\ said'[q] = <<end>>
    BY <1>1, <2>1, <2>2 DEF Call
  <2>4. said'[q] # <<>>
    BY <2>3
  <2> QED
    BY <1>3, <2>1, <2>3, <2>4 DEF GivesBack, Holding
<1> QED
  BY <1>4, <1>5

LEMMA StepCounts ==
  ASSUME IsFiniteSet(Calls), Places \in Nat, Inv, Counted, [Next]_vars
  PROVE  Counted'
<1>1. Holders \subseteq Calls /\ IsFiniteSet(Holders) /\ Cardinality(Holders) \in Nat
  BY FS_Subset, FS_CardinalityType DEF Holders
<1>2. sem \in Nat
  BY DEF Inv, Types
<1>3. CASE Next
  <2>1. PICK q \in Calls : /\ Takes(q) \/ GivesBack(q) \/ Keeps(q)
                           /\ \A p \in Calls \ {q} : Holding(p)' <=> Holding(p)
    BY <1>3, PlainStep, StreamStep DEF Next
  <2>2. q \in Holders <=> Holding(q)
    BY DEF Holders
  <2>3. CASE Takes(q)
    <3>1. Holders' = Holders \cup {q} /\ q \notin Holders
      BY <2>1, <2>2, <2>3 DEF Takes, Holders
    <3>2. Cardinality(Holders') = Cardinality(Holders) + 1
      BY <1>1, <3>1, FS_AddElement
    <3> QED
      BY <1>1, <1>2, <2>3, <3>2 DEF Takes, Counted
  <2>4. CASE GivesBack(q)
    <3>1. Holders' = Holders \ {q} /\ q \in Holders
      BY <2>1, <2>2, <2>4 DEF GivesBack, Holders
    <3>2. Cardinality(Holders') = Cardinality(Holders) - 1
      BY <1>1, <3>1, FS_RemoveElement
    <3> QED
      BY <1>1, <1>2, <2>4, <3>2 DEF GivesBack, Counted
  <2>5. CASE Keeps(q)
    <3>1. Holders' = Holders
      BY <2>1, <2>5 DEF Keeps, Holders
    <3> QED
      BY <2>5, <3>1 DEF Keeps, Counted
  <2> QED
    BY <2>1, <2>3, <2>4, <2>5
<1>4. CASE UNCHANGED vars
  BY <1>4 DEF vars, Counted, Holders, Holding
<1> QED
  BY <1>3, <1>4

\* Nobody waits for a place that nobody has, and the engine works for no more runs than
\* there are places (card_review_run, _CrRun.close).
THEOREM PlacesAreCounted ==
  ASSUME IsFiniteSet(Calls), Places \in Nat PROVE Spec => []PlacesMatchRuns
<1>1. Init => Counted
  <2> SUFFICES ASSUME Init PROVE Counted
    OBVIOUS
  <2>1. Holders = {}
    BY DEF Init, Fresh, Holding, Holders
  <2> QED
    BY <2>1, FS_EmptySet DEF Init, Counted
<1>2. Inv /\ Counted /\ [Next]_vars => Counted'
  BY StepCounts
<1>3. Inv /\ Counted => PlacesMatchRuns
  BY DEF Inv, Types, Good, Counted, Holders, Holding, PlacesMatchRuns
<1> QED
  BY <1>1, <1>2, <1>3, AlwaysInv, PTL DEF Spec

\* What the relay keeps is of its shape, and no more places are free than there are.
THEOREM TypeCorrect ==
  ASSUME IsFiniteSet(Calls), Places \in Nat PROVE Spec => []TypeOK
<1>1. Inv /\ PlacesMatchRuns => TypeOK
  <2> SUFFICES ASSUME Inv, PlacesMatchRuns PROVE TypeOK
    OBVIOUS
  <2>1. Cardinality({q \in Calls : Holding(q)}) \in Nat
    BY FS_Subset, FS_CardinalityType
  <2> QED
    BY <2>1 DEF Inv, Types, PlacesMatchRuns, TypeOK
<1> QED
  BY <1>1, AlwaysInv, PlacesAreCounted, PTL
-----------------------------------------------------------------------------
(* What the app is told                                                    *)

\* Nothing was said yet of the run's being over, or it is the last thing that was said.
Silent(s) == \A i \in 1 .. Len(s) : s[i] # "done"
Over(s) == Len(s) > 1 /\ s[Len(s)] = "done" /\ \A i \in 1 .. Len(s) - 1 : s[i] # "done"

\* The app was told (s) what the engine said (g), which ends with `done`.
Whole(g, s) ==
  /\ IF "done" \in g THEN Over(s) ELSE Silent(s)
  /\ g # {} => Len(s) > 0

\* A call c and what its app was told (s), by where its stream is: the relay has said that it
\* is over, or the engine has, or ended in silence, or the client left.
Told(q, c, s, L) ==
  /\ c.gen = "new" => c.got = {} /\ s = <<>>
  /\ c.gen \in {"on", "chunk"} => Whole(c.got, s)
  /\ c.gen = "tail" => Over(s)
  /\ c.gen = "over" =>
       Over(s) \/ (Whole(c.got, s) /\ (c.ended \/ q \in L \/ "done" \in c.got))

AppsAreTold == \A q \in Calls : Told(q, call[q], seen[q], left)

\* What one more frame makes of what was said, and the end of the relay's own.
LEMMA OneMoreFrame ==
  ASSUME NEW s \in Seq(Frames), Silent(s), NEW f \in Frames
  PROVE  /\ Len(Append(s, f)) > 0
         /\ f # "done" => Silent(Append(s, f))
         /\ f = "done" /\ Len(s) > 0 => Over(Append(s, f))
<1>1. /\ Len(s) \in Nat /\ Len(Append(s, f)) = Len(s) + 1
      /\ Append(s, f)[Len(s) + 1] = f
      /\ \A i \in 1 .. Len(s) : Append(s, f)[i] = s[i]
  BY AppendProperties, LenProperties
<1> QED
  BY <1>1 DEF Silent, Over

LEMMA RelayEnds ==
  ASSUME NEW s \in Seq(Frames), Silent(s)
  PROVE  Over(s \o <<"error", "done">>) /\ s \o <<"error", "done">> \in Seq(Frames)
<1> DEFINE tail == <<"error", "done">>
<1>1. tail \in Seq(Frames) /\ Len(tail) = 2 /\ tail[1] = "error" /\ tail[2] = "done"
  BY DEF Frames
<1>2. Len(s) \in Nat
  BY LenProperties
<1> HIDE DEF tail
<1>3. /\ s \o tail \in Seq(Frames) /\ Len(s \o tail) = Len(s) + 2
      /\ \A i \in 1 .. Len(s) + 2 :
           (s \o tail)[i] = IF i <= Len(s) THEN s[i] ELSE tail[i - Len(s)]
  <2>1. /\ s \o tail \in Seq(Frames) /\ Len(s \o tail) = Len(s) + Len(tail)
        /\ \A i \in 1 .. Len(s) + Len(tail) :
             (s \o tail)[i] = IF i <= Len(s) THEN s[i] ELSE tail[i - Len(s)]
    BY <1>1, ConcatProperties, Zenon
  <2> QED
    BY <1>1, <2>1
<1>4. (s \o tail)[Len(s) + 1] = "error" /\ (s \o tail)[Len(s) + 2] = "done"
  BY <1>1, <1>2, <1>3
<1>5. Over(s \o tail)
  BY <1>2, <1>3, <1>4 DEF Over, Silent
<1> QED
  BY <1>3, <1>5 DEF tail

\* A step of one call leaves what the others were told.
LEMMA OneIsTold ==
  ASSUME Inv, AppsAreTold, NEW q \in Calls, NEW c \in Call, NEW s \in Seq(Frames),
         call' = [call EXCEPT ![q] = c], seen' = [seen EXCEPT ![q] = s], left \subseteq left',
         Told(q, c, s, left')
  PROVE  AppsAreTold'
<1>1. call'[q] = c /\ seen'[q] = s
  BY DEF Inv, Types
<1>2. ASSUME NEW p \in Calls, p # q PROVE Told(p, call'[p], seen'[p], left')
  <2>1. call'[p] = call[p] /\ seen'[p] = seen[p]
    BY <1>2 DEF Inv, Types
  <2>2. Told(p, call[p], seen[p], left)
    BY DEF AppsAreTold
  <2> QED
    BY <2>1, <2>2 DEF Told
<1> QED
  BY <1>1, <1>2 DEF AppsAreTold

\* Nothing is said before the generator runs.
LEMMA NothingTold ==
  ASSUME Inv, AppsAreTold, NEW q \in Calls,
         \/ Ask(q) \/ Reject(q) \/ AskUnary(q) \/ UnaryAnswered(q) \/ TakePlace(q)
         \/ NotOpened(q) \/ AnsweredAtOnce(q) \/ AnswerRead(q) \/ Opened(q)
  PROVE  AppsAreTold'
<1>1. Types /\ Good(q, call[q], said[q], left, up) /\ Told(q, call[q], seen[q], left)
  BY DEF Inv, AppsAreTold
<1>2. call[q].gen = "new"
  BY <1>1 DEF Good, Ask, Reject, AskUnary, UnaryAnswered, TakePlace, NotOpened, AnsweredAtOnce,
              AnswerRead, Opened
<1>3. seen[q] = <<>> /\ seen' = seen /\ left' = left
  BY <1>1, <1>2 DEF Told, Ask, Reject, AskUnary, UnaryAnswered, TakePlace, NotOpened,
                    AnsweredAtOnce, AnswerRead, Opened
<1>4. \A pc \in {"read", "unary", "open", "body", "out"} :
        LET c == [Fresh EXCEPT !.pc = pc] IN c \in Call /\ c.gen = "new" /\ c.got = {}
  BY DEF Fresh, Call, Nothing
<1>5. PICK c \in Call : call' = [call EXCEPT ![q] = c] /\ c.gen = "new" /\ c.got = {}
  <2>1. CASE Opened(q)
    <3> DEFINE c == [Fresh EXCEPT !.pc = "stream", !.closers = {"response"}]
    <3>1. c \in Call /\ c.gen = "new" /\ c.got = {}
      BY DEF Fresh, Call, Nothing
    <3> QED
      BY <2>1, <3>1 DEF Opened, Set
  <2>2. CASE ~ Opened(q)
    <3>1. \E pc \in {"read", "unary", "open", "body", "out"} :
            call' = [call EXCEPT ![q] = [Fresh EXCEPT !.pc = pc]]
      BY <2>2 DEF Set, Ask, Reject, AskUnary, UnaryAnswered, TakePlace, NotOpened,
                  AnsweredAtOnce, AnswerRead
    <3> QED
      BY <1>4, <3>1
  <2> QED
    BY <2>1, <2>2
<1>6. <<>> \in Seq(Frames) /\ seen' = [seen EXCEPT ![q] = <<>>]
  BY <1>1, <1>3 DEF Types
<1>7. Told(q, c, <<>>, left')
  BY <1>5 DEF Told
<1> QED
  BY <1>3, <1>5, <1>6, <1>7, OneIsTold

\* The engine says how the run ended, and then that it is over.
LEMMA ChunkTold ==
  ASSUME Inv, AppsAreTold, NEW q \in Calls, Chunk(q) PROVE AppsAreTold'
<1> DEFINE d == call[q]
           r == seen[q]
<1>1. Types /\ d \in Call /\ r \in Seq(Frames) /\ Told(q, d, r, left)
  BY DEF Inv, Types, AppsAreTold
<1>2. d.gen = "on" /\ Whole(d.got, r) /\ left' = left
  BY <1>1 DEF Chunk, Told
<1>3. PICK f \in Frames :
        /\ f \notin d.got /\ (IF f = "done" THEN d.got # {} ELSE d.got = {})
        /\ \/ /\ call' = [call EXCEPT ![q] = [d EXCEPT !.gen = "chunk", !.half = Nothing,
                                     !.got = d.got \cup {f}, !.code = d.code \/ f = "error"]]
              /\ seen' = [seen EXCEPT ![q] = Append(r, f)]
           \/ call' = [call EXCEPT ![q] = [d EXCEPT !.gen = "chunk", !.half = f]] /\ seen' = seen
  BY DEF Chunk, Set
<1> DEFINE c == [d EXCEPT !.gen = "chunk", !.half = Nothing, !.got = d.got \cup {f},
                          !.code = d.code \/ f = "error"]
           b == [d EXCEPT !.gen = "chunk", !.half = f]
<1>4. /\ c \in Call /\ c.gen = "chunk" /\ c.got = d.got \cup {f}
      /\ b \in Call /\ b.gen = "chunk" /\ b.got = d.got
  BY <1>1 DEF Call
<1>5. CASE call' = [call EXCEPT ![q] = c] /\ seen' = [seen EXCEPT ![q] = Append(r, f)]
  <2>1. Whole(c.got, Append(r, f))
    <3>1. Silent(r) /\ (d.got # {} => Len(r) > 0)
      BY <1>2, <1>3 DEF Whole
    <3>2. c.got # {} /\ ("done" \in c.got <=> f = "done")
      BY <1>3, <1>4
    <3> QED
      BY <1>1, <1>3, <3>1, <3>2, OneMoreFrame DEF Whole
  <2>2. Append(r, f) \in Seq(Frames)
    BY <1>1
  <2> QED
    BY <1>2, <1>4, <1>5, <2>1, <2>2, OneIsTold DEF Told
<1>6. CASE call' = [call EXCEPT ![q] = b] /\ seen' = seen
  <2>1. seen' = [seen EXCEPT ![q] = r]
    BY <1>1, <1>6 DEF Types
  <2> QED
    BY <1>1, <1>2, <1>4, <1>6, <2>1, OneIsTold DEF Told
<1> QED
  BY <1>3, <1>5, <1>6

\* How a stream begins, goes on and ends.
LEMMA StreamTold ==
  ASSUME Inv, AppsAreTold, NEW q \in Calls,
         Begin(q) \/ Sent(q) \/ UpstreamEnds(q) \/ TailSent(q) \/ Leave(q)
  PROVE  AppsAreTold'
<1> DEFINE d == call[q]
           r == seen[q]
<1>1. Types /\ d \in Call /\ r \in Seq(Frames) /\ Told(q, d, r, left)
  BY DEF Inv, Types, AppsAreTold
<1>2. seen' = [seen EXCEPT ![q] = r] /\ left \subseteq left'
  BY <1>1 DEF Types, Begin, Sent, UpstreamEnds, TailSent, Leave
<1>3. CASE Begin(q)
  <2> DEFINE c == [d EXCEPT !.gen = "on", !.closers = {"generator", "response"}]
  <2>1. c \in Call /\ c.gen = "on" /\ c.got = d.got /\ call' = [call EXCEPT ![q] = c]
    BY <1>1, <1>3 DEF Call, Begin, Set
  <2>2. Whole(c.got, r)
    BY <1>1, <1>3, <2>1 DEF Begin, Told, Whole, Silent
  <2> QED
    BY <1>1, <1>2, <2>1, <2>2, OneIsTold DEF Told
<1>4. CASE Sent(q)
  <2> DEFINE c == [d EXCEPT !.gen = "on"]
  <2>1. c \in Call /\ c.gen = "on" /\ c.got = d.got /\ call' = [call EXCEPT ![q] = c]
    BY <1>1, <1>4 DEF Call, Sent, Set
  <2>2. Whole(c.got, r)
    BY <1>1, <1>4, <2>1 DEF Sent, Told
  <2> QED
    BY <1>1, <1>2, <2>1, <2>2, OneIsTold DEF Told
<1>5. CASE UpstreamEnds(q)
  <2> DEFINE c == [d EXCEPT !.gen = "over", !.ended = TRUE]
  <2>1. /\ c \in Call /\ c.gen = "over" /\ c.got = d.got /\ c.ended = TRUE
        /\ call' = [call EXCEPT ![q] = c]
    BY <1>1, <1>5 DEF Call, UpstreamEnds, Set
  <2>2. Whole(c.got, r)
    BY <1>1, <1>5, <2>1 DEF UpstreamEnds, Told
  <2> QED
    BY <1>1, <1>2, <2>1, <2>2, OneIsTold DEF Told
<1>6. CASE TailSent(q) \/ Leave(q)
  <2> DEFINE c == [d EXCEPT !.gen = "over"]
  <2>1. c \in Call /\ c.gen = "over" /\ c.got = d.got /\ call' = [call EXCEPT ![q] = c]
    BY <1>1, <1>6 DEF Call, TailSent, Leave, Set
  <2>2. Over(r) \/ (Whole(c.got, r) /\ q \in left')
    <3>1. CASE d.gen = "tail"
      BY <1>1, <3>1 DEF Told
    <3>2. CASE d.gen # "tail"
      <4>1. Leave(q) /\ q \in left' /\ d.gen \in {"new", "on", "chunk"}
        BY <1>1, <1>6, <3>2 DEF TailSent, Leave, Call
      <4> QED
        BY <1>1, <2>1, <4>1 DEF Told, Whole, Silent
    <3> QED
      BY <3>1, <3>2
  <2> QED
    BY <1>1, <1>2, <2>1, <2>2, OneIsTold DEF Told
<1> QED
  BY <1>3, <1>4, <1>5, <1>6

\* A stream that is cut ends with an error and `done`, once.
LEMMA CutTold ==
  ASSUME Inv, AppsAreTold, NEW q \in Calls, UpstreamBreaks(q) PROVE AppsAreTold'
<1> DEFINE d == call[q]
           r == seen[q]
<1>1. Types /\ d \in Call /\ r \in Seq(Frames) /\ Told(q, d, r, left)
  BY DEF Inv, Types, AppsAreTold
<1>2. Whole(d.got, r) /\ left' = left
  BY <1>1 DEF UpstreamBreaks, Told
<1>3. CASE "done" \in d.got
  <2> DEFINE c == [d EXCEPT !.gen = "over"]
  <2>1. c \in Call /\ c.gen = "over" /\ c.got = d.got /\ call' = [call EXCEPT ![q] = c]
    BY <1>1, <1>3 DEF Call, UpstreamBreaks, Cut, Set
  <2>2. seen' = [seen EXCEPT ![q] = r]
    BY <1>1, <1>3 DEF Types, UpstreamBreaks, Cut
  <2> QED
    BY <1>1, <1>2, <1>3, <2>1, <2>2, OneIsTold DEF Told
<1>4. CASE "done" \notin d.got
  <2> DEFINE c == [d EXCEPT !.gen = "tail", !.code = TRUE]
             s == r \o <<"error", "done">>
  <2>1. c \in Call /\ c.gen = "tail" /\ call' = [call EXCEPT ![q] = c]
    BY <1>1, <1>4 DEF Call, UpstreamBreaks, Cut, Set
  <2>2. seen' = [seen EXCEPT ![q] = s]
    BY <1>4 DEF UpstreamBreaks, Cut
  <2>3. s \in Seq(Frames) /\ Over(s)
    BY <1>1, <1>2, <1>4, RelayEnds DEF Whole
  <2> QED
    BY <1>2, <2>1, <2>2, <2>3, OneIsTold DEF Told
<1> QED
  BY <1>3, <1>4

\* Closing says nothing.
LEMMA ClosingTold ==
  ASSUME Inv, AppsAreTold, NEW q \in Calls,
         (\E who \in {"generator", "response"} : Close(q, who)) \/ Closed(q)
  PROVE  AppsAreTold'
<1> DEFINE d == call[q]
           r == seen[q]
<1>1. Types /\ d \in Call /\ r \in Seq(Frames) /\ Told(q, d, r, left)
  BY DEF Inv, Types, AppsAreTold
<1>2. seen' = [seen EXCEPT ![q] = r] /\ left' = left
  BY <1>1 DEF Types, Close, Closed
<1>3. PICK w \in SUBSET {"generator", "response"}, x \in BOOLEAN, y \in BOOLEAN :
        call' = [call EXCEPT ![q] = [d EXCEPT !.closers = w, !.closed = x, !.closing = y]]
  <2>1. CASE Closed(q)
    <3>1. [d EXCEPT !.closing = FALSE]
            = [d EXCEPT !.closers = d.closers, !.closed = d.closed, !.closing = FALSE]
      BY <1>1 DEF Call
    <3> QED
      BY <1>1, <2>1, <3>1 DEF Closed, Set, Call
  <2>2. CASE \E who \in {"generator", "response"} : Close(q, who)
    <3>1. PICK who \in {"generator", "response"} : Close(q, who)
      BY <2>2
    <3>2. d.closers \ {who} \in SUBSET {"generator", "response"}
      BY <1>1 DEF Call
    <3> QED
      BY <1>1, <3>1, <3>2 DEF Close, Set, Call
  <2> QED
    BY <2>1, <2>2
<1> DEFINE c == [d EXCEPT !.closers = w, !.closed = x, !.closing = y]
<1>4. c \in Call /\ c.gen = d.gen /\ c.got = d.got /\ c.ended = d.ended
  BY <1>1 DEF Call
<1> QED
  BY <1>1, <1>2, <1>3, <1>4, OneIsTold DEF Told

\* An app that stays to the end hears once that the run is over, as the last thing and after
\* how it ended, however the engine breaks off in the middle (card_review_run, _cr_tail).
THEOREM AppsHearTheEnd == ASSUME Places \in Nat PROVE Spec => []AppIsTold
<1>1. Init => AppsAreTold
  BY DEF Init, Fresh, AppsAreTold, Told
<1>2. Inv /\ AppsAreTold /\ [Next]_vars => AppsAreTold'
  <2> SUFFICES ASSUME Inv, AppsAreTold, [Next]_vars PROVE AppsAreTold'
    OBVIOUS
  <2>1. CASE Next
    BY <2>1, NothingTold, ChunkTold, StreamTold, CutTold, ClosingTold DEF Next
  <2>2. CASE UNCHANGED vars
    BY <2>2 DEF vars, AppsAreTold
  <2> QED
    BY <2>1, <2>2
<1>3. Inv /\ AppsAreTold => AppIsTold
  <2> SUFFICES ASSUME Inv, AppsAreTold, NEW q \in Calls
               PROVE  /\ \A i \in 1 .. Len(seen[q]) : seen[q][i] = "done" => i = Len(seen[q])
                      /\ call[q].gen = "over" /\ q \notin left /\ ~ call[q].ended =>
                           Len(seen[q]) > 1 /\ seen[q][Len(seen[q])] = "done"
    BY DEF AppIsTold
  <2>1. Told(q, call[q], seen[q], left) /\ call[q] \in Call
    BY DEF Inv, Types, AppsAreTold
  <2>2. Silent(seen[q]) \/ Over(seen[q])
    BY <2>1 DEF Told, Call, Whole, Silent
  <2>3. Len(seen[q]) \in Nat
    BY LenProperties DEF Inv, Types
  <2>4. \A i \in 1 .. Len(seen[q]) : seen[q][i] = "done" => i = Len(seen[q])
    BY <2>2, <2>3 DEF Silent, Over
  <2>5. ASSUME call[q].gen = "over", q \notin left, ~ call[q].ended
        PROVE  Len(seen[q]) > 1 /\ seen[q][Len(seen[q])] = "done"
    BY <2>1, <2>5 DEF Told, Whole, Over
  <2> QED
    BY <2>4, <2>5
<1> QED
  BY <1>1, <1>2, <1>3, AlwaysInv, PTL DEF Spec
=============================================================================
