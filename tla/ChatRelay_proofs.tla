-------------------------- MODULE ChatRelay_proofs --------------------------
(***************************************************************************)
(* Theorems about ChatRelay, for any turns, kinds of turns, requests to    *)
(* stop and bounds, and about its turns beside decks (ChatAndDecks).       *)
(*                                                                         *)
(* Fits is about one turn: what its response and its pump do fits what it  *)
(* holds and what it received.  The rest of the invariant ties turns and   *)
(* requests to stop to the locks they save under and to the conversation:  *)
(* who is about to write an answer that another could write, too, holds    *)
(* the lock of it, and no answer is there yet.                             *)
(***************************************************************************)
EXTENDS ChatAndDecks, TLAPS

Locked(k, got) == (k = "delib" /\ "run" \in got) \/ (k = "routine" /\ "end" \in got)

\* A turn u of the kind k; listed says whether its relay is in the table.
Fits(k, u, listed) ==
  /\ u.resp \in {"idle", "owner", "ask", "asked", "made"} => u.pump = "none"
  /\ u.resp \in {"stream", "drain", "leave"} => u.pump # "none"
  /\ u.resp \in {"drain", "leave"} => u.pump \notin {"read", "room"}
  /\ u.resp \in {"owner", "ask", "asked", "made"} => u.held
  /\ u.resp \in {"idle", "owner"} => ~ u.counted
  /\ u.resp = "out" /\ u.pump = "none" => ~ u.held /\ ~ u.counted
  /\ u.pump \in {"read", "room"} => u.held
  /\ u.pump \in {"lock", "look", "put", "done"} => ~ u.held
  /\ u.pump \in {"lock", "look", "put"} => u.keep
  /\ u.pump = "done" => ~ u.counted
  /\ u.counted /\ u.resp \notin {"owner", "ask", "asked"} => u.keep
  /\ u.pump = "none" => u.got = {}
  /\ "end" \in u.got => k = "routine"
  /\ k = "delib" /\ "run" \in u.got /\ ~ listed => u.pump \in {"look", "put", "done"}

\* An entry of the conversation: a message of a turn, or the notice of a deck, of its job.
Entry == [role : {"user", "persona", "assistant", "deck"}, of : Turns \cup {Nobody} \cup Jobs,
          stop : BOOLEAN, end : BOOLEAN, text : BOOLEAN]

Types ==
  /\ kind \in [Turns -> Kinds] /\ turn \in [Turns -> TurnStates]
  /\ conv \in Seq(Entry) /\ relays \subseteq Turns /\ gone \in BOOLEAN
  /\ lock \in [Keys -> Turns \cup Stoppers \cup {Nobody}]
  /\ stop \in [Stoppers -> [pc : {"idle", "wait", "lock", "put"}, of : Turns \cup {Nobody}]]

TurnsFit == \A t \in Turns : Fits(kind[t], turn[t], t \in relays)

\* Who saves what another may save holds the lock of it.
SaversHoldLocks ==
  \A t \in Turns :
    turn[t].pump \in {"look", "put"} /\ Locked(kind[t], turn[t].got) => lock[Key(t)] = t

\* A request to stop is about a deliberation; it records the stop itself, under the lock,
\* if no relay is to.
StopsAreOfDeliberations ==
  \A x \in Stoppers :
    stop[x].pc # "idle" =>
      /\ stop[x].of \in Turns /\ kind[stop[x].of] = "delib" /\ "run" \in turn[stop[x].of].got
      /\ stop[x].pc \in {"lock", "put"} => stop[x].of \notin relays
      /\ stop[x].pc = "put" => lock[<<"delib", stop[x].of>>] = x

\* Answers are there of turns whose pump is done.
AnswersAreOfDone ==
  \A i \in DOMAIN conv :
    conv[i].role = "assistant" =>
      /\ conv[i].of \in Turns /\ turn[conv[i].of].pump = "done"
      /\ conv[i].end => kind[conv[i].of] = "routine"

PutsAreNew == \A t \in Turns : turn[t].pump = "put" => ~ Answered(t)

Inv ==
  /\ Types /\ TurnsFit /\ SaversHoldLocks /\ StopsAreOfDeliberations
  /\ AnswersAreOfDone /\ PutsAreNew /\ AnswersAreSaidOnce
-----------------------------------------------------------------------------
(* The conversation                                                        *)

LEMMA MessageType ==
  ASSUME NEW t \in Turns
  PROVE  /\ Answer(t) \in Message /\ StopNote(t) \in Message
         /\ Said("user", t) \in Message /\ Said("persona", t) \in Message
BY DEF Answer, StopNote, Said, Message

\* What is put into the conversation comes last, or nowhere if it was deleted.
LEMMA PutLast ==
  ASSUME conv \in Seq(Entry), NEW m \in Message, Put(m)
  PROVE  /\ conv' \in Seq(Entry)
         /\ \/ conv' = conv
            \/ /\ DOMAIN conv' = DOMAIN conv \cup {Len(conv) + 1}
               /\ conv'[Len(conv) + 1] = m
               /\ \A i \in DOMAIN conv : conv'[i] = conv[i] /\ i <= Len(conv)
<1>1. m \in Entry
  BY DEF Message, Entry
<1> QED
  BY <1>1 DEF Put
-----------------------------------------------------------------------------
(* Steps of one turn that write no answer                                  *)

\* The turn t becomes v; it neither goes to its answer with a lock to take first, nor comes
\* back from the end.
Becomes(t, v) ==
  /\ turn' = [turn EXCEPT ![t] = v]
  /\ Fits(kind[t], v, t \in relays')
  /\ turn[t].got \subseteq v.got
  /\ turn[t].pump = "done" => v.pump = "done"
  /\ turn[t].pump \in {"look", "put"} => v.got = turn[t].got
  /\ v.pump = "put" => turn[t].pump = "put"
  /\ v.pump = "look" => turn[t].pump = "look" \/ ~ Locked(kind[t], v.got)
  /\ relays \subseteq relays' /\ relays' \subseteq relays \cup {t}
  /\ t \in relays' \ relays => "run" \notin turn[t].got
  /\ UNCHANGED <<kind, lock, stop>>

LEMMA BecomesInv ==
  ASSUME Inv, NEW t \in Turns, NEW v \in TurnStates, Becomes(t, v),
         conv' = conv \/ Put(Said("user", t)), UNCHANGED gone
  PROVE  Inv'
<1>1. Types /\ kind' = kind /\ lock' = lock /\ stop' = stop
  BY DEF Inv, Becomes
<1>2. turn' \in [Turns -> TurnStates] /\ turn'[t] = v
  BY <1>1 DEF Becomes, Types
<1>3. \A u \in Turns \ {t} : turn'[u] = turn[u] /\ (u \in relays' <=> u \in relays)
  BY <1>1 DEF Becomes, Types
<1>4. relays' \subseteq Turns
  BY <1>1 DEF Becomes, Types
<1>5. /\ conv' \in Seq(Entry)
      /\ \/ conv' = conv
         \/ /\ DOMAIN conv' = DOMAIN conv \cup {Len(conv) + 1}
            /\ conv'[Len(conv) + 1] = Said("user", t)
            /\ \A i \in DOMAIN conv : conv'[i] = conv[i] /\ i <= Len(conv)
  BY <1>1, MessageType, PutLast DEF Types
<1>6. \A i \in DOMAIN conv' :
        conv'[i].role = "assistant" => i \in DOMAIN conv /\ conv'[i] = conv[i]
  <2>1. Said("user", t).role = "user"
    BY DEF Said
  <2> QED
    BY <1>5, <2>1
<1>7. Types'
  BY <1>1, <1>2, <1>4, <1>5 DEF Types
<1>8. TurnsFit'
  <2> SUFFICES ASSUME NEW u \in Turns PROVE Fits(kind[u], turn'[u], u \in relays')
    BY <1>1 DEF TurnsFit
  <2>1. CASE u = t
    BY <1>2, <2>1 DEF Becomes
  <2>2. CASE u # t
    BY <1>3, <2>2 DEF Inv, TurnsFit
  <2> QED
    BY <2>1, <2>2
<1>9. SaversHoldLocks'
  <2> SUFFICES ASSUME NEW u \in Turns, turn'[u].pump \in {"look", "put"},
                      Locked(kind[u], turn'[u].got)
               PROVE  lock[Key(u)] = u
    BY <1>1 DEF SaversHoldLocks, Key
  <2>1. turn[u].pump \in {"look", "put"} /\ Locked(kind[u], turn[u].got)
    BY <1>2, <1>3 DEF Becomes
  <2> QED
    BY <2>1 DEF Inv, SaversHoldLocks
<1>10. StopsAreOfDeliberations'
  <2> SUFFICES ASSUME NEW x \in Stoppers, stop[x].pc # "idle"
               PROVE  /\ stop[x].of \in Turns /\ kind[stop[x].of] = "delib"
                      /\ "run" \in turn'[stop[x].of].got
                      /\ stop[x].pc \in {"lock", "put"} => stop[x].of \notin relays'
                      /\ stop[x].pc = "put" => lock[<<"delib", stop[x].of>>] = x
    BY <1>1 DEF StopsAreOfDeliberations
  <2>1. /\ stop[x].of \in Turns /\ kind[stop[x].of] = "delib" /\ "run" \in turn[stop[x].of].got
        /\ stop[x].pc \in {"lock", "put"} => stop[x].of \notin relays
        /\ stop[x].pc = "put" => lock[<<"delib", stop[x].of>>] = x
    BY DEF Inv, StopsAreOfDeliberations
  <2> QED
    BY <1>2, <1>3, <2>1 DEF Becomes
<1>11. AnswersAreOfDone'
  <2> SUFFICES ASSUME NEW i \in DOMAIN conv', conv'[i].role = "assistant"
               PROVE  /\ conv'[i].of \in Turns /\ turn'[conv'[i].of].pump = "done"
                      /\ conv'[i].end => kind[conv'[i].of] = "routine"
    BY <1>1 DEF AnswersAreOfDone
  <2>1. /\ conv'[i].of \in Turns /\ turn[conv'[i].of].pump = "done"
        /\ conv'[i].end => kind[conv'[i].of] = "routine"
    BY <1>6 DEF Inv, AnswersAreOfDone
  <2> QED
    BY <1>2, <1>3, <2>1 DEF Becomes
<1>12. PutsAreNew'
  <2> SUFFICES ASSUME NEW u \in Turns, turn'[u].pump = "put", Answered(u)' PROVE FALSE
    BY DEF PutsAreNew
  <2>1. turn[u].pump = "put" /\ turn[u].got = turn'[u].got
    BY <1>2, <1>3 DEF Becomes
  <2>2. ~ Answered(u)
    BY <2>1 DEF Inv, PutsAreNew
  <2>3. kind[u] = "routine" /\ "end" \in turn[u].got
    BY <1>1, <2>1 DEF Answered
  <2>4. PICK i \in DOMAIN conv' :
          /\ conv'[i].role = "assistant" /\ conv'[i].end /\ RunOf[conv'[i].of] = RunOf[u]
          /\ conv'[i].text = ("text" \in turn[u].got)
    BY <2>1 DEF Answered, Messages
  <2> QED
    BY <1>6, <2>2, <2>3, <2>4 DEF Answered, Messages
<1>13. AnswersAreSaidOnce'
  BY <1>6 DEF Inv, AnswersAreSaidOnce
<1> QED
  BY <1>7, <1>8, <1>9, <1>10, <1>11, <1>12, <1>13 DEF Inv
-----------------------------------------------------------------------------
(* The actions of a turn                                                   *)

\* A response on its way.
LEMMA Beginnings ==
  ASSUME Inv, NEW t \in Turns,
         Begin(t) \/ CheckOwner(t) \/ Fail(t) \/ StoreQuestion(t) \/ QuestionStored(t)
         \/ Start(t) \/ LeaveUnstarted(t)
  PROVE  Inv'
<1> DEFINE u == turn[t]
<1>1. Types /\ u \in TurnStates /\ Fits(kind[t], u, t \in relays)
  BY DEF Inv, Types, TurnsFit
<1>2. /\ UNCHANGED <<kind, relays, lock, stop, gone>>
      /\ conv' = conv \/ Put(Said("user", t))
  BY DEF Begin, CheckOwner, Fail, StoreQuestion, QuestionStored, Start, LeaveUnstarted, Others
<1>3. CASE Begin(t)
  <2> DEFINE v == [u EXCEPT !.resp = "owner", !.held = TRUE]
  <2>1. turn' = [turn EXCEPT ![t] = v]
    BY <1>1, <1>3 DEF Begin, Types
  <2>2. /\ v \in TurnStates /\ v.resp = "owner" /\ v.pump = u.pump /\ v.held = TRUE
        /\ v.counted = u.counted /\ v.keep = u.keep /\ v.got = u.got
    BY <1>1 DEF TurnStates
  <2>3. Fits(kind[t], v, t \in relays')
    BY <1>1, <1>2, <1>3, <2>2 DEF Fits, Begin
  <2>4. Becomes(t, v)
    BY <1>1, <1>2, <1>3, <2>1, <2>2, <2>3 DEF Becomes, Fits, Begin
  <2> QED
    BY <1>2, <2>2, <2>4, BecomesInv
<1>4. CASE CheckOwner(t)
  <2> DEFINE v1 == [u EXCEPT !.resp = "made"]
             v2 == [u EXCEPT !.resp = "ask", !.counted = TRUE]
  <2>1. \/ turn' = [turn EXCEPT ![t] = v1]
        \/ turn' = [turn EXCEPT ![t] = v2]
    BY <1>1, <1>4 DEF CheckOwner, Types
  <2>2. ASSUME turn' = [turn EXCEPT ![t] = v1] PROVE Inv'
    <3>1. /\ v1 \in TurnStates /\ v1.resp = "made" /\ v1.pump = u.pump /\ v1.held = u.held
          /\ v1.counted = u.counted /\ v1.keep = u.keep /\ v1.got = u.got
      BY <1>1 DEF TurnStates
    <3>2. Fits(kind[t], v1, t \in relays')
      BY <1>1, <1>2, <1>4, <3>1 DEF Fits, CheckOwner
    <3>3. Becomes(t, v1)
      BY <1>1, <1>2, <1>4, <2>2, <3>1, <3>2 DEF Becomes, Fits, CheckOwner
    <3> QED
      BY <1>2, <3>1, <3>3, BecomesInv
  <2>3. ASSUME turn' = [turn EXCEPT ![t] = v2] PROVE Inv'
    <3>1. /\ v2 \in TurnStates /\ v2.resp = "ask" /\ v2.pump = u.pump /\ v2.held = u.held
          /\ v2.counted = TRUE /\ v2.keep = u.keep /\ v2.got = u.got
      BY <1>1 DEF TurnStates
    <3>2. Fits(kind[t], v2, t \in relays')
      BY <1>1, <1>2, <1>4, <3>1 DEF Fits, CheckOwner
    <3>3. Becomes(t, v2)
      BY <1>1, <1>2, <1>4, <2>3, <3>1, <3>2 DEF Becomes, Fits, CheckOwner
    <3> QED
      BY <1>2, <3>1, <3>3, BecomesInv
  <2> QED
    BY <2>1, <2>2, <2>3
<1>5. CASE Fail(t)
  <2> DEFINE v == [u EXCEPT !.resp = "out", !.held = FALSE, !.counted = FALSE]
  <2>1. turn' = [turn EXCEPT ![t] = v]
    BY <1>1, <1>5 DEF Fail, Types
  <2>2. /\ v \in TurnStates /\ v.resp = "out" /\ v.pump = u.pump /\ v.held = FALSE
        /\ v.counted = FALSE /\ v.keep = u.keep /\ v.got = u.got
    BY <1>1 DEF TurnStates
  <2>3. Fits(kind[t], v, t \in relays')
    BY <1>1, <1>2, <1>5, <2>2 DEF Fits, Fail
  <2>4. Becomes(t, v)
    BY <1>1, <1>2, <1>5, <2>1, <2>2, <2>3 DEF Becomes, Fits, Fail
  <2> QED
    BY <1>2, <2>2, <2>4, BecomesInv
<1>6. CASE StoreQuestion(t)
  <2> DEFINE v == [u EXCEPT !.resp = "asked", !.keep = ~ gone]
  <2>1. turn' = [turn EXCEPT ![t] = v]
    BY <1>1, <1>6 DEF StoreQuestion, Types
  <2>2. /\ v \in TurnStates /\ v.resp = "asked" /\ v.pump = u.pump /\ v.held = u.held
        /\ v.counted = u.counted /\ v.keep = (~ gone) /\ v.got = u.got
    BY <1>1 DEF TurnStates
  <2>3. Fits(kind[t], v, t \in relays')
    BY <1>1, <1>2, <1>6, <2>2 DEF Fits, StoreQuestion
  <2>4. Becomes(t, v)
    BY <1>1, <1>2, <1>6, <2>1, <2>2, <2>3 DEF Becomes, Fits, StoreQuestion
  <2> QED
    BY <1>2, <2>2, <2>4, BecomesInv
<1>7. CASE QuestionStored(t)
  <2> DEFINE v == [u EXCEPT !.resp = "made", !.counted = u.keep]
  <2>1. turn' = [turn EXCEPT ![t] = v]
    BY <1>1, <1>7 DEF QuestionStored, Types
  <2>2. /\ v \in TurnStates /\ v.resp = "made" /\ v.pump = u.pump /\ v.held = u.held
        /\ v.counted = u.keep /\ v.keep = u.keep /\ v.got = u.got
    BY <1>1 DEF TurnStates
  <2>3. Fits(kind[t], v, t \in relays')
    BY <1>1, <1>2, <1>7, <2>2 DEF Fits, QuestionStored
  <2>4. Becomes(t, v)
    BY <1>1, <1>2, <1>7, <2>1, <2>2, <2>3 DEF Becomes, Fits, QuestionStored
  <2> QED
    BY <1>2, <2>2, <2>4, BecomesInv
<1>8. CASE Start(t)
  <2> DEFINE v == [u EXCEPT !.resp = "stream", !.pump = "read"]
  <2>1. turn' = [turn EXCEPT ![t] = v]
    BY <1>1, <1>8 DEF Start, Types
  <2>2. /\ v \in TurnStates /\ v.resp = "stream" /\ v.pump = "read" /\ v.held = u.held
        /\ v.counted = u.counted /\ v.keep = u.keep /\ v.got = u.got
    BY <1>1 DEF TurnStates
  <2>3. Fits(kind[t], v, t \in relays')
    BY <1>1, <1>2, <1>8, <2>2 DEF Fits, Start
  <2>4. Becomes(t, v)
    BY <1>1, <1>2, <1>8, <2>1, <2>2, <2>3 DEF Becomes, Fits, Start
  <2> QED
    BY <1>2, <2>2, <2>4, BecomesInv
<1>9. CASE LeaveUnstarted(t)
  <2> DEFINE v == [u EXCEPT !.resp = "out", !.held = FALSE, !.counted = FALSE]
  <2>1. turn' = [turn EXCEPT ![t] = v]
    BY <1>1, <1>9 DEF LeaveUnstarted, Types
  <2>2. /\ v \in TurnStates /\ v.resp = "out" /\ v.pump = u.pump /\ v.held = FALSE
        /\ v.counted = FALSE /\ v.keep = u.keep /\ v.got = u.got
    BY <1>1 DEF TurnStates
  <2>3. Fits(kind[t], v, t \in relays')
    BY <1>1, <1>2, <1>9, <2>2 DEF Fits, LeaveUnstarted
  <2>4. Becomes(t, v)
    BY <1>1, <1>2, <1>9, <2>1, <2>2, <2>3 DEF Becomes, Fits, LeaveUnstarted
  <2> QED
    BY <1>2, <2>2, <2>4, BecomesInv
<1> QED
  BY <1>3, <1>4, <1>5, <1>6, <1>7, <1>8, <1>9

\* A pump that does not save, and its reader.
LEMMA Readings ==
  ASSUME Inv, NEW t \in Turns,
         Resume(t) \/ StreamEnds(t) \/ Close(t) \/ Read(t) \/ ReadEnd(t) \/ Respond(t)
  PROVE  Inv'
<1> DEFINE u == turn[t]
<1>1. Types /\ u \in TurnStates /\ Fits(kind[t], u, t \in relays)
  BY DEF Inv, Types, TurnsFit
<1>2. /\ UNCHANGED <<kind, relays, lock, stop, gone>>
      /\ conv' = conv \/ Put(Said("user", t))
  BY DEF Resume, StreamEnds, Close, Read, ReadEnd, Respond, Others
<1>3. CASE Resume(t)
  <2> DEFINE v1 == [u EXCEPT !.pump = "read"]
             v2 == [u EXCEPT !.pump = "read", !.box = u.box + 1]
             v3 == [u EXCEPT !.room = FALSE]
  <2>1. u.box < Cap => u.box + 1 \in 0 .. Cap
    BY <1>1, <1>3, RelayAssumption DEF TurnStates
  <2>2. \/ turn' = [turn EXCEPT ![t] = v1]
        \/ (u.box < Cap) /\ turn' = [turn EXCEPT ![t] = v2]
        \/ turn' = [turn EXCEPT ![t] = v3]
    BY <1>1, <1>3 DEF Resume, Types
  <2>3. ASSUME turn' = [turn EXCEPT ![t] = v1] PROVE Inv'
    <3>1. /\ v1 \in TurnStates /\ v1.resp = u.resp /\ v1.pump = "read" /\ v1.held = u.held
          /\ v1.counted = u.counted /\ v1.keep = u.keep /\ v1.got = u.got
      BY <1>1, <2>1 DEF TurnStates
    <3>2. Fits(kind[t], v1, t \in relays')
      BY <1>1, <1>2, <1>3, <3>1 DEF Fits, Resume
    <3>3. Becomes(t, v1)
      BY <1>1, <1>2, <1>3, <2>3, <3>1, <3>2 DEF Becomes, Fits, Resume
    <3> QED
      BY <1>2, <3>1, <3>3, BecomesInv
  <2>4. ASSUME u.box < Cap, turn' = [turn EXCEPT ![t] = v2] PROVE Inv'
    <3>1. /\ v2 \in TurnStates /\ v2.resp = u.resp /\ v2.pump = "read" /\ v2.held = u.held
          /\ v2.counted = u.counted /\ v2.keep = u.keep /\ v2.got = u.got
      BY <1>1, <2>4, <2>1 DEF TurnStates
    <3>2. Fits(kind[t], v2, t \in relays')
      BY <1>1, <1>2, <1>3, <2>4, <3>1 DEF Fits, Resume
    <3>3. Becomes(t, v2)
      BY <1>1, <1>2, <1>3, <2>4, <3>1, <3>2 DEF Becomes, Fits, Resume
    <3> QED
      BY <1>2, <3>1, <3>3, BecomesInv
  <2>5. ASSUME turn' = [turn EXCEPT ![t] = v3] PROVE Inv'
    <3>1. /\ v3 \in TurnStates /\ v3.resp = u.resp /\ v3.pump = u.pump /\ v3.held = u.held
          /\ v3.counted = u.counted /\ v3.keep = u.keep /\ v3.got = u.got
      BY <1>1, <2>1 DEF TurnStates
    <3>2. Fits(kind[t], v3, t \in relays')
      BY <1>1, <1>2, <1>3, <3>1 DEF Fits, Resume
    <3>3. Becomes(t, v3)
      BY <1>1, <1>2, <1>3, <2>5, <3>1, <3>2 DEF Becomes, Fits, Resume
    <3> QED
      BY <1>2, <3>1, <3>3, BecomesInv
  <2> QED
    BY <2>2, <2>3, <2>4, <2>5
<1>4. CASE StreamEnds(t)
  <2> DEFINE v == [u EXCEPT !.pump = "close"]
  <2>1. turn' = [turn EXCEPT ![t] = v]
    BY <1>1, <1>4 DEF StreamEnds, Types
  <2>2. /\ v \in TurnStates /\ v.resp = u.resp /\ v.pump = "close" /\ v.held = u.held
        /\ v.counted = u.counted /\ v.keep = u.keep /\ v.got = u.got
    BY <1>1 DEF TurnStates
  <2>3. Fits(kind[t], v, t \in relays')
    BY <1>1, <1>2, <1>4, <2>2 DEF Fits, StreamEnds
  <2>4. Becomes(t, v)
    BY <1>1, <1>2, <1>4, <2>1, <2>2, <2>3 DEF Becomes, Fits, StreamEnds
  <2> QED
    BY <1>2, <2>2, <2>4, BecomesInv
<1>5. CASE Close(t)
  <2> DEFINE v1 == [u EXCEPT !.held = FALSE, !.pump = "done"]
             v2 == [u EXCEPT !.held = FALSE, !.pump = "lock"]
             v3 == [u EXCEPT !.held = FALSE, !.pump = "look"]
  <2>1. \/ (~ u.keep) /\ turn' = [turn EXCEPT ![t] = v1]
        \/ (u.keep /\ NeedsKey(t)) /\ turn' = [turn EXCEPT ![t] = v2]
        \/ (u.keep /\ ~ NeedsKey(t)) /\ turn' = [turn EXCEPT ![t] = v3]
    BY <1>1, <1>5 DEF Close, Types
  <2>2. ASSUME ~ u.keep, turn' = [turn EXCEPT ![t] = v1] PROVE Inv'
    <3>1. /\ v1 \in TurnStates /\ v1.resp = u.resp /\ v1.pump = "done" /\ v1.held = FALSE
          /\ v1.counted = u.counted /\ v1.keep = u.keep /\ v1.got = u.got
      BY <1>1, <2>2 DEF TurnStates
    <3>2. Fits(kind[t], v1, t \in relays')
      BY <1>1, <1>2, <1>5, <2>2, <3>1 DEF Fits, Close, NeedsKey, Locked
    <3>3. Becomes(t, v1)
      BY <1>1, <1>2, <1>5, <2>2, <3>1, <3>2 DEF Becomes, Fits, Close, NeedsKey, Locked
    <3> QED
      BY <1>2, <3>1, <3>3, BecomesInv
  <2>3. ASSUME u.keep /\ NeedsKey(t), turn' = [turn EXCEPT ![t] = v2] PROVE Inv'
    <3>1. /\ v2 \in TurnStates /\ v2.resp = u.resp /\ v2.pump = "lock" /\ v2.held = FALSE
          /\ v2.counted = u.counted /\ v2.keep = u.keep /\ v2.got = u.got
      BY <1>1, <2>3 DEF TurnStates
    <3>2. Fits(kind[t], v2, t \in relays')
      BY <1>1, <1>2, <1>5, <2>3, <3>1 DEF Fits, Close, NeedsKey, Locked
    <3>3. Becomes(t, v2)
      BY <1>1, <1>2, <1>5, <2>3, <3>1, <3>2 DEF Becomes, Fits, Close, NeedsKey, Locked
    <3> QED
      BY <1>2, <3>1, <3>3, BecomesInv
  <2>4. ASSUME u.keep /\ ~ NeedsKey(t), turn' = [turn EXCEPT ![t] = v3] PROVE Inv'
    <3>1. /\ v3 \in TurnStates /\ v3.resp = u.resp /\ v3.pump = "look" /\ v3.held = FALSE
          /\ v3.counted = u.counted /\ v3.keep = u.keep /\ v3.got = u.got
      BY <1>1, <2>4 DEF TurnStates
    <3>2. Fits(kind[t], v3, t \in relays')
      BY <1>1, <1>2, <1>5, <2>4, <3>1 DEF Fits, Close, NeedsKey, Locked
    <3>3. Becomes(t, v3)
      BY <1>1, <1>2, <1>5, <2>4, <3>1, <3>2 DEF Becomes, Fits, Close, NeedsKey, Locked
    <3> QED
      BY <1>2, <3>1, <3>3, BecomesInv
  <2> QED
    BY <2>1, <2>2, <2>3, <2>4
<1>6. CASE Read(t)
  <2> DEFINE v == [u EXCEPT !.box = u.box - 1, !.room = TRUE]
  <2>1. u.box - 1 \in 0 .. Cap
    BY <1>1, <1>6, RelayAssumption DEF Read, TurnStates
  <2>2. turn' = [turn EXCEPT ![t] = v]
    BY <1>1, <1>6 DEF Read, Types
  <2>3. /\ v \in TurnStates /\ v.resp = u.resp /\ v.pump = u.pump /\ v.held = u.held
        /\ v.counted = u.counted /\ v.keep = u.keep /\ v.got = u.got
    BY <1>1, <2>1 DEF TurnStates
  <2>4. Fits(kind[t], v, t \in relays')
    BY <1>1, <1>2, <1>6, <2>3 DEF Fits, Read
  <2>5. Becomes(t, v)
    BY <1>1, <1>2, <1>6, <2>2, <2>3, <2>4 DEF Becomes, Fits, Read
  <2> QED
    BY <1>2, <2>3, <2>5, BecomesInv
<1>7. CASE ReadEnd(t)
  <2> DEFINE v == [u EXCEPT !.resp = "drain"]
  <2>1. turn' = [turn EXCEPT ![t] = v]
    BY <1>1, <1>7 DEF ReadEnd, Types
  <2>2. /\ v \in TurnStates /\ v.resp = "drain" /\ v.pump = u.pump /\ v.held = u.held
        /\ v.counted = u.counted /\ v.keep = u.keep /\ v.got = u.got
    BY <1>1 DEF TurnStates
  <2>3. Fits(kind[t], v, t \in relays')
    BY <1>1, <1>2, <1>7, <2>2 DEF Fits, ReadEnd, Finishing
  <2>4. Becomes(t, v)
    BY <1>1, <1>2, <1>7, <2>1, <2>2, <2>3 DEF Becomes, Fits, ReadEnd, Finishing
  <2> QED
    BY <1>2, <2>2, <2>4, BecomesInv
<1>8. CASE Respond(t)
  <2> DEFINE v == [u EXCEPT !.resp = "out", !.held = FALSE]
  <2>1. turn' = [turn EXCEPT ![t] = v]
    BY <1>1, <1>8 DEF Respond, Types
  <2>2. /\ v \in TurnStates /\ v.resp = "out" /\ v.pump = u.pump /\ v.held = FALSE
        /\ v.counted = u.counted /\ v.keep = u.keep /\ v.got = u.got
    BY <1>1 DEF TurnStates
  <2>3. Fits(kind[t], v, t \in relays')
    BY <1>1, <1>2, <1>8, <2>2 DEF Fits, Respond
  <2>4. Becomes(t, v)
    BY <1>1, <1>2, <1>8, <2>1, <2>2, <2>3 DEF Becomes, Fits, Respond
  <2> QED
    BY <1>2, <2>2, <2>4, BecomesInv
<1> QED
  BY <1>3, <1>4, <1>5, <1>6, <1>7, <1>8

\* The browser leaves.
LEMMA Leavings ==
  ASSUME Inv, NEW t \in Turns,
         Leave(t)
  PROVE  Inv'
<1> DEFINE u == turn[t]
           p == IF Finishing(t) THEN u.pump ELSE "close"
<1>1. Types /\ u \in TurnStates /\ Fits(kind[t], u, t \in relays)
  BY DEF Inv, Types, TurnsFit
<1>2. /\ UNCHANGED <<kind, relays, lock, stop, gone>>
      /\ conv' = conv \/ Put(Said("user", t))
  BY DEF Leave, Others
<1>3. CASE Leave(t)
  <2> DEFINE v1 == [u EXCEPT !.resp = "out", !.detached = TRUE, !.box = 0, !.room = TRUE]
             v2 == [u EXCEPT !.resp = "leave", !.pump = p]
             v3 == [u EXCEPT !.resp = "leave", !.pump = p, !.held = FALSE]
  <2>1. 0 \in 0 .. Cap
    BY <1>1, <1>3, RelayAssumption
  <2>2. \/ turn' = [turn EXCEPT ![t] = v1]
        \/ turn' = [turn EXCEPT ![t] = v2]
        \/ turn' = [turn EXCEPT ![t] = v3]
    BY <1>1, <1>3 DEF Leave, Detach, Cut, Types
  <2>3. ASSUME turn' = [turn EXCEPT ![t] = v1] PROVE Inv'
    <3>1. /\ v1 \in TurnStates /\ v1.resp = "out" /\ v1.pump = u.pump /\ v1.held = u.held
          /\ v1.counted = u.counted /\ v1.keep = u.keep /\ v1.got = u.got
      BY <1>1, <2>1 DEF TurnStates
    <3>2. Fits(kind[t], v1, t \in relays')
      BY <1>1, <1>2, <1>3, <3>1 DEF Fits, Leave, Finishing
    <3>3. Becomes(t, v1)
      BY <1>1, <1>2, <1>3, <2>3, <3>1, <3>2 DEF Becomes, Fits, Leave, Finishing
    <3> QED
      BY <1>2, <3>1, <3>3, BecomesInv
  <2>4. ASSUME turn' = [turn EXCEPT ![t] = v2] PROVE Inv'
    <3>1. /\ v2 \in TurnStates /\ v2.resp = "leave" /\ v2.pump = p /\ v2.held = u.held
          /\ v2.counted = u.counted /\ v2.keep = u.keep /\ v2.got = u.got
      BY <1>1, <2>1 DEF TurnStates
    <3>2. Fits(kind[t], v2, t \in relays')
      BY <1>1, <1>2, <1>3, <3>1 DEF Fits, Leave, Finishing
    <3>3. Becomes(t, v2)
      BY <1>1, <1>2, <1>3, <2>4, <3>1, <3>2 DEF Becomes, Fits, Leave, Finishing
    <3> QED
      BY <1>2, <3>1, <3>3, BecomesInv
  <2>5. ASSUME turn' = [turn EXCEPT ![t] = v3] PROVE Inv'
    <3>1. /\ v3 \in TurnStates /\ v3.resp = "leave" /\ v3.pump = p /\ v3.held = FALSE
          /\ v3.counted = u.counted /\ v3.keep = u.keep /\ v3.got = u.got
      BY <1>1, <2>1 DEF TurnStates
    <3>2. Fits(kind[t], v3, t \in relays')
      BY <1>1, <1>2, <1>3, <3>1 DEF Fits, Leave, Finishing
    <3>3. Becomes(t, v3)
      BY <1>1, <1>2, <1>3, <2>5, <3>1, <3>2 DEF Becomes, Fits, Leave, Finishing
    <3> QED
      BY <1>2, <3>1, <3>3, BecomesInv
  <2> QED
    BY <2>2, <2>3, <2>4, <2>5
<1> QED
  BY <1>3

\* A frame comes; that of the run puts the relay of a deliberation into the table.
LEMMA Receiving == ASSUME Inv, NEW t \in Turns, Receive(t) PROVE Inv'
<1> DEFINE u == turn[t]
<1>1. Types /\ u \in TurnStates /\ Fits(kind[t], u, t \in relays)
  BY DEF Inv, Types, TurnsFit
<1>2. UNCHANGED <<kind, lock, stop, gone, conv>> /\ u.pump = "read"
  BY DEF Receive
<1>3. PICK f \in Comes(t) :
        /\ turn' = [turn EXCEPT
             ![t].got = IF u.keep THEN u.got \cup {f} ELSE u.got,
             ![t].pump = IF ~ u.detached /\ u.box = Cap THEN "room" ELSE "read",
             ![t].room = IF ~ u.detached /\ u.box = Cap THEN FALSE ELSE u.room,
             ![t].box = IF u.detached \/ u.box = Cap THEN u.box ELSE u.box + 1]
        /\ relays' = IF f = "run" /\ kind[t] = "delib" /\ u.keep THEN relays \cup {t} ELSE relays
  BY DEF Receive
<1>4. /\ f \in Frames
      /\ f = "end" => kind[t] = "routine"
      /\ f = "run" => "run" \notin u.got
  <2>1. kind[t] \in Kinds
    BY <1>1 DEF Types
  <2>2. CASE kind[t] # "plain" /\ "run" \notin u.got
    BY <1>3, <2>2 DEF Comes, Frames
  <2>3. CASE kind[t] = "plain"
    BY <1>3, <2>3 DEF Comes, Frames
  <2>4. CASE kind[t] = "delib" /\ "run" \in u.got
    BY <1>3, <2>4 DEF Comes, Frames
  <2>5. CASE kind[t] = "routine" /\ "run" \in u.got
    BY <1>3, <2>5 DEF Comes, Frames
  <2> QED
    BY <2>1, <2>2, <2>3, <2>4, <2>5 DEF Kinds
<1> DEFINE got == IF u.keep THEN u.got \cup {f} ELSE u.got
           pump == IF ~ u.detached /\ u.box = Cap THEN "room" ELSE "read"
           room == IF ~ u.detached /\ u.box = Cap THEN FALSE ELSE u.room
           box == IF u.detached \/ u.box = Cap THEN u.box ELSE u.box + 1
           v == [u EXCEPT !.got = got, !.pump = pump, !.room = room, !.box = box]
<1>5. turn' = [turn EXCEPT ![t] = v]
  BY <1>1, <1>3 DEF Types
<1>6. got \in SUBSET Frames /\ pump \in {"read", "room"} /\ room \in BOOLEAN /\ box \in 0 .. Cap
  <2>1. u.box \in 0 .. Cap /\ u.room \in BOOLEAN /\ u.got \in SUBSET Frames
    BY <1>1 DEF TurnStates
  <2>2. u.box # Cap => u.box + 1 \in 0 .. Cap
    BY <2>1, RelayAssumption
  <2> QED
    BY <1>4, <2>1, <2>2
<1> HIDE DEF got, pump, room, box
<1>7. /\ v \in TurnStates /\ v.resp = u.resp /\ v.pump = pump /\ v.held = u.held
      /\ v.counted = u.counted /\ v.keep = u.keep /\ v.got = got
  BY <1>1, <1>6 DEF TurnStates
<1>8. Fits(kind[t], v, t \in relays')
  <2>1. /\ u.resp \notin {"idle", "owner", "ask", "asked", "made", "drain", "leave"} /\ u.held
        /\ u.counted => u.keep
        /\ "end" \in u.got => kind[t] = "routine"
        /\ kind[t] = "delib" /\ "run" \in u.got => t \in relays
    BY <1>1, <1>2 DEF Fits
  <2>2. "end" \in got => kind[t] = "routine"
    BY <1>4, <2>1 DEF got
  <2>3. kind[t] = "delib" /\ "run" \in got => t \in relays'
    BY <1>3, <2>1 DEF got
  <2> QED
    BY <1>2, <1>6, <1>7, <2>1, <2>2, <2>3 DEF Fits
<1>9. Becomes(t, v)
  <2>1. u.got \subseteq v.got /\ v.pump \notin {"look", "put"}
    BY <1>6, <1>7 DEF got
  <2>2. /\ relays \subseteq relays' /\ relays' \subseteq relays \cup {t}
        /\ t \in relays' \ relays => "run" \notin u.got
    BY <1>3, <1>4
  <2> QED
    BY <1>2, <1>5, <1>8, <2>1, <2>2 DEF Becomes
<1> QED
  BY <1>2, <1>7, <1>9, BecomesInv
-----------------------------------------------------------------------------
(* Saving an answer                                                        *)

\* Two turns that may write one answer have one lock.
LEMMA SavingLocked == ASSUME Inv, NEW t \in Turns, TakeLock(t) PROVE Inv'
<1> DEFINE u == turn[t]
           got == IF t \in relays \cap by THEN u.got \cup {"stopped"} ELSE u.got
           v == [u EXCEPT !.pump = "look", !.got = got]
<1>1. Types /\ u \in TurnStates /\ Fits(kind[t], u, t \in relays)
  BY DEF Inv, Types, TurnsFit
<1>2. /\ UNCHANGED <<kind, conv, gone, stop>> /\ u.pump = "lock" /\ lock[Key(t)] = Nobody
      /\ lock' = [lock EXCEPT ![Key(t)] = t] /\ relays' = relays \ {t}
  BY DEF TakeLock
<1>3. turn' = [turn EXCEPT ![t] = v]
  BY <1>1 DEF TakeLock, Types
<1>4. got \in SUBSET Frames /\ u.got \subseteq got /\ ("end" \in got => "end" \in u.got)
  BY <1>1 DEF TurnStates, Frames
<1> HIDE DEF got
<1>5. /\ v \in TurnStates /\ v.resp = u.resp /\ v.pump = "look" /\ v.held = u.held
      /\ v.counted = u.counted /\ v.keep = u.keep /\ v.got = got
  BY <1>1, <1>4 DEF TurnStates
<1>6. Key(t) \in Keys /\ \A r \in Turns : Key(r) \in Keys
  BY DEF Key, Keys
<1>7. turn' \in [Turns -> TurnStates] /\ turn'[t] = v /\ \A r \in Turns \ {t} : turn'[r] = turn[r]
  BY <1>1, <1>3, <1>5 DEF Types
<1>8. lock'[Key(t)] = t /\ \A k \in Keys \ {Key(t)} : lock'[k] = lock[k]
  BY <1>1, <1>2, <1>6 DEF Types
<1>9. Types'
  BY <1>1, <1>2, <1>6, <1>7 DEF Types
<1>10. TurnsFit'
  <2>1. Fits(kind[t], v, t \in relays')
    BY <1>1, <1>2, <1>4, <1>5 DEF Fits
  <2>2. \A r \in Turns \ {t} : Fits(kind[r], turn'[r], r \in relays')
    BY <1>2, <1>7 DEF Inv, TurnsFit
  <2> QED
    BY <1>2, <1>7, <2>1, <2>2 DEF TurnsFit
<1>11. SaversHoldLocks'
  <2> SUFFICES ASSUME NEW r \in Turns, r # t, turn'[r].pump \in {"look", "put"},
                      Locked(kind[r], turn'[r].got)
               PROVE  lock'[Key(r)] = r
    BY <1>2, <1>8 DEF SaversHoldLocks, Key
  <2>1. lock[Key(r)] = r
    BY <1>7 DEF Inv, SaversHoldLocks
  <2> QED
    BY <1>2, <1>6, <1>8, <2>1, RelayAssumption
<1>12. StopsAreOfDeliberations'
  <2> SUFFICES ASSUME NEW x \in Stoppers, stop[x].pc # "idle"
               PROVE  /\ stop[x].of \in Turns /\ kind[stop[x].of] = "delib"
                      /\ "run" \in turn'[stop[x].of].got
                      /\ stop[x].pc \in {"lock", "put"} => stop[x].of \notin relays'
                      /\ stop[x].pc = "put" => lock'[<<"delib", stop[x].of>>] = x
    BY <1>2 DEF StopsAreOfDeliberations
  <2>1. /\ stop[x].of \in Turns /\ kind[stop[x].of] = "delib" /\ "run" \in turn[stop[x].of].got
        /\ stop[x].pc \in {"lock", "put"} => stop[x].of \notin relays
        /\ stop[x].pc = "put" => lock[<<"delib", stop[x].of>>] = x
    BY DEF Inv, StopsAreOfDeliberations
  <2>2. <<"delib", stop[x].of>> \in Keys
    BY <2>1 DEF Keys
  <2>3. "run" \in turn'[stop[x].of].got
    BY <1>4, <1>5, <1>7, <2>1
  <2>4. stop[x].pc \in {"lock", "put"} => stop[x].of \notin relays'
    BY <1>2, <2>1
  <2>5. x # Nobody
    BY RelayAssumption
  <2>6. stop[x].pc = "put" => lock'[<<"delib", stop[x].of>>] = x
    BY <1>2, <1>8, <2>1, <2>2, <2>5
  <2> QED
    BY <2>1, <2>3, <2>4, <2>6
<1>13. AnswersAreOfDone'
  <2> SUFFICES ASSUME NEW i \in DOMAIN conv, conv[i].role = "assistant"
               PROVE  /\ conv[i].of \in Turns /\ turn'[conv[i].of].pump = "done"
                      /\ conv[i].end => kind[conv[i].of] = "routine"
    BY <1>2 DEF AnswersAreOfDone
  <2>1. /\ conv[i].of \in Turns /\ turn[conv[i].of].pump = "done"
        /\ conv[i].end => kind[conv[i].of] = "routine"
    BY DEF Inv, AnswersAreOfDone
  <2> QED
    BY <1>2, <1>7, <2>1
<1>14. PutsAreNew'
  <2> SUFFICES ASSUME NEW r \in Turns, turn'[r].pump = "put" PROVE ~ Answered(r)'
    BY DEF PutsAreNew
  <2>1. turn[r].pump = "put" /\ turn'[r] = turn[r]
    BY <1>5, <1>7
  <2>2. ~ Answered(r)
    BY <2>1 DEF Inv, PutsAreNew
  <2> QED
    BY <1>2, <2>1, <2>2 DEF Answered, Messages
<1>15. AnswersAreSaidOnce'
  BY <1>2 DEF Inv, AnswersAreSaidOnce
<1> QED
  BY <1>9, <1>10, <1>11, <1>12, <1>13, <1>14, <1>15 DEF Inv

\* The utterances are stored and there is an answer still to store.
LEMMA SavingPut ==
  ASSUME Inv, NEW t \in Turns, turn[t].pump = "look", ~ Answered(t),
         turn' = [turn EXCEPT ![t].pump = "put"], UNCHANGED <<kind, relays, lock, stop, gone>>,
         conv' = conv \/ Put(Said("persona", t))
  PROVE  Inv'
<1> DEFINE u == turn[t]
           v == [u EXCEPT !.pump = "put"]
<1>1. Types /\ u \in TurnStates /\ Fits(kind[t], u, t \in relays)
  BY DEF Inv, Types, TurnsFit
<1>2. /\ v \in TurnStates /\ v.resp = u.resp /\ v.pump = "put" /\ v.held = u.held
      /\ v.counted = u.counted /\ v.keep = u.keep /\ v.got = u.got
  BY <1>1 DEF TurnStates
<1>3. /\ turn' \in [Turns -> TurnStates] /\ turn'[t] = v
      /\ \A r \in Turns \ {t} : turn'[r] = turn[r]
      /\ \A r \in Turns : turn'[r].got = turn[r].got
  BY <1>1, <1>2 DEF Types
<1>4. /\ conv' \in Seq(Entry)
      /\ \A i \in DOMAIN conv' :
           conv'[i].role = "assistant" => i \in DOMAIN conv /\ conv'[i] = conv[i]
  <2>1. Said("persona", t).role = "persona"
    BY DEF Said
  <2> QED
    BY <1>1, <2>1, MessageType, PutLast DEF Types
<1>5. Types'
  BY <1>1, <1>3, <1>4 DEF Types
<1>6. TurnsFit'
  <2>1. Fits(kind[t], v, t \in relays)
    BY <1>1, <1>2 DEF Fits
  <2> QED
    BY <1>3, <2>1 DEF Inv, TurnsFit
<1>7. SaversHoldLocks' /\ StopsAreOfDeliberations'
  BY <1>2, <1>3 DEF Inv, SaversHoldLocks, StopsAreOfDeliberations, Key
<1>8. AnswersAreOfDone'
  BY <1>3, <1>4 DEF Inv, AnswersAreOfDone
<1>9. PutsAreNew'
  <2> SUFFICES ASSUME NEW r \in Turns, turn'[r].pump = "put", Answered(r)' PROVE FALSE
    BY DEF PutsAreNew
  <2>1. ~ Answered(r)
    BY <1>3 DEF Inv, PutsAreNew
  <2>2. kind[r] = "routine" /\ "end" \in turn[r].got
    BY <1>3 DEF Answered
  <2>3. PICK i \in DOMAIN conv' :
          /\ conv'[i].role = "assistant" /\ conv'[i].end /\ RunOf[conv'[i].of] = RunOf[r]
          /\ conv'[i].text = ("text" \in turn[r].got)
    BY <1>3 DEF Answered, Messages
  <2> QED
    BY <1>4, <2>1, <2>2, <2>3 DEF Answered, Messages
<1>10. AnswersAreSaidOnce'
  BY <1>4 DEF Inv, AnswersAreSaidOnce
<1> QED
  BY <1>5, <1>6, <1>7, <1>8, <1>9, <1>10 DEF Inv

\* A pump that ends gives its lock back; it may store its answer with its last step.
LEMMA SavingEnds ==
  ASSUME Inv, NEW t \in Turns, turn[t].pump \in {"look", "put"}, EndPump(t),
         UNCHANGED <<kind, relays, stop, gone>>,
         \/ conv' = conv
         \/ Put(Said("persona", t))
         \/ turn[t].pump = "put" /\ Put(Answer(t))
  PROVE  Inv'
<1> DEFINE u == turn[t]
           v == [u EXCEPT !.pump = "done", !.counted = FALSE]
<1>1. Types /\ u \in TurnStates /\ Fits(kind[t], u, t \in relays)
  BY DEF Inv, Types, TurnsFit
<1>2. /\ v \in TurnStates /\ v.resp = u.resp /\ v.pump = "done" /\ v.held = u.held
      /\ v.counted = FALSE /\ v.keep = u.keep /\ v.got = u.got
  BY <1>1 DEF TurnStates
<1>3. turn' = [turn EXCEPT ![t] = v]
  BY <1>1 DEF EndPump, Types
<1>4. /\ turn' \in [Turns -> TurnStates] /\ turn'[t] = v
      /\ \A r \in Turns \ {t} : turn'[r] = turn[r]
      /\ \A r \in Turns : turn'[r].got = turn[r].got
  BY <1>1, <1>2, <1>3 DEF Types
<1>5. /\ lock' \in [Keys -> Turns \cup Stoppers \cup {Nobody}]
      /\ \A k \in Keys : lock[k] # t => lock'[k] = lock[k]
  BY <1>1 DEF EndPump, Types
<1>6. \A r \in Turns : Key(r) \in Keys
  BY DEF Key, Keys
<1>7. /\ conv' \in Seq(Entry)
      /\ \A i \in DOMAIN conv : i \in DOMAIN conv' /\ conv'[i] = conv[i] /\ i <= Len(conv)
      /\ \A i \in DOMAIN conv' : conv'[i].role = "assistant" =>
           \/ i \in DOMAIN conv
           \/ i = Len(conv) + 1 /\ u.pump = "put" /\ conv'[i] = Answer(t)
  <2>1. Said("persona", t).role = "persona"
    BY DEF Said
  <2>2. \A i \in DOMAIN conv : i <= Len(conv)
    BY <1>1 DEF Types
  <2>3. CASE conv' = conv
    BY <1>1, <2>2, <2>3 DEF Types
  <2>4. CASE Put(Said("persona", t))
    BY <1>1, <2>1, <2>2, <2>4, MessageType, PutLast DEF Types
  <2>5. CASE u.pump = "put" /\ Put(Answer(t))
    BY <1>1, <2>2, <2>5, MessageType, PutLast DEF Types
  <2> QED
    BY <2>3, <2>4, <2>5
<1>8. /\ Answer(t).role = "assistant" /\ Answer(t).of = t
      /\ Answer(t).stop = ("stopped" \in u.got) /\ Answer(t).end = ("end" \in u.got)
      /\ Answer(t).text = ("text" \in u.got)
  BY DEF Answer
<1>9. "end" \in u.got => kind[t] = "routine"
  BY <1>1 DEF Fits
<1>10. Types'
  BY <1>1, <1>4, <1>5, <1>7 DEF Types
<1>11. TurnsFit'
  <2>1. Fits(kind[t], v, t \in relays)
    BY <1>1, <1>2 DEF Fits
  <2> QED
    BY <1>4, <2>1 DEF Inv, TurnsFit
<1>12. SaversHoldLocks'
  <2> SUFFICES ASSUME NEW r \in Turns, turn'[r].pump \in {"look", "put"},
                      Locked(kind[r], turn'[r].got)
               PROVE  lock'[Key(r)] = r
    BY DEF SaversHoldLocks, Key
  <2>1. r # t /\ lock[Key(r)] = r
    BY <1>2, <1>4 DEF Inv, SaversHoldLocks
  <2> QED
    BY <1>5, <1>6, <2>1
<1>13. StopsAreOfDeliberations'
  <2> SUFFICES ASSUME NEW x \in Stoppers, stop[x].pc # "idle"
               PROVE  /\ stop[x].of \in Turns /\ kind[stop[x].of] = "delib"
                      /\ "run" \in turn'[stop[x].of].got
                      /\ stop[x].pc \in {"lock", "put"} => stop[x].of \notin relays
                      /\ stop[x].pc = "put" => lock'[<<"delib", stop[x].of>>] = x
    BY DEF StopsAreOfDeliberations
  <2>1. /\ stop[x].of \in Turns /\ kind[stop[x].of] = "delib" /\ "run" \in turn[stop[x].of].got
        /\ stop[x].pc \in {"lock", "put"} => stop[x].of \notin relays
        /\ stop[x].pc = "put" => lock[<<"delib", stop[x].of>>] = x
    BY DEF Inv, StopsAreOfDeliberations
  <2>2. <<"delib", stop[x].of>> \in Keys /\ x # t
    BY <2>1, RelayAssumption DEF Keys
  <2> QED
    BY <1>4, <1>5, <2>1, <2>2
<1>14. AnswersAreOfDone'
  <2> SUFFICES ASSUME NEW i \in DOMAIN conv', conv'[i].role = "assistant"
               PROVE  /\ conv'[i].of \in Turns /\ turn'[conv'[i].of].pump = "done"
                      /\ conv'[i].end => kind[conv'[i].of] = "routine"
    BY DEF AnswersAreOfDone
  <2>1. CASE i \in DOMAIN conv
    <3>1. conv'[i] = conv[i]
      BY <1>7, <2>1
    <3>2. /\ conv[i].of \in Turns /\ turn[conv[i].of].pump = "done"
          /\ conv[i].end => kind[conv[i].of] = "routine"
      BY <2>1, <3>1 DEF Inv, AnswersAreOfDone
    <3> QED
      BY <1>2, <1>4, <3>1, <3>2
  <2>2. CASE conv'[i] = Answer(t)
    BY <1>2, <1>4, <1>8, <1>9, <2>2
  <2> QED
    BY <1>7, <2>1, <2>2
<1>15. PutsAreNew'
  <2> SUFFICES ASSUME NEW r \in Turns, turn'[r].pump = "put", Answered(r)' PROVE FALSE
    BY DEF PutsAreNew
  <2>1. r # t /\ turn[r].pump = "put" /\ ~ Answered(r)
    BY <1>2, <1>4 DEF Inv, PutsAreNew
  <2>2. kind[r] = "routine" /\ "end" \in turn[r].got
    BY <1>4 DEF Answered
  <2>3. PICK i \in DOMAIN conv' :
          /\ conv'[i].role = "assistant" /\ conv'[i].end /\ RunOf[conv'[i].of] = RunOf[r]
          /\ conv'[i].text = ("text" \in turn[r].got)
    BY <1>4 DEF Answered, Messages
  <2>4. i \notin DOMAIN conv
    BY <1>7, <2>1, <2>2, <2>3 DEF Answered, Messages
  <2>5. u.pump = "put" /\ "end" \in u.got /\ kind[t] = "routine" /\ RunOf[t] = RunOf[r]
    BY <1>7, <1>8, <1>9, <2>3, <2>4
  <2>6. lock[Key(t)] = t /\ lock[Key(r)] = r
    BY <2>1, <2>2, <2>5 DEF Inv, SaversHoldLocks, Locked
  <2>7. Key(t) = Key(r)
    BY <2>2, <2>5 DEF Key
  <2> QED
    BY <2>1, <2>6, <2>7
<1>16. AnswersAreSaidOnce'
  <2>1. \A i \in DOMAIN conv :
          conv[i].role = "assistant" /\ u.pump = "put" =>
            /\ conv[i].of # t
            /\ ~ (conv[i].end /\ "end" \in u.got /\ RunOf[conv[i].of] = RunOf[t]
                  /\ conv[i].text = ("text" \in u.got))
    <3> SUFFICES ASSUME NEW i \in DOMAIN conv, conv[i].role = "assistant", u.pump = "put"
                 PROVE  /\ conv[i].of # t
                        /\ ~ (conv[i].end /\ "end" \in u.got /\ RunOf[conv[i].of] = RunOf[t]
                              /\ conv[i].text = ("text" \in u.got))
      OBVIOUS
    <3>1. turn[conv[i].of].pump = "done"
      BY DEF Inv, AnswersAreOfDone
    <3>2. ~ Answered(t)
      BY DEF Inv, PutsAreNew
    <3> QED
      BY <1>9, <3>1, <3>2 DEF Answered, Messages
  <2> SUFFICES ASSUME NEW i \in DOMAIN conv', NEW j \in DOMAIN conv', i < j,
                      conv'[i].role = "assistant", conv'[j].role = "assistant"
               PROVE  /\ ~ (conv'[i].stop /\ conv'[j].stop /\ conv'[i].of = conv'[j].of)
                      /\ ~ (conv'[i].end /\ conv'[j].end /\ RunOf[conv'[i].of] = RunOf[conv'[j].of]
                            /\ conv'[i].text = conv'[j].text)
    BY DEF AnswersAreSaidOnce
  <2>2. CASE j \in DOMAIN conv
    <3>1. i \in DOMAIN conv
      <4>1. Len(conv) \in Nat /\ i \in Nat /\ j \in Nat
        BY <1>1, <1>7 DEF Types
      <4> QED
        BY <1>7, <2>2, <4>1
    <3> QED
      BY <1>7, <2>2, <3>1 DEF Inv, AnswersAreSaidOnce
  <2>3. CASE j \notin DOMAIN conv
    <3>1. u.pump = "put" /\ conv'[j] = Answer(t) /\ j = Len(conv) + 1
      BY <1>7, <2>3
    <3>2. i \in DOMAIN conv /\ conv'[i] = conv[i]
      <4>1. Len(conv) \in Nat /\ i \in Nat
        BY <1>1, <1>7 DEF Types
      <4> QED
        BY <1>7, <3>1, <4>1
    <3> QED
      BY <1>8, <2>1, <3>1, <3>2
  <2> QED
    BY <2>2, <2>3
<1> QED
  BY <1>10, <1>11, <1>12, <1>13, <1>14, <1>15, <1>16 DEF Inv

LEMMA Saving ==
  ASSUME Inv, NEW t \in Turns, TakeLock(t) \/ Look(t) \/ PutAnswer(t) \/ SaveFails(t)
  PROVE  Inv'
<1>1. CASE TakeLock(t)
  BY <1>1, SavingLocked
<1>2. CASE Look(t)
  <2>1. /\ turn[t].pump = "look" /\ UNCHANGED <<kind, relays, stop, gone>>
        /\ conv' = conv \/ Put(Said("persona", t))
    BY <1>2 DEF Look
  <2>2. CASE HasReply(t) /\ ~ Answered(t)
    <3>1. turn' = [turn EXCEPT ![t].pump = "put"] /\ UNCHANGED lock
      BY <1>2, <2>2 DEF Look
    <3> QED
      BY <2>1, <2>2, <3>1, SavingPut
  <2>3. CASE ~ (HasReply(t) /\ ~ Answered(t))
    <3>1. EndPump(t)
      BY <1>2, <2>3 DEF Look
    <3> QED
      BY <2>1, <3>1, SavingEnds
  <2> QED
    BY <2>2, <2>3
<1>3. CASE PutAnswer(t)
  BY <1>3, SavingEnds DEF PutAnswer
<1>4. CASE SaveFails(t)
  BY <1>4, SavingEnds DEF SaveFails
<1> QED
  BY <1>1, <1>2, <1>3, <1>4
-----------------------------------------------------------------------------
(* Requests to stop                                                        *)

\* The request x becomes w, before it records anything; it may take the lock.
LEMMA StopBecomes ==
  ASSUME Inv, NEW x \in Stoppers,
         NEW w \in [pc : {"idle", "wait", "lock", "put"}, of : Turns \cup {Nobody}],
         stop' = [stop EXCEPT ![x] = w], UNCHANGED <<kind, turn, conv, gone, relays>>,
         w.pc # "idle" =>
           /\ w.of \in Turns /\ kind[w.of] = "delib" /\ "run" \in turn[w.of].got
           /\ w.pc \in {"lock", "put"} => w.of \notin relays,
         \/ lock' = lock /\ w.pc # "put"
         \/ /\ w.of \in Turns /\ lock[<<"delib", w.of>>] = Nobody
            /\ lock' = [lock EXCEPT ![<<"delib", w.of>>] = x]
  PROVE  Inv'
<1>1. Types
  BY DEF Inv
<1>2. /\ stop' \in [Stoppers -> [pc : {"idle", "wait", "lock", "put"}, of : Turns \cup {Nobody}]]
      /\ stop'[x] = w /\ \A y \in Stoppers \ {x} : stop'[y] = stop[y]
  BY <1>1 DEF Types
<1>3. /\ lock' \in [Keys -> Turns \cup Stoppers \cup {Nobody}]
      /\ \A k \in Keys : lock[k] # Nobody => lock'[k] = lock[k]
      /\ w.pc = "put" => lock'[<<"delib", w.of>>] = x
  <2>1. w.of \in Turns => <<"delib", w.of>> \in Keys
    BY DEF Keys
  <2> QED
    BY <1>1, <2>1 DEF Types
<1>4. Types'
  BY <1>1, <1>2, <1>3 DEF Types
<1>5. TurnsFit' /\ AnswersAreOfDone' /\ PutsAreNew' /\ AnswersAreSaidOnce'
  BY DEF Inv, TurnsFit, AnswersAreOfDone, PutsAreNew, Answered, Messages, AnswersAreSaidOnce
<1>6. SaversHoldLocks'
  <2> SUFFICES ASSUME NEW r \in Turns, turn[r].pump \in {"look", "put"},
                      Locked(kind[r], turn[r].got)
               PROVE  lock'[Key(r)] = r
    BY DEF SaversHoldLocks, Key
  <2>1. lock[Key(r)] = r /\ Key(r) \in Keys
    BY DEF Inv, SaversHoldLocks, Key, Keys
  <2> QED
    BY <1>3, <2>1, RelayAssumption
<1>7. StopsAreOfDeliberations'
  <2> SUFFICES ASSUME NEW y \in Stoppers, stop'[y].pc # "idle"
               PROVE  /\ stop'[y].of \in Turns /\ kind[stop'[y].of] = "delib"
                      /\ "run" \in turn[stop'[y].of].got
                      /\ stop'[y].pc \in {"lock", "put"} => stop'[y].of \notin relays
                      /\ stop'[y].pc = "put" => lock'[<<"delib", stop'[y].of>>] = y
    BY DEF StopsAreOfDeliberations
  <2>1. CASE y = x
    BY <1>2, <1>3, <2>1
  <2>2. CASE y # x
    <3>1. stop'[y] = stop[y]
      BY <1>2, <2>2
    <3>2. /\ stop[y].of \in Turns /\ kind[stop[y].of] = "delib" /\ "run" \in turn[stop[y].of].got
          /\ stop[y].pc \in {"lock", "put"} => stop[y].of \notin relays
          /\ stop[y].pc = "put" => lock[<<"delib", stop[y].of>>] = y
      BY <3>1 DEF Inv, StopsAreOfDeliberations
    <3>3. <<"delib", stop[y].of>> \in Keys
      BY <3>2 DEF Keys
    <3>4. y # Nobody
      BY RelayAssumption
    <3> QED
      BY <1>3, <3>1, <3>2, <3>3, <3>4
  <2> QED
    BY <2>1, <2>2
<1> QED
  BY <1>4, <1>5, <1>6, <1>7 DEF Inv

LEMMA Asking ==
  ASSUME Inv, NEW x \in Stoppers,
         (\E t \in Turns : AskStop(x, t)) \/ StopUnheard(x) \/ StopHeard(x) \/ StopLock(x)
  PROVE  Inv'
<1> DEFINE S == [pc : {"idle", "wait", "lock", "put"}, of : Turns \cup {Nobody}]
<1>1. stop \in [Stoppers -> S] /\ stop[x] \in S
  BY DEF Inv, Types
<1>2. stop[x].pc # "idle" =>
        /\ stop[x].of \in Turns /\ kind[stop[x].of] = "delib"
        /\ "run" \in turn[stop[x].of].got
        /\ stop[x].pc \in {"lock", "put"} => stop[x].of \notin relays
  BY DEF Inv, StopsAreOfDeliberations
<1>3. ASSUME NEW t \in Turns, AskStop(x, t) PROVE Inv'
  <2> DEFINE w == [pc |-> "wait", of |-> t]
  <2>1. w \in S /\ w.pc = "wait" /\ w.of = t
    OBVIOUS
  <2>2. /\ stop' = [stop EXCEPT ![x] = w] /\ UNCHANGED <<kind, turn, conv, gone, relays, lock>>
        /\ kind[t] = "delib" /\ "run" \in turn[t].got
    BY <1>3 DEF AskStop
  <2> HIDE DEF w
  <2> QED
    BY <2>1, <2>2, StopBecomes
<1>4. CASE StopUnheard(x)
  <2> DEFINE w == [stop[x] EXCEPT !.pc = "idle"]
  <2>1. w \in S /\ w.pc = "idle"
    BY <1>1
  <2>2. stop' = [stop EXCEPT ![x] = w] /\ UNCHANGED <<kind, turn, conv, gone, relays, lock>>
    BY <1>1, <1>4 DEF StopUnheard
  <2> HIDE DEF w
  <2> QED
    BY <2>1, <2>2, StopBecomes
<1>5. CASE StopHeard(x)
  <2>1. stop[x].pc = "wait" /\ UNCHANGED <<kind, turn, conv, gone, relays, lock>>
    BY <1>5 DEF StopHeard
  <2>2. CASE stop[x].of \in relays
    <3> DEFINE w == [stop[x] EXCEPT !.pc = "idle"]
    <3>1. w \in S /\ w.pc = "idle"
      BY <1>1
    <3>2. stop' = [stop EXCEPT ![x] = w]
      BY <1>1, <1>5, <2>2 DEF StopHeard
    <3> HIDE DEF w
    <3> QED
      BY <2>1, <3>1, <3>2, StopBecomes
  <2>3. CASE stop[x].of \notin relays
    <3> DEFINE w == [stop[x] EXCEPT !.pc = "lock"]
    <3>1. w \in S /\ w.pc = "lock" /\ w.of = stop[x].of
      BY <1>1
    <3>2. stop' = [stop EXCEPT ![x] = w]
      BY <1>1, <1>5, <2>3 DEF StopHeard
    <3> HIDE DEF w
    <3> QED
      BY <1>2, <2>1, <2>3, <3>1, <3>2, StopBecomes
  <2> QED
    BY <2>2, <2>3
<1>6. CASE StopLock(x)
  <2> DEFINE w == [stop[x] EXCEPT !.pc = "put"]
  <2>1. w \in S /\ w.pc = "put" /\ w.of = stop[x].of
    BY <1>1
  <2>2. /\ stop' = [stop EXCEPT ![x] = w] /\ UNCHANGED <<kind, turn, conv, gone, relays>>
        /\ stop[x].pc = "lock" /\ lock[<<"delib", stop[x].of>>] = Nobody
        /\ lock' = [lock EXCEPT ![<<"delib", stop[x].of>>] = x]
    BY <1>1, <1>6 DEF StopLock
  <2> HIDE DEF w
  <2> QED
    BY <1>2, <2>1, <2>2, StopBecomes
<1> QED
  BY <1>3, <1>4, <1>5, <1>6

\* Whoever records a stop under the lock finds the relay through, and so all it said.
LEMMA Recording == ASSUME Inv, NEW x \in Stoppers, StopPut(x) PROVE Inv'
<1> DEFINE S == [pc : {"idle", "wait", "lock", "put"}, of : Turns \cup {Nobody}]
           t == stop[x].of
<1>1. Types /\ stop[x] \in S
  BY DEF Inv, Types
<1>2. /\ stop[x].pc = "put" /\ UNCHANGED <<kind, turn, gone, relays>>
      /\ conv' = conv \/ (~ StopSaid(t) /\ Put(StopNote(t)))
      /\ stop' = [stop EXCEPT ![x].pc = "idle"]
      /\ lock' = [k \in Keys |-> IF lock[k] = x THEN Nobody ELSE lock[k]]
  BY DEF StopPut
<1>3. /\ t \in Turns /\ kind[t] = "delib" /\ "run" \in turn[t].got /\ t \notin relays
      /\ lock[<<"delib", t>>] = x
  BY <1>2 DEF Inv, StopsAreOfDeliberations
<1>4. turn[t].pump = "done"
  <2>1. turn[t].pump \in {"look", "put", "done"}
    BY <1>3 DEF Inv, TurnsFit, Fits
  <2>2. turn[t].pump \in {"look", "put"} => lock[<<"delib", t>>] = t
    BY <1>3 DEF Inv, SaversHoldLocks, Locked, Key
  <2> QED
    BY <1>3, <2>1, <2>2, RelayAssumption
<1> DEFINE w == [stop[x] EXCEPT !.pc = "idle"]
<1>5. w \in S /\ w.pc = "idle" /\ stop' = [stop EXCEPT ![x] = w]
  BY <1>1, <1>2 DEF Types
<1> HIDE DEF w
<1>6. /\ stop' \in [Stoppers -> S] /\ stop'[x].pc = "idle"
      /\ \A y \in Stoppers \ {x} : stop'[y] = stop[y]
  BY <1>1, <1>5 DEF Types
<1>7. /\ lock' \in [Keys -> Turns \cup Stoppers \cup {Nobody}]
      /\ \A k \in Keys : lock[k] # x => lock'[k] = lock[k]
  BY <1>1, <1>2 DEF Types
<1>8. /\ conv' \in Seq(Entry)
      /\ \A i \in DOMAIN conv : i \in DOMAIN conv' /\ conv'[i] = conv[i] /\ i <= Len(conv)
      /\ \A i \in DOMAIN conv' :
           i \in DOMAIN conv \/ (i = Len(conv) + 1 /\ ~ StopSaid(t) /\ conv'[i] = StopNote(t))
  <2>1. \A i \in DOMAIN conv : i <= Len(conv)
    BY <1>1 DEF Types
  <2>2. CASE conv' = conv
    BY <1>1, <2>1, <2>2 DEF Types
  <2>3. CASE ~ StopSaid(t) /\ Put(StopNote(t))
    BY <1>1, <1>3, <2>1, <2>3, MessageType, PutLast DEF Types
  <2> QED
    BY <1>2, <2>2, <2>3
<1>9. /\ StopNote(t).role = "assistant" /\ StopNote(t).of = t /\ StopNote(t).stop
      /\ StopNote(t).end = FALSE
  BY DEF StopNote
<1>10. Types'
  BY <1>1, <1>2, <1>6, <1>7, <1>8 DEF Types
<1>11. TurnsFit'
  BY <1>2 DEF Inv, TurnsFit
<1>12. SaversHoldLocks'
  <2> SUFFICES ASSUME NEW r \in Turns, turn[r].pump \in {"look", "put"},
                      Locked(kind[r], turn[r].got)
               PROVE  lock'[Key(r)] = r
    BY <1>2 DEF SaversHoldLocks, Key
  <2>1. lock[Key(r)] = r /\ Key(r) \in Keys
    BY DEF Inv, SaversHoldLocks, Key, Keys
  <2> QED
    BY <1>7, <2>1, RelayAssumption
<1>13. StopsAreOfDeliberations'
  <2> SUFFICES ASSUME NEW y \in Stoppers, stop'[y].pc # "idle"
               PROVE  /\ stop'[y].of \in Turns /\ kind[stop'[y].of] = "delib"
                      /\ "run" \in turn[stop'[y].of].got
                      /\ stop'[y].pc \in {"lock", "put"} => stop'[y].of \notin relays
                      /\ stop'[y].pc = "put" => lock'[<<"delib", stop'[y].of>>] = y
    BY <1>2 DEF StopsAreOfDeliberations
  <2>1. y # x /\ stop'[y] = stop[y]
    BY <1>6
  <2>2. /\ stop[y].of \in Turns /\ kind[stop[y].of] = "delib" /\ "run" \in turn[stop[y].of].got
        /\ stop[y].pc \in {"lock", "put"} => stop[y].of \notin relays
        /\ stop[y].pc = "put" => lock[<<"delib", stop[y].of>>] = y
    BY <2>1 DEF Inv, StopsAreOfDeliberations
  <2>3. <<"delib", stop[y].of>> \in Keys
    BY <2>2 DEF Keys
  <2> QED
    BY <1>7, <2>1, <2>2, <2>3
<1>14. AnswersAreOfDone'
  <2> SUFFICES ASSUME NEW i \in DOMAIN conv', conv'[i].role = "assistant"
               PROVE  /\ conv'[i].of \in Turns /\ turn[conv'[i].of].pump = "done"
                      /\ conv'[i].end => kind[conv'[i].of] = "routine"
    BY <1>2 DEF AnswersAreOfDone
  <2>1. CASE i \in DOMAIN conv
    BY <1>8, <2>1 DEF Inv, AnswersAreOfDone
  <2>2. CASE conv'[i] = StopNote(t)
    BY <1>3, <1>4, <1>9, <2>2
  <2> QED
    BY <1>8, <2>1, <2>2
<1>15. PutsAreNew'
  <2> SUFFICES ASSUME NEW r \in Turns, turn[r].pump = "put", Answered(r)' PROVE FALSE
    BY <1>2 DEF PutsAreNew
  <2>1. ~ Answered(r)
    BY DEF Inv, PutsAreNew
  <2>2. kind[r] = "routine" /\ "end" \in turn[r].got
    BY <1>2 DEF Answered
  <2>3. PICK i \in DOMAIN conv' :
          /\ conv'[i].role = "assistant" /\ conv'[i].end /\ RunOf[conv'[i].of] = RunOf[r]
          /\ conv'[i].text = ("text" \in turn[r].got)
    BY <1>2 DEF Answered, Messages
  <2>4. i \in DOMAIN conv
    BY <1>8, <1>9, <2>3
  <2> QED
    BY <1>8, <2>1, <2>2, <2>3, <2>4 DEF Answered, Messages
<1>16. AnswersAreSaidOnce'
  <2> SUFFICES ASSUME NEW i \in DOMAIN conv', NEW j \in DOMAIN conv', i < j,
                      conv'[i].role = "assistant", conv'[j].role = "assistant"
               PROVE  /\ ~ (conv'[i].stop /\ conv'[j].stop /\ conv'[i].of = conv'[j].of)
                      /\ ~ (conv'[i].end /\ conv'[j].end /\ RunOf[conv'[i].of] = RunOf[conv'[j].of]
                            /\ conv'[i].text = conv'[j].text)
    BY DEF AnswersAreSaidOnce
  <2>1. Len(conv) \in Nat /\ i \in Nat /\ j \in Nat
    BY <1>1, <1>8 DEF Types
  <2>2. CASE j \in DOMAIN conv
    <3>1. i \in DOMAIN conv
      BY <1>8, <2>1, <2>2
    <3> QED
      BY <1>8, <2>2, <3>1 DEF Inv, AnswersAreSaidOnce
  <2>3. CASE j \notin DOMAIN conv
    <3>1. ~ StopSaid(t) /\ conv'[j] = StopNote(t) /\ j = Len(conv) + 1
      BY <1>8, <2>3
    <3>2. i \in DOMAIN conv /\ conv'[i] = conv[i]
      BY <1>8, <2>1, <3>1
    <3>3. ~ (conv[i].stop /\ conv[i].of = t)
      BY <3>1, <3>2 DEF StopSaid, Messages
    <3> QED
      BY <1>9, <3>1, <3>2, <3>3
  <2> QED
    BY <2>2, <2>3
<1> QED
  BY <1>10, <1>11, <1>12, <1>13, <1>14, <1>15, <1>16 DEF Inv

\* With the conversation all its messages go.
LEMMA Deleting == ASSUME Inv, Delete PROVE Inv'
<1>1. conv' = <<>> /\ gone' = TRUE /\ UNCHANGED <<kind, turn, relays, lock, stop>>
  BY DEF Delete
<1>2. conv' \in Seq(Entry) /\ DOMAIN conv' = {}
  BY <1>1
<1>3. Types'
  BY <1>1, <1>2 DEF Inv, Types
<1>4. TurnsFit' /\ SaversHoldLocks' /\ StopsAreOfDeliberations'
  BY <1>1 DEF Inv, TurnsFit, SaversHoldLocks, StopsAreOfDeliberations, Key
<1>5. AnswersAreOfDone' /\ PutsAreNew' /\ AnswersAreSaidOnce'
  BY <1>2 DEF AnswersAreOfDone, PutsAreNew, Answered, Messages, AnswersAreSaidOnce
<1> QED
  BY <1>3, <1>4, <1>5 DEF Inv
-----------------------------------------------------------------------------
(* All steps                                                               *)

LEMMA InitInv == Init => Inv
<1> SUFFICES ASSUME Init PROVE Inv
  OBVIOUS
<1> DEFINE u == [resp |-> "idle", pump |-> "none", held |-> FALSE, counted |-> FALSE,
                 keep |-> FALSE, detached |-> FALSE, room |-> FALSE, box |-> 0, got |-> {}]
<1>1. /\ u \in TurnStates /\ u.resp = "idle" /\ u.pump = "none" /\ ~ u.held /\ ~ u.counted
      /\ u.got = {}
  BY RelayAssumption DEF TurnStates, Frames
<1>2. turn = [t \in Turns |-> u]
  BY DEF Init
<1> HIDE DEF u
<1>3. \A t \in Turns : turn[t] = u
  BY <1>2
<1>4. kind \in [Turns -> Kinds] /\ conv = <<>> /\ relays = {} /\ gone = FALSE
  BY RelayAssumption DEF Init
<1>5. conv \in Seq(Entry) /\ DOMAIN conv = {}
  BY <1>4
<1>6. lock = [k \in Keys |-> Nobody] /\ stop = [x \in Stoppers |-> [pc |-> "idle", of |-> Nobody]]
  BY DEF Init
<1>7. Types
  BY <1>1, <1>2, <1>4, <1>5, <1>6 DEF Types
<1>8. TurnsFit
  BY <1>1, <1>3, <1>4 DEF TurnsFit, Fits
<1>9. SaversHoldLocks /\ PutsAreNew
  BY <1>1, <1>3 DEF SaversHoldLocks, PutsAreNew
<1>10. StopsAreOfDeliberations
  BY <1>6 DEF StopsAreOfDeliberations
<1>11. AnswersAreOfDone /\ AnswersAreSaidOnce
  BY <1>5 DEF AnswersAreOfDone, AnswersAreSaidOnce
<1> QED
  BY <1>7, <1>8, <1>9, <1>10, <1>11 DEF Inv

LEMMA NextInv == Inv /\ [Next]_vars => Inv'
<1> SUFFICES ASSUME Inv, [Next]_vars PROVE Inv'
  OBVIOUS
<1>1. CASE UNCHANGED vars
  BY <1>1 DEF vars, Inv, Types, TurnsFit, SaversHoldLocks, Key, StopsAreOfDeliberations,
              AnswersAreOfDone, PutsAreNew, Answered, Messages, AnswersAreSaidOnce
<1>2. CASE Delete
  BY <1>2, Deleting
<1>3. ASSUME NEW t \in Turns, Turn(t) PROVE Inv'
  BY <1>3, Beginnings, Readings, Leavings, Receiving, Saving DEF Turn, Pump
<1>4. ASSUME NEW x \in Stoppers, Stop(x) PROVE Inv'
  BY <1>4, Asking, Recording DEF Stop
<1> QED
  BY <1>1, <1>2, <1>3, <1>4 DEF Next

LEMMA AlwaysInv == Spec => []Inv
BY InitInv, NextInv, PTL DEF Spec

LEMMA PermitsFit == Inv => PermitsMatchReaders
<1> SUFFICES ASSUME Inv, NEW t \in Turns
             PROVE  /\ Over(t) => ~ turn[t].held /\ ~ turn[t].counted
                    /\ turn[t].pump \in {"read", "room"} => turn[t].held
  BY DEF PermitsMatchReaders
<1>1. Fits(kind[t], turn[t], t \in relays)
  BY DEF Inv, TurnsFit
<1> QED
  BY <1>1 DEF Fits, Over

\* Whatever fails and whoever leaves, the chats that read the agent server hold a permit each,
\* and a turn that is over holds none and is not counted (_release, turn_end, _on_close).
THEOREM PermitsAreGivenBack == Spec => []PermitsMatchReaders
BY PermitsFit, AlwaysInv, PTL

\* However many turns follow one run to its end, and however a relay and requests to stop
\* interleave, no report and no stop is recorded twice (_routine_save_lock).
THEOREM AnswersAreWrittenOnce == Spec => []AnswersAreSaidOnce
<1>1. Inv => AnswersAreSaidOnce
  BY DEF Inv
<1> QED
  BY <1>1, AlwaysInv, PTL

\* What else the tasks keep.
Rest ==
  /\ kind \in Mixes /\ by \subseteq Turns /\ stopped \subseteq Turns
  /\ unheard \subseteq Turns /\ lost \subseteq Turns /\ fails \in 0 .. MaxFails

LEMMA RestInv == Inv /\ Rest /\ [Next]_vars => Rest'
<1> SUFFICES ASSUME Inv, Rest, [Next]_vars PROVE Rest'
  OBVIOUS
<1>1. StoreFails => fails' \in 0 .. MaxFails
  BY RelayAssumption DEF StoreFails, Rest
<1>2. CASE UNCHANGED vars \/ Delete
  BY <1>2 DEF vars, Delete, Rest
<1>3. ASSUME NEW t \in Turns, Turn(t) PROVE Rest'
  <2>1. CASE \/ Begin(t) \/ CheckOwner(t) \/ StoreQuestion(t) \/ QuestionStored(t) \/ Start(t)
             \/ Read(t) \/ ReadEnd(t) \/ Respond(t) \/ LeaveUnstarted(t) \/ Leave(t)
             \/ Resume(t) \/ StreamEnds(t) \/ Close(t)
    <3>1. Others
      BY <2>1 DEF Begin, CheckOwner, StoreQuestion, QuestionStored, Start, Read, ReadEnd, Respond,
                  LeaveUnstarted, Leave, Resume, StreamEnds, Close
    <3> QED
      BY <3>1 DEF Others, Rest
  <2>2. CASE Fail(t) \/ SaveFails(t)
    <3>1. /\ UNCHANGED <<kind, by, stopped, unheard>> /\ StoreFails
          /\ lost' = lost \/ lost' = lost \cup {t}
      BY <2>2 DEF Fail, SaveFails
    <3> QED
      BY <1>1, <3>1 DEF Rest
  <2>3. CASE Receive(t) \/ TakeLock(t) \/ Look(t) \/ PutAnswer(t)
    <3>1. UNCHANGED <<kind, by, stopped, unheard, lost, fails>>
      BY <2>3 DEF Receive, TakeLock, Look, PutAnswer
    <3> QED
      BY <3>1 DEF Rest
  <2> QED
    BY <1>3, <2>1, <2>2, <2>3 DEF Turn, Pump
<1>4. ASSUME NEW x \in Stoppers, Stop(x) PROVE Rest'
  <2>1. stop[x].pc # "idle" => stop[x].of \in Turns
    BY DEF Inv, StopsAreOfDeliberations
  <2>2. ASSUME NEW t \in Turns, AskStop(x, t) PROVE Rest'
    BY <2>2 DEF AskStop, Rest
  <2>3. CASE StopUnheard(x)
    BY <2>1, <2>3 DEF StopUnheard, Rest
  <2>4. CASE StopHeard(x)
    BY <2>1, <2>4 DEF StopHeard, Rest
  <2>5. CASE StopLock(x)
    BY <2>5 DEF StopLock, Rest
  <2>6. CASE StopPut(x)
    <3>1. /\ UNCHANGED <<kind, by, stopped, unheard>> /\ stop[x].of \in Turns
          /\ \/ UNCHANGED <<lost, fails>>
             \/ StoreFails /\ lost' = lost \cup {stop[x].of}
      BY <2>1, <2>6 DEF StopPut
    <3> QED
      BY <1>1, <3>1 DEF Rest
  <2> QED
    BY <1>4, <2>2, <2>3, <2>4, <2>5, <2>6 DEF Stop
<1> QED
  BY <1>2, <1>3, <1>4 DEF Next
-----------------------------------------------------------------------------
(* What was received is kept, what was stopped is told                     *)

\* A turn that keeps nothing has nothing to answer with; a relay in the table is that of a
\* deliberation that has yet to take its lock.
RelaysAreBeforeTheirLocks ==
  \A t \in Turns :
    /\ ~ turn[t].keep => turn[t].got = {}
    /\ t \in relays => /\ kind[t] = "delib" /\ "run" \in turn[t].got
                       /\ turn[t].pump \in {"read", "room", "close", "lock"}

\* A stop of t is under way, asked of its relay, about to be saved with its answer, or there.
StopInHand(t) ==
  \/ \E x \in Stoppers : stop[x].of = t /\ stop[x].pc # "idle"
  \/ t \in by \cap relays
  \/ "stopped" \in turn[t].got /\ turn[t].pump \in {"look", "put"}
  \/ StopSaid(t)

StopsAreInHand ==
  \A t \in Turns : t \in stopped =>
    /\ kind[t] = "delib"
    /\ t \notin lost /\ t \notin unheard /\ ~ gone => StopInHand(t)

\* Only an answer says that something was stopped, and utterances come before it.
StopsComeLast ==
  /\ \A i \in DOMAIN conv : conv[i].stop => conv[i].role = "assistant"
  /\ \A i, j \in DOMAIN conv :
       (i < j /\ conv[i].stop /\ conv[i].of = conv[j].of) => conv[j].role # "persona"

LEMMA MessagesGrow ==
  ASSUME conv \in Seq(Entry), NEW m \in Message, Put(m)
  PROVE  Messages \subseteq Messages' /\ (gone \/ m \in Messages')
<1>1. CASE conv' = conv
  BY <1>1 DEF Put, Messages
<1>2. CASE /\ DOMAIN conv' = DOMAIN conv \cup {Len(conv) + 1}
           /\ conv'[Len(conv) + 1] = m
           /\ \A i \in DOMAIN conv : conv'[i] = conv[i] /\ i <= Len(conv)
  BY <1>2 DEF Messages
<1>3. conv' = conv => gone
  <2>1. CASE ~ gone
    <3>1. conv' = Append(conv, m)
      BY <2>1 DEF Put
    <3>2. Len(conv') # Len(conv)
      BY <3>1
    <3> QED
      BY <3>2
  <2> QED
    BY <2>1
<1> QED
  BY <1>1, <1>2, <1>3, PutLast

\* A step of the turn t that receives and saves nothing.
Plain(t) ==
  /\ UNCHANGED <<kind, gone, relays, by, stop, stopped, unheard, lost>>
  /\ conv' = conv \/ Put(Said("user", t))
  /\ \A u \in Turns \ {t} : turn'[u] = turn[u]
  /\ turn'[t].got = turn[t].got
  /\ turn'[t].keep = turn[t].keep \/ turn[t].got = {}
  /\ \/ turn'[t].pump = turn[t].pump
     \/ turn[t].pump \in {"none", "read", "room"} /\ turn'[t].pump \in {"read", "close"}

LEMMA PlainSteps ==
  ASSUME Inv, NEW t \in Turns,
         \/ Begin(t) \/ CheckOwner(t) \/ Fail(t) \/ StoreQuestion(t) \/ QuestionStored(t)
         \/ Start(t) \/ Read(t) \/ ReadEnd(t) \/ Respond(t) \/ LeaveUnstarted(t) \/ Leave(t)
         \/ Resume(t) \/ StreamEnds(t)
  PROVE  Plain(t)
<1>1. turn \in [Turns -> TurnStates] /\ turn[t] \in TurnStates /\ Fits(kind[t], turn[t], t \in relays)
  BY DEF Inv, Types, TurnsFit
<1>2. CASE Begin(t) \/ CheckOwner(t) \/ Fail(t)
  <2>1. CASE Begin(t)
    BY <1>1, <2>1 DEF Begin, Others, Plain, TurnStates
  <2>2. CASE CheckOwner(t)
    BY <1>1, <2>2 DEF CheckOwner, Others, Plain, TurnStates
  <2>3. CASE Fail(t)
    BY <1>1, <2>3 DEF Fail, Plain, TurnStates
  <2> QED
    BY <1>2, <2>1, <2>2, <2>3
<1>3. CASE StoreQuestion(t)
  <2>1. turn[t].got = {}
    BY <1>1, <1>3 DEF StoreQuestion, Fits
  <2> QED
    BY <1>1, <1>3, <2>1 DEF StoreQuestion, Others, Plain, TurnStates
<1>4. CASE QuestionStored(t)
  BY <1>1, <1>4 DEF QuestionStored, Others, Plain, TurnStates
<1>5. CASE Start(t)
  BY <1>1, <1>5 DEF Start, Others, Plain, TurnStates, Fits
<1>6. CASE Read(t) \/ ReadEnd(t)
  <2>1. CASE Read(t)
    BY <1>1, <2>1 DEF Read, Others, Plain, TurnStates
  <2>2. CASE ReadEnd(t)
    BY <1>1, <2>2 DEF ReadEnd, Others, Plain, TurnStates
  <2> QED
    BY <1>6, <2>1, <2>2
<1>7. CASE Respond(t) \/ LeaveUnstarted(t)
  <2>1. CASE Respond(t)
    BY <1>1, <2>1 DEF Respond, Others, Plain, TurnStates
  <2>2. CASE LeaveUnstarted(t)
    BY <1>1, <2>2 DEF LeaveUnstarted, Others, Plain, TurnStates
  <2> QED
    BY <1>7, <2>1, <2>2
<1>8. CASE Leave(t)
  <2>1. UNCHANGED <<kind, gone, relays, by, stop, stopped, unheard, lost, conv>>
    BY <1>8 DEF Leave, Others
  <2>2. PICK after \in {Detach(t), Cut(t)} : turn' \in {after, [after EXCEPT ![t].held = FALSE]}
    BY <1>8 DEF Leave
  <2>3. /\ \A u \in Turns \ {t} : after[u] = turn[u]
        /\ after[t].got = turn[t].got /\ after[t].keep = turn[t].keep
        /\ \/ after[t].pump = turn[t].pump
           \/ turn[t].pump \in {"none", "read", "room"} /\ after[t].pump = "close"
        /\ after \in [Turns -> TurnStates]
    <3>1. CASE after = Detach(t)
      <4>1. 0 \in 0 .. Cap
        BY RelayAssumption
      <4> QED
        BY <1>1, <3>1, <4>1 DEF Detach, TurnStates
    <3>2. CASE after = Cut(t)
      BY <1>1, <3>2 DEF Cut, Finishing, TurnStates
    <3> QED
      BY <2>2, <3>1, <3>2
  <2>4. /\ \A u \in Turns \ {t} : turn'[u] = after[u]
        /\ turn'[t].got = after[t].got /\ turn'[t].keep = after[t].keep
        /\ turn'[t].pump = after[t].pump
    BY <2>2, <2>3 DEF TurnStates
  <2> QED
    BY <2>1, <2>3, <2>4 DEF Plain
<1>9. CASE Resume(t)
  BY <1>1, <1>9 DEF Resume, Others, Plain, TurnStates
<1>10. CASE StreamEnds(t)
  BY <1>1, <1>10 DEF StreamEnds, Others, Plain, TurnStates
<1> QED
  BY <1>2, <1>3, <1>4, <1>5, <1>6, <1>7, <1>8, <1>9, <1>10

\* Only the deletion takes anything from the conversation; what is lost stays lost.
LEMMA NothingIsTakenBack ==
  ASSUME Inv, [Next]_vars
  PROVE  /\ kind' = kind /\ lost \subseteq lost' /\ (gone => gone')
         /\ gone' \/ Messages \subseteq Messages'
<1>1. Types
  BY DEF Inv
<1>2. conv' = conv => Messages' = Messages
  BY DEF Messages
<1>3. ASSUME NEW t \in Turns, Turn(t)
      PROVE  /\ UNCHANGED <<kind, gone>> /\ lost \subseteq lost'
             /\ Messages \subseteq Messages'
  <2>1. Said("user", t) \in Message /\ Said("persona", t) \in Message /\ Answer(t) \in Message
    BY MessageType
  <2>2. CASE Plain(t)
    BY <1>1, <1>2, <2>1, <2>2, MessagesGrow DEF Plain, Types
  <2>3. CASE Receive(t) \/ Close(t) \/ TakeLock(t) \/ SaveFails(t)
    BY <1>2, <2>3 DEF Receive, Close, Others, TakeLock, SaveFails
  <2>4. CASE Look(t) \/ PutAnswer(t)
    <3>1. conv' = conv \/ Put(Said("persona", t)) \/ Put(Answer(t))
      BY <2>4 DEF Look, PutAnswer
    <3>2. Messages \subseteq Messages'
      BY <1>1, <1>2, <2>1, <3>1, MessagesGrow DEF Types
    <3> QED
      BY <2>4, <3>2 DEF Look, PutAnswer
  <2> QED
    BY <1>3, <2>2, <2>3, <2>4, PlainSteps DEF Turn, Pump
<1>4. ASSUME NEW x \in Stoppers, Stop(x)
      PROVE  /\ UNCHANGED <<kind, gone>> /\ lost \subseteq lost'
             /\ Messages \subseteq Messages'
  <2>1. CASE StopPut(x)
    <3>1. conv' = conv \/ (stop[x].pc = "put" /\ Put(StopNote(stop[x].of)))
      BY <2>1 DEF StopPut
    <3>2. stop[x].pc = "put" => StopNote(stop[x].of) \in Message
      BY MessageType DEF Inv, StopsAreOfDeliberations
    <3>3. Messages \subseteq Messages'
      BY <1>1, <1>2, <3>1, <3>2, MessagesGrow DEF Types
    <3> QED
      BY <2>1, <3>3 DEF StopPut
  <2>2. CASE (\E t \in Turns : AskStop(x, t)) \/ StopUnheard(x) \/ StopHeard(x) \/ StopLock(x)
    BY <1>2, <2>2 DEF AskStop, StopUnheard, StopHeard, StopLock
  <2> QED
    BY <1>4, <2>1, <2>2 DEF Stop
<1>5. CASE Delete
  BY <1>5 DEF Delete
<1>6. CASE UNCHANGED vars
  BY <1>2, <1>6 DEF vars
<1> QED
  BY <1>3, <1>4, <1>5, <1>6 DEF Next

\* What a pump that closes, locks, looks and saves becomes.
LEMMA PumpSteps ==
  ASSUME Inv, NEW t \in Turns, Close(t) \/ TakeLock(t) \/ Look(t) \/ PutAnswer(t) \/ SaveFails(t)
  PROVE  /\ \A u \in Turns \ {t} : turn'[u] = turn[u]
         /\ turn'[t].keep = turn[t].keep
         /\ ~ TakeLock(t) => turn'[t].got = turn[t].got
         /\ Close(t) => turn'[t].pump = IF ~ turn[t].keep THEN "done"
                                        ELSE IF NeedsKey(t) THEN "lock" ELSE "look"
         /\ TakeLock(t) =>
              /\ turn'[t].pump = "look"
              /\ turn'[t].got = IF t \in relays \cap by THEN turn[t].got \cup {"stopped"}
                                ELSE turn[t].got
         /\ Look(t) => turn'[t].pump = IF HasReply(t) /\ ~ Answered(t) THEN "put" ELSE "done"
         /\ PutAnswer(t) \/ SaveFails(t) => turn'[t].pump = "done"
<1>1. turn \in [Turns -> TurnStates] /\ turn[t] \in TurnStates
  BY DEF Inv, Types
<1>2. EndPump(t) => /\ \A u \in Turns \ {t} : turn'[u] = turn[u]
                    /\ turn'[t].keep = turn[t].keep /\ turn'[t].got = turn[t].got
                    /\ turn'[t].pump = "done"
  BY <1>1 DEF EndPump, TurnStates
<1>3. CASE Close(t)
  <2>1. turn[t].pump = "close"
    BY <1>3 DEF Close
  <2>2. ~ (TakeLock(t) \/ Look(t) \/ PutAnswer(t) \/ SaveFails(t))
    BY <2>1 DEF TakeLock, Look, PutAnswer, SaveFails
  <2> DEFINE p == IF ~ turn[t].keep THEN "done" ELSE IF NeedsKey(t) THEN "lock" ELSE "look"
  <2>3. turn' = [turn EXCEPT ![t].held = FALSE, ![t].pump = p]
    BY <1>3 DEF Close
  <2> HIDE DEF p
  <2>4. /\ \A u \in Turns \ {t} : turn'[u] = turn[u]
        /\ turn'[t].keep = turn[t].keep /\ turn'[t].got = turn[t].got /\ turn'[t].pump = p
    BY <1>1, <2>3 DEF TurnStates
  <2> QED
    BY <2>2, <2>4 DEF p
<1>4. CASE TakeLock(t)
  <2>1. turn[t].pump = "lock"
    BY <1>4 DEF TakeLock
  <2>2. ~ (Close(t) \/ Look(t) \/ PutAnswer(t) \/ SaveFails(t))
    BY <2>1 DEF Close, Look, PutAnswer, SaveFails
  <2> DEFINE g == IF t \in relays \cap by THEN turn[t].got \cup {"stopped"} ELSE turn[t].got
  <2>3. turn' = [turn EXCEPT ![t].pump = "look", ![t].got = g]
    BY <1>4 DEF TakeLock
  <2> HIDE DEF g
  <2>4. /\ \A u \in Turns \ {t} : turn'[u] = turn[u]
        /\ turn'[t].keep = turn[t].keep /\ turn'[t].got = g /\ turn'[t].pump = "look"
    BY <1>1, <2>3 DEF TurnStates
  <2> QED
    BY <1>4, <2>2, <2>4 DEF g
<1>5. CASE Look(t)
  <2>1. turn[t].pump = "look"
    BY <1>5 DEF Look
  <2>2. ~ (Close(t) \/ TakeLock(t) \/ PutAnswer(t))
    BY <2>1 DEF Close, TakeLock, PutAnswer
  <2>3. CASE HasReply(t) /\ ~ Answered(t)
    <3>1. turn' = [turn EXCEPT ![t].pump = "put"]
      BY <1>5, <2>3 DEF Look
    <3>2. /\ \A u \in Turns \ {t} : turn'[u] = turn[u]
          /\ turn'[t].keep = turn[t].keep /\ turn'[t].got = turn[t].got /\ turn'[t].pump = "put"
      BY <1>1, <3>1 DEF TurnStates
    <3>3. ~ SaveFails(t)
      BY <1>2, <3>2 DEF SaveFails
    <3> QED
      BY <2>2, <2>3, <3>2, <3>3
  <2>4. CASE ~ (HasReply(t) /\ ~ Answered(t))
    <3>1. EndPump(t)
      BY <1>5, <2>4 DEF Look
    <3> QED
      BY <1>2, <2>2, <2>4, <3>1
  <2> QED
    BY <2>3, <2>4
<1>6. CASE PutAnswer(t)
  <2>1. turn[t].pump = "put" /\ EndPump(t)
    BY <1>6 DEF PutAnswer
  <2>2. ~ (Close(t) \/ TakeLock(t) \/ Look(t))
    BY <2>1 DEF Close, TakeLock, Look
  <2> QED
    BY <1>2, <2>1, <2>2
<1>7. CASE SaveFails(t) /\ ~ Look(t)
  <2>1. turn[t].pump \in {"look", "put"} /\ EndPump(t)
    BY <1>7 DEF SaveFails
  <2>2. ~ (Close(t) \/ TakeLock(t))
    BY <2>1 DEF Close, TakeLock
  <2> QED
    BY <1>2, <1>7, <2>1, <2>2
<1> QED
  BY <1>3, <1>4, <1>5, <1>6, <1>7

\* What a pump receives goes to what the turn keeps.
LEMMA ReceiveKeeps ==
  ASSUME Inv, NEW t \in Turns, Receive(t)
  PROVE  /\ UNCHANGED <<kind, conv, gone, by, stop, stopped, unheard, lost>>
         /\ \A u \in Turns \ {t} : turn'[u] = turn[u]
         /\ turn[t].pump = "read" /\ turn'[t].pump \in {"read", "room"}
         /\ turn'[t].keep = turn[t].keep /\ turn[t].got \subseteq turn'[t].got
         /\ ~ turn[t].keep => turn'[t].got = turn[t].got
         /\ relays \subseteq relays' /\ relays' \subseteq relays \cup {t}
         /\ t \in relays' \ relays => kind[t] = "delib" /\ turn[t].keep /\ "run" \in turn'[t].got
<1>1. turn \in [Turns -> TurnStates] /\ turn[t] \in TurnStates
  BY DEF Inv, Types
<1>2. PICK f \in Comes(t) :
        /\ turn' = [turn EXCEPT
             ![t].got = IF turn[t].keep THEN turn[t].got \cup {f} ELSE turn[t].got,
             ![t].pump = IF ~ turn[t].detached /\ turn[t].box = Cap THEN "room" ELSE "read",
             ![t].room = IF ~ turn[t].detached /\ turn[t].box = Cap THEN FALSE ELSE turn[t].room,
             ![t].box = IF turn[t].detached \/ turn[t].box = Cap THEN turn[t].box
                        ELSE turn[t].box + 1]
        /\ relays' = IF f = "run" /\ kind[t] = "delib" /\ turn[t].keep THEN relays \cup {t} ELSE relays
  BY DEF Receive
<1> DEFINE g == IF turn[t].keep THEN turn[t].got \cup {f} ELSE turn[t].got
           p == IF ~ turn[t].detached /\ turn[t].box = Cap THEN "room" ELSE "read"
           r == IF ~ turn[t].detached /\ turn[t].box = Cap THEN FALSE ELSE turn[t].room
           b == IF turn[t].detached \/ turn[t].box = Cap THEN turn[t].box ELSE turn[t].box + 1
<1>3. turn' = [turn EXCEPT ![t].got = g, ![t].pump = p, ![t].room = r, ![t].box = b]
  BY <1>2
<1>4. /\ turn[t].got \subseteq g /\ (~ turn[t].keep => g = turn[t].got) /\ p \in {"read", "room"}
      /\ turn[t].keep => f \in g
  OBVIOUS
<1> HIDE DEF g, p, r, b
<1>5. /\ \A u \in Turns \ {t} : turn'[u] = turn[u]
      /\ turn'[t].got = g /\ turn'[t].pump = p /\ turn'[t].keep = turn[t].keep
  BY <1>1, <1>3 DEF TurnStates
<1> QED
  BY <1>2, <1>4, <1>5 DEF Receive

LEMMA RelaysAreBeforeTheirLocksStep ==
  ASSUME Inv, RelaysAreBeforeTheirLocks, [Next]_vars
  PROVE  RelaysAreBeforeTheirLocks'
<1> DEFINE Good(u) == /\ ~ turn[u].keep => turn[u].got = {}
                      /\ u \in relays => /\ kind[u] = "delib" /\ "run" \in turn[u].got
                                         /\ turn[u].pump \in {"read", "room", "close", "lock"}
<1>1. \A u \in Turns : Good(u)
  BY DEF RelaysAreBeforeTheirLocks
<1>2. ASSUME NEW t \in Turns, Turn(t) PROVE RelaysAreBeforeTheirLocks'
  <2>1. ASSUME \A u \in Turns \ {t} : turn'[u] = turn[u] /\ (u \in relays' <=> u \in relays),
               Good(t)', kind' = kind
        PROVE  RelaysAreBeforeTheirLocks'
    BY <1>1, <2>1 DEF RelaysAreBeforeTheirLocks
  <2>2. CASE Plain(t)
    BY <1>1, <2>1, <2>2 DEF Plain
  <2>3. CASE Receive(t)
    BY <1>1, <2>1, <2>3, ReceiveKeeps
  <2>4. CASE Close(t)
    <3>1. UNCHANGED <<kind, relays>> /\ turn[t].pump = "close"
      BY <2>4 DEF Close, Others
    <3>2. t \in relays => turn[t].keep /\ NeedsKey(t)
      BY <1>1 DEF NeedsKey
    <3> QED
      BY <1>1, <2>1, <2>4, <3>1, <3>2, PumpSteps
  <2>5. CASE TakeLock(t)
    <3>1. relays' = relays \ {t} /\ kind' = kind /\ turn[t].keep
      BY <2>5 DEF TakeLock, Inv, TurnsFit, Fits
    <3> QED
      BY <2>1, <2>5, <3>1, PumpSteps
  <2>6. CASE Look(t) \/ PutAnswer(t) \/ SaveFails(t)
    <3>1. UNCHANGED <<kind, relays>> /\ turn[t].pump \in {"look", "put"}
      BY <2>6 DEF Look, PutAnswer, SaveFails
    <3>2. t \notin relays
      BY <1>1, <3>1
    <3>3. ~ TakeLock(t)
      BY <3>1 DEF TakeLock
    <3> QED
      BY <1>1, <2>1, <2>6, <3>1, <3>2, <3>3, PumpSteps
  <2> QED
    BY <1>2, <2>2, <2>3, <2>4, <2>5, <2>6, PlainSteps DEF Turn, Pump
<1>3. CASE UNCHANGED <<kind, turn, relays>>
  BY <1>3 DEF RelaysAreBeforeTheirLocks
<1>4. ASSUME NEW x \in Stoppers, Stop(x) PROVE UNCHANGED <<kind, turn, relays>>
  BY <1>4 DEF Stop, AskStop, StopUnheard, StopHeard, StopLock, StopPut
<1> QED
  BY <1>2, <1>3, <1>4 DEF Next, Delete, vars

\* A turn whose received frames stay has the answer it had.
LEMMA SameAnswer ==
  ASSUME Inv, [Next]_vars, NEW t \in Turns, turn'[t].got = turn[t].got
  PROVE  /\ Answer(t)' = Answer(t) /\ (HasReply(t)' <=> HasReply(t))
         /\ gone' \/ (Answered(t) => Answered(t)')
<1>1. kind' = kind /\ (gone' \/ Messages \subseteq Messages')
  BY NothingIsTakenBack
<1> QED
  BY <1>1 DEF Answer, HasReply, Answered

LEMMA AnswersAreKeptStep ==
  ASSUME Inv, RelaysAreBeforeTheirLocks, AnswersAreKept, [Next]_vars
  PROVE  AnswersAreKept'
<1> SUFFICES ASSUME NEW t \in Turns, turn'[t].pump = "done", HasReply(t)', t \notin lost', ~ gone'
             PROVE  (Answer(t) \in Messages)' \/ Answered(t)'
  BY DEF AnswersAreKept
<1>1. kind' = kind /\ t \notin lost /\ ~ gone /\ Messages \subseteq Messages'
  BY NothingIsTakenBack
<1>2. ASSUME turn'[t].got = turn[t].got, turn[t].pump = "done"
      PROVE  (Answer(t) \in Messages)' \/ Answered(t)'
  BY <1>1, <1>2, SameAnswer DEF AnswersAreKept
<1>3. CASE turn'[t] = turn[t]
  BY <1>2, <1>3
<1>4. CASE Turn(t)
  <2>1. CASE Plain(t)
    BY <1>2, <2>1 DEF Plain
  <2>2. CASE Receive(t) \/ TakeLock(t)
    BY <2>2, ReceiveKeeps, PumpSteps
  <2>3. CASE Close(t)
    <3>1. ~ turn[t].keep
      BY <2>3, PumpSteps
    <3>2. turn'[t].got = {}
      <4>1. ~ TakeLock(t)
        BY <2>3 DEF Close, TakeLock
      <4> QED
        BY <2>3, <3>1, <4>1, PumpSteps DEF RelaysAreBeforeTheirLocks
    <3> QED
      BY <3>2 DEF HasReply
  <2>4. CASE Look(t)
    <3>1. turn'[t].got = turn[t].got
      <4>1. ~ TakeLock(t)
        BY <2>4 DEF Look, TakeLock
      <4> QED
        BY <2>4, <4>1, PumpSteps
    <3>2. ~ HasReply(t) \/ Answered(t)
      BY <2>4, PumpSteps
    <3> QED
      BY <3>1, <3>2, SameAnswer
  <2>5. CASE PutAnswer(t)
    <3>1. turn'[t].got = turn[t].got
      <4>1. ~ TakeLock(t)
        BY <2>5 DEF PutAnswer, TakeLock
      <4> QED
        BY <2>5, <4>1, PumpSteps
    <3>2. Answer(t) \in Messages'
      BY <1>1, <2>5, MessageType, MessagesGrow DEF PutAnswer, Inv, Types
    <3> QED
      BY <3>1, <3>2, SameAnswer
  <2>6. CASE SaveFails(t)
    BY <2>6 DEF SaveFails
  <2> QED
    BY <1>4, <2>1, <2>2, <2>3, <2>4, <2>5, <2>6, PlainSteps DEF Turn, Pump
<1>5. ASSUME NEW u \in Turns, u # t, Turn(u) PROVE turn'[t] = turn[t]
  <2>1. Plain(u) => turn'[t] = turn[t]
    BY <1>5 DEF Plain
  <2> QED
    BY <1>5, <2>1, PlainSteps, ReceiveKeeps, PumpSteps DEF Turn, Pump
<1>6. ASSUME NEW x \in Stoppers, Stop(x) PROVE turn' = turn
  BY <1>6 DEF Stop, AskStop, StopUnheard, StopHeard, StopLock, StopPut
<1> QED
  BY <1>3, <1>4, <1>5, <1>6 DEF Next, Delete, vars

\* What a turn received as its answer is in the conversation once the turn is over, whenever
\* its browser left and whatever the other turns do (finishing, _wait_pump).
THEOREM AnswersAreThere == Spec => []AnswersAreKept
<1>1. Init => RelaysAreBeforeTheirLocks /\ AnswersAreKept
  <2> SUFFICES ASSUME Init PROVE RelaysAreBeforeTheirLocks /\ AnswersAreKept
    OBVIOUS
  <2>1. relays = {} /\ \A t \in Turns : turn[t].got = {} /\ turn[t].pump = "none"
    BY DEF Init
  <2> QED
    BY <2>1 DEF RelaysAreBeforeTheirLocks, AnswersAreKept
<1>2. Inv /\ RelaysAreBeforeTheirLocks /\ AnswersAreKept /\ [Next]_vars =>
        RelaysAreBeforeTheirLocks' /\ AnswersAreKept'
  BY RelaysAreBeforeTheirLocksStep, AnswersAreKeptStep
<1> QED
  BY <1>1, <1>2, AlwaysInv, PTL DEF Spec

\* A stop under way at the turn t stays so, or is told, whatever a turn does.
LEMMA TurnsKeepTheStop ==
  ASSUME Inv, [Next]_vars, NEW u \in Turns, Turn(u), NEW t \in Turns,
         kind[t] = "delib", StopInHand(t), t \notin lost', ~ gone'
  PROVE  StopInHand(t)'
<1>1. kind' = kind /\ ~ gone /\ Messages \subseteq Messages'
  BY NothingIsTakenBack
<1>2. UNCHANGED <<by, stop>>
  BY PlainSteps DEF Turn, Pump, Plain, Receive, Close, TakeLock, Look, PutAnswer, SaveFails, Others
<1>3. CASE \E x \in Stoppers : stop[x].of = t /\ stop[x].pc # "idle"
  BY <1>2, <1>3 DEF StopInHand
<1>4. CASE StopSaid(t)
  BY <1>1, <1>4 DEF StopInHand, StopSaid
<1>5. CASE t \in by \cap relays
  <2>1. CASE TakeLock(t)
    BY <1>5, <2>1, PumpSteps DEF StopInHand
  <2>2. CASE ~ TakeLock(t)
    <3>1. t \in relays'
      <4>1. CASE TakeLock(u)
        BY <1>5, <2>2, <4>1 DEF TakeLock
      <4>2. CASE Receive(u)
        BY <1>5, <4>2, ReceiveKeeps
      <4>3. Plain(u) \/ Close(u) \/ Look(u) \/ PutAnswer(u) \/ SaveFails(u) => relays' = relays
        BY DEF Plain, Close, Look, PutAnswer, SaveFails, Others
      <4> QED
        BY <1>5, <4>1, <4>2, <4>3, PlainSteps DEF Turn, Pump
    <3> QED
      BY <1>2, <1>5, <3>1 DEF StopInHand
  <2> QED
    BY <2>1, <2>2
<1>6. CASE "stopped" \in turn[t].got /\ turn[t].pump \in {"look", "put"}
  <2>1. CASE turn'[t].got = turn[t].got /\ turn'[t].pump \in {"look", "put"}
    BY <1>6, <2>1 DEF StopInHand
  <2>2. CASE u # t
    <3>1. Plain(u) => turn'[t] = turn[t]
      BY <2>2 DEF Plain
    <3>2. turn'[t] = turn[t]
      BY <2>2, <3>1, PlainSteps, ReceiveKeeps, PumpSteps DEF Turn, Pump
    <3> QED
      BY <1>6, <2>1, <3>2
  <2>3. CASE Plain(t)
    BY <1>6, <2>1, <2>3 DEF Plain
  <2>4. ~ (Receive(t) \/ Close(t) \/ TakeLock(t))
    BY <1>6 DEF Receive, Close, TakeLock
  <2>5. CASE Look(t)
    <3>1. HasReply(t) /\ ~ Answered(t)
      BY <1>6 DEF HasReply, Answered
    <3> QED
      BY <2>1, <2>4, <2>5, <3>1, PumpSteps
  <2>6. CASE PutAnswer(t)
    <3>1. Answer(t) \in Messages'
      BY <1>1, <2>6, MessageType, MessagesGrow DEF PutAnswer, Inv, Types
    <3>2. Answer(t).role = "assistant" /\ Answer(t).stop /\ Answer(t).of = t
      BY <1>6 DEF Answer
    <3> QED
      BY <3>1, <3>2 DEF StopInHand, StopSaid
  <2>7. CASE SaveFails(t)
    BY <2>7 DEF SaveFails
  <2> QED
    BY <2>2, <2>3, <2>4, <2>5, <2>6, <2>7, PlainSteps DEF Turn, Pump
<1> QED
  BY <1>3, <1>4, <1>5, <1>6 DEF StopInHand

\* Nor does a request to stop end what is under way, unless it is told, unheard or lost.
LEMMA StopsKeepTheStop ==
  ASSUME Inv, [Next]_vars, NEW x \in Stoppers, Stop(x), NEW t \in Turns,
         StopInHand(t), t \notin lost', t \notin unheard', ~ gone'
  PROVE  StopInHand(t)'
<1>1. ~ gone /\ Messages \subseteq Messages' /\ Types
  BY NothingIsTakenBack DEF Inv
<1>2. UNCHANGED <<turn, relays>> /\ by \subseteq by'
  BY DEF Stop, AskStop, StopUnheard, StopHeard, StopLock, StopPut
<1>3. \A y \in Stoppers \ {x} : stop'[y] = stop[y]
  BY <1>1 DEF Types, Stop, AskStop, StopUnheard, StopHeard, StopLock, StopPut
<1>4. CASE StopSaid(t)
  BY <1>1, <1>4 DEF StopInHand, StopSaid
<1>5. CASE t \in by \cap relays \/ ("stopped" \in turn[t].got /\ turn[t].pump \in {"look", "put"})
  BY <1>2, <1>5 DEF StopInHand
<1>6. CASE \E y \in Stoppers \ {x} : stop[y].of = t /\ stop[y].pc # "idle"
  BY <1>3, <1>6 DEF StopInHand
<1>7. CASE stop[x].of = t /\ stop[x].pc # "idle"
  <2>1. ~ (\E r \in Turns : AskStop(x, r)) /\ ~ StopUnheard(x)
    BY <1>7 DEF AskStop, StopUnheard
  <2>2. CASE StopHeard(x)
    <3>1. CASE t \in relays
      BY <1>2, <1>7, <2>2, <3>1 DEF StopHeard, StopInHand
    <3>2. CASE t \notin relays
      <4>1. stop'[x].of = t /\ stop'[x].pc = "lock"
        BY <1>1, <1>7, <2>2, <3>2 DEF StopHeard, Types
      <4> QED
        BY <4>1 DEF StopInHand
    <3> QED
      BY <3>1, <3>2
  <2>3. CASE StopLock(x)
    <3>1. stop'[x].of = t /\ stop'[x].pc = "put"
      BY <1>1, <1>7, <2>3 DEF StopLock, Types
    <3> QED
      BY <3>1 DEF StopInHand
  <2>4. CASE StopPut(x)
    <3>1. StopSaid(t) \/ Put(StopNote(t))
      BY <1>7, <2>4 DEF StopPut
    <3>2. CASE Put(StopNote(t))
      <4>1. StopNote(t) \in Messages'
        BY <1>1, <3>2, MessageType, MessagesGrow DEF Types
      <4>2. StopNote(t).role = "assistant" /\ StopNote(t).stop /\ StopNote(t).of = t
        BY DEF StopNote
      <4> QED
        BY <4>1, <4>2 DEF StopInHand, StopSaid
    <3> QED
      BY <1>4, <3>1, <3>2
  <2> QED
    BY <2>1, <2>2, <2>3, <2>4 DEF Stop
<1> QED
  BY <1>4, <1>5, <1>6, <1>7 DEF StopInHand

LEMMA StopsAreInHandStep ==
  ASSUME Inv, StopsAreInHand, [Next]_vars
  PROVE  StopsAreInHand'
<1> SUFFICES ASSUME NEW t \in Turns, t \in stopped'
             PROVE  /\ kind'[t] = "delib"
                    /\ t \notin lost' /\ t \notin unheard' /\ ~ gone' => StopInHand(t)'
  BY DEF StopsAreInHand
<1>1. kind' = kind /\ lost \subseteq lost' /\ (gone => gone')
  BY NothingIsTakenBack
<1>2. ASSUME NEW u \in Turns, Turn(u) PROVE UNCHANGED <<stopped, unheard>>
  BY <1>2, PlainSteps DEF Turn, Pump, Plain, Receive, Close, TakeLock, Look, PutAnswer, SaveFails, Others
<1>3. CASE \E u \in Turns : Turn(u)
  BY <1>1, <1>2, <1>3, TurnsKeepTheStop DEF StopsAreInHand
<1>4. ASSUME NEW x \in Stoppers, Stop(x), t \in stopped
      PROVE  /\ kind'[t] = "delib"
             /\ t \notin lost' /\ t \notin unheard' /\ ~ gone' => StopInHand(t)'
  <2>1. unheard \subseteq unheard'
    BY <1>4 DEF Stop, AskStop, StopUnheard, StopHeard, StopLock, StopPut
  <2> QED
    BY <1>1, <1>4, <2>1, StopsKeepTheStop DEF StopsAreInHand
<1>5. ASSUME NEW x \in Stoppers, Stop(x), t \notin stopped
      PROVE  kind'[t] = "delib" /\ StopInHand(t)'
  <2>1. AskStop(x, t)
    BY <1>5 DEF Stop, AskStop, StopUnheard, StopHeard, StopLock, StopPut
  <2>2. stop'[x].of = t /\ stop'[x].pc = "wait"
    BY <2>1 DEF AskStop, Inv, Types
  <2> QED
    BY <1>1, <2>1, <2>2 DEF AskStop, StopInHand
<1>6. CASE Delete
  BY <1>1, <1>6 DEF Delete, StopsAreInHand
<1>7. CASE UNCHANGED vars
  BY <1>7 DEF vars, StopsAreInHand, StopInHand, StopSaid, Messages
<1> QED
  BY <1>3, <1>4, <1>5, <1>6, <1>7 DEF Next

\* What comes to the conversation with a step.
LEMMA WhatIsPut ==
  ASSUME Inv, [Next]_vars
  PROVE  \/ conv' = conv \/ (conv' = <<>> /\ gone')
         \/ \E m \in Message :
              /\ Put(m) /\ m.of \in Turns /\ (m.stop => m.role = "assistant")
              /\ m.role = "persona" => m.of \in Turns /\ turn[m.of].pump = "look"
<1> DEFINE Fit(m) == /\ m \in Message /\ m.of \in Turns /\ (m.stop => m.role = "assistant")
                     /\ m.role = "persona" => m.of \in Turns /\ turn[m.of].pump = "look"
<1>1. ASSUME NEW t \in Turns, Turn(t) PROVE conv' = conv \/ \E m \in Message : Put(m) /\ Fit(m)
  <2>1. Fit(Said("user", t)) /\ Fit(Answer(t))
    BY MessageType DEF Said, Answer
  <2>2. CASE Plain(t)
    BY <2>1, <2>2 DEF Plain
  <2>3. CASE Look(t)
    <3>1. Fit(Said("persona", t))
      BY <2>3, MessageType DEF Look, Said
    <3> QED
      BY <2>3, <3>1 DEF Look
  <2>4. CASE PutAnswer(t)
    BY <2>1, <2>4 DEF PutAnswer
  <2> QED
    BY <1>1, <2>2, <2>3, <2>4, PlainSteps
       DEF Turn, Pump, Receive, Close, TakeLock, SaveFails, Others
<1>2. ASSUME NEW x \in Stoppers, Stop(x) PROVE conv' = conv \/ \E m \in Message : Put(m) /\ Fit(m)
  <2>1. CASE StopPut(x)
    <3>1. stop[x].of \in Turns
      BY <2>1 DEF StopPut, Inv, StopsAreOfDeliberations
    <3>2. Fit(StopNote(stop[x].of))
      BY <3>1, MessageType DEF StopNote
    <3> QED
      BY <2>1, <3>2 DEF StopPut
  <2> QED
    BY <1>2, <2>1 DEF Stop, AskStop, StopUnheard, StopHeard, StopLock
<1> QED
  BY <1>1, <1>2 DEF Next, Delete, vars

\* The tasks, the conversation and the locks keep the shapes the handlers give them.
THEOREM TypeCorrect == Spec => []TypeOK
<1> DEFINE Alone == \A i \in DOMAIN conv : conv[i] \in Message
<1>1. Init => Rest /\ Alone
  BY RelayAssumption DEF Init, Rest
<1>2. Inv /\ Alone /\ [Next]_vars => Alone'
  <2> SUFFICES ASSUME Inv, Alone, [Next]_vars PROVE Alone'
    OBVIOUS
  <2>1. ASSUME NEW m \in Message, Put(m) PROVE Alone'
    BY <2>1, PutLast DEF Inv, Types
  <2> QED
    BY <2>1, WhatIsPut
<1>3. Inv /\ Rest /\ Alone => TypeOK
  BY DEF Inv, Types, Rest, TypeOK
<1> HIDE DEF Alone
<1> QED
  BY <1>1, <1>2, <1>3, RestInv, AlwaysInv, PTL DEF Spec

LEMMA StopsComeLastStep ==
  ASSUME Inv, StopsComeLast, [Next]_vars
  PROVE  StopsComeLast'
<1>1. CASE conv' = conv \/ conv' = <<>>
  BY <1>1 DEF StopsComeLast
<1>2. ASSUME NEW m \in Message, Put(m), m.stop => m.role = "assistant",
             m.role = "persona" => m.of \in Turns /\ turn[m.of].pump = "look"
      PROVE  StopsComeLast'
  <2>1. CASE conv' = conv
    BY <1>1, <2>1
  <2>2. CASE /\ DOMAIN conv' = DOMAIN conv \cup {Len(conv) + 1}
             /\ conv'[Len(conv) + 1] = m
             /\ \A i \in DOMAIN conv : conv'[i] = conv[i] /\ i <= Len(conv)
    <3>1. \A i \in DOMAIN conv' : conv'[i].stop => conv'[i].role = "assistant"
      BY <1>2, <2>2 DEF StopsComeLast
    <3>2. ASSUME NEW i \in DOMAIN conv', NEW j \in DOMAIN conv',
                 i < j, conv'[i].stop, conv'[i].of = conv'[j].of, conv'[j].role = "persona"
          PROVE  FALSE
      <4>1. Len(conv) \in Nat /\ i \in Nat /\ j \in Nat
        BY <2>2 DEF Inv, Types
      <4>2. i \in DOMAIN conv /\ conv'[i] = conv[i]
        BY <2>2, <3>2, <4>1
      <4>3. CASE j \in DOMAIN conv
        BY <2>2, <3>2, <4>2, <4>3 DEF StopsComeLast
      <4>4. CASE conv'[j] = m
        <5>1. turn[m.of].pump = "look" /\ conv[i].of = m.of
          BY <1>2, <3>2, <4>2, <4>4
        <5>2. turn[conv[i].of].pump = "done"
          BY <3>2, <4>2 DEF StopsComeLast, Inv, AnswersAreOfDone
        <5> QED
          BY <5>1, <5>2
      <4> QED
        BY <2>2, <4>3, <4>4
    <3> QED
      BY <3>1, <3>2 DEF StopsComeLast
  <2> QED
    BY <1>2, <2>1, <2>2, PutLast DEF Inv, Types
<1> QED
  BY <1>1, <1>2, WhatIsPut

LEMMA StopsInHandAreTold ==
  ASSUME stopped \subseteq Turns, RelaysAreBeforeTheirLocks, StopsAreInHand, StopsComeLast
  PROVE  StopsAreTold
<1>1. ASSUME NEW t \in stopped, turn[t].pump = "done", t \notin lost \cup unheard, ~ gone,
             \A x \in Stoppers : stop[x].of = t => stop[x].pc = "idle"
      PROVE  StopSaid(t)
  <2>1. t \in Turns
    OBVIOUS
  <2>2. StopInHand(t)
    BY <1>1, <2>1 DEF StopsAreInHand
  <2>3. t \notin relays
    BY <1>1, <2>1 DEF RelaysAreBeforeTheirLocks
  <2> QED
    BY <1>1, <2>2, <2>3 DEF StopInHand
<1> QED
  BY <1>1 DEF StopsAreTold, StopsComeLast

\* A stop the portal heard of is in the conversation when its relay and the requests to stop
\* are through, whoever of them records it, and after all that was said in the deliberation
\* (_delib_stop_record).
THEOREM StopsAreRecorded == Spec => []StopsAreTold
<1> DEFINE IInv == RelaysAreBeforeTheirLocks /\ StopsAreInHand /\ StopsComeLast
<1>1. Init => IInv
  <2> SUFFICES ASSUME Init PROVE IInv
    OBVIOUS
  <2>1. relays = {} /\ stopped = {} /\ conv = <<>> /\ \A t \in Turns : turn[t].got = {}
    BY DEF Init
  <2> QED
    BY <2>1 DEF RelaysAreBeforeTheirLocks, StopsAreInHand, StopsComeLast
<1>2. Inv /\ IInv /\ [Next]_vars => IInv'
  BY RelaysAreBeforeTheirLocksStep, StopsAreInHandStep, StopsComeLastStep
<1>3. TypeOK /\ IInv => StopsAreTold
  BY StopsInHandAreTold DEF TypeOK
<1> QED
  BY <1>1, <1>2, <1>3, AlwaysInv, TypeCorrect, PTL DEF Spec
-----------------------------------------------------------------------------
(* Beside the decks (ChatAndDecks): a notice is let through when no turn is  *)
(* counted, so a turn is to count for as long as its answer may come.        *)

\* From before its question is stored to the end of its pump.
Counts(u) ==
  /\ u.resp \in {"idle", "owner", "ask", "asked", "made"} => u.pump = "none"
  /\ u.resp \in {"idle", "owner"} => ~ u.keep
  /\ u.resp \in {"ask", "asked"} => u.counted
  /\ u.resp \notin {"idle", "out"} /\ u.keep /\ u.pump # "done" => u.counted

\* The fields of a turn; how far its browser may be behind does not matter here.
TurnFields ==
  [resp : {"idle", "owner", "ask", "asked", "made", "stream", "drain", "leave", "out"},
   pump : {"none", "read", "room", "close", "lock", "look", "put", "done"},
   held : BOOLEAN, counted : BOOLEAN, keep : BOOLEAN, detached : BOOLEAN, room : BOOLEAN,
   box : Nat, got : SUBSET Frames]

TurnsCount == turn \in [Turns -> TurnFields] /\ \A t \in Turns : Counts(turn[t])

\* A new value of one turn.
LEMMA OneTurnCounts ==
  ASSUME TurnsCount, NEW t \in Turns, NEW v \in TurnFields, turn' = [turn EXCEPT ![t] = v], Counts(v)
  PROVE  TurnsCount'
BY DEF TurnsCount

LEMMA EarlyTurnsCount ==
  ASSUME TurnsCount, NEW t \in Turns,
         Begin(t) \/ CheckOwner(t) \/ Fail(t) \/ StoreQuestion(t) \/ QuestionStored(t)
         \/ Start(t) \/ LeaveUnstarted(t)
  PROVE  TurnsCount'
<1> DEFINE u == turn[t]
<1>1. u \in TurnFields /\ Counts(u) /\ turn \in [Turns -> TurnFields]
  BY DEF TurnsCount
<1>2. CASE Begin(t)
  <2> DEFINE v == [u EXCEPT !.resp = "owner", !.held = TRUE]
  <2>1. v \in TurnFields /\ Counts(v) /\ turn' = [turn EXCEPT ![t] = v]
    BY <1>1, <1>2 DEF Begin, TurnFields, Counts
  <2> QED
    BY <2>1, OneTurnCounts
<1>3. CASE CheckOwner(t)
  <2> DEFINE v == IF gone THEN [u EXCEPT !.resp = "made"]
                  ELSE [u EXCEPT !.resp = "ask", !.counted = TRUE]
  <2>1. v \in TurnFields /\ Counts(v) /\ turn' = [turn EXCEPT ![t] = v]
    BY <1>1, <1>3 DEF CheckOwner, TurnFields, Counts
  <2> QED
    BY <2>1, OneTurnCounts
<1>4. CASE Fail(t)
  <2> DEFINE v == [u EXCEPT !.resp = "out", !.held = FALSE, !.counted = FALSE]
  <2>1. v \in TurnFields /\ Counts(v) /\ turn' = [turn EXCEPT ![t] = v]
    BY <1>1, <1>4 DEF Fail, TurnFields, Counts
  <2> QED
    BY <2>1, OneTurnCounts
<1>5. CASE StoreQuestion(t)
  <2> DEFINE v == [u EXCEPT !.resp = "asked", !.keep = ~ gone]
  <2>1. v \in TurnFields /\ Counts(v) /\ turn' = [turn EXCEPT ![t] = v]
    BY <1>1, <1>5 DEF StoreQuestion, TurnFields, Counts
  <2> QED
    BY <2>1, OneTurnCounts
<1>6. CASE QuestionStored(t)
  <2> DEFINE v == [u EXCEPT !.resp = "made", !.counted = u.keep]
  <2>1. v \in TurnFields /\ Counts(v) /\ turn' = [turn EXCEPT ![t] = v]
    BY <1>1, <1>6 DEF QuestionStored, TurnFields, Counts
  <2> QED
    BY <2>1, OneTurnCounts
<1>7. CASE Start(t)
  <2> DEFINE v == [u EXCEPT !.resp = "stream", !.pump = "read"]
  <2>0. u.resp = "made" /\ turn' = [turn EXCEPT ![t] = v]
    BY <1>1, <1>7 DEF Start, TurnFields
  <2>1. v \in TurnFields /\ Counts(v)
    BY <1>1, <2>0 DEF TurnFields, Counts
  <2> QED
    BY <2>0, <2>1, OneTurnCounts
<1>8. CASE LeaveUnstarted(t)
  <2> DEFINE v == [u EXCEPT !.resp = "out", !.held = FALSE, !.counted = FALSE]
  <2>1. v \in TurnFields /\ Counts(v) /\ turn' = [turn EXCEPT ![t] = v]
    BY <1>1, <1>8 DEF LeaveUnstarted, TurnFields, Counts
  <2> QED
    BY <2>1, OneTurnCounts
<1> QED
  BY <1>2, <1>3, <1>4, <1>5, <1>6, <1>7, <1>8

LEMMA LateTurnsCount ==
  ASSUME TurnsCount, NEW t \in Turns,
         Receive(t) \/ SaveFails(t) \/ Read(t) \/ ReadEnd(t) \/ Respond(t) \/ Leave(t) \/ Pump(t)
  PROVE  TurnsCount'
<1> DEFINE u == turn[t]
<1>1. u \in TurnFields /\ Counts(u) /\ turn \in [Turns -> TurnFields]
  BY DEF TurnsCount
<1>2. CASE StreamEnds(t)
  <2> DEFINE v == [u EXCEPT !.pump = "close"]
  <2>1. v \in TurnFields /\ Counts(v) /\ turn' = [turn EXCEPT ![t] = v]
    BY <1>1, <1>2 DEF StreamEnds, TurnFields, Counts
  <2> QED
    BY <2>1, OneTurnCounts
<1>3. CASE Close(t)
  <2> DEFINE v == [u EXCEPT !.held = FALSE,
                 !.pump = IF ~ u.keep THEN "done" ELSE IF NeedsKey(t) THEN "lock" ELSE "look"]
  <2>1. v \in TurnFields /\ Counts(v) /\ turn' = [turn EXCEPT ![t] = v]
    BY <1>1, <1>3 DEF Close, TurnFields, Counts
  <2> QED
    BY <2>1, OneTurnCounts
<1>4. CASE Read(t)
  <2> DEFINE box == u.box - 1
             v == [u EXCEPT !.box = box, !.room = TRUE]
  <2>1. u.box \in Nat /\ u.box > 0
    BY <1>1, <1>4 DEF Read, TurnFields
  <2>2. box \in Nat
    BY <2>1
  <2>3. turn' = [turn EXCEPT ![t] = v]
    BY <1>1, <1>4 DEF Read
  <2> HIDE DEF box
  <2>4. v \in TurnFields /\ Counts(v)
    BY <1>1, <2>2 DEF TurnFields, Counts
  <2> QED
    BY <2>3, <2>4, OneTurnCounts
<1>5. CASE ReadEnd(t)
  <2> DEFINE v == [u EXCEPT !.resp = "drain"]
  <2>1. v \in TurnFields /\ Counts(v) /\ turn' = [turn EXCEPT ![t] = v]
    BY <1>1, <1>5 DEF ReadEnd, TurnFields, Counts, Finishing
  <2> QED
    BY <2>1, OneTurnCounts
<1>6. CASE Respond(t)
  <2> DEFINE v == [u EXCEPT !.resp = "out", !.held = FALSE]
  <2>1. v \in TurnFields /\ Counts(v) /\ turn' = [turn EXCEPT ![t] = v]
    BY <1>1, <1>6 DEF Respond, TurnFields, Counts
  <2> QED
    BY <2>1, OneTurnCounts
<1>7. CASE PutAnswer(t)
  <2> DEFINE v == [u EXCEPT !.pump = "done", !.counted = FALSE]
  <2>1. v \in TurnFields /\ Counts(v) /\ turn' = [turn EXCEPT ![t] = v]
    BY <1>1, <1>7 DEF PutAnswer, TurnFields, Counts, EndPump
  <2> QED
    BY <2>1, OneTurnCounts
<1>8. CASE SaveFails(t)
  <2> DEFINE v == [u EXCEPT !.pump = "done", !.counted = FALSE]
  <2>1. v \in TurnFields /\ Counts(v) /\ turn' = [turn EXCEPT ![t] = v]
    BY <1>1, <1>8 DEF SaveFails, TurnFields, Counts, EndPump
  <2> QED
    BY <2>1, OneTurnCounts
<1>9. CASE TakeLock(t)
  <2> DEFINE v == [u EXCEPT !.pump = "look", !.got = IF t \in relays \cap by THEN u.got \cup {"stopped"} ELSE u.got]
  <2>1. v \in TurnFields /\ Counts(v) /\ turn' = [turn EXCEPT ![t] = v]
    BY <1>1, <1>9 DEF TakeLock, TurnFields, Counts, Frames
  <2> QED
    BY <2>1, OneTurnCounts
<1>10. CASE Look(t)
  <2> DEFINE v == IF HasReply(t) /\ ~ Answered(t) THEN [u EXCEPT !.pump = "put"]
                  ELSE [u EXCEPT !.pump = "done", !.counted = FALSE]
  <2>1. v \in TurnFields /\ Counts(v) /\ turn' = [turn EXCEPT ![t] = v]
    BY <1>1, <1>10 DEF Look, TurnFields, Counts, EndPump
  <2> QED
    BY <2>1, OneTurnCounts
<1>11. CASE Resume(t)
  <2> DEFINE box == u.box + 1
             v1 == [u EXCEPT !.pump = "read"]
             v2 == [u EXCEPT !.pump = "read", !.box = box]
             v3 == [u EXCEPT !.room = FALSE]
  <2>1. u.box \in Nat /\ u.pump = "room"
    BY <1>1, <1>11 DEF Resume, TurnFields
  <2>2. box \in Nat
    BY <2>1
  <2>3. \/ turn' = [turn EXCEPT ![t] = v1]
        \/ turn' = [turn EXCEPT ![t] = v2]
        \/ turn' = [turn EXCEPT ![t] = v3]
    BY <1>1, <1>11 DEF Resume
  <2> HIDE DEF box
  <2>4. /\ v1 \in TurnFields /\ Counts(v1) /\ v2 \in TurnFields /\ Counts(v2)
        /\ v3 \in TurnFields /\ Counts(v3)
    BY <1>1, <2>1, <2>2 DEF TurnFields, Counts
  <2> QED
    BY <2>3, <2>4, OneTurnCounts
<1>12. CASE Leave(t)
  <2> DEFINE p == IF Finishing(t) THEN u.pump ELSE "close"
             v1 == [u EXCEPT !.resp = "out", !.detached = TRUE, !.box = 0, !.room = TRUE]
             v2 == [u EXCEPT !.resp = "leave", !.pump = p]
             v3 == [u EXCEPT !.resp = "leave", !.pump = p, !.held = FALSE]
  <2>1. \/ turn' = [turn EXCEPT ![t] = v1]
        \/ turn' = [turn EXCEPT ![t] = v2]
        \/ turn' = [turn EXCEPT ![t] = v3]
    BY <1>1, <1>12 DEF Leave, Detach, Cut
  <2>2. u.resp \in {"stream", "drain"}
    BY <1>12 DEF Leave
  <2>3. /\ v1 \in TurnFields /\ Counts(v1) /\ v2 \in TurnFields /\ Counts(v2)
        /\ v3 \in TurnFields /\ Counts(v3)
    BY <1>1, <2>2 DEF TurnFields, Counts, Finishing
  <2> QED
    BY <2>1, <2>3, OneTurnCounts
<1>13. CASE Receive(t)
  <2> DEFINE full == ~ u.detached /\ u.box = Cap
             box == IF u.detached \/ u.box = Cap THEN u.box ELSE u.box + 1
  <2>1. PICK f \in Comes(t) :
          turn' = [turn EXCEPT
            ![t].got = IF u.keep THEN u.got \cup {f} ELSE u.got,
            ![t].pump = IF full THEN "room" ELSE "read",
            ![t].room = IF full THEN FALSE ELSE u.room,
            ![t].box = box]
    BY <1>13 DEF Receive
  <2>2. f \in Frames
    BY DEF Comes, Frames
  <2> DEFINE v == [u EXCEPT !.got = IF u.keep THEN u.got \cup {f} ELSE u.got,
                            !.pump = IF full THEN "room" ELSE "read",
                            !.room = IF full THEN FALSE ELSE u.room, !.box = box]
  <2>5. u.pump = "read" /\ u.box \in Nat
    BY <1>1, <1>13 DEF Receive, TurnFields
  <2>3. box \in Nat
    BY <2>5
  <2> HIDE DEF box
  <2>4. v \in TurnFields /\ Counts(v) /\ turn' = [turn EXCEPT ![t] = v]
    BY <1>1, <2>1, <2>2, <2>3, <2>5 DEF TurnFields, Counts
  <2> QED
    BY <2>4, OneTurnCounts
<1> QED
  BY <1>2, <1>3, <1>4, <1>5, <1>6, <1>7, <1>8, <1>9, <1>10, <1>11, <1>12, <1>13 DEF Pump

LEMMA TurnsCountStep == TurnsCount /\ [Next]_vars => TurnsCount'
<1> SUFFICES ASSUME TurnsCount, [Next]_vars PROVE TurnsCount'
  OBVIOUS
<1>1. CASE UNCHANGED turn
  BY <1>1 DEF TurnsCount
<1>2. CASE Delete \/ UNCHANGED vars \/ \E x \in Stoppers : Stop(x)
  BY <1>1, <1>2 DEF Delete, vars, Stop, AskStop, StopUnheard, StopHeard, StopLock, StopPut
<1>3. ASSUME NEW t \in Turns, Turn(t) PROVE TurnsCount'
  BY <1>3, EarlyTurnsCount, LateTurnsCount DEF Turn
<1> QED
  BY <1>2, <1>3 DEF Next

\* The requests about decks, in the conversation of the relay.
HandlersAreTyped == hs \in [Handlers -> Decks!HandlerState]

LEMMA HandlersAreTypedStep ==
  ASSUME HandlersAreTyped, NEW h \in Handlers, Decks!Handle(h)
  PROVE  /\ HandlersAreTyped'
         /\ \A g \in Handlers \ {h} : hs'[g] = hs[g]
         /\ (hs[h].pc = "post" /\ hs'[h].pc = "append") => ~ turn_active
<1> DEFINE k == hs[h]
           Fine == HandlersAreTyped' /\ \A g \in Handlers \ {h} : hs'[g] = hs[g]
<1>0. /\ k \in Decks!HandlerState /\ hs \in [Handlers -> Decks!HandlerState]
      /\ Decks!Idle \in Decks!HandlerState
  BY DEF Decks!Idle, Decks!HandlerState, HandlersAreTyped
<1>becomes. ASSUME NEW v \in Decks!HandlerState, hs' = [hs EXCEPT ![h] = v] PROVE Fine
  BY <1>0, <1>becomes DEF HandlersAreTyped
<1>to. ASSUME NEW pc \in {"leave", "post", "append", "mark", "reserve", "save", "send", "record",
                          "unknown", "foreign", "release", "ask", "step", "idle"}, Decks!To(h, pc)
       PROVE  Fine
  <2> DEFINE v == [k EXCEPT !.pc = pc]
  <2>1. v \in Decks!HandlerState
    BY <1>0 DEF Decks!HandlerState
  <2> QED
    BY <1>0, <1>to, <1>becomes, <2>1 DEF Decks!To
<1>on. ASSUME Decks!Next1(h) PROVE Fine /\ hs'[h].pc # "append"
  <2> DEFINE todo == k.todo \ {k.job}
             v == IF todo = {} /\ k.order = NoOrder THEN Decks!Idle
                  ELSE [k EXCEPT !.todo = todo, !.job = Nobody,
                                 !.pc = IF todo = {} THEN "reserve" ELSE "step"]
  <2>1. v \in Decks!HandlerState /\ v.pc # "append"
    BY <1>0 DEF Decks!HandlerState, Decks!Idle
  <2>2. hs' = [hs EXCEPT ![h] = v]
    BY <1>0, <1>on DEF Decks!Next1
  <2> QED
    BY <1>0, <1>becomes, <2>1, <2>2
<1>1. CASE Decks!Post(h)
  <2>1. CASE turn_active
    BY <1>1, <1>on, <2>1 DEF Decks!Post
  <2>2. CASE ~ turn_active
    BY <1>1, <1>to, <2>2 DEF Decks!Post
  <2> QED
    BY <2>1, <2>2
<1>2. CASE ~ Decks!Post(h)
  <2>1. k.pc # "post"
    BY <1>2 DEF Decks!Handle, Decks!Advance, Decks!Order, Decks!LockJob, Decks!Leave, Decks!AskMaker,
         Decks!Render, Decks!AppendNotice, Decks!Mark, Decks!Reserve, Decks!SaveReservation,
         Decks!NotSent, Decks!Send, Decks!NoAnswer, Decks!Answered, Decks!Ask
  <2>2. CASE Decks!Leave(h) \/ Decks!Render(h) \/ Decks!Mark(h)
    BY <1>on, <2>2 DEF Decks!Leave, Decks!Render, Decks!Mark
  <2>3. CASE Decks!AskMaker(h) \/ Decks!AppendNotice(h) \/ Decks!SaveReservation(h)
             \/ Decks!NotSent(h) \/ Decks!Send(h) \/ Decks!NoAnswer(h)
    <3>1. PICK pc \in {"post", "mark", "send", "release", "record", "foreign", "unknown"} : Decks!To(h, pc)
      BY <2>3 DEF Decks!AskMaker, Decks!AppendNotice, Decks!SaveReservation, Decks!NotSent,
                  Decks!Send, Decks!NoAnswer
    <3> QED
      BY <1>to, <2>1, <3>1
  <2>4. CASE Decks!Answered(h)
    BY <1>0, <1>becomes, <2>4 DEF Decks!Answered
  <2>5. CASE Decks!Advance(h)
    <3>1. PICK j \in Jobs : hs' = [hs EXCEPT ![h].pc = "step", ![h].todo = {j}]
      BY <2>5 DEF Decks!Advance, Decks!Mine, Decks!Recorded
    <3> DEFINE v == [k EXCEPT !.pc = "step", !.todo = {j}]
    <3>2. v \in Decks!HandlerState /\ hs' = [hs EXCEPT ![h] = v]
      BY <1>0, <3>1 DEF Decks!HandlerState
    <3> QED
      BY <1>becomes, <2>1, <3>2
  <2>6. CASE Decks!Order(h)
    <3>1. PICK open \in SUBSET Jobs, o \in Orders :
            hs' = [hs EXCEPT ![h].order = o, ![h].todo = open,
                             ![h].pc = IF open = {} THEN "reserve" ELSE "step"]
      BY <2>6 DEF Decks!Order, Decks!Mine, Decks!Recorded
    <3> DEFINE v == [k EXCEPT !.order = o, !.todo = open, !.pc = IF open = {} THEN "reserve" ELSE "step"]
    <3>2. v \in Decks!HandlerState /\ hs' = [hs EXCEPT ![h] = v]
      BY <1>0, <3>1 DEF Decks!HandlerState
    <3> QED
      BY <1>becomes, <2>1, <3>2
  <2>7. CASE Decks!LockJob(h)
    <3>1. PICK j \in Jobs, pc \in {"leave", "post", "ask"} : hs' = [hs EXCEPT ![h].job = j, ![h].pc = pc]
      <4>1. k.todo \subseteq Jobs
        BY <1>0 DEF Decks!HandlerState
      <4> QED
        BY <2>7, <4>1 DEF Decks!LockJob
    <3> DEFINE v == [k EXCEPT !.job = j, !.pc = pc]
    <3>2. v \in Decks!HandlerState /\ hs' = [hs EXCEPT ![h] = v]
      BY <1>0, <3>1 DEF Decks!HandlerState
    <3> QED
      BY <1>becomes, <2>1, <3>2
  <2>8. CASE Decks!Reserve(h)
    <3>1. \/ hs' = [hs EXCEPT ![h] = Decks!Idle]
          \/ \E j \in Jobs : \/ hs' = [hs EXCEPT ![h].pc = "save", ![h].job = j]
                             \/ hs' = [hs EXCEPT ![h].pc = "save", ![h].job = j, ![h].retry = TRUE]
      BY <2>8 DEF Decks!Reserve, Decks!Unanswered, Decks!Mine, Decks!Recorded
    <3>2. ASSUME NEW j \in Jobs
          PROVE  /\ [k EXCEPT !.pc = "save", !.job = j] \in Decks!HandlerState
                 /\ [k EXCEPT !.pc = "save", !.job = j, !.retry = TRUE] \in Decks!HandlerState
      BY <1>0 DEF Decks!HandlerState
    <3>3. ASSUME NEW j \in Jobs, hs' = [hs EXCEPT ![h].pc = "save", ![h].job = j] PROVE Fine
      <4>1. hs' = [hs EXCEPT ![h] = [k EXCEPT !.pc = "save", !.job = j]]
        BY <1>0, <3>3
      <4> QED
        BY <1>becomes, <3>2, <4>1
    <3>4. ASSUME NEW j \in Jobs, hs' = [hs EXCEPT ![h].pc = "save", ![h].job = j, ![h].retry = TRUE]
          PROVE  Fine
      <4>1. hs' = [hs EXCEPT ![h] = [k EXCEPT !.pc = "save", !.job = j, !.retry = TRUE]]
        BY <1>0, <3>4
      <4> QED
        BY <1>becomes, <3>2, <4>1
    <3> QED
      BY <1>0, <1>becomes, <2>1, <3>1, <3>3, <3>4
  <2> QED
    BY <1>2, <2>1, <2>2, <2>3, <2>4, <2>5, <2>6, <2>7, <2>8 DEF Decks!Handle
<1> QED
  BY <1>1, <1>2

\* A notice that was let through met no stored question that waits for its answer: the count
\* the notice looks at covers each turn from before its question is stored (_turn_begin).
THEOREM NoticesStayOut == BothSpec => NoticesKeepToTheGaps
<1> DEFINE IInv == TurnsCount /\ HandlersAreTyped
<1>1. BothInit => IInv
  <2> SUFFICES ASSUME BothInit PROVE IInv
    OBVIOUS
  <2>1. hs \in [Handlers -> Decks!HandlerState]
    BY DEF BothInit, Decks!Idle, Decks!HandlerState
  <2>2. TurnsCount
    BY DEF BothInit, Init, TurnsCount, TurnFields, Counts
  <2> QED
    BY <2>1, <2>2 DEF HandlersAreTyped
<1> DEFINE Quiet(h) == (hs[h].pc = "post" /\ hs'[h].pc = "append") => ~ turn_active
<1>2. IInv /\ [BothNext]_<<vars, deckVars>> => IInv' /\ \A h \in Handlers : Quiet(h)
  <2> SUFFICES ASSUME TurnsCount, HandlersAreTyped, [BothNext]_<<vars, deckVars>>
               PROVE  IInv' /\ \A h \in Handlers : Quiet(h)
    OBVIOUS
  <2>1. CASE UNCHANGED <<vars, deckVars>>
    BY <2>1, TurnsCountStep DEF deckVars, HandlersAreTyped
  <2>2. CASE Next /\ UNCHANGED deckVars
    BY <2>2, TurnsCountStep DEF deckVars, HandlersAreTyped
  <2>3. ASSUME UNCHANGED chatVars, NEW j \in Jobs, Decks!Age(j) \/ Decks!Make(j) \/ Decks!Expire(j)
        PROVE  IInv' /\ \A h \in Handlers : Quiet(h)
    BY <2>3 DEF chatVars, TurnsCount, HandlersAreTyped, Decks!Age, Decks!Make, Decks!Expire
  <2>4. ASSUME UNCHANGED chatVars, NEW h \in Handlers, Decks!Handle(h)
        PROVE  IInv' /\ \A g \in Handlers : Quiet(g)
    <3>1. TurnsCount'
      BY <2>4 DEF chatVars, TurnsCount
    <3> QED
      BY <2>4, <3>1, HandlersAreTypedStep
  <2> QED
    BY <2>1, <2>2, <2>3, <2>4 DEF BothNext
<1>3. TurnsCount => \A t \in Turns : Open(t) => turn_active
  <2> SUFFICES ASSUME TurnsCount, NEW t \in Turns, Open(t) PROVE turn_active
    OBVIOUS
  <2>1. turn[t].counted
    BY DEF TurnsCount, Counts, Open
  <2> QED
    BY <2>1 DEF turn_active
<1>4. IInv /\ [BothNext]_<<vars, deckVars>> =>
        [\A h \in Handlers :
           (hs[h].pc = "post" /\ hs'[h].pc = "append") => \A t \in Turns : ~ Open(t)]_<<vars, deckVars>>
  BY <1>2, <1>3
<1> HIDE DEF IInv
<1>5. BothSpec => []IInv
  BY <1>1, <1>2, PTL DEF BothSpec
<1> QED
  BY <1>4, <1>5, PTL DEF BothSpec, NoticesKeepToTheGaps
-----------------------------------------------------------------------------
(* Turns and decks in one conversation (ChatAndDecks): what each promises by *)
(* itself it promises beside the other.  The notices are entries that are no *)
(* answers, the messages of turns are about no job, and who deletes the      *)
(* conversation leaves nothing of either.                                    *)

\* What is proved of the decks by themselves, in the conversation of the relay.
DP == INSTANCE DeckJobs_proofs WITH lock <- joblock, turns <- turn_active

LEMMA DeckConstantsHold == DP!DeckConstants
BY DeckAssumption DEF DP!DeckConstants, DP!IsFiniteSet, IsFiniteSet

\* The steps are those of the decks by themselves.
LEMMA SameSteps ==
  ASSUME NEW h \in Handlers, Decks!Handle(h)
  PROVE  DP!Handle(h)
<1> USE DEF Decks!Recorded, DP!Recorded, Decks!NoRecord, DP!NoRecord, Decks!Idle, DP!Idle,
            Decks!Mine, DP!Mine, Decks!Inflight, DP!Inflight, Decks!Reserving, DP!Reserving,
            Decks!Unlock, DP!Unlock, Decks!Next1, DP!Next1, Decks!To, DP!To
<1>1. CASE Decks!Advance(h) \/ Decks!Order(h)
  <2>1. Decks!Advance(h) => DP!Advance(h)
    BY DEF Decks!Advance, DP!Advance, Decks!Ask, DP!Ask
  <2>2. Decks!Order(h) => DP!Order(h)
    BY DEF Decks!Order, DP!Order, Decks!Ask, DP!Ask
  <2> QED
    BY <1>1, <2>1, <2>2 DEF DP!Handle
<1>2. CASE Decks!LockJob(h) \/ Decks!Leave(h) \/ Decks!AskMaker(h) \/ Decks!Render(h)
  <2>1. Decks!LockJob(h) => DP!LockJob(h)
    BY DEF Decks!LockJob, DP!LockJob
  <2>2. Decks!Leave(h) => DP!Leave(h)
    BY DEF Decks!Leave, DP!Leave
  <2>3. Decks!AskMaker(h) => DP!AskMaker(h)
    BY DEF Decks!AskMaker, DP!AskMaker
  <2>4. Decks!Render(h) => DP!Render(h)
    BY DEF Decks!Render, DP!Render
  <2> QED
    BY <1>2, <2>1, <2>2, <2>3, <2>4 DEF DP!Handle
<1>3. CASE Decks!Post(h) \/ Decks!AppendNotice(h) \/ Decks!Mark(h)
  <2>1. Decks!Post(h) => DP!Post(h)
    BY DEF Decks!Post, DP!Post
  <2>2. Decks!AppendNotice(h) => DP!AppendNotice(h)
    BY DEF Decks!AppendNotice, DP!AppendNotice, Decks!Told, DP!Told, Decks!Notice, DP!Notice
  <2>3. Decks!Mark(h) => DP!Mark(h)
    BY DEF Decks!Mark, DP!Mark
  <2> QED
    BY <1>3, <2>1, <2>2, <2>3 DEF DP!Handle
<1>4. CASE Decks!Reserve(h) \/ Decks!SaveReservation(h)
  <2>1. Decks!Reserve(h) => DP!Reserve(h)
    BY DEF Decks!Reserve, DP!Reserve, Decks!Unanswered, DP!Unanswered, Decks!Same, DP!Same,
           Decks!BoxCounts, DP!BoxCounts, Decks!Cardinality, DP!Cardinality
  <2>2. Decks!SaveReservation(h) => DP!SaveReservation(h)
    BY DEF Decks!SaveReservation, DP!SaveReservation
  <2> QED
    BY <1>4, <2>1, <2>2 DEF DP!Handle
<1>5. CASE Decks!NotSent(h) \/ Decks!Send(h) \/ Decks!NoAnswer(h) \/ Decks!Answered(h)
  <2>1. Decks!NotSent(h) => DP!NotSent(h)
    BY DEF Decks!NotSent, DP!NotSent
  <2>2. Decks!Send(h) => DP!Send(h)
    BY DEF Decks!Send, DP!Send
  <2>3. Decks!NoAnswer(h) => DP!NoAnswer(h)
    BY DEF Decks!NoAnswer, DP!NoAnswer
  <2>4. Decks!Answered(h) => DP!Answered(h)
    BY DEF Decks!Answered, DP!Answered
  <2> QED
    BY <1>5, <2>1, <2>2, <2>3, <2>4 DEF DP!Handle
<1> QED
  BY <1>1, <1>2, <1>3, <1>4, <1>5 DEF Decks!Handle

\* Beside each other: a step of the decks, or one of the turns.
LEMMA BothSteps ==
  ASSUME [BothNext]_<<vars, deckVars>>
  PROVE  \/ DP!DeckNext /\ UNCHANGED chatVars /\ UNCHANGED <<turn_active, gone>>
         \/ [Next]_vars /\ UNCHANGED DP!records
<1>1. UNCHANGED deckVars => UNCHANGED DP!records
  BY DEF deckVars, DP!records
<1>2. UNCHANGED chatVars => UNCHANGED <<turn_active, gone>>
  BY DEF chatVars, turn_active
<1>3. ASSUME NEW j \in Jobs, Decks!Age(j) \/ Decks!Make(j) \/ Decks!Expire(j)
      PROVE  DP!DeckNext
  <2>1. Decks!Age(j) => DP!Age(j)
    BY DEF Decks!Age, DP!Age, Decks!Ordering, DP!Ordering, Decks!Recorded, DP!Recorded,
           Decks!NoRecord, DP!NoRecord
  <2>2. Decks!Make(j) => DP!Make(j)
    BY DEF Decks!Make, DP!Make
  <2>3. Decks!Expire(j) => DP!Expire(j)
    BY DEF Decks!Expire, DP!Expire, Decks!Recorded, DP!Recorded, Decks!NoRecord, DP!NoRecord
  <2> QED
    BY <1>3, <2>1, <2>2, <2>3 DEF DP!DeckNext
<1>4. ASSUME NEW h \in Handlers, Decks!Handle(h) PROVE DP!DeckNext
  BY <1>4, SameSteps DEF DP!DeckNext
<1> QED
  BY <1>1, <1>2, <1>3, <1>4 DEF BothNext
-----------------------------------------------------------------------------
(* Beside the decks the turns keep what they promise.                       *)

ChatInv ==
  /\ Inv /\ Rest /\ AnswersAreKept
  /\ RelaysAreBeforeTheirLocks /\ StopsAreInHand /\ StopsComeLast

LEMMA ChatInvInit ==
  ASSUME Init
  PROVE  ChatInv
<1>1. /\ relays = {} /\ stopped = {} /\ conv = <<>>
      /\ \A t \in Turns : turn[t].got = {} /\ turn[t].pump = "none"
  BY DEF Init
<1>2. RelaysAreBeforeTheirLocks /\ AnswersAreKept /\ StopsAreInHand /\ StopsComeLast
  BY <1>1 DEF RelaysAreBeforeTheirLocks, AnswersAreKept, StopsAreInHand, StopsComeLast
<1>3. Rest
  BY RelayAssumption DEF Init, Rest
<1> QED
  BY <1>2, <1>3, InitInv DEF ChatInv

LEMMA ChatInvNext ==
  ASSUME ChatInv, [Next]_vars
  PROVE  ChatInv'
BY NextInv, RestInv, AnswersAreKeptStep, RelaysAreBeforeTheirLocksStep, StopsAreInHandStep,
   StopsComeLastStep DEF ChatInv

\* A notice is no answer, and about no turn.
LEMMA NoticeComes ==
  ASSUME ChatInv, UNCHANGED chatVars,
         conv' = conv \/ \E j \in Jobs : conv' = Append(conv, Decks!Notice(j))
  PROVE  ChatInv'
<1>0. /\ UNCHANGED <<kind, turn, gone, relays, by, lock, stop, stopped, unheard, lost, fails>>
      /\ conv \in Seq(Entry)
  BY DEF chatVars, ChatInv, Inv, Types
<1>1. /\ conv' \in Seq(Entry) /\ DOMAIN conv \subseteq DOMAIN conv'
      /\ \A i \in DOMAIN conv : conv'[i] = conv[i]
      /\ \A i \in DOMAIN conv' \ DOMAIN conv : conv'[i].role = "deck" /\ ~ conv'[i].stop
  <2>1. ASSUME NEW j \in Jobs, conv' = Append(conv, Decks!Notice(j))
        PROVE  /\ conv' \in Seq(Entry) /\ DOMAIN conv \subseteq DOMAIN conv'
               /\ \A i \in DOMAIN conv : conv'[i] = conv[i]
               /\ \A i \in DOMAIN conv' \ DOMAIN conv : conv'[i].role = "deck" /\ ~ conv'[i].stop
    <3>1. /\ Decks!Notice(j) \in Entry /\ Decks!Notice(j).role = "deck" /\ ~ Decks!Notice(j).stop
      BY DEF Decks!Notice, Entry
    <3>2. DOMAIN conv' = DOMAIN conv \cup {Len(conv) + 1} /\ conv'[Len(conv) + 1] = Decks!Notice(j)
          /\ \A i \in DOMAIN conv : conv'[i] = conv[i]
      BY <1>0, <2>1
    <3> QED
      BY <1>0, <2>1, <3>1, <3>2
  <2> QED
    BY <1>0, <2>1
<1>2. \A i \in DOMAIN conv' :
        conv'[i].role \in {"assistant", "persona"} \/ conv'[i].stop => i \in DOMAIN conv /\ conv'[i] = conv[i]
  BY <1>1
<1>3. \A m : (m \in Messages' /\ m.role = "assistant") <=> (m \in Messages /\ m.role = "assistant")
  BY <1>1, <1>2 DEF Messages
<1>4. \A t : Answered(t)' <=> Answered(t)
  BY <1>0, <1>3 DEF Answered
<1>5. \A t : StopSaid(t)' <=> StopSaid(t)
  BY <1>0, <1>3 DEF StopSaid
<1>6. Inv'
  <2>1. Types' /\ TurnsFit' /\ SaversHoldLocks' /\ StopsAreOfDeliberations'
    BY <1>0, <1>1 DEF ChatInv, Inv, Types, TurnsFit, SaversHoldLocks, StopsAreOfDeliberations, Key
  <2>2. AnswersAreOfDone' /\ PutsAreNew' /\ AnswersAreSaidOnce'
    BY <1>0, <1>2, <1>4 DEF ChatInv, Inv, AnswersAreOfDone, PutsAreNew, AnswersAreSaidOnce
  <2> QED
    BY <2>1, <2>2 DEF Inv
<1>7. Rest' /\ RelaysAreBeforeTheirLocks'
  BY <1>0 DEF ChatInv, Rest, RelaysAreBeforeTheirLocks
<1>8. AnswersAreKept'
  <2> SUFFICES ASSUME NEW t \in Turns, turn[t].pump = "done", HasReply(t), t \notin lost, ~ gone
               PROVE  (Answer(t) \in Messages)' \/ Answered(t)'
    BY <1>0 DEF AnswersAreKept, HasReply
  <2>1. Answer(t)' = Answer(t) /\ Answer(t).role = "assistant"
    BY <1>0 DEF Answer
  <2>2. Answer(t) \in Messages \/ Answered(t)
    BY DEF ChatInv, AnswersAreKept
  <2> QED
    BY <1>3, <1>4, <2>1, <2>2
<1>9. StopsAreInHand'
  BY <1>0, <1>5 DEF ChatInv, StopsAreInHand, StopInHand
<1>10. StopsComeLast'
  BY <1>2 DEF ChatInv, StopsComeLast
<1> QED
  BY <1>6, <1>7, <1>8, <1>9, <1>10 DEF ChatInv

\* A turn that reads or is over, its answer and its stop are as promised beside the decks, too.
LEMMA ChatInvPromises ==
  ASSUME ChatInv
  PROVE  PermitsMatchReaders /\ AnswersAreKept /\ AnswersAreSaidOnce /\ StopsAreTold
BY PermitsFit, StopsInHandAreTold DEF ChatInv, Inv, Rest

\* What is written to the conversation: messages of turns, and notices of jobs.
Written == {e \in Entry : e.of \in Jobs => e.role = "deck"}

BothInv == ChatInv /\ DP!Sound /\ DP!Notices(Written)

LEMMA WrittenAreEntries == DP!Entries(Written)
<1>1. \A j \in Jobs : DP!Notice(j) \in Written
  BY DEF DP!Notice, Written, Entry
<1> QED
  BY <1>1 DEF DP!Entries, Written

LEMMA BothInvInit ==
  ASSUME BothInit
  PROVE  BothInv
<1>1. ChatInv
  BY ChatInvInit DEF BothInit
<1>2. DP!Init
  <2>1. turn_active = FALSE /\ conv = <<>> /\ gone = FALSE
    BY DEF BothInit, Init, turn_active
  <2> QED
    BY <2>1 DEF BothInit, DP!Init, Decks!NoRecord, DP!NoRecord, Decks!Idle, DP!Idle
<1>3. DP!Sound
  BY <1>2, DeckConstantsHold, DP!SoundInit
<1>4. DP!Notices(Written)
  <2>1. conv \in Seq(Written) /\ DOMAIN conv = {} /\ rec = [j \in Jobs |-> DP!NoRecord]
        /\ hs = [h \in Handlers |-> DP!Idle]
    BY <1>2 DEF DP!Init
  <2> QED
    BY <2>1 DEF DP!Notices, DP!ToldEndsAreThere, DP!Recorded, DP!Idle
<1> QED
  BY <1>1, <1>3, <1>4 DEF BothInv

LEMMA BothInvNext ==
  ASSUME BothInv, [BothNext]_<<vars, deckVars>>
  PROVE  BothInv'
<1>0. ChatInv /\ DP!Sound /\ DP!Fits /\ DP!Notices(Written) /\ DP!DeckConstants /\ DP!Entries(Written)
  BY DeckConstantsHold, WrittenAreEntries DEF BothInv, DP!Sound
<1>1. CASE DP!DeckNext /\ UNCHANGED chatVars /\ UNCHANGED <<turn_active, gone>>
  <2>1. DP!Sound'
    <3>1. DP!Next
      BY <1>1 DEF DP!Next
    <3> QED
      BY <1>0, <3>1, DP!SoundNext
  <2>2. DP!Notices(Written)'
    BY <1>0, <1>1, DP!NoticesStay
  <2>3. conv' = conv \/ \E j \in Jobs : conv' = Append(conv, Decks!Notice(j))
    <3>1. conv' = conv \/ \E j \in Jobs : conv' = Append(conv, DP!Notice(j))
      BY <1>0, <1>1, DP!OnlyNotices
    <3> QED
      BY <3>1 DEF Decks!Notice, DP!Notice
  <2>4. ChatInv'
    BY <1>0, <1>1, <2>3, NoticeComes
  <2> QED
    BY <2>1, <2>2, <2>4 DEF BothInv
<1>2. CASE [Next]_vars /\ UNCHANGED DP!records
  <2>1. ChatInv'
    BY <1>0, <1>2, ChatInvNext
  <2>2. DP!Sound'
    BY <1>0, <1>2, DP!SoundBeside
  <2>3. gone => gone'
    BY <1>0, <1>2, NothingIsTakenBack DEF ChatInv
  <2>4. \/ conv' = conv
        \/ conv' = <<>> /\ gone'
        \/ \E m \in Written : m.of \notin Jobs /\ conv' = Append(conv, m)
    <3>1. ASSUME NEW m \in Message, Put(m), m.of \in Turns
          PROVE  conv' = conv \/ (m \in Written /\ m.of \notin Jobs /\ conv' = Append(conv, m))
      <4>1. m \in Written /\ m.of \notin Jobs
        BY <3>1, DeckAssumption DEF Message, Entry, Written
      <4> QED
        BY <3>1, <4>1 DEF Put
    <3> QED
      BY <1>0, <1>2, <3>1, WhatIsPut DEF ChatInv
  <2>5. DP!Notices(Written)'
    BY <1>0, <1>2, <2>3, <2>4, DP!NoticesBeside
  <2> QED
    BY <2>1, <2>2, <2>5 DEF BothInv
<1> QED
  BY <1>1, <1>2, BothSteps

LEMMA AlwaysBothInv == BothSpec => []BothInv
<1>1. BothInit => BothInv
  BY BothInvInit
<1>2. BothInv /\ [BothNext]_<<vars, deckVars>> => BothInv'
  BY BothInvNext
<1> QED
  BY <1>1, <1>2, PTL DEF BothSpec

\* Notices that come between the messages of the turns take nothing from what the relay
\* promises of its permits, answers and stops (conv_store.append).
THEOREM TurnsBesideDecks ==
  BothSpec => [](PermitsMatchReaders /\ AnswersAreKept /\ AnswersAreSaidOnce /\ StopsAreTold)
<1>1. BothInv => PermitsMatchReaders /\ AnswersAreKept /\ AnswersAreSaidOnce /\ StopsAreTold
  BY ChatInvPromises DEF BothInv
<1> QED
  BY <1>1, AlwaysBothInv, PTL

\* Beside a chat a person's decks keep to their limit, and records and requests to their shapes.
THEOREM LimitBesideChat == BothSpec => []LimitHolds
<1>1. BothInv => LimitHolds
  <2> SUFFICES ASSUME BothInv PROVE LimitHolds
    OBVIOUS
  <2>1. DP!LimitHolds /\ DP!Fits /\ DP!Bounds
    BY DeckConstantsHold, DP!SoundLimits DEF BothInv, DP!Sound
  <2>2. Decks!LimitHolds
    BY <2>1 DEF Decks!LimitHolds, DP!LimitHolds, Decks!Mine, DP!Mine, Decks!Recorded, DP!Recorded,
                Decks!NoRecord, DP!NoRecord, Decks!Inflight, DP!Inflight, Decks!Reserving,
                DP!Reserving, Decks!Cardinality, DP!Cardinality
  <2>3. turn_active \in BOOLEAN /\ gone \in BOOLEAN
    BY DEF turn_active, BothInv, ChatInv, Inv, Types
  <2>4. Decks!TypeOK
    BY <2>1, <2>3 DEF Decks!TypeOK, DP!Fits, DP!Types, DP!Bounds, Decks!Record, DP!Record,
                      Decks!NoRecord, DP!NoRecord, Decks!HandlerState, DP!HandlerState,
                      Decks!MakerStates, DP!MakerStates, Decks!Ages, DP!Ages
  <2> QED
    BY <2>2, <2>4 DEF LimitHolds
<1> QED
  BY <1>1, AlwaysBothInv, PTL

\* Beside a chat an order is not at work twice at the maker.
THEOREM OrdersBesideChat == BothSpec => []OrdersAreMadeOnce
<1>1. BothInv => OrdersAreMadeOnce
  <2> SUFFICES ASSUME BothInv PROVE OrdersAreMadeOnce
    OBVIOUS
  <2>1. DP!OrdersAreMadeOnce
    BY DeckConstantsHold, DP!SoundLimits DEF BothInv
  <2> QED
    BY <2>1 DEF OrdersAreMadeOnce, Decks!OrdersAreMadeOnce, DP!OrdersAreMadeOnce, Decks!Active,
                DP!Active, Decks!Recorded, DP!Recorded, Decks!NoRecord, DP!NoRecord
<1> QED
  BY <1>1, AlwaysBothInv, PTL

\* The end of a deck is told once in a conversation that chats write to and its owner may
\* delete, and what counts as told was told (_post_notice, append_message).
THEOREM EndsAreToldInTheChat == BothSpec => []DeckEndsAreTold
<1>1. BothInv => DeckEndsAreTold
  <2> SUFFICES ASSUME BothInv PROVE DeckEndsAreTold
    OBVIOUS
  <2>1. DP!Notices(Written)
    BY DEF BothInv
  <2>2. Decks!ToldEndsAreThere
    BY <2>1 DEF DP!Notices, Decks!ToldEndsAreThere, DP!ToldEndsAreThere, Decks!Told, DP!Told,
                Decks!Recorded, DP!Recorded, Decks!NoRecord, DP!NoRecord
  <2> QED
    BY <2>1, <2>2 DEF DP!Notices, DeckEndsAreTold
<1> QED
  BY <1>1, AlwaysBothInv, PTL
=============================================================================
