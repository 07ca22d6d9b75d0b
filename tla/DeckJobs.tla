----------------------------- MODULE DeckJobs ------------------------------
(***************************************************************************)
(* Decks made from reports (agent/wda_deck.py).  An order is reserved in   *)
(* the portal's records, sent to the maker under the id of its job, so     *)
(* that sending it again makes nothing new, and followed by steps until    *)
(* its end is recorded and told in the conversation.  Records are written  *)
(* under a lock of the job, reservations under one lock for all; between   *)
(* two awaits anything else may happen, and the portal may die.            *)
(***************************************************************************)
EXTENDS Naturals, Sequences, FiniteSets

CONSTANTS
  Handlers,   \* requests served at the same time
  People,     \* who may order
  Crews,      \* whose requests they are: functions from Handlers to People
  Jobs,       \* ids of jobs; a new one is drawn at random
  Orders,     \* a report with its options
  NoOrder,
  Nobody,     \* holds no lock
  Max,        \* jobs of one person at a time (wda_deck_inflight_max)
  BoxMax,     \* jobs of all at a time (wda_deck_inflight_box_max)
  MaxAsks,    \* bound: requests
  MaxCrashes  \* bound: deaths of the portal

VARIABLES
  who,      \* whose each handler is
  rec,      \* the records; "none" for no record
  maker,    \* what became of the job at the maker
  hs,       \* what each handler is at
  creating, \* holder of the lock under which orders are reserved
  lock,     \* holder of the lock of each job
  conv,     \* the messages of the conversation
  turns,    \* a turn of the conversation is under way, as the relay counts
  gone,     \* the conversation was deleted
  sent,     \* history: what each job was drawn for
  astray,   \* history: jobs the portal lost sight of while they may be at the maker
  again,    \* history: jobs sent again after their reservation had run out
  asks, crashes

deck == <<who, rec, maker, hs, creating, lock, conv, sent, astray, again, asks, crashes>>
vars == <<deck, turns, gone>>

\* The age of a record: below 300 s, below 6 hours, above.
Ages == 0 .. 2
Record == [owner : People, order : Orders, run : BOOLEAN, unknown : BOOLEAN, age : Ages,
           fin : {"no", "done", "failed"}, pending : BOOLEAN, expired : BOOLEAN]
NoRecord == [owner |-> Nobody]
MakerStates == {"none", "preparing", "built", "rendering", "done", "gone"}
HandlerState ==
  [pc : {"idle", "step", "ask", "leave", "post", "append", "mark", "reserve",
         "save", "send", "record", "unknown", "foreign", "release"},
   todo : SUBSET Jobs, job : Jobs \cup {Nobody}, order : Orders \cup {NoOrder}, retry : BOOLEAN]
Idle == [pc |-> "idle", todo |-> {}, job |-> Nobody, order |-> NoOrder, retry |-> FALSE]

Recorded == {j \in Jobs : rec[j] # NoRecord}
Reserving(j) == ~ rec[j].run
Inflight(j) == rec[j].fin = "no" /\ rec[j].age < (IF Reserving(j) THEN 1 ELSE 2)
Mine(p) == {j \in Recorded : rec[j].owner = p}

\* Jobs that count for all, besides those of p: of the others' those that are below 15
\* minutes of age or whose owner's screen asked within five minutes (looked).
BoxCounts(p, looked) ==
  {j \in Recorded : Inflight(j) /\ (rec[j].owner = p \/ Reserving(j) \/ rec[j].age = 0 \/ j \in looked)}

Told(j) == \E i \in DOMAIN conv : conv[i].role = "deck" /\ conv[i].of = j
Notice(j) == [role |-> "deck", of |-> j, stop |-> FALSE, end |-> FALSE, text |-> TRUE]
Active(j) == maker[j] \in {"preparing", "built", "rendering"}
-----------------------------------------------------------------------------
Init ==
  /\ who \in Crews
  /\ rec = [j \in Jobs |-> NoRecord]
  /\ maker = [j \in Jobs |-> "none"]
  /\ hs = [h \in Handlers |-> Idle]
  /\ creating = Nobody /\ lock = [j \in Jobs |-> Nobody]
  /\ conv = <<>> /\ turns = FALSE /\ gone = FALSE
  /\ sent = [j \in Jobs |-> NoOrder] /\ astray = {} /\ again = {} /\ asks = 0 /\ crashes = 0

\* The jobs whose handler works on the order itself.
Ordering == {hs[h].job : h \in {g \in Handlers :
               hs[g].pc \in {"send", "record", "unknown", "foreign", "release"}}}

\* Time passes for a record.  A reservation may run out while its order is still worked on.
Age(j) ==
  /\ j \in Recorded /\ rec[j].age < 2
  /\ rec' = [rec EXCEPT ![j].age = rec[j].age + 1]
  /\ astray' = IF j \in Ordering /\ rec[j].age = 0 THEN astray \cup {j} ELSE astray
  /\ UNCHANGED <<who, maker, hs, creating, lock, conv, sent, again, asks, crashes>>

\* The maker works, with or without rendering by itself; it fails, or clears up in the end.
Make(j) ==
  /\ \E next \in CASE maker[j] = "preparing" -> {"built", "rendering", "gone"}
                   [] maker[j] = "rendering" -> {"done", "gone"}
                   [] maker[j] = "done" -> {"gone"}
                   [] OTHER -> {} :
       maker' = [maker EXCEPT ![j] = next]
  /\ UNCHANGED <<who, rec, hs, creating, lock, conv, sent, astray, again, asks, crashes>>

\* A download shows that the files are gone.
Expire(j) ==
  /\ j \in Recorded /\ rec[j].fin = "done" /\ maker[j] = "gone" /\ ~ rec[j].expired
  /\ lock[j] = Nobody
  /\ rec' = [rec EXCEPT ![j].expired = TRUE]
  /\ UNCHANGED <<who, maker, hs, creating, lock, conv, sent, astray, again, asks, crashes>>

\* The portal dies and starts again: the records are all that is left.  What was sent and
\* not recorded is lost sight of.
Crash ==
  /\ crashes < MaxCrashes /\ crashes' = crashes + 1
  /\ astray' = astray \cup {j \in Ordering : maker[j] # "none"}
  /\ hs' = [h \in Handlers |-> Idle]
  /\ creating' = Nobody /\ lock' = [j \in Jobs |-> Nobody]
  /\ UNCHANGED <<who, rec, maker, conv, sent, again, asks>>
-----------------------------------------------------------------------------
(* Steps                                                                   *)

To(h, pc) == hs' = [hs EXCEPT ![h].pc = pc]
Unlock(h) == lock' = [j \in Jobs |-> IF lock[j] = h THEN Nobody ELSE lock[j]]

\* The handler is through with one job of those it was to take a step on.
Next1(h) ==
  LET todo == hs[h].todo \ {hs[h].job} IN
  hs' = [hs EXCEPT ![h] =
           IF todo = {} /\ hs[h].order = NoOrder THEN Idle
           ELSE [hs[h] EXCEPT !.todo = todo, !.job = Nobody,
                              !.pc = IF todo = {} THEN "reserve" ELSE "step"]]

Ask(h) ==
  /\ hs[h].pc = "idle" /\ asks < MaxAsks /\ asks' = asks + 1

\* A step on a job: a screen asks for it.
Advance(h) ==
  /\ Ask(h)
  /\ \E j \in Mine(who[h]) : hs' = [hs EXCEPT ![h].pc = "step", ![h].todo = {j}]
  /\ UNCHANGED <<who, rec, maker, creating, lock, conv, sent, astray, again, crashes>>

\* An order from a conversation that is there: first a step on each open job of the person
\* (settle_open).
Order(h) ==
  /\ Ask(h) /\ ~ gone
  /\ LET open == {j \in Mine(who[h]) : Inflight(j) /\ ~ Reserving(j)} IN
     \E o \in Orders :
       hs' = [hs EXCEPT ![h].order = o, ![h].todo = open,
                        ![h].pc = IF open = {} THEN "reserve" ELSE "step"]
  /\ UNCHANGED <<who, rec, maker, creating, lock, conv, sent, astray, again, crashes>>

\* The job's lock is taken and its record read.
LockJob(h) ==
  /\ hs[h].pc = "step"
  /\ \E j \in hs[h].todo :
       /\ lock[j] = Nobody
       /\ lock' = [lock EXCEPT ![j] = h]
       /\ hs' = [hs EXCEPT ![h].job = j,
            ![h].pc = IF j \notin Recorded THEN "leave"
                      ELSE IF rec[j].pending THEN "post"
                      ELSE IF rec[j].fin # "no" \/ Reserving(j) THEN "leave" ELSE "ask"]
  /\ UNCHANGED <<who, rec, maker, creating, conv, sent, astray, again, asks, crashes>>

\* There is nothing to do, the maker does not answer or refuses: the lock is given back.
Leave(h) ==
  /\ hs[h].pc \in {"leave", "ask", "append"}
  /\ Unlock(h) /\ Next1(h)
  /\ UNCHANGED <<who, rec, maker, creating, conv, sent, astray, again, asks, crashes>>

\* The maker is asked, and an end recorded before it is told.  A job that takes too long has
\* failed, whether the maker answers or not; one without files has, too.
AskMaker(h) ==
  LET j == hs[h].job
      ends == IF maker[j] = "done" THEN {"done", "failed"}
              ELSE IF maker[j] = "gone" \/ rec[j].age = 2 THEN {"failed"} ELSE {} IN
  /\ hs[h].pc = "ask"
  /\ \E end \in ends : rec' = [rec EXCEPT ![j].fin = end, ![j].pending = TRUE]
  /\ To(h, "post")
  /\ UNCHANGED <<who, maker, creating, lock, conv, sent, astray, again, asks, crashes>>

\* A maker that has built and does not render by itself is told to.
Render(h) ==
  LET j == hs[h].job IN
  /\ hs[h].pc = "ask" /\ maker[j] = "built" /\ rec[j].age < 2
  /\ maker' = [maker EXCEPT ![j] = "rendering"]
  /\ Unlock(h) /\ Next1(h)
  /\ UNCHANGED <<who, rec, creating, conv, sent, astray, again, asks, crashes>>

\* The notice is put off while a turn is under way.
Post(h) ==
  /\ hs[h].pc = "post"
  /\ IF turns THEN Unlock(h) /\ Next1(h) ELSE To(h, "append") /\ UNCHANGED lock
  /\ UNCHANGED <<who, rec, maker, creating, conv, sent, astray, again, asks, crashes>>

\* Every message gets an id of its own.
AppendAnew(h) ==
  /\ hs[h].pc = "append"
  /\ conv' = IF gone THEN conv ELSE Append(conv, Notice(hs[h].job))
  /\ To(h, "mark")
  /\ UNCHANGED <<who, rec, maker, creating, lock, sent, astray, again, asks, crashes>>

\* The id of the message is the job's: it is stored once, and in no conversation that is gone.
AppendNotice(h) ==
  /\ hs[h].pc = "append"
  /\ conv' = IF gone \/ Told(hs[h].job) THEN conv ELSE Append(conv, Notice(hs[h].job))
  /\ To(h, "mark")
  /\ UNCHANGED <<who, rec, maker, creating, lock, sent, astray, again, asks, crashes>>

\* The notice is recorded as told.
Mark(h) ==
  /\ hs[h].pc = "mark"
  /\ rec' = [rec EXCEPT ![hs[h].job].pending = FALSE]
  /\ Unlock(h) /\ Next1(h)
  /\ UNCHANGED <<who, maker, creating, conv, sent, astray, again, asks, crashes>>
-----------------------------------------------------------------------------
(* Orders                                                                  *)

\* Jobs of the same order whose sending went unanswered: they are sent again under their id.
Unanswered(p, o) ==
  {j \in Mine(p) : rec[j].order = o /\ Reserving(j) /\ rec[j].unknown /\ rec[j].fin = "no"
                   /\ rec[j].age < 2}
\* Jobs that are given instead of a new one.
Same(p, o, anew) ==
  {j \in Mine(p) : rec[j].order = o /\ (Inflight(j) \/
                     (~ anew /\ rec[j].fin = "done" /\ ~ rec[j].expired))}

\* Reservations without a lock of their own.
ReserveFreely(h) ==
  LET p == who[h]  o == hs[h].order IN
  /\ hs[h].pc = "reserve"
  /\ \/ \E j \in Unanswered(p, o) :
          hs' = [hs EXCEPT ![h].pc = "save", ![h].job = j, ![h].retry = TRUE]
     \/ \E anew \in BOOLEAN, looked \in SUBSET Recorded :
          /\ Unanswered(p, o) = {}
          /\ IF \/ Same(p, o, anew) # {}
                \/ Cardinality({j \in Mine(p) : Inflight(j)}) >= Max
                \/ Cardinality(BoxCounts(p, looked)) >= BoxMax
             THEN hs' = [hs EXCEPT ![h] = Idle]
             ELSE \E j \in Jobs \ (Recorded \cup {hs[g].job : g \in Handlers}) :
                    /\ maker[j] = "none"
                    /\ hs' = [hs EXCEPT ![h].pc = "save", ![h].job = j]
  /\ UNCHANGED <<who, rec, maker, creating, lock, conv, sent, astray, again, asks, crashes>>

\* The limits count what is in the records; the lock is held until the reservation is there.
Reserve(h) ==
  LET p == who[h]  o == hs[h].order IN
  /\ hs[h].pc = "reserve" /\ creating = Nobody
  /\ \/ \E j \in Unanswered(p, o) :
          /\ hs' = [hs EXCEPT ![h].pc = "save", ![h].job = j, ![h].retry = TRUE]
          /\ creating' = h
     \/ \E anew \in BOOLEAN, looked \in SUBSET Recorded :
          /\ Unanswered(p, o) = {}
          /\ IF \/ Same(p, o, anew) # {}
                \/ Cardinality({j \in Mine(p) : Inflight(j)}) >= Max
                \/ Cardinality(BoxCounts(p, looked)) >= BoxMax
             THEN hs' = [hs EXCEPT ![h] = Idle] /\ UNCHANGED creating
             ELSE \E j \in Jobs \ (Recorded \cup {hs[g].job : g \in Handlers}) :
                    /\ maker[j] = "none"
                    /\ hs' = [hs EXCEPT ![h].pc = "save", ![h].job = j]
                    /\ creating' = h
  /\ UNCHANGED <<who, rec, maker, lock, conv, sent, astray, again, asks, crashes>>

SaveReservation(h) ==
  LET j == hs[h].job IN
  /\ hs[h].pc = "save"
  /\ rec' = [rec EXCEPT ![j] =
       IF hs[h].retry THEN [rec[j] EXCEPT !.unknown = FALSE, !.age = 0]
       ELSE [owner |-> who[h], order |-> hs[h].order, run |-> FALSE, unknown |-> FALSE,
             age |-> 0, fin |-> "no", pending |-> FALSE, expired |-> FALSE]]
  /\ again' = IF hs[h].retry /\ rec[j].age > 0 THEN again \cup {j} ELSE again
  /\ sent' = [sent EXCEPT ![j] = <<who[h], hs[h].order>>]
  /\ creating' = IF creating = h THEN Nobody ELSE creating
  /\ To(h, "send")
  /\ UNCHANGED <<who, maker, lock, conv, astray, asks, crashes>>

\* The report cannot be read, the maker is not reached, or it refuses.
NotSent(h) ==
  /\ hs[h].pc = "send"
  /\ To(h, "release")
  /\ UNCHANGED <<who, rec, maker, creating, lock, conv, sent, astray, again, asks, crashes>>

\* The maker has a run for the id, new or not; its answer says so, names another owner, or
\* does not come.  An answer without an id, and a request cut off, count as not sent.
Send(h) ==
  LET j == hs[h].job IN
  /\ hs[h].pc = "send"
  /\ maker' = [maker EXCEPT ![j] = IF maker[j] = "none" THEN "preparing" ELSE maker[j]]
  /\ \E pc \in {"record", "foreign", "unknown", "release"} :
       /\ To(h, pc)
       /\ astray' = IF pc \in {"foreign", "release"} THEN astray \cup {j} ELSE astray
  /\ UNCHANGED <<who, rec, creating, lock, conv, sent, again, asks, crashes>>

\* No answer comes, and there is no run either.
NoAnswer(h) ==
  /\ hs[h].pc = "send"
  /\ To(h, "unknown")
  /\ UNCHANGED <<who, rec, maker, creating, lock, conv, sent, astray, again, asks, crashes>>

\* An order that went unanswered is treated as one that was refused.
AnsweredDropping(h) ==
  LET j == hs[h].job  pc == hs[h].pc IN
  /\ pc \in {"record", "unknown", "foreign", "release"} /\ lock[j] = Nobody
  /\ rec' = [rec EXCEPT ![j] =
       IF pc = "record" THEN [rec[j] EXCEPT !.run = TRUE]
       ELSE IF pc = "foreign" THEN [rec[j] EXCEPT !.run = TRUE, !.fin = "failed"]
       ELSE NoRecord]
  /\ hs' = [hs EXCEPT ![h] = Idle]
  /\ UNCHANGED <<who, maker, creating, lock, conv, sent, astray, again, asks, crashes>>

\* What came of the order.  One that went unanswered keeps its place and its id; of one that
\* was not sent the place is given back, unless an earlier sending may have arrived.
Answered(h) ==
  LET j == hs[h].job  pc == hs[h].pc IN
  /\ pc \in {"record", "unknown", "foreign", "release"} /\ lock[j] = Nobody
  /\ rec' = [rec EXCEPT ![j] =
       IF pc = "record" THEN [rec[j] EXCEPT !.run = TRUE]
       ELSE IF pc = "foreign" THEN [rec[j] EXCEPT !.run = TRUE, !.fin = "failed"]
       ELSE IF pc = "unknown" \/ hs[h].retry THEN [rec[j] EXCEPT !.unknown = TRUE]
       ELSE NoRecord]
  /\ hs' = [hs EXCEPT ![h] = Idle]
  /\ UNCHANGED <<who, maker, creating, lock, conv, sent, astray, again, asks, crashes>>
-----------------------------------------------------------------------------
Handle(h) ==
  \/ Advance(h) \/ Order(h) \/ LockJob(h) \/ Leave(h) \/ AskMaker(h) \/ Render(h)
  \/ Post(h) \/ AppendNotice(h) \/ Mark(h) \/ Reserve(h) \/ SaveReservation(h) \/ NotSent(h)
  \/ Send(h) \/ NoAnswer(h) \/ Answered(h)

DeckNext ==
  \/ \E j \in Jobs : Age(j) \/ Make(j) \/ Expire(j)
  \/ \E h \in Handlers : Handle(h)
  \/ Crash

\* The turns of the conversation are the relay's; its owner may delete it.
Aside ==
  \/ turns' = ~ turns /\ UNCHANGED <<deck, gone>>
  \/ /\ gone' = TRUE /\ conv' = <<>>
     /\ UNCHANGED <<who, rec, maker, hs, creating, lock, turns, sent, astray, again, asks, crashes>>

Next == (DeckNext /\ UNCHANGED <<turns, gone>>) \/ Aside

Spec == Init /\ [][Next]_vars
-----------------------------------------------------------------------------
(* Properties                                                              *)

\* Records, locks and handlers have the shapes the portal gives them.
TypeOK ==
  /\ who \in Crews /\ rec \in [Jobs -> Record \cup {NoRecord}]
  /\ maker \in [Jobs -> MakerStates] /\ hs \in [Handlers -> HandlerState]
  /\ creating \in Handlers \cup {Nobody} /\ lock \in [Jobs -> Handlers \cup {Nobody}]
  /\ turns \in BOOLEAN /\ gone \in BOOLEAN
  /\ sent \in [Jobs -> (People \X Orders) \cup {NoOrder}]
  /\ astray \subseteq Jobs /\ again \subseteq Jobs
  /\ asks \in 0 .. MaxAsks /\ crashes \in 0 .. MaxCrashes

\* A person does not have more jobs under way than the limit, however many requests are
\* checked at the same time, but for jobs sent again when their place had run out.
LimitHolds ==
  \A p \in People : Cardinality({j \in Mine(p) \ (again \cup astray) : Inflight(j)}) <= Max

\* An order is not made twice at the same time: answers that do not come, retries, limits
\* and the end of the wait aside, only a job the portal lost sight of has a double.
OrdersAreMadeOnce ==
  \A i, j \in Jobs \ astray :
    (i # j /\ sent[i] = sent[j] /\ Active(i) /\ Active(j)) =>
      \E k \in {i, j} \cap Recorded : rec[k].age = 2

\* The end of a job is told once, though steps collide, are put off, or die between the
\* message and the record of it (_post_notice).
EndsAreToldOnce ==
  \A i, k \in DOMAIN conv : i # k => conv[i].of # conv[k].of

\* A job whose end counts as told has its message, until the conversation is deleted.
ToldEndsAreThere ==
  \A j \in Recorded : (rec[j].fin # "no" /\ ~ rec[j].pending) =>
    Told(j) \/ gone \/ j \in astray
=============================================================================
