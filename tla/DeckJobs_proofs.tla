--------------------------- MODULE DeckJobs_proofs ---------------------------
(***************************************************************************)
(* Theorems about DeckJobs, for any people, orders, requests and finitely  *)
(* many jobs.                                                              *)
(*                                                                         *)
(* OneEach is why the orders do not collide: one request at a time         *)
(* reserves, and no two work on one job.  From it follows what a request   *)
(* may rely on in the record of its job though others move between its     *)
(* steps (Fits), and from that what the limit and the orders rest on.      *)
(***************************************************************************)
EXTENDS DeckJobs, FiniteSetTheorems, SequenceTheorems, TLAPS

\* What the constants are: everybody has a name, no lock is held by nobody.
DeckConstants ==
  /\ Crews \subseteq [Handlers -> People] /\ Nobody \notin Handlers \cup People
  /\ IsFiniteSet(Jobs) /\ Max \in Nat /\ MaxAsks \in Nat /\ MaxCrashes \in Nat

\* The shapes of what the orders are about.
Types ==
  /\ who \in [Handlers -> People] /\ rec \in [Jobs -> Record \cup {NoRecord}]
  /\ maker \in [Jobs -> MakerStates] /\ hs \in [Handlers -> HandlerState]
  /\ lock \in [Jobs -> Handlers \cup {Nobody}]
  /\ sent \in [Jobs -> (People \X Orders) \cup {NoOrder}]

\* Steps of an order between its reservation and what came of it.
Sending == {"send", "record", "unknown", "foreign", "release"}
Works(h) == hs[h].pc \in {"save"} \cup Sending

\* Steps on a job, under its lock; all but the first and the last rely on its record.
Relying == {"ask", "post", "append", "mark"}
Locking == {"leave"} \cup Relying

OneEach ==
  /\ \A h \in Handlers : hs[h].pc = "save" => creating = h
  /\ \A h, g \in Handlers : (h # g /\ Works(h) /\ Works(g)) => hs[h].job # hs[g].job

\* What a request that works on the order of a job finds in its record.
Reserved(h) ==
  LET j == hs[h].job IN
  /\ j \in Recorded /\ Reserving(j) /\ rec[j].fin = "no"
  /\ rec[j].owner = who[h] /\ rec[j].order = hs[h].order

OrderFits(h) ==
  LET k == hs[h]  j == hs[h].job IN
  /\ Works(h) => j \in Jobs /\ k.order \in Orders
  /\ k.retry => Works(h)
  /\ k.pc = "reserve" => k.order \in Orders
  /\ k.pc = "save" => IF k.retry THEN Reserved(h) /\ rec[j].unknown
                      ELSE j \notin Recorded /\ maker[j] = "none"
  /\ k.pc \in Sending => /\ Reserved(h) /\ ~ rec[j].unknown
                         /\ rec[j].age = 0 \/ j \in astray
                         /\ sent[j] = <<who[h], k.order>>
  /\ k.pc = "send" /\ ~ k.retry => maker[j] = "none"
  /\ k.pc = "release" /\ ~ k.retry => maker[j] = "none" \/ j \in astray
  /\ k.pc = "foreign" => j \in astray

\* What a request that holds the lock of a job finds in its record.
StepFits(h) ==
  LET k == hs[h]  j == hs[h].job IN
  /\ k.pc \in Locking => j \in Jobs /\ lock[j] = h
  /\ k.pc \in Relying => j \in Recorded /\ rec[j].run
  /\ k.pc = "ask" => rec[j].fin = "no"
  /\ k.pc \in {"post", "append", "mark"} => rec[j].fin # "no" /\ rec[j].pending

\* A job gets an end when the maker has a run of it, and a place for an answer before that.
RecordFits(j) ==
  /\ rec[j].fin # "no" \/ rec[j].pending \/ rec[j].expired => rec[j].run /\ rec[j].fin # "no"
  /\ rec[j].unknown => Reserving(j)

Fits ==
  /\ Types /\ OneEach
  /\ \A h \in Handlers : OrderFits(h) /\ StepFits(h)
  /\ \A j \in Recorded : RecordFits(j)
-----------------------------------------------------------------------------
(* What the steps do.                                                      *)

\* A record has an owner, no record has none.
LEMMA RecordsAreRecords ==
  ASSUME DeckConstants, Types, NEW j \in Jobs
  PROVE  /\ j \in Recorded <=> rec[j] \in Record
         /\ j \notin Recorded <=> rec[j] = NoRecord
         /\ j \in Recorded <=> rec[j].owner # Nobody
<1>1. \A r \in Record : r.owner # Nobody
  BY DEF DeckConstants, Record
<1>2. NoRecord.owner = Nobody
  BY DEF NoRecord
<1> QED
  BY <1>1, <1>2 DEF Types, Recorded

\* A request becomes k; the others stay what they are.
Becomes(h, k) == hs' = [hs EXCEPT ![h] = k]

LEMMA ToBecomes ==
  ASSUME Types, NEW h \in Handlers,
         NEW pc \in {"idle", "step", "ask", "leave", "post", "append", "mark", "reserve",
                     "save", "send", "record", "unknown", "foreign", "release"}, To(h, pc)
  PROVE  \E k \in HandlerState : /\ Becomes(h, k) /\ k.pc = pc /\ k.job = hs[h].job
                                 /\ k.order = hs[h].order /\ k.retry = hs[h].retry
<1> DEFINE k == [hs[h] EXCEPT !.pc = pc]
<1>1. k \in HandlerState /\ k.pc = pc /\ k.job = hs[h].job /\ k.order = hs[h].order
      /\ k.retry = hs[h].retry
  BY DEF Types, HandlerState
<1>2. Becomes(h, k)
  BY DEF To, Types, Becomes
<1> QED
  BY <1>1, <1>2

\* A request that is through with a job goes on to none that it works on.
LEMMA NextBecomes ==
  ASSUME Types, NEW h \in Handlers, Next1(h)
  PROVE  \E k \in HandlerState : /\ Becomes(h, k) /\ k.pc \in {"idle", "step", "reserve"}
                                 /\ k.retry => hs[h].retry
                                 /\ k.pc = "reserve" => k.order \in Orders
<1> DEFINE todo == hs[h].todo \ {hs[h].job}
           k == IF todo = {} /\ hs[h].order = NoOrder THEN Idle
                ELSE [hs[h] EXCEPT !.todo = todo, !.job = Nobody,
                                   !.pc = IF todo = {} THEN "reserve" ELSE "step"]
<1>1. Becomes(h, k)
  BY DEF Next1, Types, Becomes
<1>2. k \in HandlerState /\ k.pc \in {"idle", "step", "reserve"} /\ (k.retry => hs[h].retry)
      /\ (k.pc = "reserve" => k.order \in Orders)
  <2>1. CASE todo = {} /\ hs[h].order = NoOrder
    BY <2>1 DEF Types, HandlerState, Idle
  <2>2. CASE ~ (todo = {} /\ hs[h].order = NoOrder)
    <3>1. hs[h] \in HandlerState /\ todo \in SUBSET Jobs
      BY DEF Types, HandlerState
    <3>2. k = [hs[h] EXCEPT !.todo = todo, !.job = Nobody,
                            !.pc = IF todo = {} THEN "reserve" ELSE "step"]
      BY <2>2
    <3>3. k \in HandlerState /\ k.pc = (IF todo = {} THEN "reserve" ELSE "step")
          /\ k.retry = hs[h].retry /\ k.order = hs[h].order
      BY <3>1, <3>2 DEF HandlerState
    <3>4. todo = {} => hs[h].order \in Orders
      BY <2>2, <3>1 DEF HandlerState
    <3> HIDE DEF k, todo
    <3> QED
      BY <3>3, <3>4
  <2> QED
    BY <2>1, <2>2
<1> QED
  BY <1>1, <1>2
-----------------------------------------------------------------------------
(* Who keeps what it relies on.                                            *)

\* Two requests that rely on records, or work on orders, are about different jobs.
LEMMA JobsApart ==
  ASSUME Fits, NEW g \in Handlers, NEW h \in Handlers, g # h
  PROVE  /\ Works(g) /\ Works(h) => hs[g].job # hs[h].job
         /\ hs[g].pc \in Locking /\ hs[h].pc \in Locking => hs[g].job # hs[h].job
         /\ Works(g) /\ hs[h].pc \in Relying => hs[g].job # hs[h].job
<1>1. OneEach /\ OrderFits(g) /\ StepFits(g) /\ OrderFits(h) /\ StepFits(h)
  BY DEF Fits
<1>2. Works(g) /\ Works(h) => hs[g].job # hs[h].job
  BY <1>1 DEF OneEach
<1>3. hs[g].pc \in Locking /\ hs[h].pc \in Locking => hs[g].job # hs[h].job
  BY <1>1 DEF StepFits
<1>4. Works(g) => hs[g].job \notin Recorded \/ ~ rec[hs[g].job].run
  BY <1>1 DEF OrderFits, Reserved, Reserving, Works, Sending
<1>5. hs[h].pc \in Relying => hs[h].job \in Recorded /\ rec[hs[h].job].run
  BY <1>1 DEF StepFits
<1> QED
  BY <1>2, <1>3, <1>4, <1>5

\* A request finds its job as it left it.
LEMMA StillFits ==
  ASSUME NEW g \in Handlers, OrderFits(g), StepFits(g), hs'[g] = hs[g], who' = who,
         astray \subseteq astray',
         Works(g) \/ hs[g].pc \in Relying => rec'[hs[g].job] = rec[hs[g].job],
         Works(g) => /\ sent'[hs[g].job] = sent[hs[g].job]
                     /\ maker[hs[g].job] = "none" => maker'[hs[g].job] = "none",
         hs[g].pc \in Locking => lock'[hs[g].job] = lock[hs[g].job]
  PROVE  OrderFits(g)' /\ StepFits(g)'
<1> DEFINE j == hs[g].job
<1>1. Works(g)' <=> Works(g)
  BY DEF Works
<1>2. (Works(g) \/ hs[g].pc \in Relying) /\ j \in Jobs => (j \in Recorded' <=> j \in Recorded)
  BY DEF Recorded
<1>3. j \in Recorded => j \in Jobs
  BY DEF Recorded
<1>4. Works(g) => (Reserved(g)' <=> Reserved(g))
  BY <1>2, <1>3 DEF Reserved, Recorded, Reserving, OrderFits
<1>5. OrderFits(g)'
  BY <1>1, <1>2, <1>4 DEF OrderFits, Works, Sending
<1>6. StepFits(g)'
  BY <1>2, <1>3 DEF StepFits, Locking, Relying
<1> QED
  BY <1>5, <1>6

\* One request moves on, to nothing it does not work on already.
LEMMA StillOneEach ==
  ASSUME Types, OneEach, NEW h \in Handlers, NEW k \in HandlerState, Becomes(h, k), k.pc # "save",
         k.pc \in Sending => Works(h) /\ k.job = hs[h].job,
         \A g \in Handlers \ {h} : creating = g => creating' = g
  PROVE  OneEach'
<1>1. hs'[h] = k /\ \A g \in Handlers \ {h} : hs'[g] = hs[g]
  BY DEF Becomes, Types
<1>2. \A g \in Handlers : hs'[g].pc = "save" => creating' = g
  BY <1>1 DEF OneEach
<1>3. \A g \in Handlers : Works(g)' => Works(g) /\ hs'[g].job = hs[g].job
  BY <1>1 DEF Works
<1> QED
  BY <1>2, <1>3 DEF OneEach

\* The records stay.
LEMMA StillRecords ==
  ASSUME Fits, UNCHANGED rec
  PROVE  \A j \in Recorded' : RecordFits(j)'
BY DEF Fits, Recorded, RecordFits, Reserving

\* Steps of a request that leave the records and the maker alone, but for locks.
LEMMA QuietStep ==
  ASSUME DeckConstants, Fits, NEW h \in Handlers, NEW k \in HandlerState, Becomes(h, k),
         UNCHANGED <<who, rec, maker, sent>>, astray \subseteq astray',
         lock' \in [Jobs -> Handlers \cup {Nobody}],
         \A g \in Handlers \ {h}, j \in Jobs : lock[j] = g => lock'[j] = g,
         k.pc # "save", k.pc \in Sending => Works(h) /\ k.job = hs[h].job,
         \A g \in Handlers \ {h} : creating = g => creating' = g,
         OrderFits(h)', StepFits(h)'
  PROVE  Fits'
<1>0. Types /\ OneEach /\ \A g \in Handlers : OrderFits(g) /\ StepFits(g)
  BY DEF Fits
<1>1. hs' \in [Handlers -> HandlerState] /\ \A g \in Handlers \ {h} : hs'[g] = hs[g]
  BY <1>0 DEF Becomes, Types
<1>2. Types'
  BY <1>0, <1>1 DEF Types
<1>3. OneEach'
  BY <1>0, StillOneEach
<1>4. \A g \in Handlers : OrderFits(g)' /\ StepFits(g)'
  <2> SUFFICES ASSUME NEW g \in Handlers \ {h} PROVE OrderFits(g)' /\ StepFits(g)'
    OBVIOUS
  <2>1. hs[g].pc \in Locking => lock'[hs[g].job] = lock[hs[g].job]
    BY <1>0 DEF StepFits
  <2> QED
    BY <1>0, <1>1, <2>1, StillFits
<1> QED
  BY <1>2, <1>3, <1>4, StillRecords DEF Fits

\* A request between two jobs relies on nothing.
LEMMA RestingFits ==
  ASSUME NEW h \in Handlers, hs'[h].pc \in {"idle", "step", "reserve"}, ~ hs'[h].retry,
         hs'[h].pc = "reserve" => hs'[h].order \in Orders
  PROVE  OrderFits(h)' /\ StepFits(h)'
BY DEF OrderFits, StepFits, Works, Sending, Locking, Relying

\* A request that gives back a lock.
LEMMA Unlocked ==
  ASSUME DeckConstants, Types, NEW h \in Handlers, Unlock(h)
  PROVE  /\ lock' \in [Jobs -> Handlers \cup {Nobody}]
         /\ \A g \in Handlers \ {h}, j \in Jobs : lock[j] = g => lock'[j] = g
BY DEF DeckConstants, Types, Unlock

LEMMA Leaving ==
  ASSUME DeckConstants, Fits, NEW h \in Handlers, hs[h].pc \in Locking, Unlock(h), Next1(h),
         UNCHANGED <<who, rec, maker, sent, astray, creating>>
  PROVE  Fits'
<1>0. Types /\ OrderFits(h)
  BY DEF Fits
<1>1. PICK k \in HandlerState :
        /\ Becomes(h, k) /\ k.pc \in {"idle", "step", "reserve"}
        /\ k.retry => hs[h].retry
        /\ k.pc = "reserve" => k.order \in Orders
  BY <1>0, NextBecomes
<1>2. ~ hs[h].retry
  BY <1>0 DEF OrderFits, Works, Sending, Locking, Relying
<1>3. hs'[h] = k
  BY <1>0, <1>1 DEF Becomes, Types
<1>4. OrderFits(h)' /\ StepFits(h)'
  BY <1>1, <1>2, <1>3, RestingFits
<1> QED
  BY <1>0, <1>1, <1>4, Unlocked, QuietStep DEF Sending

LEMMA Choosing ==
  ASSUME DeckConstants, Fits, NEW h \in Handlers, Advance(h) \/ Order(h)
  PROVE  Fits'
<1>0. Types /\ OrderFits(h) /\ hs[h].pc = "idle" /\ hs[h] \in HandlerState
      /\ UNCHANGED <<who, rec, maker, sent, astray, creating, lock>>
  BY DEF Fits, Types, Advance, Order, Ask
<1>1. ASSUME NEW k \in HandlerState, Becomes(h, k), k.pc \in {"step", "reserve"}, ~ k.retry,
             k.pc = "reserve" => k.order \in Orders
      PROVE  Fits'
  <2>1. hs'[h] = k
    BY <1>0, <1>1 DEF Becomes, Types
  <2>2. OrderFits(h)' /\ StepFits(h)'
    BY <1>1, <2>1, RestingFits
  <2> QED
    BY <1>0, <1>1, <2>2, QuietStep DEF Types, Sending
<1>2. ~ hs[h].retry
  BY <1>0 DEF OrderFits, Works, Sending
<1>3. CASE Advance(h)
  <2>1. PICK j \in Jobs : hs' = [hs EXCEPT ![h].pc = "step", ![h].todo = {j}]
    BY <1>3 DEF Advance, Mine, Recorded
  <2> DEFINE k == [hs[h] EXCEPT !.pc = "step", !.todo = {j}]
  <2>2. k \in HandlerState /\ k.pc = "step" /\ k.retry = hs[h].retry
    BY <1>0 DEF HandlerState
  <2>3. Becomes(h, k)
    BY <1>0, <2>1 DEF Becomes, Types
  <2> QED
    BY <1>1, <1>2, <2>2, <2>3
<1>4. CASE Order(h)
  <2>1. PICK o \in Orders, todo \in SUBSET Jobs :
          hs' = [hs EXCEPT ![h].order = o, ![h].todo = todo,
                           ![h].pc = IF todo = {} THEN "reserve" ELSE "step"]
    BY <1>4 DEF Order, Mine, Recorded
  <2> DEFINE k == [hs[h] EXCEPT !.order = o, !.todo = todo,
                                !.pc = IF todo = {} THEN "reserve" ELSE "step"]
  <2>2. k \in HandlerState /\ k.pc \in {"step", "reserve"} /\ k.retry = hs[h].retry /\ k.order = o
    BY <1>0 DEF HandlerState
  <2>3. Becomes(h, k)
    BY <1>0, <2>1 DEF Becomes, Types
  <2> QED
    BY <1>1, <1>2, <2>2, <2>3
<1> QED
  BY <1>3, <1>4

LEMMA TakingUp ==
  ASSUME DeckConstants, Fits, NEW h \in Handlers, LockJob(h)
  PROVE  Fits'
<1>0. /\ Types /\ OrderFits(h) /\ hs[h].pc = "step" /\ hs[h] \in HandlerState
      /\ \A j \in Recorded : RecordFits(j)
      /\ UNCHANGED <<who, rec, maker, sent, astray, creating>>
  BY DEF Fits, Types, LockJob
<1>1. PICK j \in Jobs :
        /\ lock[j] = Nobody /\ lock' = [lock EXCEPT ![j] = h]
        /\ hs' = [hs EXCEPT ![h].job = j,
             ![h].pc = IF j \notin Recorded THEN "leave"
                       ELSE IF rec[j].pending THEN "post"
                       ELSE IF rec[j].fin # "no" \/ Reserving(j) THEN "leave" ELSE "ask"]
  <2>1. hs[h].todo \subseteq Jobs
    BY <1>0 DEF HandlerState
  <2> QED
    BY <2>1 DEF LockJob
<1> DEFINE pc == IF j \notin Recorded THEN "leave"
                 ELSE IF rec[j].pending THEN "post"
                 ELSE IF rec[j].fin # "no" \/ Reserving(j) THEN "leave" ELSE "ask"
           k == [hs[h] EXCEPT !.job = j, !.pc = pc]
<1>2. k \in HandlerState /\ k.pc = pc /\ k.job = j /\ k.retry = hs[h].retry /\ Becomes(h, k)
      /\ pc \in {"leave", "post", "ask"}
  BY <1>0, <1>1 DEF HandlerState, Becomes, Types
<1>3. hs'[h] = k
  BY <1>0, <1>2 DEF Becomes, Types
<1>4. ~ k.retry
  BY <1>0, <1>2 DEF OrderFits, Works, Sending
<1>5. OrderFits(h)'
  BY <1>2, <1>3, <1>4 DEF OrderFits, Works, Sending
<1>6. lock'[j] = h /\ lock' \in [Jobs -> Handlers \cup {Nobody}]
      /\ \A g \in Handlers \ {h}, i \in Jobs : lock[i] = g => lock'[i] = g
  BY <1>0, <1>1 DEF DeckConstants, Types
<1>7. /\ pc \in Relying => j \in Recorded /\ rec[j].run
      /\ pc = "ask" => rec[j].fin = "no"
      /\ pc \in {"post", "append", "mark"} => rec[j].fin # "no" /\ rec[j].pending
  BY <1>0 DEF RecordFits, Relying, Reserving
<1>8. StepFits(h)'
  BY <1>0, <1>2, <1>3, <1>6, <1>7 DEF StepFits, Recorded
<1>9. k.pc # "save" /\ k.pc \notin Sending /\ astray \subseteq astray'
      /\ \A g \in Handlers \ {h} : creating = g => creating' = g
  BY <1>0, <1>2 DEF Sending
<1>10. k \in HandlerState /\ Becomes(h, k)
  BY <1>2
<1>11. UNCHANGED <<who, rec, maker, sent>>
  BY <1>0
<1> HIDE DEF k, pc
<1> QED
  BY <1>5, <1>6, <1>8, <1>9, <1>10, <1>11, QuietStep
\* A request that goes on with its job, and its order.
LEMMA GoingOn ==
  ASSUME DeckConstants, Fits, NEW h \in Handlers,
         \/ Post(h) /\ ~ turns
         \/ AppendNotice(h) \/ NotSent(h) \/ NoAnswer(h)
  PROVE  Fits'
<1>0. /\ Types /\ OrderFits(h) /\ StepFits(h)
      /\ UNCHANGED <<who, rec, maker, sent, astray, creating, lock>>
  BY DEF Fits, Post, AppendNotice, NotSent, NoAnswer
<1>1. ASSUME NEW pc \in {"append", "mark", "unknown", "release"}, To(h, pc),
             \/ hs[h].pc = "post" /\ pc = "append"
             \/ hs[h].pc = "append" /\ pc = "mark"
             \/ hs[h].pc = "send" /\ pc \in {"unknown", "release"}
      PROVE  Fits'
  <2>1. PICK k \in HandlerState : /\ Becomes(h, k) /\ k.pc = pc /\ k.job = hs[h].job
                                  /\ k.order = hs[h].order /\ k.retry = hs[h].retry
    BY <1>0, <1>1, ToBecomes
  <2>2. hs'[h] = k
    BY <1>0, <2>1 DEF Becomes, Types
  <2>3. Reserved(h) => Reserved(h)'
    BY <1>0, <2>1, <2>2 DEF Reserved, Recorded, Reserving
  <2>4. OrderFits(h)'
    BY <1>0, <1>1, <2>1, <2>2, <2>3 DEF OrderFits, Works, Sending
  <2>5. StepFits(h)'
    BY <1>0, <1>1, <2>1, <2>2 DEF StepFits, Recorded, Locking, Relying
  <2>6. k.pc # "save" /\ (k.pc \in Sending => Works(h) /\ k.job = hs[h].job)
    BY <1>1, <2>1 DEF Sending, Works
  <2> QED
    BY <1>0, <2>1, <2>4, <2>5, <2>6, QuietStep DEF Types
<1> QED
  BY <1>1 DEF Post, AppendNotice, NotSent, NoAnswer
\* A request that changes the record of a job, or what the maker has of it.
LEMMA JobStep ==
  ASSUME DeckConstants, Fits, NEW h \in Handlers, NEW k \in HandlerState, Becomes(h, k),
         NEW j \in Jobs, who' = who, astray \subseteq astray',
         rec' \in [Jobs -> Record \cup {NoRecord}], maker' \in [Jobs -> MakerStates],
         sent' \in [Jobs -> (People \X Orders) \cup {NoOrder}],
         \A i \in Jobs \ {j} : rec'[i] = rec[i] /\ maker'[i] = maker[i] /\ sent'[i] = sent[i],
         lock' \in [Jobs -> Handlers \cup {Nobody}],
         \A g \in Handlers \ {h}, i \in Jobs : lock[i] = g => lock'[i] = g,
         k.pc # "save", k.pc \in Sending => Works(h) /\ k.job = hs[h].job,
         \A g \in Handlers \ {h} : creating = g => creating' = g,
         \A g \in Handlers \ {h} : Works(g) \/ hs[g].pc \in Relying => hs[g].job # j,
         OrderFits(h)', StepFits(h)', j \in Recorded' => RecordFits(j)'
  PROVE  Fits'
<1>0. Types /\ OneEach /\ \A g \in Handlers : OrderFits(g) /\ StepFits(g)
  BY DEF Fits
<1>1. hs' \in [Handlers -> HandlerState] /\ \A g \in Handlers \ {h} : hs'[g] = hs[g]
  BY <1>0 DEF Becomes, Types
<1>2. Types'
  BY <1>0, <1>1 DEF Types
<1>3. OneEach'
  BY <1>0, StillOneEach
<1>4. \A g \in Handlers : OrderFits(g)' /\ StepFits(g)'
  <2> SUFFICES ASSUME NEW g \in Handlers \ {h} PROVE OrderFits(g)' /\ StepFits(g)'
    OBVIOUS
  <2>1. hs[g].pc \in Locking => hs[g].job \in Jobs /\ lock'[hs[g].job] = lock[hs[g].job]
    BY <1>0 DEF StepFits
  <2>2. Works(g) \/ hs[g].pc \in Relying => hs[g].job \in Jobs \ {j}
    BY <1>0, <2>1 DEF OrderFits, Locking
  <2> QED
    BY <1>0, <1>1, <2>1, <2>2, StillFits
<1>5. ASSUME NEW i \in Recorded' PROVE RecordFits(i)'
  <2>1. CASE i = j
    BY <1>5, <2>1
  <2>2. CASE i # j
    <3>1. i \in Recorded /\ rec'[i] = rec[i]
      BY <1>5, <2>2 DEF Recorded
    <3> QED
      BY <3>1 DEF Fits, RecordFits, Reserving
  <2> QED
    BY <2>1, <2>2
<1> QED
  BY <1>2, <1>3, <1>4, <1>5 DEF Fits

\* Nobody else relies on the job of a request that works on it, or relies on its record.
LEMMA OthersElsewhere ==
  ASSUME Fits, NEW h \in Handlers, Works(h) \/ hs[h].pc \in Relying
  PROVE  \A g \in Handlers \ {h} : Works(g) \/ hs[g].pc \in Relying => hs[g].job # hs[h].job
<1> SUFFICES ASSUME NEW g \in Handlers \ {h}
             PROVE  Works(g) \/ hs[g].pc \in Relying => hs[g].job # hs[h].job
  OBVIOUS
<1>1. /\ Works(g) /\ Works(h) => hs[g].job # hs[h].job
      /\ hs[g].pc \in Locking /\ hs[h].pc \in Locking => hs[g].job # hs[h].job
      /\ Works(g) /\ hs[h].pc \in Relying => hs[g].job # hs[h].job
      /\ Works(h) /\ hs[g].pc \in Relying => hs[g].job # hs[h].job
  BY JobsApart
<1> QED
  BY <1>1 DEF Locking
-----------------------------------------------------------------------------
(* Steps on a job.                                                         *)

\* The record of a job a request relies on is one.
LEMMA JobOfStep ==
  ASSUME DeckConstants, Fits, NEW h \in Handlers, hs[h].pc \in Relying
  PROVE  hs[h].job \in Jobs /\ rec[hs[h].job] \in Record /\ hs[h].job \in Recorded
<1>1. Types /\ StepFits(h)
  BY DEF Fits
<1>2. hs[h].job \in Recorded
  BY <1>1 DEF StepFits
<1> QED
  BY <1>1, <1>2, RecordsAreRecords DEF Recorded

LEMMA AskMakerFits ==
  ASSUME DeckConstants, Fits, NEW h \in Handlers, AskMaker(h)
  PROVE  Fits'
<1>0. /\ Types /\ OrderFits(h) /\ StepFits(h) /\ hs[h].pc = "ask"
      /\ UNCHANGED <<who, maker, sent, astray, creating, lock>>
  BY DEF Fits, AskMaker
<1>1. PICK j \in Jobs : j = hs[h].job /\ rec[j] \in Record /\ j \in Recorded
  BY <1>0, JobOfStep DEF Relying
<1>2. PICK k \in HandlerState : /\ Becomes(h, k) /\ k.pc = "post" /\ k.job = hs[h].job
                                /\ k.order = hs[h].order /\ k.retry = hs[h].retry
  BY ToBecomes, <1>0 DEF AskMaker
<1>3. hs'[h] = k
  BY <1>0, <1>2 DEF Becomes, Types
<1>4. PICK end \in {"done", "failed"} : rec' = [rec EXCEPT ![j].fin = end, ![j].pending = TRUE]
  BY <1>1 DEF AskMaker
<1>5. PICK r : r = [rec[j] EXCEPT !.fin = end, !.pending = TRUE]
  OBVIOUS
<1>6. r \in Record /\ r.fin = end /\ r.pending /\ r.run = rec[j].run /\ r.unknown = rec[j].unknown
  BY <1>1, <1>5 DEF Record
<1>7. rec' = [rec EXCEPT ![j] = r]
  BY <1>0, <1>1, <1>4, <1>5 DEF Types
<1>8. /\ rec' \in [Jobs -> Record \cup {NoRecord}] /\ rec'[j] = r
      /\ \A i \in Jobs \ {j} : rec'[i] = rec[i]
  BY <1>0, <1>1, <1>6, <1>7 DEF Types
<1>9. j \in Recorded'
  BY <1>1, <1>6, <1>8 DEF Recorded, Record, NoRecord
<1>16. RecordFits(j)
  BY <1>1 DEF Fits
<1>10. RecordFits(j)'
  BY <1>0, <1>1, <1>6, <1>8, <1>16 DEF RecordFits, StepFits, Relying, Reserving
<1>11. StepFits(h)'
  BY <1>0, <1>1, <1>2, <1>3, <1>6, <1>8, <1>9 DEF StepFits, Locking, Relying
<1>12. OrderFits(h)'
  BY <1>0, <1>2, <1>3 DEF OrderFits, Works, Sending
<1>13. \A g \in Handlers \ {h} : Works(g) \/ hs[g].pc \in Relying => hs[g].job # j
  BY <1>0, <1>1, OthersElsewhere DEF Relying
<1>14. k.pc # "save" /\ k.pc \notin Sending
  BY <1>2 DEF Sending
<1>15. /\ maker' \in [Jobs -> MakerStates] /\ lock' \in [Jobs -> Handlers \cup {Nobody}]
       /\ sent' \in [Jobs -> (People \X Orders) \cup {NoOrder}]
  BY <1>0 DEF Types
<1> QED
  BY <1>0, <1>1, <1>2, <1>8, <1>10, <1>11, <1>12, <1>13, <1>14, <1>15, JobStep

\* A request that leaves a job with a new record, or with the maker at work.
LEMMA LeavingChanged ==
  ASSUME DeckConstants, Fits, NEW h \in Handlers, hs[h].pc \in Relying, Unlock(h), Next1(h),
         NEW j \in Jobs, j = hs[h].job, UNCHANGED <<who, sent, astray, creating>>,
         rec' \in [Jobs -> Record \cup {NoRecord}], maker' \in [Jobs -> MakerStates],
         \A i \in Jobs \ {j} : rec'[i] = rec[i] /\ maker'[i] = maker[i],
         j \in Recorded' => RecordFits(j)'
  PROVE  Fits'
<1>0. Types /\ OrderFits(h)
  BY DEF Fits
<1>1. PICK k \in HandlerState :
        /\ Becomes(h, k) /\ k.pc \in {"idle", "step", "reserve"}
        /\ k.retry => hs[h].retry
        /\ k.pc = "reserve" => k.order \in Orders
  BY <1>0, NextBecomes
<1>2. ~ hs[h].retry
  BY <1>0 DEF OrderFits, Works, Sending, Relying
<1>3. hs'[h] = k
  BY <1>0, <1>1 DEF Becomes, Types
<1>4. OrderFits(h)' /\ StepFits(h)'
  BY <1>1, <1>2, <1>3, RestingFits
<1>7. \A g \in Handlers \ {h} : Works(g) \/ hs[g].pc \in Relying => hs[g].job # j
  BY OthersElsewhere
<1>8. /\ k.pc # "save" /\ k.pc \notin Sending
      /\ sent' \in [Jobs -> (People \X Orders) \cup {NoOrder}]
  BY <1>0, <1>1 DEF Sending, Types
<1>9. /\ lock' \in [Jobs -> Handlers \cup {Nobody}]
      /\ \A g \in Handlers \ {h}, i \in Jobs : lock[i] = g => lock'[i] = g
  BY <1>0, Unlocked
<1> QED
  BY <1>0, <1>1, <1>4, <1>7, <1>8, <1>9, JobStep
LEMMA MarkFits ==
  ASSUME DeckConstants, Fits, NEW h \in Handlers, Mark(h)
  PROVE  Fits'
<1>0. /\ Types /\ StepFits(h) /\ hs[h].pc = "mark" /\ hs[h].pc \in Relying
      /\ Unlock(h) /\ Next1(h)
      /\ UNCHANGED <<who, maker, sent, astray, creating>>
  BY DEF Fits, Mark, Relying
<1>1. PICK j \in Jobs : j = hs[h].job /\ rec[j] \in Record /\ j \in Recorded
  BY <1>0, JobOfStep
<1>2. PICK r : r = [rec[j] EXCEPT !.pending = FALSE]
  OBVIOUS
<1>3. r \in Record /\ r.fin = rec[j].fin /\ ~ r.pending /\ r.run = rec[j].run
      /\ r.unknown = rec[j].unknown /\ r.expired = rec[j].expired
  BY <1>1, <1>2 DEF Record
<1>4. rec' = [rec EXCEPT ![j] = r]
  BY <1>0, <1>1, <1>2 DEF Types, Mark
<1>5. /\ rec' \in [Jobs -> Record \cup {NoRecord}] /\ rec'[j] = r
      /\ \A i \in Jobs \ {j} : rec'[i] = rec[i] /\ maker'[i] = maker[i]
  BY <1>0, <1>1, <1>3, <1>4 DEF Types
<1>6. RecordFits(j)
  BY <1>1 DEF Fits
<1>7. RecordFits(j)'
  BY <1>3, <1>5, <1>6 DEF RecordFits, Reserving
<1>8. maker' \in [Jobs -> MakerStates]
  BY <1>0 DEF Types
<1> QED
  BY <1>0, <1>1, <1>5, <1>7, <1>8, LeavingChanged

LEMMA RenderFits ==
  ASSUME DeckConstants, Fits, NEW h \in Handlers, Render(h)
  PROVE  Fits'
<1>0. /\ Types /\ hs[h].pc = "ask" /\ hs[h].pc \in Relying /\ Unlock(h) /\ Next1(h)
      /\ UNCHANGED <<who, rec, sent, astray, creating>>
  BY DEF Fits, Render, Relying
<1>1. PICK j \in Jobs : j = hs[h].job /\ rec[j] \in Record /\ j \in Recorded
  BY <1>0, JobOfStep
<1>2. maker' = [maker EXCEPT ![j] = "rendering"]
  BY <1>1 DEF Render
<1>3. /\ maker' \in [Jobs -> MakerStates] /\ rec' \in [Jobs -> Record \cup {NoRecord}]
      /\ \A i \in Jobs \ {j} : rec'[i] = rec[i] /\ maker'[i] = maker[i]
  BY <1>0, <1>2 DEF Types, MakerStates
<1>4. RecordFits(j)'
  BY <1>0, <1>1 DEF Fits, RecordFits, Reserving
<1> QED
  BY <1>0, <1>1, <1>3, <1>4, LeavingChanged
-----------------------------------------------------------------------------
(* Orders.                                                                 *)

\* One request at a time gets to save, and nobody else works on its job.
LEMMA ReserveFits ==
  ASSUME DeckConstants, Fits, NEW h \in Handlers, Reserve(h)
  PROVE  Fits'
<1>0. /\ Types /\ OneEach /\ (\A g \in Handlers : OrderFits(g) /\ StepFits(g))
      /\ hs[h].pc = "reserve" /\ creating = Nobody /\ hs[h] \in HandlerState
      /\ UNCHANGED <<who, rec, maker, lock, sent, astray>>
  BY DEF Fits, Reserve, Types
<1>1. hs[h].order \in Orders /\ ~ hs[h].retry
  BY <1>0 DEF OrderFits, Works, Sending
<1>2. \A g \in Handlers : hs[g].pc # "save"
  BY <1>0 DEF OneEach, DeckConstants
<1>3. ASSUME hs' = [hs EXCEPT ![h] = Idle], UNCHANGED creating PROVE Fits'
  <2>1. PICK k : k = Idle
    OBVIOUS
  <2>2. k \in HandlerState /\ k.pc = "idle" /\ ~ k.retry
    BY <2>1 DEF HandlerState, Idle
  <2>3. Becomes(h, k) /\ hs'[h] = k
    BY <1>0, <1>3, <2>1 DEF Becomes, Types
  <2>4. OrderFits(h)' /\ StepFits(h)'
    BY <2>2, <2>3, RestingFits
  <2>5. k.pc # "save" /\ k.pc \notin Sending
    BY <2>2 DEF Sending
  <2>6. lock' \in [Jobs -> Handlers \cup {Nobody}]
    BY <1>0 DEF Types
  <2> QED
    BY <1>0, <1>3, <2>2, <2>3, <2>4, <2>5, <2>6, QuietStep
<1>4. ASSUME NEW k \in HandlerState, Becomes(h, k), k.pc = "save", k.job \in Jobs,
             k.order = hs[h].order, creating' = h,
             \A g \in Handlers : Works(g) => hs[g].job # k.job,
             IF k.retry THEN /\ k.job \in Recorded /\ Reserving(k.job) /\ rec[k.job].fin = "no"
                             /\ rec[k.job].owner = who[h] /\ rec[k.job].order = k.order
                             /\ rec[k.job].unknown
             ELSE k.job \notin Recorded /\ maker[k.job] = "none"
      PROVE  Fits'
  <2>1. hs'[h] = k /\ hs' \in [Handlers -> HandlerState] /\ \A g \in Handlers \ {h} : hs'[g] = hs[g]
    BY <1>0, <1>4 DEF Becomes, Types
  <2>2. Types'
    BY <1>0, <2>1 DEF Types
  <2>3. OneEach'
    BY <1>0, <1>2, <1>4, <2>1 DEF OneEach, Works
  <2>4. Recorded' = Recorded /\ \A j \in Jobs : Reserving(j)' <=> Reserving(j)
    BY <1>0 DEF Recorded, Reserving
  <2>5. OrderFits(h)'
    <3>1. k.retry => Reserved(h)' /\ rec'[hs'[h].job].unknown
      BY <1>0, <1>4, <2>1, <2>4 DEF Reserved, Reserving
    <3> QED
      BY <1>0, <1>1, <1>4, <2>1, <2>4, <3>1 DEF OrderFits, Works, Sending
  <2>6. StepFits(h)'
    BY <1>4, <2>1 DEF StepFits, Locking, Relying
  <2>7. \A g \in Handlers \ {h} : OrderFits(g)' /\ StepFits(g)'
    BY <1>0, <2>1, StillFits
  <2> QED
    BY <1>0, <2>2, <2>3, <2>5, <2>6, <2>7, StillRecords DEF Fits
<1>5. ASSUME NEW j \in Unanswered(who[h], hs[h].order), creating' = h,
             hs' = [hs EXCEPT ![h].pc = "save", ![h].job = j, ![h].retry = TRUE]
      PROVE  Fits'
  <2>1. PICK k : k = [hs[h] EXCEPT !.pc = "save", !.job = j, !.retry = TRUE]
    OBVIOUS
  <2>2. j \in Jobs /\ j \in Recorded /\ Reserving(j) /\ rec[j].fin = "no" /\ rec[j].unknown
        /\ rec[j].owner = who[h] /\ rec[j].order = hs[h].order
    BY <1>5 DEF Unanswered, Mine, Recorded
  <2>3. k \in HandlerState /\ k.pc = "save" /\ k.job = j /\ k.retry /\ k.order = hs[h].order
    BY <1>0, <2>1, <2>2 DEF HandlerState
  <2>4. Becomes(h, k)
    BY <1>0, <1>5, <2>1 DEF Becomes, Types
  <2>5. \A g \in Handlers : Works(g) => hs[g].job # k.job
    BY <1>0, <1>2, <2>2, <2>3 DEF OrderFits, Works
  <2> QED
    BY <1>4, <1>5, <2>2, <2>3, <2>4, <2>5
<1>6. ASSUME NEW j \in Jobs \ (Recorded \cup {hs[g].job : g \in Handlers}), maker[j] = "none",
             creating' = h, hs' = [hs EXCEPT ![h].pc = "save", ![h].job = j]
      PROVE  Fits'
  <2>1. PICK k : k = [hs[h] EXCEPT !.pc = "save", !.job = j]
    OBVIOUS
  <2>2. k \in HandlerState /\ k.pc = "save" /\ k.job = j /\ ~ k.retry /\ k.order = hs[h].order
    BY <1>0, <1>1, <2>1 DEF HandlerState
  <2>3. Becomes(h, k)
    BY <1>0, <1>6, <2>1 DEF Becomes, Types
  <2> QED
    BY <1>4, <1>6, <2>2, <2>3
<1> QED
  BY <1>3, <1>5, <1>6 DEF Reserve
\* The record a request that has reserved works on.
LEMMA JobOfOrder ==
  ASSUME DeckConstants, Fits, NEW h \in Handlers, Works(h)
  PROVE  /\ hs[h].job \in Jobs /\ hs[h].order \in Orders /\ who[h] \in People
         /\ hs[h].pc \in Sending \/ hs[h].retry => rec[hs[h].job] \in Record
<1>1. Types /\ OrderFits(h)
  BY DEF Fits
<1>2. hs[h].pc \in Sending \/ hs[h].retry => hs[h].job \in Recorded
  BY <1>1 DEF OrderFits, Works, Reserved
<1> QED
  BY <1>1, <1>2, RecordsAreRecords DEF OrderFits, Types

LEMMA SaveReservationFits ==
  ASSUME DeckConstants, Fits, NEW h \in Handlers, SaveReservation(h)
  PROVE  Fits'
<1>0. /\ Types /\ OneEach /\ OrderFits(h) /\ hs[h].pc = "save" /\ Works(h) /\ To(h, "send")
      /\ UNCHANGED <<who, maker, lock, astray>>
  BY DEF Fits, SaveReservation, Works
<1>1. PICK j \in Jobs : j = hs[h].job /\ hs[h].order \in Orders /\ who[h] \in People
                        /\ (hs[h].retry => rec[j] \in Record)
  BY <1>0, JobOfOrder
<1>2. PICK k \in HandlerState : /\ Becomes(h, k) /\ k.pc = "send" /\ k.job = hs[h].job
                                /\ k.order = hs[h].order /\ k.retry = hs[h].retry
  BY ToBecomes, <1>0
<1>3. hs'[h] = k
  BY <1>0, <1>2 DEF Becomes, Types
<1>4. PICK r : r = IF hs[h].retry THEN [rec[j] EXCEPT !.unknown = FALSE, !.age = 0]
                   ELSE [owner |-> who[h], order |-> hs[h].order, run |-> FALSE, unknown |-> FALSE,
                         age |-> 0, fin |-> "no", pending |-> FALSE, expired |-> FALSE]
  OBVIOUS
<1>5. rec' = [rec EXCEPT ![j] = r] /\ sent' = [sent EXCEPT ![j] = <<who[h], hs[h].order>>]
  BY <1>1, <1>4 DEF SaveReservation
<1>6. /\ hs[h].retry => Reserved(h) /\ RecordFits(j)
      /\ ~ hs[h].retry => maker[j] = "none"
  BY <1>0, <1>1 DEF OrderFits, Fits, Reserved
<1>7. r \in Record /\ r.owner = who[h] /\ r.order = hs[h].order /\ ~ r.run /\ ~ r.unknown
      /\ r.age = 0 /\ r.fin = "no" /\ ~ r.pending /\ ~ r.expired
  <2>1. CASE hs[h].retry
    <3>1. /\ rec[j] \in Record /\ rec[j].owner = who[h] /\ rec[j].order = hs[h].order
          /\ ~ rec[j].run /\ rec[j].fin = "no" /\ ~ rec[j].pending /\ ~ rec[j].expired
      BY <1>1, <1>6, <2>1 DEF Reserved, Reserving, RecordFits
    <3>2. r = [rec[j] EXCEPT !.unknown = FALSE, !.age = 0]
      BY <1>4, <2>1
    <3>3. 0 \in Ages
      BY DEF Ages
    <3>4. r \in Record
      BY <3>1, <3>2, <3>3 DEF Record
    <3>5. /\ r.owner = rec[j].owner /\ r.order = rec[j].order /\ r.run = rec[j].run /\ ~ r.unknown
          /\ r.age = 0 /\ r.fin = rec[j].fin /\ r.pending = rec[j].pending
          /\ r.expired = rec[j].expired
      BY <3>1, <3>2 DEF Record
    <3> QED
      BY <3>1, <3>4, <3>5
  <2>2. CASE ~ hs[h].retry
    BY <1>1, <1>4, <2>2 DEF Record, Ages
  <2> QED
    BY <2>1, <2>2
<1>8. /\ rec' \in [Jobs -> Record \cup {NoRecord}] /\ rec'[j] = r
      /\ \A i \in Jobs \ {j} : rec'[i] = rec[i] /\ maker'[i] = maker[i] /\ sent'[i] = sent[i]
  BY <1>0, <1>1, <1>5, <1>7 DEF Types
<1>9. j \in Recorded' /\ (Reserving(j))'
  <2>1. r # NoRecord
    BY <1>7, RecordsAreRecords DEF DeckConstants, Record, NoRecord
  <2> QED
    BY <1>7, <1>8, <2>1 DEF Recorded, Reserving
<1>10. RecordFits(j)'
  BY <1>7, <1>8, <1>9 DEF RecordFits
<1>11. sent'[j] = <<who[h], hs[h].order>> /\ sent' \in [Jobs -> (People \X Orders) \cup {NoOrder}]
  BY <1>0, <1>1, <1>5 DEF Types
<1>12. Reserved(h)'
  BY <1>0, <1>1, <1>2, <1>3, <1>7, <1>8, <1>9 DEF Reserved, Reserving
<1>13. OrderFits(h)'
  BY <1>0, <1>1, <1>2, <1>3, <1>6, <1>7, <1>8, <1>11, <1>12 DEF OrderFits, Works, Sending
<1>14. StepFits(h)'
  BY <1>2, <1>3 DEF StepFits, Locking, Relying
<1>15. \A g \in Handlers \ {h} : Works(g) \/ hs[g].pc \in Relying => hs[g].job # j
  BY <1>0, <1>1, OthersElsewhere
<1>16. maker' \in [Jobs -> MakerStates] /\ lock' \in [Jobs -> Handlers \cup {Nobody}]
  BY <1>0 DEF Types
<1>18. k.pc # "save" /\ (k.pc \in Sending => Works(h) /\ k.job = hs[h].job) /\ astray \subseteq astray'
  BY <1>0, <1>2
<1>17. \A g \in Handlers \ {h} : creating = g => creating' = g
  BY DEF SaveReservation
<1> QED
  BY <1>0, <1>1, <1>2, <1>8, <1>10, <1>11, <1>13, <1>14, <1>15, <1>16, <1>17, <1>18, JobStep
LEMMA SendFits ==
  ASSUME DeckConstants, Fits, NEW h \in Handlers, Send(h)
  PROVE  Fits'
<1>0. /\ Types /\ OneEach /\ OrderFits(h) /\ hs[h].pc = "send" /\ hs[h].pc \in Sending
      /\ Works(h) /\ UNCHANGED <<who, rec, lock, sent, creating>>
  BY DEF Fits, Send, Works, Sending
<1>1. PICK j \in Jobs : j = hs[h].job
  BY <1>0, JobOfOrder
<1>2. PICK pc \in {"record", "foreign", "unknown", "release"} :
        /\ To(h, pc)
        /\ astray' = IF pc \in {"foreign", "release"} THEN astray \cup {j} ELSE astray
  BY <1>1 DEF Send
<1>3. PICK k \in HandlerState : /\ Becomes(h, k) /\ k.pc = pc /\ k.job = hs[h].job
                                /\ k.order = hs[h].order /\ k.retry = hs[h].retry
  BY ToBecomes, <1>0, <1>2
<1>4. hs'[h] = k
  BY <1>0, <1>3 DEF Becomes, Types
<1>5. maker' = [maker EXCEPT ![j] = IF maker[j] = "none" THEN "preparing" ELSE maker[j]]
  BY <1>1 DEF Send
<1>6. /\ maker' \in [Jobs -> MakerStates]
      /\ \A i \in Jobs \ {j} : rec'[i] = rec[i] /\ maker'[i] = maker[i] /\ sent'[i] = sent[i]
  BY <1>0, <1>5 DEF Types, MakerStates
<1>7. Reserved(h) /\ ~ rec[j].unknown /\ (rec[j].age = 0 \/ j \in astray)
      /\ sent[j] = <<who[h], hs[h].order>> /\ hs[h].order \in Orders
  BY <1>0, <1>1 DEF OrderFits
<1>8. Reserved(h)'
  BY <1>0, <1>3, <1>4, <1>7 DEF Reserved, Recorded, Reserving
<1>9. OrderFits(h)'
  BY <1>0, <1>1, <1>2, <1>3, <1>4, <1>7, <1>8 DEF OrderFits, Works, Sending
<1>10. StepFits(h)'
  BY <1>2, <1>3, <1>4 DEF StepFits, Locking, Relying
<1>11. j \in Recorded' => RecordFits(j)'
  BY <1>0 DEF Fits, RecordFits, Reserving, Recorded
<1>12. \A g \in Handlers \ {h} : Works(g) \/ hs[g].pc \in Relying => hs[g].job # j
  BY <1>0, <1>1, OthersElsewhere
<1>13. /\ lock' \in [Jobs -> Handlers \cup {Nobody}]
       /\ sent' \in [Jobs -> (People \X Orders) \cup {NoOrder}]
       /\ rec' \in [Jobs -> Record \cup {NoRecord}]
  BY <1>0 DEF Types
<1>14. k.pc # "save" /\ (k.pc \in Sending => Works(h) /\ k.job = hs[h].job) /\ astray \subseteq astray'
  BY <1>0, <1>2, <1>3
<1> QED
  BY <1>0, <1>3, <1>6, <1>9, <1>10, <1>11, <1>12, <1>13, <1>14, JobStep

LEMMA AnsweredFits ==
  ASSUME DeckConstants, Fits, NEW h \in Handlers, Answered(h)
  PROVE  Fits'
<1>0. /\ Types /\ OneEach /\ OrderFits(h) /\ hs[h].pc \in Sending /\ Works(h)
      /\ UNCHANGED <<who, maker, lock, sent, creating, astray>>
  BY DEF Fits, Answered, Works, Sending
<1>1. PICK j \in Jobs : j = hs[h].job /\ rec[j] \in Record
  BY <1>0, JobOfOrder
<1>2. PICK k : k = Idle
  OBVIOUS
<1>3. k \in HandlerState /\ k.pc = "idle" /\ ~ k.retry
  BY <1>2 DEF HandlerState, Idle
<1>4. Becomes(h, k) /\ hs'[h] = k
  BY <1>0, <1>2 DEF Becomes, Types, Answered
<1>5. PICK r : r = IF hs[h].pc = "record" THEN [rec[j] EXCEPT !.run = TRUE]
                   ELSE IF hs[h].pc = "foreign" THEN [rec[j] EXCEPT !.run = TRUE, !.fin = "failed"]
                   ELSE IF hs[h].pc = "unknown" \/ hs[h].retry THEN [rec[j] EXCEPT !.unknown = TRUE]
                   ELSE NoRecord
  OBVIOUS
<1>6. rec' = [rec EXCEPT ![j] = r]
  BY <1>1, <1>5 DEF Answered
<1>7. /\ ~ rec[j].run /\ rec[j].fin = "no" /\ ~ rec[j].pending /\ ~ rec[j].expired
      /\ ~ rec[j].unknown
  <2>1. Reserved(h) /\ ~ rec[j].unknown /\ j \in Recorded
    BY <1>0, <1>1 DEF OrderFits, Reserved
  <2>2. RecordFits(j)
    BY <2>1 DEF Fits
  <2> QED
    BY <1>1, <2>1, <2>2 DEF Reserved, Reserving, RecordFits
<1>8. r = NoRecord \/ (/\ r \in Record /\ ~ r.pending /\ ~ r.expired
                       /\ r.fin # "no" => r.run
                       /\ r.unknown => ~ r.run)
  <2>1. CASE hs[h].pc = "record"
    BY <1>1, <1>5, <1>7, <2>1 DEF Record
  <2>2. CASE hs[h].pc = "foreign"
    BY <1>1, <1>5, <1>7, <2>2 DEF Record
  <2>3. CASE hs[h].pc \notin {"record", "foreign"} /\ (hs[h].pc = "unknown" \/ hs[h].retry)
    BY <1>1, <1>5, <1>7, <2>3 DEF Record
  <2> QED
    BY <1>5, <2>1, <2>2, <2>3
<1>9. /\ rec' \in [Jobs -> Record \cup {NoRecord}] /\ rec'[j] = r
      /\ \A i \in Jobs \ {j} : rec'[i] = rec[i] /\ maker'[i] = maker[i] /\ sent'[i] = sent[i]
  BY <1>0, <1>1, <1>6, <1>8 DEF Types
<1>10. j \in Recorded' => RecordFits(j)'
  BY <1>8, <1>9 DEF Recorded, RecordFits, Reserving
<1>11. OrderFits(h)' /\ StepFits(h)'
  BY <1>3, <1>4, RestingFits
<1>12. \A g \in Handlers \ {h} : Works(g) \/ hs[g].pc \in Relying => hs[g].job # j
  BY <1>0, <1>1, OthersElsewhere
<1>13. /\ lock' \in [Jobs -> Handlers \cup {Nobody}] /\ maker' \in [Jobs -> MakerStates]
       /\ sent' \in [Jobs -> (People \X Orders) \cup {NoOrder}]
  BY <1>0 DEF Types
<1>14. k.pc # "save" /\ k.pc \notin Sending
  BY <1>3 DEF Sending
<1> QED
  BY <1>0, <1>3, <1>4, <1>9, <1>10, <1>11, <1>12, <1>13, <1>14, JobStep
-----------------------------------------------------------------------------
(* Steps of nobody's request.                                              *)

\* Nobody's request moves; whoever relies on a job finds what it relied on.
LEMMA AgeFits ==
  ASSUME DeckConstants, Fits, NEW j \in Jobs, Age(j)
  PROVE  Fits'
<1>0. /\ Types /\ OneEach /\ (\A g \in Handlers : OrderFits(g) /\ StepFits(g))
      /\ j \in Recorded /\ RecordFits(j) /\ rec[j] \in Record /\ rec[j].age < 2
      /\ UNCHANGED <<who, maker, hs, creating, lock, sent>>
  BY RecordsAreRecords DEF Fits, Age
<1>1. PICK r : r = [rec[j] EXCEPT !.age = rec[j].age + 1]
  OBVIOUS
<1>2. rec[j].age + 1 \in Ages
  <2>1. rec[j].age \in Ages
    BY <1>0 DEF Record
  <2> QED
    BY <1>0, <2>1 DEF Ages
<1>3. /\ r \in Record /\ r.owner = rec[j].owner /\ r.order = rec[j].order /\ r.run = rec[j].run
      /\ r.unknown = rec[j].unknown /\ r.fin = rec[j].fin /\ r.pending = rec[j].pending
      /\ r.expired = rec[j].expired
  BY <1>0, <1>1, <1>2 DEF Record
<1>4. rec' = [rec EXCEPT ![j] = r]
  BY <1>0, <1>1 DEF Types, Age
<1>5. rec' \in [Jobs -> Record \cup {NoRecord}] /\ rec'[j] = r
      /\ \A i \in Jobs \ {j} : rec'[i] = rec[i]
  BY <1>0, <1>3, <1>4 DEF Types
<1>6. Recorded' = Recorded
  BY <1>0, <1>3, <1>5 DEF Recorded, Record, NoRecord, DeckConstants
<1>7. Types' /\ OneEach'
  BY <1>0, <1>5 DEF Types, OneEach, Works
<1>8. ASSUME NEW g \in Handlers PROVE OrderFits(g)' /\ StepFits(g)'
  <2>1. StepFits(g)'
    BY <1>0, <1>3, <1>5, <1>6 DEF StepFits, Recorded, Locking, Relying
  <2>2. CASE hs[g].job # j
    <3>1. rec'[hs[g].job] = rec[hs[g].job] \/ hs[g].job \notin Jobs
      BY <1>5, <2>2
    <3>2. Works(g) \/ hs[g].pc \in Relying => hs[g].job \in Jobs
      BY <1>0 DEF OrderFits, StepFits, Locking
    <3>3. astray \subseteq astray'
      BY DEF Age
    <3> QED
      BY <1>0, <3>1, <3>2, <3>3, StillFits
  <2>3. CASE hs[g].job = j
    <3>1. Reserved(g)' <=> Reserved(g)
      BY <1>0, <1>3, <1>5, <1>6, <2>3 DEF Reserved, Reserving
    <3>2. /\ astray \subseteq astray'
          /\ hs[g].pc \in Sending => j \in astray'
      <4>1. hs[g].pc \in Sending => j \in Ordering
        BY <2>3 DEF Ordering, Sending
      <4>2. hs[g].pc \in Sending => rec[j].age = 0 \/ j \in astray
        BY <1>0, <2>3 DEF OrderFits
      <4> QED
        BY <4>1, <4>2 DEF Age
    <3>3. OrderFits(g)'
      BY <1>0, <1>3, <1>5, <1>6, <2>3, <3>1, <3>2 DEF OrderFits, Works
    <3> QED
      BY <2>1, <3>3
  <2> QED
    BY <2>2, <2>3
<1>9. ASSUME NEW i \in Recorded' PROVE RecordFits(i)'
  <2>1. i \in Recorded /\ RecordFits(i)
    BY <1>6 DEF Fits
  <2> QED
    BY <1>3, <1>5, <2>1 DEF RecordFits, Reserving, Recorded
<1> QED
  BY <1>7, <1>8, <1>9 DEF Fits

LEMMA MakeFits ==
  ASSUME DeckConstants, Fits, NEW j \in Jobs, Make(j)
  PROVE  Fits'
<1>0. /\ Types /\ OneEach /\ (\A g \in Handlers : OrderFits(g) /\ StepFits(g))
      /\ UNCHANGED <<who, rec, hs, creating, lock, sent, astray>>
  BY DEF Fits, Make
<1>1. PICK next \in {"built", "rendering", "gone", "done"} :
        maker[j] # "none" /\ maker' = [maker EXCEPT ![j] = next]
  BY DEF Make
<1>2. Types' /\ OneEach'
  BY <1>0, <1>1 DEF Types, OneEach, Works, MakerStates
<1>3. \A i \in Jobs : maker[i] = "none" => maker'[i] = "none"
  BY <1>0, <1>1 DEF Types
<1>4. ASSUME NEW g \in Handlers PROVE OrderFits(g)' /\ StepFits(g)'
  <2>1. Works(g) => hs[g].job \in Jobs
    BY <1>0 DEF OrderFits
  <2> QED
    BY <1>0, <1>3, <2>1, StillFits
<1> QED
  BY <1>0, <1>2, <1>4, StillRecords DEF Fits

LEMMA ExpireFits ==
  ASSUME DeckConstants, Fits, NEW j \in Jobs, Expire(j)
  PROVE  Fits'
<1>0. /\ Types /\ OneEach /\ (\A g \in Handlers : OrderFits(g) /\ StepFits(g))
      /\ j \in Recorded /\ RecordFits(j) /\ rec[j] \in Record /\ rec[j].fin = "done"
      /\ lock[j] = Nobody
      /\ UNCHANGED <<who, maker, hs, creating, lock, sent, astray>>
  BY RecordsAreRecords DEF Fits, Expire
<1>1. PICK r : r = [rec[j] EXCEPT !.expired = TRUE]
  OBVIOUS
<1>2. /\ r \in Record /\ r.run = rec[j].run /\ r.unknown = rec[j].unknown /\ r.fin = rec[j].fin
  BY <1>0, <1>1 DEF Record
<1>3. rec' = [rec EXCEPT ![j] = r]
  BY <1>0, <1>1 DEF Types, Expire
<1>4. rec' \in [Jobs -> Record \cup {NoRecord}] /\ rec'[j] = r
      /\ \A i \in Jobs \ {j} : rec'[i] = rec[i]
  BY <1>0, <1>2, <1>3 DEF Types
<1>5. Types' /\ OneEach'
  BY <1>0, <1>4 DEF Types, OneEach, Works
<1>6. ASSUME NEW g \in Handlers PROVE OrderFits(g)' /\ StepFits(g)'
  <2>1. Works(g) \/ hs[g].pc \in Relying => hs[g].job \in Jobs \ {j}
    <3>1. Works(g) => hs[g].job # j
      BY <1>0, RecordsAreRecords DEF OrderFits, Reserved, Works
    <3>2. hs[g].pc \in Relying => hs[g].job # j
      BY <1>0 DEF StepFits, Locking, DeckConstants
    <3> QED
      BY <1>0, <3>1, <3>2 DEF OrderFits, StepFits, Locking
  <2> QED
    BY <1>0, <1>4, <2>1, StillFits
<1>7. ASSUME NEW i \in Recorded' PROVE RecordFits(i)'
  <2>1. CASE i = j
    BY <1>0, <1>2, <1>4, <2>1 DEF RecordFits, Reserving
  <2>2. CASE i # j
    <3>1. i \in Recorded /\ rec'[i] = rec[i]
      BY <1>4, <1>7, <2>2 DEF Recorded
    <3> QED
      BY <3>1 DEF Fits, RecordFits, Reserving
  <2> QED
    BY <2>1, <2>2
<1> QED
  BY <1>5, <1>6, <1>7 DEF Fits

LEMMA CrashFits ==
  ASSUME DeckConstants, Fits, Crash
  PROVE  Fits'
<1>0. Types /\ UNCHANGED <<who, rec, maker, sent>> /\ hs' = [h \in Handlers |-> Idle]
      /\ lock' = [j \in Jobs |-> Nobody]
  BY DEF Fits, Crash
<1>1. \A h \in Handlers : hs'[h].pc = "idle" /\ ~ hs'[h].retry /\ hs'[h] \in HandlerState
  BY <1>0 DEF Idle, HandlerState
<1>2. Types'
  BY <1>0, <1>1 DEF Types
<1>3. OneEach'
  BY <1>1 DEF OneEach, Works, Sending
<1>4. \A h \in Handlers : OrderFits(h)' /\ StepFits(h)'
  BY <1>1, RestingFits
<1> QED
  BY <1>0, <1>2, <1>3, <1>4, StillRecords DEF Fits
LEMMA FitsInit ==
  ASSUME DeckConstants, Init
  PROVE  Fits
<1>1. /\ Types
      /\ \A h \in Handlers : hs[h].pc = "idle" /\ ~ hs[h].retry
  BY DEF DeckConstants, Init, Types, HandlerState, Idle, MakerStates
<1>2. Recorded = {}
  BY DEF Init, Recorded
<1> QED
  BY <1>1, <1>2 DEF Fits, OneEach, OrderFits, StepFits, Works, Sending, Locking, Relying

\* All but the conversation.
records == <<who, rec, maker, hs, creating, lock, sent, astray, again, asks, crashes>>

LEMMA FitsBeside ==
  ASSUME DeckConstants, Fits, UNCHANGED records
  PROVE  Fits'
<1>1. UNCHANGED <<who, rec, maker, hs, creating, lock, sent, astray>>
  BY DEF records
<1>2. Types' /\ OneEach'
  BY <1>1 DEF Fits, Types, OneEach, Works
<1>3. \A g \in Handlers : OrderFits(g)' /\ StepFits(g)'
  BY <1>1, StillFits DEF Fits
<1> QED
  BY <1>1, <1>2, <1>3, StillRecords DEF Fits

LEMMA FitsNext ==
  ASSUME DeckConstants, Fits, [Next]_vars
  PROVE  Fits'
<1>1. CASE UNCHANGED records
  BY <1>1, FitsBeside
<1>2. CASE DeckNext
  <2>1. ASSUME NEW j \in Jobs, Age(j) \/ Make(j) \/ Expire(j) PROVE Fits'
    BY <2>1, AgeFits, MakeFits, ExpireFits
  <2>2. ASSUME NEW h \in Handlers, Handle(h) PROVE Fits'
    <3>1. CASE Leave(h)
      BY <3>1, Leaving DEF Leave, Locking, Relying
    <3>2. CASE Post(h) /\ turns
      BY <3>2, Leaving DEF Post, Locking, Relying
    <3>3. CASE (Post(h) /\ ~ turns) \/ AppendNotice(h) \/ NotSent(h) \/ NoAnswer(h)
      BY <3>3, GoingOn
    <3>4. CASE Advance(h) \/ Order(h)
      BY <3>4, Choosing
    <3>5. CASE LockJob(h)
      BY <3>5, TakingUp
    <3>6. CASE AskMaker(h) \/ Render(h) \/ Mark(h)
      BY <3>6, AskMakerFits, RenderFits, MarkFits
    <3>7. CASE Reserve(h) \/ SaveReservation(h)
      BY <3>7, ReserveFits, SaveReservationFits
    <3>8. CASE Send(h) \/ Answered(h)
      BY <3>8, SendFits, AnsweredFits
    <3> QED
      BY <2>2, <3>1, <3>2, <3>3, <3>4, <3>5, <3>6, <3>7, <3>8 DEF Handle
  <2> QED
    BY <1>2, <2>1, <2>2, CrashFits DEF DeckNext
<1> QED
  BY <1>1, <1>2 DEF Next, Aside, vars, deck, records
-----------------------------------------------------------------------------
(* What becomes of a record.                                               *)

\* A request works on the order of a job, after its reservation.
AtWork(j) == \E h \in Handlers : hs[h].pc \in Sending /\ hs[h].job = j

\* What a record may become, but by a reservation: it gets older, has a run once the order
\* is answered, an end once the maker has none to make, and that told once the step is there.
MovesTo(j, r) ==
  /\ r.owner = rec[j].owner /\ r.order = rec[j].order
  /\ rec[j].age \in Ages /\ r.age \in Ages /\ rec[j].age <= r.age
  /\ rec[j].run => r.run
  /\ rec[j].unknown => r.unknown
  /\ r.run => rec[j].run \/ AtWork(j)
  /\ r.unknown => rec[j].unknown \/ AtWork(j)
  /\ r.fin = "no" => rec[j].fin = "no"
  /\ r.fin # "no" => rec[j].fin # "no" \/ maker[j] \in {"done", "gone"} \/ rec[j].age = 2
                     \/ j \in astray
  /\ r.fin # "no" /\ ~ r.pending =>
       \/ rec[j].fin # "no" /\ ~ rec[j].pending
       \/ j \in astray
       \/ \E h \in Handlers : hs[h].pc = "mark" /\ hs[h].job = j

RecordsMove ==
  /\ \A j \in Recorded' : j \in Recorded /\ MovesTo(j, rec'[j])
  /\ \A j \in Recorded \ Recorded' : j \in astray \/ maker[j] = "none"

LEMMA SameRecord ==
  ASSUME DeckConstants, Types, NEW j \in Recorded
  PROVE  MovesTo(j, rec[j])
<1>1. rec[j] \in Record
  BY RecordsAreRecords DEF Recorded
<1>2. rec[j].age \in Ages
  BY <1>1 DEF Record
<1> QED
  BY <1>2 DEF MovesTo, Ages

LEMMA NoRecordMoves ==
  ASSUME DeckConstants, Types, UNCHANGED rec
  PROVE  RecordsMove
BY SameRecord DEF RecordsMove, Recorded

LEMMA OneRecordMoves ==
  ASSUME DeckConstants, Types, NEW j \in Recorded, NEW r, rec' = [rec EXCEPT ![j] = r],
         MovesTo(j, r) \/ (r = NoRecord /\ (j \in astray \/ maker[j] = "none"))
  PROVE  RecordsMove
<1>1. j \in Jobs /\ rec'[j] = r /\ \A i \in Jobs \ {j} : rec'[i] = rec[i]
  BY DEF Types, Recorded
<1>2. MovesTo(j, r) => r # NoRecord
  BY <1>1, RecordsAreRecords DEF MovesTo, NoRecord
<1>3. \A i \in Recorded \ {j} : MovesTo(i, rec[i])
  BY SameRecord
<1> QED
  BY <1>1, <1>2, <1>3 DEF RecordsMove, Recorded

LEMMA AgeMoves ==
  ASSUME DeckConstants, Fits, NEW j \in Jobs, Age(j)
  PROVE  RecordsMove
<1>0. /\ Types /\ j \in Recorded /\ rec[j] \in Record /\ rec[j].age < 2
  BY RecordsAreRecords DEF Fits, Age
<1>1. PICK r : r = [rec[j] EXCEPT !.age = rec[j].age + 1]
  OBVIOUS
<1>2. rec[j].age \in Ages /\ rec[j].age + 1 \in Ages /\ rec[j].age <= rec[j].age + 1
  <2>1. rec[j].age \in Ages
    BY <1>0 DEF Record
  <2> QED
    BY <1>0, <2>1 DEF Ages
<1>3. /\ r.owner = rec[j].owner /\ r.order = rec[j].order /\ r.run = rec[j].run
      /\ r.unknown = rec[j].unknown /\ r.fin = rec[j].fin /\ r.pending = rec[j].pending
      /\ r.age = rec[j].age + 1
  BY <1>0, <1>1 DEF Record
<1>4. rec' = [rec EXCEPT ![j] = r]
  BY <1>0, <1>1 DEF Types, Age
<1>5. MovesTo(j, r)
  BY <1>2, <1>3 DEF MovesTo
<1> QED
  BY <1>0, <1>4, <1>5, OneRecordMoves

LEMMA ExpireMoves ==
  ASSUME DeckConstants, Fits, NEW j \in Jobs, Expire(j)
  PROVE  RecordsMove
<1>0. /\ Types /\ j \in Recorded /\ rec[j] \in Record
  BY RecordsAreRecords DEF Fits, Expire
<1>1. PICK r : r = [rec[j] EXCEPT !.expired = TRUE]
  OBVIOUS
<1>2. /\ r.owner = rec[j].owner /\ r.order = rec[j].order /\ r.run = rec[j].run
      /\ r.unknown = rec[j].unknown /\ r.fin = rec[j].fin /\ r.pending = rec[j].pending
      /\ r.age = rec[j].age
  BY <1>0, <1>1 DEF Record
<1>3. rec' = [rec EXCEPT ![j] = r]
  BY <1>0, <1>1 DEF Types, Expire
<1>4. MovesTo(j, r)
  BY <1>0, <1>2, SameRecord DEF MovesTo
<1> QED
  BY <1>0, <1>2, <1>3, <1>4, OneRecordMoves

LEMMA AskMakerMoves ==
  ASSUME DeckConstants, Fits, NEW h \in Handlers, AskMaker(h)
  PROVE  RecordsMove
<1>0. /\ Types /\ hs[h].pc = "ask"
  BY DEF Fits, AskMaker
<1>1. PICK j \in Recorded : j = hs[h].job /\ rec[j] \in Record
  BY <1>0, JobOfStep DEF Relying
<1>2. PICK end \in {"done", "failed"} :
        /\ rec' = [rec EXCEPT ![j].fin = end, ![j].pending = TRUE]
        /\ maker[j] \in {"done", "gone"} \/ rec[j].age = 2
  BY <1>1 DEF AskMaker
<1>3. PICK r : r = [rec[j] EXCEPT !.fin = end, !.pending = TRUE]
  OBVIOUS
<1>4. /\ r.owner = rec[j].owner /\ r.order = rec[j].order /\ r.run = rec[j].run
      /\ r.unknown = rec[j].unknown /\ r.fin = end /\ r.pending /\ r.age = rec[j].age
  BY <1>1, <1>3 DEF Record
<1>5. rec' = [rec EXCEPT ![j] = r]
  BY <1>0, <1>1, <1>2, <1>3 DEF Types, Recorded
<1>6. MovesTo(j, r)
  BY <1>0, <1>1, <1>2, <1>4, SameRecord DEF MovesTo
<1> QED
  BY <1>0, <1>1, <1>4, <1>5, <1>6, OneRecordMoves

LEMMA MarkMoves ==
  ASSUME DeckConstants, Fits, NEW h \in Handlers, Mark(h)
  PROVE  RecordsMove
<1>0. /\ Types /\ hs[h].pc = "mark"
  BY DEF Fits, Mark
<1>1. PICK j \in Recorded : j = hs[h].job /\ rec[j] \in Record
  BY <1>0, JobOfStep DEF Relying
<1>2. PICK r : r = [rec[j] EXCEPT !.pending = FALSE]
  OBVIOUS
<1>3. /\ r.owner = rec[j].owner /\ r.order = rec[j].order /\ r.run = rec[j].run
      /\ r.unknown = rec[j].unknown /\ r.fin = rec[j].fin /\ r.age = rec[j].age
  BY <1>1, <1>2 DEF Record
<1>4. rec' = [rec EXCEPT ![j] = r]
  BY <1>0, <1>1, <1>2 DEF Types, Recorded, Mark
<1>5. MovesTo(j, r)
  BY <1>0, <1>1, <1>3, SameRecord DEF MovesTo
<1> QED
  BY <1>0, <1>1, <1>3, <1>4, <1>5, OneRecordMoves

LEMMA AnsweredMoves ==
  ASSUME DeckConstants, Fits, NEW h \in Handlers, Answered(h)
  PROVE  RecordsMove
<1>0. /\ Types /\ OrderFits(h) /\ hs[h].pc \in Sending /\ Works(h)
  BY DEF Fits, Answered, Works, Sending
<1>1. PICK j \in Recorded : j = hs[h].job /\ rec[j] \in Record
  BY <1>0, JobOfOrder DEF OrderFits, Reserved
<1>2. PICK r : r = IF hs[h].pc = "record" THEN [rec[j] EXCEPT !.run = TRUE]
                   ELSE IF hs[h].pc = "foreign" THEN [rec[j] EXCEPT !.run = TRUE, !.fin = "failed"]
                   ELSE IF hs[h].pc = "unknown" \/ hs[h].retry THEN [rec[j] EXCEPT !.unknown = TRUE]
                   ELSE NoRecord
  OBVIOUS
<1>3. rec' = [rec EXCEPT ![j] = r]
  BY <1>1, <1>2 DEF Answered
<1>4. AtWork(j) /\ rec[j].fin = "no" /\ ~ rec[j].unknown /\ ~ rec[j].run
  BY <1>0, <1>1 DEF AtWork, OrderFits, Reserved, Reserving
<1>5. MovesTo(j, rec[j])
  BY <1>0, SameRecord
<1>6. CASE hs[h].pc = "record"
  <2>1. /\ r.owner = rec[j].owner /\ r.order = rec[j].order /\ r.run
        /\ r.unknown = rec[j].unknown /\ r.fin = rec[j].fin /\ r.age = rec[j].age
    BY <1>1, <1>2, <1>6 DEF Record
  <2>2. MovesTo(j, r)
    BY <1>4, <1>5, <2>1 DEF MovesTo
  <2> QED
    BY <1>0, <1>1, <1>3, <2>1, <2>2, OneRecordMoves
<1>7. CASE hs[h].pc = "foreign"
  <2>1. /\ r.owner = rec[j].owner /\ r.order = rec[j].order /\ r.run
        /\ r.unknown = rec[j].unknown /\ r.fin = "failed" /\ r.age = rec[j].age
    BY <1>1, <1>2, <1>7 DEF Record
  <2>2. j \in astray
    BY <1>0, <1>1, <1>7 DEF OrderFits
  <2>3. MovesTo(j, r)
    BY <1>4, <1>5, <2>1, <2>2 DEF MovesTo
  <2> QED
    BY <1>0, <1>1, <1>3, <2>1, <2>3, OneRecordMoves
<1>8. CASE hs[h].pc \notin {"record", "foreign"} /\ (hs[h].pc = "unknown" \/ hs[h].retry)
  <2>1. /\ r.owner = rec[j].owner /\ r.order = rec[j].order /\ r.run = rec[j].run
        /\ r.unknown /\ r.fin = rec[j].fin /\ r.age = rec[j].age
    BY <1>1, <1>2, <1>8 DEF Record
  <2>2. MovesTo(j, r)
    BY <1>4, <1>5, <2>1 DEF MovesTo
  <2> QED
    BY <1>0, <1>1, <1>3, <2>1, <2>2, OneRecordMoves
<1>9. CASE hs[h].pc = "release" /\ ~ hs[h].retry
  <2>1. r = NoRecord
    BY <1>2, <1>9
  <2>2. j \in astray \/ maker[j] = "none"
    BY <1>0, <1>1, <1>9 DEF OrderFits
  <2> QED
    BY <1>0, <1>1, <1>3, <2>1, <2>2, OneRecordMoves
<1> QED
  BY <1>6, <1>7, <1>8, <1>9 DEF Answered

LEMMA RecordsMoveOn ==
  ASSUME DeckConstants, Fits, [Next]_vars, \A h \in Handlers : ~ SaveReservation(h)
  PROVE  RecordsMove
<1>0. Types
  BY DEF Fits
<1>1. CASE UNCHANGED rec
  BY <1>0, <1>1, NoRecordMoves
<1>2. CASE DeckNext
  <2>1. ASSUME NEW j \in Jobs, Age(j) \/ Expire(j) PROVE RecordsMove
    BY <2>1, AgeMoves, ExpireMoves
  <2>2. ASSUME NEW h \in Handlers, AskMaker(h) \/ Mark(h) \/ Answered(h) PROVE RecordsMove
    BY <2>2, AskMakerMoves, MarkMoves, AnsweredMoves
  <2>3. ASSUME NEW j \in Jobs, Make(j) PROVE UNCHANGED rec
    BY <2>3 DEF Make
  <2>4. ASSUME NEW h \in Handlers, Handle(h), ~ (AskMaker(h) \/ Mark(h) \/ Answered(h))
        PROVE  UNCHANGED rec
    BY <2>4 DEF Handle, Advance, Order, LockJob, Leave, Render, Post, AppendNotice, Reserve,
                NotSent, Send, NoAnswer
  <2> QED
    BY <1>1, <1>2, <2>1, <2>2, <2>3, <2>4 DEF DeckNext, Crash
<1>3. UNCHANGED deck => UNCHANGED rec
  BY DEF deck
<1> QED
  BY <1>1, <1>2, <1>3 DEF Next, Aside, vars
-----------------------------------------------------------------------------
(* The limit of a person's jobs.                                           *)

\* The jobs that count against the limit.
Held(p) == {j \in Mine(p) \ (again \cup astray) : Inflight(j)}

\* Between the count and the reservation nobody else takes the place.
PlaceIsFree ==
  \A h \in Handlers : (hs[h].pc = "save" /\ ~ hs[h].retry) => Cardinality(Held(who[h])) < Max

WithinLimit == PlaceIsFree /\ LimitHolds

LEMMA HeldAreFinite ==
  ASSUME DeckConstants, NEW p
  PROVE  IsFiniteSet(Held(p)) /\ Cardinality(Held(p)) \in Nat
<1>1. Held(p) \subseteq Jobs
  BY DEF Held, Mine, Recorded
<1> QED
  BY <1>1, FS_Subset, FS_CardinalityType DEF DeckConstants

LEMMA FewerHeld ==
  ASSUME DeckConstants, NEW p, IsFiniteSet(Held(p)), Held(p)' \subseteq Held(p)
  PROVE  Cardinality(Held(p)') <= Cardinality(Held(p))
BY FS_Subset

\* What is lost sight of, or sent again, stays so.
LEMMA StaysAstray ==
  ASSUME [Next]_vars
  PROVE  astray \subseteq astray' /\ again \subseteq again' /\ who' = who
<1>1. CASE DeckNext
  <2>1. ASSUME NEW h \in Handlers, Handle(h)
        PROVE  astray \subseteq astray' /\ again \subseteq again' /\ who' = who
    BY <2>1 DEF Handle, Advance, Order, LockJob, Leave, AskMaker, Render, Post, AppendNotice, Mark,
                Reserve, SaveReservation, NotSent, Send, NoAnswer, Answered
  <2> QED
    BY <1>1, <2>1 DEF DeckNext, Age, Make, Expire, Crash
<1> QED
  BY <1>1 DEF Next, Aside, vars, deck

\* Only a reservation of a new job takes a place.
LEMMA PlacesAreReserved ==
  ASSUME DeckConstants, Fits, RecordsMove, astray \subseteq astray', again \subseteq again',
         NEW p
  PROVE  Held(p)' \subseteq Held(p)
<1> SUFFICES ASSUME NEW j \in Held(p)' PROVE j \in Held(p)
  OBVIOUS
<1>1. /\ j \in Recorded /\ j \notin again \cup astray /\ rec'[j].owner = p
      /\ rec'[j].fin = "no" /\ rec'[j].age < (IF ~ rec'[j].run THEN 1 ELSE 2)
      /\ MovesTo(j, rec'[j])
  BY DEF Held, Mine, Inflight, Reserving, RecordsMove
<1>2. AtWork(j) => rec[j].age = 0
  BY <1>1 DEF AtWork, Fits, OrderFits
<1>3. rec[j].age < (IF ~ rec[j].run THEN 1 ELSE 2)
  BY <1>1, <1>2 DEF MovesTo, Ages
<1> QED
  BY <1>1, <1>3 DEF Held, Mine, Inflight, Reserving, MovesTo

LEMMA SavingTakesOne ==
  ASSUME DeckConstants, Fits, WithinLimit, NEW h \in Handlers, SaveReservation(h)
  PROVE  WithinLimit'
<1>0. /\ Types /\ OneEach /\ OrderFits(h) /\ hs[h].pc = "save" /\ Works(h) /\ who' = who
      /\ astray' = astray /\ again \subseteq again'
  BY DEF Fits, SaveReservation, Works
<1>1. PICK j \in Jobs : j = hs[h].job
  BY <1>0, JobOfOrder
<1>2. \A i \in Jobs \ {j} : rec'[i] = rec[i]
  BY <1>0, <1>1 DEF SaveReservation, Types
<1>3. \A i \in Recorded' \ {j} : i \in Recorded /\ rec'[i] = rec[i]
  BY <1>2 DEF Recorded
<1>4. \A p : Held(p)' \subseteq Held(p) \cup {j}
  BY <1>0, <1>3 DEF Held, Mine, Inflight, Reserving
<1>5. /\ j \in Jobs /\ (hs[h].retry => rec[j] \in Record)
      /\ who[h] \in People
  BY <1>0, <1>1, JobOfOrder
<1>6. rec'[j] = IF hs[h].retry THEN [rec[j] EXCEPT !.unknown = FALSE, !.age = 0]
                ELSE [owner |-> who[h], order |-> hs[h].order, run |-> FALSE, unknown |-> FALSE,
                      age |-> 0, fin |-> "no", pending |-> FALSE, expired |-> FALSE]
  BY <1>0, <1>1 DEF SaveReservation, Types
<1>7. \A g \in Handlers : hs'[g].pc # "save"
  BY <1>0 DEF OneEach, SaveReservation, To, Types
<1>8. CASE hs[h].retry
  <2>1. /\ rec'[j].owner = rec[j].owner /\ rec'[j].fin = rec[j].fin
        /\ rec[j].age \in Ages
    BY <1>5, <1>6, <1>8 DEF Record
  <2>2. j \in Recorded /\ Reserving(j) /\ rec[j].fin = "no"
    BY <1>0, <1>1, <1>8 DEF OrderFits, Reserved
  <2>3. j \in again' \/ rec[j].age < 1
    BY <1>1, <1>8, <2>1 DEF SaveReservation, Ages
  <2>4. ASSUME NEW p PROVE Held(p)' \subseteq Held(p)
    BY <1>0, <1>4, <2>1, <2>2, <2>3 DEF Held, Mine, Inflight
  <2>5. ASSUME NEW p PROVE Cardinality(Held(p)') <= Cardinality(Held(p))
    BY <2>4, HeldAreFinite, FewerHeld
  <2>6. ASSUME NEW p \in People PROVE Cardinality(Held(p)') <= Max
    <3>1. Cardinality(Held(p)) <= Max
      BY DEF WithinLimit, LimitHolds, Held
    <3>2. Cardinality(Held(p)) \in Nat /\ Cardinality(Held(p)') \in Nat
      BY <2>4, HeldAreFinite, FS_Subset, FS_CardinalityType
    <3> QED
      BY <2>5, <3>1, <3>2 DEF DeckConstants
  <2> QED
    BY <1>7, <2>6 DEF WithinLimit, PlaceIsFree, LimitHolds, Held
<1>9. CASE ~ hs[h].retry
  <2>1. rec'[j].owner = who[h]
    BY <1>6, <1>9
  <2>2. ASSUME NEW p \in People PROVE Cardinality(Held(p)') <= Max
    <3>1. IsFiniteSet(Held(p)) /\ Cardinality(Held(p)) \in Nat
      BY HeldAreFinite
    <3>2. CASE p = who[h]
      <4>1. Cardinality(Held(p)) < Max
        BY <1>0, <1>9, <3>2 DEF WithinLimit, PlaceIsFree
      <4>2. IsFiniteSet(Held(p) \cup {j}) /\ Cardinality(Held(p) \cup {j}) <= Cardinality(Held(p)) + 1
        <5>1. /\ IsFiniteSet(Held(p) \cup {j})
              /\ \/ Cardinality(Held(p) \cup {j}) = Cardinality(Held(p))
                 \/ Cardinality(Held(p) \cup {j}) = Cardinality(Held(p)) + 1
          BY <3>1, FS_AddElement
        <5> QED
          BY <3>1, <5>1
      <4>3. Cardinality(Held(p)') <= Cardinality(Held(p) \cup {j}) /\ Cardinality(Held(p)') \in Nat
            /\ Cardinality(Held(p) \cup {j}) \in Nat
        BY <1>4, <4>2, FS_Subset, FS_CardinalityType
      <4> QED
        BY <3>1, <4>1, <4>2, <4>3 DEF DeckConstants
    <3>3. CASE p # who[h]
      <4>1. Held(p)' \subseteq Held(p)
        BY <1>4, <2>1, <3>3 DEF Held, Mine
      <4>2. Cardinality(Held(p)') <= Cardinality(Held(p)) /\ Cardinality(Held(p)') \in Nat
        BY <3>1, <4>1, FS_Subset, FS_CardinalityType
      <4>3. Cardinality(Held(p)) <= Max
        BY DEF WithinLimit, LimitHolds, Held
      <4> QED
        BY <3>1, <4>2, <4>3 DEF DeckConstants
    <3> QED
      BY <3>2, <3>3
  <2> QED
    BY <1>7, <2>2 DEF WithinLimit, PlaceIsFree, LimitHolds, Held
<1> QED
  BY <1>8, <1>9

\* Who gets to save a new job has counted fewer than the limit.
LEMMA SaversAreReserved ==
  ASSUME DeckConstants, Fits, [Next]_vars, NEW h \in Handlers, hs'[h].pc = "save"
  PROVE  \/ hs[h].pc = "save" /\ hs'[h] = hs[h]
         \/ Reserve(h)
<1>0. Types
  BY DEF Fits
<1>1. CASE UNCHANGED hs
  BY <1>1
<1>2. CASE DeckNext /\ ~ UNCHANGED hs
  <2>1. ASSUME Crash PROVE FALSE
    BY <2>1 DEF Crash, Idle
  <2>2. PICK g \in Handlers : Handle(g)
    BY <1>2, <2>1 DEF DeckNext, Age, Make, Expire
  <2>3. ASSUME NEW k, Becomes(g, k), k.pc # "save" PROVE hs[h].pc = "save" /\ hs'[h] = hs[h]
    BY <1>0, <2>3 DEF Becomes, Types
  <2>4. ASSUME NEW pc \in {"ask", "leave", "post", "append", "mark", "send", "record", "unknown",
                           "foreign", "release"}, To(g, pc)
        PROVE  hs[h].pc = "save" /\ hs'[h] = hs[h]
    BY <1>0, <2>3, <2>4, ToBecomes
  <2>5. ASSUME Next1(g) PROVE hs[h].pc = "save" /\ hs'[h] = hs[h]
    BY <1>0, <2>3, <2>5, NextBecomes
  <2>6. CASE Leave(g) \/ AskMaker(g) \/ Render(g) \/ Post(g) \/ AppendNotice(g) \/ Mark(g)
             \/ SaveReservation(g) \/ NotSent(g) \/ NoAnswer(g) \/ Send(g)
    BY <2>4, <2>5, <2>6 DEF Leave, AskMaker, Render, Post, AppendNotice, Mark, SaveReservation,
                            NotSent, NoAnswer, Send
  <2>7. CASE Advance(g) \/ Order(g) \/ LockJob(g) \/ Answered(g)
    <3>1. hs'[g].pc # "save"
      <4>1. CASE Advance(g)
        BY <1>0, <4>1 DEF Types, HandlerState, Advance
      <4>2. CASE Order(g)
        <5>1. PICK o \in Orders, todo \in SUBSET Jobs :
                hs' = [hs EXCEPT ![g].order = o, ![g].todo = todo,
                                 ![g].pc = IF todo = {} THEN "reserve" ELSE "step"]
          BY <4>2 DEF Order, Mine, Recorded
        <5> QED
          BY <1>0, <5>1 DEF Types, HandlerState
      <4>3. CASE LockJob(g)
        BY <1>0, <4>3 DEF Types, HandlerState, LockJob
      <4>4. CASE Answered(g)
        BY <1>0, <4>4 DEF Types, HandlerState, Idle, Answered
      <4> QED
        BY <2>7, <4>1, <4>2, <4>3, <4>4
    <3>2. h # g
      BY <3>1
    <3> QED
      BY <1>0, <2>7, <3>2 DEF Types, Advance, Order, LockJob, Answered
  <2>8. CASE Reserve(g)
    <3>1. h # g => hs'[h] = hs[h]
      BY <1>0, <2>8 DEF Types, Reserve
    <3> QED
      BY <2>8, <3>1
  <2> QED
    BY <2>2, <2>6, <2>7, <2>8 DEF Handle
<1> QED
  BY <1>1, <1>2 DEF Next, Aside, vars, deck

\* What it found: no order of its own to give or to send again, and a place.
LEMMA ReservedAnew ==
  ASSUME Types, NEW h \in Handlers, Reserve(h), hs'[h].pc = "save", ~ hs'[h].retry
  PROVE  /\ Unanswered(who[h], hs[h].order) = {}
         /\ \E anew \in BOOLEAN : Same(who[h], hs[h].order, anew) = {}
         /\ ~ (Cardinality({j \in Mine(who[h]) : Inflight(j)}) >= Max)
         /\ hs'[h].order = hs[h].order
<1>0. hs[h] \in HandlerState /\ hs \in [Handlers -> HandlerState]
  BY DEF Types
<1>1. ASSUME NEW j, hs' = [hs EXCEPT ![h].pc = "save", ![h].job = j, ![h].retry = TRUE]
      PROVE  FALSE
  BY <1>0, <1>1 DEF HandlerState
<1>2. ASSUME hs' = [hs EXCEPT ![h] = Idle] PROVE FALSE
  BY <1>0, <1>2 DEF Idle
<1>3. ASSUME NEW j, hs' = [hs EXCEPT ![h].pc = "save", ![h].job = j]
      PROVE  hs'[h].order = hs[h].order
  BY <1>0, <1>3 DEF HandlerState
<1>4. PICK anew \in BOOLEAN, looked \in SUBSET Recorded :
        /\ Unanswered(who[h], hs[h].order) = {}
        /\ ~ \/ Same(who[h], hs[h].order, anew) # {}
             \/ Cardinality({j \in Mine(who[h]) : Inflight(j)}) >= Max
             \/ Cardinality(BoxCounts(who[h], looked)) >= BoxMax
        /\ \E j \in Jobs : hs' = [hs EXCEPT ![h].pc = "save", ![h].job = j]
  BY <1>1, <1>2 DEF Reserve
<1> QED
  BY <1>3, <1>4

LEMMA WithinLimitStays ==
  ASSUME DeckConstants, Fits, WithinLimit, [Next]_vars
  PROVE  WithinLimit'
<1>0. Types /\ astray \subseteq astray' /\ again \subseteq again' /\ who' = who
  BY StaysAstray DEF Fits
<1>1. ASSUME NEW h \in Handlers, SaveReservation(h) PROVE WithinLimit'
  BY <1>1, SavingTakesOne
<1>2. CASE \A h \in Handlers : ~ SaveReservation(h)
  <2>1. RecordsMove
    BY <1>2, RecordsMoveOn
  <2>2. ASSUME NEW p
        PROVE  /\ Cardinality(Held(p)') <= Cardinality(Held(p))
               /\ Cardinality(Held(p)) \in Nat /\ Cardinality(Held(p)') \in Nat
    <3>1. Held(p)' \subseteq Held(p)
      BY <1>0, <2>1, PlacesAreReserved
    <3> QED
      BY <3>1, HeldAreFinite, FS_Subset, FS_CardinalityType
  <2>3. LimitHolds'
    <3> SUFFICES ASSUME NEW p \in People PROVE Cardinality(Held(p)') <= Max
      BY DEF LimitHolds, Held
    <3>1. Cardinality(Held(p)) <= Max
      BY DEF WithinLimit, LimitHolds, Held
    <3> QED
      BY <2>2, <3>1 DEF DeckConstants
  <2>4. PlaceIsFree'
    <3> SUFFICES ASSUME NEW h \in Handlers, hs'[h].pc = "save", ~ hs'[h].retry, NEW p, p = who[h]
                 PROVE  Cardinality(Held(p)') < Max
      BY <1>0 DEF PlaceIsFree
    <3>1. CASE hs[h].pc = "save" /\ hs'[h] = hs[h]
      BY <2>2, <3>1 DEF WithinLimit, PlaceIsFree, DeckConstants
    <3>2. CASE Reserve(h)
      <4>1. ~ (Cardinality({j \in Mine(p) : Inflight(j)}) >= Max)
        BY <1>0, <3>2, ReservedAnew
      <4>2. /\ Held(p) \subseteq {j \in Mine(p) : Inflight(j)}
            /\ IsFiniteSet({j \in Mine(p) : Inflight(j)})
        BY FS_Subset DEF Held, Mine, Recorded, DeckConstants
      <4>3. /\ Cardinality(Held(p)) <= Cardinality({j \in Mine(p) : Inflight(j)})
            /\ Cardinality({j \in Mine(p) : Inflight(j)}) \in Nat
        BY <4>2, FS_Subset, FS_CardinalityType
      <4> QED
        BY <2>2, <4>1, <4>3 DEF DeckConstants
    <3> QED
      BY <3>1, <3>2, SaversAreReserved
  <2> QED
    BY <2>3, <2>4 DEF WithinLimit
<1> QED
  BY <1>1, <1>2
-----------------------------------------------------------------------------
(* One job for one order.                                                  *)

\* A job that was not lost sight of, and may yet be made or be sent again.
Live(j) ==
  /\ j \in Recorded \ astray /\ rec[j].fin = "no" /\ rec[j].age < 2
  /\ rec[j].run \/ rec[j].unknown \/ AtWork(j)

For(j) == <<rec[j].owner, rec[j].order>>

\* No two such jobs are for one order; nor is one that is about to be saved.
LiveOnce ==
  /\ \A i, j \in Jobs : (i # j /\ Live(i) /\ Live(j)) => For(i) # For(j)
  /\ \A h \in Handlers : (hs[h].pc = "save" /\ hs[h].job \notin astray) =>
       \A j \in Jobs \ {hs[h].job} : Live(j) => For(j) # <<who[h], hs[h].order>>

\* What the maker has, the records know, as long as it is at work.
MadeAreRecorded ==
  \A j \in Jobs \ astray : maker[j] # "none" =>
    /\ j \in Recorded /\ sent[j] = For(j)
    /\ rec[j].run \/ rec[j].unknown \/ AtWork(j)
    /\ Active(j) => rec[j].fin = "no" \/ rec[j].age = 2

Once == LiveOnce /\ MadeAreRecorded

\* After a reservation nobody saves.
LEMMA SavingEnds ==
  ASSUME DeckConstants, Fits, NEW h \in Handlers, SaveReservation(h)
  PROVE  /\ \A g \in Handlers : hs'[g].pc # "save"
         /\ \A g \in Handlers \ {h} : hs'[g] = hs[g]
         /\ hs'[h].pc = "send" /\ hs'[h].job = hs[h].job
BY DEF Fits, Types, OneEach, SaveReservation, To, HandlerState

\* A request at work on an order stays so, but for a death and an answer.
LEMMA WorkGoesOn ==
  ASSUME DeckConstants, Fits, [Next]_vars, NEW j \in Jobs
  PROVE  /\ AtWork(j)' => AtWork(j) \/ \E h \in Handlers : SaveReservation(h) /\ hs[h].job = j
         /\ AtWork(j) => \/ AtWork(j)' \/ Crash
                         \/ \E h \in Handlers : Answered(h) /\ hs[h].job = j
<1>0. Types
  BY DEF Fits
<1>1. CASE UNCHANGED hs
  BY <1>1 DEF AtWork
<1>2. ASSUME NEW h \in Handlers, Handle(h), ~ Answered(h), ~ SaveReservation(h)
      PROVE  AtWork(j)' <=> AtWork(j)
  <2>1. ASSUME NEW k, Becomes(h, k), k.pc \in Sending <=> hs[h].pc \in Sending,
               k.pc \in Sending => k.job = hs[h].job
        PROVE  AtWork(j)' <=> AtWork(j)
    <3>1. hs'[h] = k /\ \A g \in Handlers \ {h} : hs'[g] = hs[g]
      BY <1>0, <2>1 DEF Becomes, Types
    <3> QED
      BY <2>1, <3>1 DEF AtWork
  <2>2. ASSUME NEW pc \in {"append", "post", "mark", "record", "unknown", "foreign", "release"},
               To(h, pc), pc \in Sending <=> hs[h].pc \in Sending
        PROVE  AtWork(j)' <=> AtWork(j)
    BY <1>0, <2>1, <2>2, ToBecomes
  <2>3. ASSUME Next1(h), hs[h].pc \notin Sending PROVE AtWork(j)' <=> AtWork(j)
    <3>1. PICK k : Becomes(h, k) /\ k.pc \in {"idle", "step", "reserve"}
      BY <1>0, <2>3, NextBecomes
    <3> QED
      BY <2>1, <2>3, <3>1 DEF Sending
  <2>4. CASE Leave(h) \/ Render(h) \/ Mark(h) \/ (Post(h) /\ turns)
    BY <2>3, <2>4 DEF Leave, Render, Mark, Post, Sending
  <2>5. CASE (Post(h) /\ ~ turns) \/ AppendNotice(h) \/ AskMaker(h)
    BY <2>2, <2>5 DEF Post, AppendNotice, AskMaker, Sending
  <2>6. CASE NotSent(h) \/ NoAnswer(h) \/ Send(h)
    BY <2>2, <2>6 DEF NotSent, NoAnswer, Send, Sending
  <2>7. CASE Advance(h) \/ Order(h) \/ LockJob(h) \/ Reserve(h)
    <3>1. hs[h].pc \notin Sending /\ \A g \in Handlers \ {h} : hs'[g] = hs[g]
      BY <1>0, <2>7 DEF Types, Advance, Order, Ask, LockJob, Reserve, Sending
    <3>2. hs'[h].pc \notin Sending
      <4>1. CASE Advance(h)
        BY <1>0, <4>1 DEF Types, HandlerState, Advance, Sending
      <4>2. CASE Order(h)
        <5>1. PICK o \in Orders, todo \in SUBSET Jobs :
                hs' = [hs EXCEPT ![h].order = o, ![h].todo = todo,
                                 ![h].pc = IF todo = {} THEN "reserve" ELSE "step"]
          BY <4>2 DEF Order, Mine, Recorded
        <5>2. hs'[h].pc \in {"reserve", "step"}
          BY <1>0, <5>1 DEF Types, HandlerState
        <5> QED
          BY <5>2 DEF Sending
      <4>3. CASE LockJob(h)
        BY <1>0, <4>3 DEF Types, HandlerState, LockJob, Sending
      <4>4. CASE Reserve(h)
        <5>1. \/ hs' = [hs EXCEPT ![h] = Idle]
              \/ \E i : hs' = [hs EXCEPT ![h].pc = "save", ![h].job = i]
              \/ \E i : hs' = [hs EXCEPT ![h].pc = "save", ![h].job = i, ![h].retry = TRUE]
          BY <4>4 DEF Reserve
        <5>2. ASSUME hs' = [hs EXCEPT ![h] = Idle] PROVE hs'[h].pc = "idle"
          BY <1>0, <5>2 DEF Types, Idle
        <5>3. ASSUME NEW i, hs' = [hs EXCEPT ![h].pc = "save", ![h].job = i]
              PROVE  hs'[h].pc = "save"
          BY <1>0, <5>3 DEF Types, HandlerState
        <5>4. ASSUME NEW i, hs' = [hs EXCEPT ![h].pc = "save", ![h].job = i, ![h].retry = TRUE]
              PROVE  hs'[h].pc = "save"
          BY <1>0, <5>4 DEF Types, HandlerState
        <5> QED
          BY <5>1, <5>2, <5>3, <5>4 DEF Sending
      <4> QED
        BY <2>7, <4>1, <4>2, <4>3, <4>4
    <3> QED
      BY <3>1, <3>2 DEF AtWork
  <2> QED
    BY <1>2, <2>4, <2>5, <2>6, <2>7 DEF Handle
<1>3. ASSUME NEW h \in Handlers, SaveReservation(h)
      PROVE  /\ AtWork(j) => AtWork(j)'
             /\ AtWork(j)' => AtWork(j) \/ hs[h].job = j
  <2>1. hs[h].pc = "save"
    BY <1>3 DEF SaveReservation
  <2> QED
    BY <1>3, <2>1, SavingEnds DEF AtWork, Sending
<1>4. ASSUME NEW h \in Handlers, Answered(h)
      PROVE  /\ AtWork(j) => AtWork(j)' \/ hs[h].job = j
             /\ AtWork(j)' => AtWork(j)
  <2>1. hs'[h].pc \notin Sending /\ \A g \in Handlers \ {h} : hs'[g] = hs[g]
    BY <1>0, <1>4 DEF Types, Answered, Idle, Sending
  <2> QED
    BY <2>1 DEF AtWork
<1>5. ASSUME Crash PROVE ~ AtWork(j)'
  BY <1>5 DEF Crash, Idle, AtWork, Sending
<1>6. CASE DeckNext
  BY <1>1, <1>2, <1>3, <1>4, <1>5, <1>6 DEF DeckNext, Age, Make, Expire
<1> QED
  BY <1>1, <1>6 DEF Next, Aside, vars, deck

\* A job that is live was so, for the same order, but for one just reserved.
LEMMA LiveStayLive ==
  ASSUME DeckConstants, Fits, [Next]_vars, NEW j \in Jobs, Live(j)',
         ~ \E h \in Handlers : SaveReservation(h) /\ hs[h].job = j
  PROVE  Live(j) /\ For(j)' = For(j)
<1>1. AtWork(j)' => AtWork(j)
  BY WorkGoesOn
<1>2. j \notin astray
  BY StaysAstray DEF Live
<1>3. CASE \A h \in Handlers : ~ SaveReservation(h)
  <2>1. j \in Recorded /\ MovesTo(j, rec'[j])
    BY <1>3, RecordsMoveOn DEF RecordsMove, Live
  <2>2. rec[j].age < 2
    BY <2>1 DEF MovesTo, Live, Ages
  <2> QED
    BY <1>1, <1>2, <2>1, <2>2 DEF MovesTo, Live, For
<1>4. ASSUME NEW h \in Handlers, SaveReservation(h) PROVE Live(j) /\ For(j)' = For(j)
  <2>1. hs[h].job # j
    BY <1>4
  <2>2. rec'[j] = rec[j]
    BY <1>4, <2>1 DEF SaveReservation, Fits, Types
  <2> QED
    BY <1>1, <1>2, <2>2 DEF Live, For, Recorded
<1> QED
  BY <1>3, <1>4
\* What a reservation records is the order it is for.
LEMMA SavedFor ==
  ASSUME DeckConstants, Fits, NEW h \in Handlers, SaveReservation(h), NEW j, j = hs[h].job
  PROVE  /\ j \in Jobs /\ For(j)' = <<who[h], hs[h].order>> /\ sent'[j] = For(j)'
         /\ j \in Recorded' /\ rec'[j].fin = "no" /\ AtWork(j)'
         /\ \A i \in Jobs \ {j} : rec'[i] = rec[i] /\ sent'[i] = sent[i]
<1>0. /\ Types /\ OrderFits(h) /\ hs[h].pc = "save" /\ Works(h) /\ Types'
      /\ OrderFits(h)' /\ hs'[h].pc = "send" /\ hs'[h].job = j /\ who' = who
  BY SaveReservationFits, SavingEnds DEF Fits, SaveReservation, Works
<1>1. j \in Jobs /\ \A i \in Jobs \ {j} : rec'[i] = rec[i] /\ sent'[i] = sent[i]
  BY <1>0, JobOfOrder DEF SaveReservation, Types
<1>2. Reserved(h)' /\ sent'[j] = <<who'[h], hs'[h].order>>
  BY <1>0 DEF OrderFits, Sending
<1>3. hs'[h].order = hs[h].order
  BY <1>0 DEF SaveReservation, To, Types, HandlerState
<1>4. AtWork(j)'
  BY <1>0 DEF AtWork, Sending
<1> QED
  BY <1>0, <1>1, <1>2, <1>3, <1>4 DEF Reserved, For

\* Nobody else saves at the same time.
LEMMA OneSaves ==
  ASSUME Fits, NEW h \in Handlers, NEW g \in Handlers, SaveReservation(h), SaveReservation(g)
  PROVE  g = h
BY DEF Fits, OneEach, SaveReservation

LEMMA LiveOnceStays ==
  ASSUME DeckConstants, Fits, LiveOnce, [Next]_vars
  PROVE  LiveOnce'
<1>0. Types /\ astray \subseteq astray' /\ who' = who
  BY StaysAstray DEF Fits
<1>1. ASSUME NEW h \in Handlers, SaveReservation(h) PROVE LiveOnce'
  <2>1. PICK j : j = hs[h].job
    OBVIOUS
  <2>2. j \in Jobs /\ For(j)' = <<who[h], hs[h].order>> /\ hs[h].pc = "save"
    BY <1>1, <2>1, SavedFor DEF SaveReservation
  <2>3. \A i \in Jobs \ {j} : Live(i)' => Live(i) /\ For(i)' = For(i)
    BY <1>1, <2>1, LiveStayLive, OneSaves
  <2>4. \A i \in Jobs \ {j} : Live(j)' /\ Live(i)' => For(i)' # For(j)'
    BY <1>0, <2>1, <2>2, <2>3 DEF LiveOnce, Live
  <2>5. \A g \in Handlers : hs'[g].pc # "save"
    BY <1>1, SavingEnds
  <2> QED
    BY <2>3, <2>4, <2>5 DEF LiveOnce
<1>2. CASE \A h \in Handlers : ~ SaveReservation(h)
  <2>1. \A i \in Jobs : Live(i)' => Live(i) /\ For(i)' = For(i)
    BY <1>2, LiveStayLive
  <2>2. ASSUME NEW h \in Handlers, hs'[h].pc = "save", hs'[h].job \notin astray',
               NEW i \in Jobs \ {hs'[h].job}, Live(i)
        PROVE  For(i) # <<who[h], hs'[h].order>>
    <3>1. CASE hs[h].pc = "save" /\ hs'[h] = hs[h]
      BY <1>0, <2>2, <3>1 DEF LiveOnce
    <3>2. CASE Reserve(h) /\ hs'[h].retry
      <4>0. hs[h] \in HandlerState /\ OrderFits(h)
        BY <1>0 DEF Types, Fits
      <4>1. ~ hs[h].retry
        BY <3>2, <4>0 DEF OrderFits, Works, Sending, Reserve
      <4>2. PICK j \in Unanswered(who[h], hs[h].order) :
              hs' = [hs EXCEPT ![h].pc = "save", ![h].job = j, ![h].retry = TRUE]
        <5>1. ASSUME NEW j, hs' = [hs EXCEPT ![h].pc = "save", ![h].job = j] PROVE FALSE
          BY <1>0, <3>2, <4>0, <4>1, <5>1 DEF Types, HandlerState
        <5>2. ASSUME hs' = [hs EXCEPT ![h] = Idle] PROVE FALSE
          BY <1>0, <2>2, <5>2 DEF Types, Idle
        <5> QED
          BY <3>2, <5>1, <5>2 DEF Reserve
      <4>3. hs'[h].job = j /\ hs'[h].order = hs[h].order
        BY <1>0, <4>0, <4>2 DEF Types, HandlerState
      <4>4. j \in Jobs /\ j \notin astray /\ Live(j) /\ For(j) = <<who[h], hs[h].order>>
        BY <1>0, <2>2, <4>2, <4>3 DEF Unanswered, Mine, Recorded, Live, For
      <4> QED
        BY <2>2, <4>3, <4>4 DEF LiveOnce
    <3>3. CASE Reserve(h) /\ ~ hs'[h].retry
      <4>1. PICK anew \in BOOLEAN :
              /\ Unanswered(who[h], hs[h].order) = {}
              /\ Same(who[h], hs[h].order, anew) = {} /\ hs'[h].order = hs[h].order
        BY <1>0, <2>2, <3>3, ReservedAnew
      <4>2. SUFFICES ASSUME For(i) = <<who[h], hs[h].order>> PROVE FALSE
        BY <4>1
      <4>3. /\ i \in Mine(who[h]) /\ rec[i].order = hs[h].order /\ rec[i].fin = "no" /\ rec[i].age < 2
            /\ i \notin astray /\ rec[i] \in Record
        BY <1>0, <2>2, <4>2, RecordsAreRecords DEF Live, For, Mine, Recorded
      <4>4. ~ Inflight(i)
        BY <4>1, <4>3 DEF Same
      <4>5. Reserving(i) /\ rec[i].age # 0
        BY <4>3, <4>4 DEF Inflight, Record, Ages
      <4>6. ~ rec[i].unknown
        BY <4>1, <4>3, <4>5 DEF Unanswered
      <4>7. ~ AtWork(i)
        BY <4>3, <4>5 DEF AtWork, Fits, OrderFits
      <4> QED
        BY <2>2, <4>5, <4>6, <4>7 DEF Live, Reserving
    <3> QED
      BY <2>2, <3>1, <3>2, <3>3, SaversAreReserved
  <2> QED
    BY <1>0, <2>1, <2>2 DEF LiveOnce
<1> QED
  BY <1>1, <1>2

\* What one job needs in order to be recorded still.
LEMMA MadeGoOn ==
  ASSUME DeckConstants, MadeAreRecorded, RecordsMove, astray \subseteq astray', NEW j \in Jobs,
         sent'[j] = sent[j], j \notin astray', maker'[j] # "none",
         maker[j] # "none", Active(j)' => Active(j),
         AtWork(j) => AtWork(j)' \/ rec'[j].run \/ rec'[j].unknown \/ j \notin Recorded'
  PROVE  /\ j \in Recorded' /\ sent'[j] = For(j)'
         /\ rec'[j].run \/ rec'[j].unknown \/ AtWork(j)'
         /\ Active(j)' => rec'[j].fin = "no" \/ rec'[j].age = 2
<1>1. /\ j \in Recorded /\ sent[j] = For(j)
      /\ rec[j].run \/ rec[j].unknown \/ AtWork(j)
      /\ Active(j) => rec[j].fin = "no" \/ rec[j].age = 2
  BY DEF MadeAreRecorded
<1>2. j \in Recorded' /\ MovesTo(j, rec'[j])
  BY <1>1 DEF RecordsMove
<1>3. sent'[j] = For(j)'
  BY <1>1, <1>2 DEF MovesTo, For
<1>4. rec'[j].run \/ rec'[j].unknown \/ AtWork(j)'
  BY <1>1, <1>2 DEF MovesTo
<1>5. ASSUME Active(j)', rec'[j].fin # "no" PROVE rec'[j].age = 2
  <2>1. Active(j) /\ maker[j] \notin {"done", "gone"}
    BY <1>5 DEF Active
  <2>2. rec[j].age = 2
    BY <1>1, <1>2, <1>5, <2>1 DEF MovesTo
  <2> QED
    BY <1>2, <2>2 DEF MovesTo, Ages
<1> QED
  BY <1>2, <1>3, <1>4, <1>5
\* The maker begins nothing that was not sent to it.
LEMMA MakerBegins ==
  ASSUME DeckConstants, Fits, [Next]_vars, NEW j \in Jobs,
         ~ \E h \in Handlers : Send(h) /\ hs[h].job = j
  PROVE  (maker'[j] # "none" => maker[j] # "none") /\ (Active(j)' => Active(j))
<1>0. Types
  BY DEF Fits
<1>1. CASE UNCHANGED maker
  BY <1>1 DEF Active
<1>2. ASSUME NEW i \in Jobs, Make(i)
      PROVE  (maker'[j] # "none" => maker[j] # "none") /\ (Active(j)' => Active(j))
  <2>1. PICK next \in {"built", "rendering", "gone", "done"} :
          maker' = [maker EXCEPT ![i] = next] /\ maker[i] # "none"
          /\ (next \in {"built", "rendering"} => maker[i] = "preparing")
    BY <1>2 DEF Make
  <2> QED
    BY <1>0, <2>1 DEF Types, Active
<1>3. ASSUME NEW h \in Handlers, Render(h)
      PROVE  (maker'[j] # "none" => maker[j] # "none") /\ (Active(j)' => Active(j))
  BY <1>0, <1>3 DEF Types, Active, Render
<1>4. ASSUME NEW h \in Handlers, Send(h)
      PROVE  (maker'[j] # "none" => maker[j] # "none") /\ (Active(j)' => Active(j))
  BY <1>0, <1>4 DEF Types, Active, Send
<1>5. ASSUME NEW h \in Handlers, Handle(h), ~ Render(h), ~ Send(h) PROVE UNCHANGED maker
  BY <1>5 DEF Handle, Advance, Order, LockJob, Leave, AskMaker, Post, AppendNotice, Mark, Reserve,
              SaveReservation, NotSent, NoAnswer, Answered
<1>6. CASE DeckNext
  BY <1>1, <1>2, <1>3, <1>4, <1>5, <1>6 DEF DeckNext, Age, Expire, Crash
<1> QED
  BY <1>1, <1>6 DEF Next, Aside, vars, deck

LEMMA SentForGood ==
  ASSUME [Next]_vars, \A h \in Handlers : ~ SaveReservation(h)
  PROVE  sent' = sent
<1>1. ASSUME NEW h \in Handlers, Handle(h) PROVE sent' = sent
  BY <1>1 DEF Handle, Advance, Order, LockJob, Leave, AskMaker, Render, Post, AppendNotice, Mark,
              Reserve, NotSent, Send, NoAnswer, Answered
<1>2. CASE DeckNext
  BY <1>1, <1>2 DEF DeckNext, Age, Make, Expire, Crash
<1> QED
  BY <1>2 DEF Next, Aside, vars, deck

LEMMA MadeAreRecordedStays ==
  ASSUME DeckConstants, Fits, MadeAreRecorded, [Next]_vars
  PROVE  MadeAreRecorded'
<1>0. Types /\ astray \subseteq astray'
  BY StaysAstray DEF Fits
<1> SUFFICES ASSUME NEW j \in Jobs, j \notin astray', maker'[j] # "none"
             PROVE  /\ j \in Recorded' /\ sent'[j] = For(j)'
                    /\ rec'[j].run \/ rec'[j].unknown \/ AtWork(j)'
                    /\ Active(j)' => rec'[j].fin = "no" \/ rec'[j].age = 2
  BY DEF MadeAreRecorded
<1>1. ASSUME NEW h \in Handlers, SaveReservation(h), hs[h].job = j
      PROVE  /\ j \in Recorded' /\ sent'[j] = For(j)' /\ rec'[j].fin = "no" /\ AtWork(j)'
  BY <1>1, SavedFor
<1>2. ASSUME NEW h \in Handlers, SaveReservation(h), hs[h].job # j
      PROVE  /\ j \in Recorded' /\ sent'[j] = For(j)'
             /\ rec'[j].run \/ rec'[j].unknown \/ AtWork(j)'
             /\ Active(j)' => rec'[j].fin = "no" \/ rec'[j].age = 2
  <2>0. PICK i : i = hs[h].job
    OBVIOUS
  <2>1. rec'[j] = rec[j] /\ sent'[j] = sent[j] /\ maker' = maker
    <3>1. maker' = maker
      BY <1>2 DEF SaveReservation
    <3> QED
      BY <1>2, <2>0, <3>1, SavedFor
  <2>2. AtWork(j) => AtWork(j)'
    BY <1>2, SavingEnds DEF AtWork, Sending, SaveReservation
  <2> QED
    BY <1>0, <2>1, <2>2 DEF MadeAreRecorded, Active, For, Recorded
<1>3. ASSUME NEW h \in Handlers, Send(h), hs[h].job = j
      PROVE  /\ j \in Recorded' /\ sent'[j] = For(j)' /\ rec'[j].fin = "no" /\ AtWork(j)'
  <2>1. OrderFits(h) /\ hs[h].pc = "send" /\ OrderFits(h)' /\ who' = who
    BY <1>3, SendFits DEF Fits, Send
  <2>2. hs'[h].pc \in Sending /\ hs'[h].job = j
    BY <1>0, <1>3 DEF Send, To, Types, HandlerState, Sending
  <2>3. Reserved(h)' /\ sent'[j] = <<who'[h], hs'[h].order>>
    BY <2>1, <2>2 DEF OrderFits
  <2> QED
    BY <2>2, <2>3 DEF AtWork, Reserved, For
<1>4. CASE /\ \A h \in Handlers : ~ SaveReservation(h)
           /\ ~ \E h \in Handlers : Send(h) /\ hs[h].job = j
  <2>1. RecordsMove /\ sent' = sent
    BY <1>4, RecordsMoveOn, SentForGood
  <2>2. (maker[j] # "none") /\ (Active(j)' => Active(j))
    BY <1>4, MakerBegins
  <2>3. AtWork(j) => AtWork(j)' \/ rec'[j].run \/ rec'[j].unknown \/ j \notin Recorded'
    <3>1. CASE AtWork(j)'
      BY <3>1
    <3>2. ASSUME AtWork(j), Crash PROVE FALSE
      <4>1. j \in Ordering
        BY <3>2 DEF AtWork, Ordering, Sending
      <4> QED
        BY <2>2, <3>2, <4>1 DEF Crash
    <3>3. ASSUME NEW h \in Handlers, Answered(h), hs[h].job = j
          PROVE  rec'[j].run \/ rec'[j].unknown \/ j \notin Recorded'
      <4>1. rec[j] \in Record /\ hs[h].pc \in Sending
        BY <3>3, JobOfOrder DEF Works, Sending, Answered
      <4>2. rec'[j] = IF hs[h].pc = "record" THEN [rec[j] EXCEPT !.run = TRUE]
                      ELSE IF hs[h].pc = "foreign" THEN [rec[j] EXCEPT !.run = TRUE, !.fin = "failed"]
                      ELSE IF hs[h].pc = "unknown" \/ hs[h].retry THEN [rec[j] EXCEPT !.unknown = TRUE]
                      ELSE NoRecord
        BY <1>0, <3>3 DEF Answered, Types
      <4>3. rec'[j] = NoRecord \/ rec'[j].run \/ rec'[j].unknown
        BY <4>1, <4>2 DEF Record
      <4> QED
        BY <4>3 DEF Recorded
    <3> QED
      BY <3>1, <3>2, <3>3, WorkGoesOn
  <2> QED
    BY <1>0, <2>1, <2>2, <2>3, MadeGoOn
<1> QED
  BY <1>1, <1>2, <1>3, <1>4
-----------------------------------------------------------------------------
(* The ends of the jobs, as they are told.                                 *)

\* The conversation holds entries of E: notices, and what others write to it.
Entries(E) == /\ \A j \in Jobs : Notice(j) \in E
              /\ \A e \in E : e.of \in Jobs => e.role = "deck"

\* There is one notice of a job at most, and one of each job marked as told.
Notices(E) ==
  /\ conv \in Seq(E)
  /\ \A i, k \in DOMAIN conv : (conv[i].of \in Jobs /\ conv[k].of = conv[i].of) => i = k
  /\ \A h \in Handlers : hs[h].pc = "mark" => Told(hs[h].job) \/ gone
  /\ ToldEndsAreThere

LEMMA MarkersHaveTold ==
  ASSUME DeckConstants, Fits, [Next]_vars, NEW h \in Handlers, hs'[h].pc = "mark"
  PROVE  \/ hs[h].pc = "mark" /\ hs'[h] = hs[h]
         \/ AppendNotice(h) /\ hs'[h].job = hs[h].job
<1>0. Types
  BY DEF Fits
<1>1. CASE UNCHANGED hs
  BY <1>1
<1>2. CASE DeckNext /\ ~ UNCHANGED hs
  <2>1. ASSUME Crash PROVE FALSE
    BY <2>1 DEF Crash, Idle
  <2>2. PICK g \in Handlers : Handle(g)
    BY <1>2, <2>1 DEF DeckNext, Age, Make, Expire
  <2>3. ASSUME NEW k, Becomes(g, k), k.pc # "mark" PROVE hs[h].pc = "mark" /\ hs'[h] = hs[h]
    BY <1>0, <2>3 DEF Becomes, Types
  <2>4. ASSUME NEW pc \in {"ask", "leave", "post", "append", "send", "record", "unknown",
                           "foreign", "release"}, To(g, pc)
        PROVE  hs[h].pc = "mark" /\ hs'[h] = hs[h]
    BY <1>0, <2>3, <2>4, ToBecomes
  <2>5. ASSUME Next1(g) PROVE hs[h].pc = "mark" /\ hs'[h] = hs[h]
    BY <1>0, <2>3, <2>5, NextBecomes
  <2>6. CASE Leave(g) \/ AskMaker(g) \/ Render(g) \/ Post(g) \/ Mark(g)
             \/ SaveReservation(g) \/ NotSent(g) \/ NoAnswer(g) \/ Send(g)
    BY <2>4, <2>5, <2>6 DEF Leave, AskMaker, Render, Post, Mark, SaveReservation,
                            NotSent, NoAnswer, Send
  <2>7. CASE Advance(g) \/ Order(g) \/ LockJob(g) \/ Reserve(g) \/ Answered(g)
    <3>1. hs'[g].pc # "mark"
      <4>1. CASE Advance(g)
        BY <1>0, <4>1 DEF Types, HandlerState, Advance
      <4>2. CASE Order(g)
        <5>1. PICK o \in Orders, todo \in SUBSET Jobs :
                hs' = [hs EXCEPT ![g].order = o, ![g].todo = todo,
                                 ![g].pc = IF todo = {} THEN "reserve" ELSE "step"]
          BY <4>2 DEF Order, Mine, Recorded
        <5> QED
          BY <1>0, <5>1 DEF Types, HandlerState
      <4>3. CASE LockJob(g)
        BY <1>0, <4>3 DEF Types, HandlerState, LockJob
      <4>4. CASE Answered(g)
        BY <1>0, <4>4 DEF Types, HandlerState, Idle, Answered
      <4>5. CASE Reserve(g)
        <5>1. \/ hs' = [hs EXCEPT ![g] = Idle]
              \/ \E i : hs' = [hs EXCEPT ![g].pc = "save", ![g].job = i]
              \/ \E i : hs' = [hs EXCEPT ![g].pc = "save", ![g].job = i, ![g].retry = TRUE]
          BY <4>5 DEF Reserve
        <5>2. ASSUME hs' = [hs EXCEPT ![g] = Idle] PROVE hs'[g].pc = "idle"
          BY <1>0, <5>2 DEF Types, Idle
        <5>3. ASSUME NEW i, hs' = [hs EXCEPT ![g].pc = "save", ![g].job = i]
              PROVE  hs'[g].pc = "save"
          BY <1>0, <5>3 DEF Types, HandlerState
        <5>4. ASSUME NEW i, hs' = [hs EXCEPT ![g].pc = "save", ![g].job = i, ![g].retry = TRUE]
              PROVE  hs'[g].pc = "save"
          BY <1>0, <5>4 DEF Types, HandlerState
        <5> QED
          BY <5>1, <5>2, <5>3, <5>4
      <4> QED
        BY <2>7, <4>1, <4>2, <4>3, <4>4, <4>5
    <3>2. h # g
      BY <3>1
    <3> QED
      BY <1>0, <2>7, <3>2 DEF Types, Advance, Order, LockJob, Reserve, Answered
  <2>8. CASE AppendNotice(g)
    <3>1. h # g => hs'[h] = hs[h]
      BY <1>0, <2>8 DEF Types, AppendNotice, To
    <3>2. hs'[g].job = hs[g].job
      BY <1>0, <2>8 DEF Types, HandlerState, AppendNotice, To
    <3> QED
      BY <2>8, <3>1, <3>2
  <2> QED
    BY <2>2, <2>6, <2>7, <2>8 DEF Handle
<1> QED
  BY <1>1, <1>2 DEF Next, Aside, vars, deck

LEMMA OnlyNotices ==
  ASSUME Fits, DeckNext
  PROVE  conv' = conv \/ \E j \in Jobs : conv' = Append(conv, Notice(j))
<1>1. ASSUME NEW h \in Handlers, AppendNotice(h)
      PROVE  conv' = conv \/ \E j \in Jobs : conv' = Append(conv, Notice(j))
  <2>1. hs[h].job \in Jobs
    BY <1>1 DEF Fits, StepFits, AppendNotice, Locking, Relying
  <2> QED
    BY <1>1, <2>1 DEF AppendNotice
<1>2. ASSUME NEW h \in Handlers, Handle(h), ~ AppendNotice(h) PROVE UNCHANGED conv
  BY <1>2 DEF Handle, Advance, Order, LockJob, Leave, AskMaker, Render, Post, Mark, Reserve,
              SaveReservation, NotSent, Send, NoAnswer, Answered
<1> QED
  BY <1>1, <1>2 DEF DeckNext, Age, Make, Expire, Crash

\* What others write is about no job, and what they delete is gone.
LEMMA NoticesBeside ==
  ASSUME NEW E, Entries(E), Notices(E), UNCHANGED records, gone => gone',
         \/ conv' = conv
         \/ conv' = <<>> /\ gone'
         \/ \E m \in E : m.of \notin Jobs /\ conv' = Append(conv, m)
  PROVE  Notices(E)'
<1>0. conv \in Seq(E) /\ UNCHANGED <<rec, hs, astray>>
  BY DEF Notices, records
<1>1. CASE conv' = conv
  BY <1>0, <1>1 DEF Notices, ToldEndsAreThere, Recorded, Told
<1>2. CASE conv' = <<>> /\ gone'
  <2>1. conv' \in Seq(E) /\ DOMAIN conv' = {}
    BY <1>2
  <2> QED
    BY <1>2, <2>1 DEF Notices, ToldEndsAreThere
<1>3. ASSUME NEW m \in E, m.of \notin Jobs, conv' = Append(conv, m) PROVE Notices(E)'
  <2>1. /\ conv' \in Seq(E) /\ DOMAIN conv' = DOMAIN conv \cup {Len(conv) + 1}
        /\ \A i \in DOMAIN conv : conv'[i] = conv[i]
        /\ conv'[Len(conv) + 1] = m
    BY <1>0, <1>3
  <2>2. \A i, k \in DOMAIN conv' : (conv'[i].of \in Jobs /\ conv'[k].of = conv'[i].of) => i = k
    BY <1>3, <2>1 DEF Notices
  <2>3. \A j : Told(j) => Told(j)'
    BY <2>1 DEF Told
  <2> QED
    BY <1>0, <2>1, <2>2, <2>3 DEF Notices, ToldEndsAreThere, Recorded
<1> QED
  BY <1>1, <1>2, <1>3

LEMMA NoticesStay ==
  ASSUME DeckConstants, Fits, NEW E, Entries(E), Notices(E), DeckNext, UNCHANGED <<turns, gone>>
  PROVE  Notices(E)'
<1>0. /\ Types /\ conv \in Seq(E) /\ astray \subseteq astray' /\ [Next]_vars
  BY StaysAstray DEF Fits, Notices, Next
<1>2. /\ conv' \in Seq(E)
      /\ \A i, k \in DOMAIN conv' : (conv'[i].of \in Jobs /\ conv'[k].of = conv'[i].of) => i = k
      /\ \A j \in Jobs : Told(j) => Told(j)'
      /\ \A h \in Handlers : AppendNotice(h) => Told(hs[h].job)' \/ gone'
  <2>1. CASE UNCHANGED conv
    <3>1. \A h \in Handlers : AppendNotice(h) => Told(hs[h].job) \/ gone
      <4> SUFFICES ASSUME NEW h \in Handlers, AppendNotice(h), ~ Told(hs[h].job), ~ gone PROVE FALSE
        OBVIOUS
      <4>1. conv' = Append(conv, Notice(hs[h].job))
        BY DEF AppendNotice
      <4> QED
        BY <1>0, <2>1, <4>1
    <3>2. \A h \in Handlers : AppendNotice(h) => hs'[h].job = hs[h].job
      BY <1>0 DEF AppendNotice, To, Types, HandlerState
    <3> QED
      BY <1>0, <2>1, <3>1, <3>2 DEF Notices, Told
  <2>2. ASSUME NEW h \in Handlers, AppendNotice(h), ~ UNCHANGED conv
        PROVE  /\ conv' \in Seq(E)
               /\ \A i, k \in DOMAIN conv' :
                    (conv'[i].of \in Jobs /\ conv'[k].of = conv'[i].of) => i = k
               /\ \A j \in Jobs : Told(j) => Told(j)'
               /\ Told(hs[h].job)'
    <3>1. PICK j \in Jobs : j = hs[h].job
      BY <2>2 DEF Fits, StepFits, AppendNotice, Locking, Relying
    <3>2. ~ Told(j) /\ conv' = Append(conv, Notice(j))
      BY <2>2, <3>1 DEF AppendNotice
    <3>3. conv' \in Seq(E)
      BY <1>0, <3>2 DEF Entries
    <3>4. /\ DOMAIN conv = 1 .. Len(conv) /\ DOMAIN conv' = 1 .. Len(conv) + 1 /\ Len(conv) \in Nat
          /\ \A i \in DOMAIN conv : conv'[i] = conv[i]
          /\ conv'[Len(conv) + 1] = Notice(j)
      BY <1>0, <3>2
    <3>5. \A i \in DOMAIN conv : conv[i].of # j
      BY <1>0, <3>2 DEF Told, Entries
    <3>6. \A i, k \in DOMAIN conv' : (conv'[i].of \in Jobs /\ conv'[k].of = conv'[i].of) => i = k
      BY <3>4, <3>5 DEF Notices, Notice
    <3>7. \A i \in Jobs : Told(i) => Told(i)'
      BY <3>4 DEF Told
    <3>8. hs'[h].job = j
      BY <1>0, <2>2, <3>1 DEF AppendNotice, To, Types, HandlerState
    <3>9. Told(j)'
      BY <3>4 DEF Told, Notice
    <3> QED
      BY <3>3, <3>6, <3>7, <3>8, <3>9
  <2>3. ASSUME NEW h \in Handlers, Handle(h), ~ AppendNotice(h) PROVE UNCHANGED conv
    BY <2>3 DEF Handle, Advance, Order, LockJob, Leave, AskMaker, Render, Post, Mark, Reserve,
                SaveReservation, NotSent, Send, NoAnswer, Answered
  <2>4. UNCHANGED conv \/ \E h \in Handlers : AppendNotice(h)
    BY <2>3 DEF DeckNext, Age, Make, Expire, Crash
  <2>5. \A h, g \in Handlers : AppendNotice(h) /\ AppendNotice(g) => g = h
    BY <1>0 DEF AppendNotice, To, Types, HandlerState
  <2> QED
    BY <2>1, <2>2, <2>4, <2>5
<1>3. ASSUME NEW h \in Handlers, hs'[h].pc = "mark" PROVE (Told(hs[h].job) \/ gone)'
  <2>1. CASE hs[h].pc = "mark" /\ hs'[h] = hs[h]
    <3>1. PICK j \in Jobs : j = hs[h].job
      BY <2>1 DEF Fits, StepFits, Locking, Relying
    <3>2. Told(j) \/ gone
      BY <2>1, <3>1 DEF Notices
    <3> QED
      BY <1>2, <2>1, <3>1, <3>2 DEF Told
  <2> QED
    BY <1>0, <1>2, <1>3, <2>1, MarkersHaveTold
<1>4. ToldEndsAreThere'
  <2> SUFFICES ASSUME NEW j \in Recorded', rec'[j].fin # "no", ~ rec'[j].pending, j \notin astray',
                      ~ gone'
               PROVE  Told(j)'
    BY DEF ToldEndsAreThere
  <2>0. j \in Jobs
    BY DEF Recorded
  <2>1. ASSUME NEW h \in Handlers, SaveReservation(h) PROVE Told(j)'
    <3>0. PICK i : i = hs[h].job
      OBVIOUS
    <3>1. j # i
      BY <2>1, <3>0, SavedFor
    <3>2. rec'[j] = rec[j] /\ j \in Recorded
      BY <2>0, <2>1, <3>0, <3>1, SavedFor DEF Recorded
    <3> QED
      BY <1>0, <1>2, <2>0, <3>2 DEF Notices, ToldEndsAreThere
  <2>2. CASE \A h \in Handlers : ~ SaveReservation(h)
    <3>1. j \in Recorded /\ MovesTo(j, rec'[j])
      BY <1>0, <2>2, RecordsMoveOn DEF RecordsMove
    <3>2. \/ rec[j].fin # "no" /\ ~ rec[j].pending
          \/ \E h \in Handlers : hs[h].pc = "mark" /\ hs[h].job = j
      BY <1>0, <3>1 DEF MovesTo
    <3>3. Told(j)
      BY <1>0, <3>1, <3>2 DEF Notices, ToldEndsAreThere
    <3> QED
      BY <1>2, <2>0, <3>3
  <2> QED
    BY <2>1, <2>2
<1> QED
  BY <1>2, <1>3, <1>4 DEF Notices
-----------------------------------------------------------------------------
(* All of it.                                                              *)

\* The rest of the shapes, and the bounds.
Bounds ==
  /\ who \in Crews /\ creating \in Handlers \cup {Nobody}
  /\ astray \subseteq Jobs /\ again \subseteq Jobs
  /\ asks \in 0 .. MaxAsks /\ crashes \in 0 .. MaxCrashes

LEMMA BoundsStay ==
  ASSUME DeckConstants, Fits, Bounds, [Next]_vars
  PROVE  Bounds'
<1>1. CASE UNCHANGED records
  BY <1>1 DEF records, Bounds
<1>2. Ordering \subseteq Jobs
  BY JobOfOrder DEF Ordering, Works, Sending
<1>3. CASE DeckNext
  <2>1. CASE Crash
    <3>1. crashes' \in 0 .. MaxCrashes
      BY <2>1 DEF Crash, Bounds, DeckConstants
    <3> QED
      BY <1>2, <2>1, <3>1 DEF Crash, Bounds
  <2>2. ASSUME NEW j \in Jobs, Age(j) \/ Make(j) \/ Expire(j) PROVE Bounds'
    BY <2>2 DEF Age, Make, Expire, Bounds
  <2>3. ASSUME NEW h \in Handlers, Handle(h) PROVE Bounds'
    <3>1. CASE Advance(h) \/ Order(h)
      <4>0. asks < MaxAsks /\ asks' = asks + 1
        BY <3>1 DEF Advance, Order, Ask
      <4>1. asks' \in 0 .. MaxAsks
        BY <4>0 DEF Bounds, DeckConstants
      <4> QED
        BY <3>1, <4>1 DEF Advance, Order, Bounds
    <3>2. CASE SaveReservation(h) \/ Send(h)
      <4>1. hs[h].job \in Jobs
        BY <3>2, JobOfOrder DEF SaveReservation, Send, Works, Sending
      <4>2. astray' \subseteq Jobs /\ again' \subseteq Jobs /\ creating' \in Handlers \cup {Nobody}
            /\ UNCHANGED <<who, asks, crashes>>
        BY <3>2, <4>1 DEF SaveReservation, Send, Bounds
      <4> QED
        BY <4>2 DEF Bounds
    <3>3. CASE Reserve(h)
      BY <3>3 DEF Reserve, Bounds
    <3>4. CASE LockJob(h) \/ Leave(h) \/ AskMaker(h) \/ Render(h) \/ Post(h) \/ AppendNotice(h)
               \/ Mark(h) \/ NotSent(h) \/ NoAnswer(h) \/ Answered(h)
      BY <3>4 DEF LockJob, Leave, AskMaker, Render, Post, AppendNotice, Mark, NotSent, NoAnswer,
                  Answered, Bounds
    <3> QED
      BY <2>3, <3>1, <3>2, <3>3, <3>4 DEF Handle
  <2> QED
    BY <1>3, <2>1, <2>2, <2>3 DEF DeckNext
<1> QED
  BY <1>1, <1>3 DEF Next, Aside, vars, deck, records

\* What the orders, their records and their limit rest on.
Sound == Fits /\ Bounds /\ WithinLimit /\ Once

LEMMA SoundInit ==
  ASSUME DeckConstants, Init
  PROVE  Sound
<1>1. WithinLimit
  <2>1. \A p : Held(p) = {}
    BY DEF Init, Held, Mine, Recorded
  <2>2. \A p : Cardinality(Held(p)) = 0
    BY <2>1, FS_EmptySet
  <2>3. LimitHolds
    BY <2>2 DEF LimitHolds, Held, DeckConstants
  <2>4. PlaceIsFree
    BY DEF Init, PlaceIsFree, Idle
  <2> QED
    BY <2>3, <2>4 DEF WithinLimit
<1>2. Once
  BY DEF Init, Once, LiveOnce, MadeAreRecorded, Live, Recorded, Idle
<1>3. Bounds
  BY DEF Init, Bounds, DeckConstants
<1> QED
  BY <1>1, <1>2, <1>3, FitsInit DEF Sound

LEMMA SoundNext ==
  ASSUME DeckConstants, Sound, [Next]_vars
  PROVE  Sound'
BY FitsNext, BoundsStay, WithinLimitStays, LiveOnceStays, MadeAreRecordedStays DEF Sound, Once

\* What happens beside the decks leaves it alone.
LEMMA SoundBeside ==
  ASSUME DeckConstants, Sound, UNCHANGED records
  PROVE  Sound'
<1>1. UNCHANGED <<who, rec, maker, hs, creating, lock, sent, astray, again, asks, crashes>>
  BY DEF records
<1>2. WithinLimit'
  BY <1>1 DEF Sound, WithinLimit, PlaceIsFree, Held, LimitHolds, Mine, Recorded, Inflight, Reserving
<1>3. Once'
  BY <1>1 DEF Sound, Once, LiveOnce, MadeAreRecorded, Live, For, AtWork, Recorded, Active
<1> QED
  BY <1>1, <1>2, <1>3, FitsBeside DEF Sound, Bounds

LEMMA SoundLimits ==
  ASSUME DeckConstants, Sound
  PROVE  LimitHolds /\ OrdersAreMadeOnce
<1>1. OrdersAreMadeOnce
  <2> SUFFICES ASSUME NEW i \in Jobs \ astray, NEW j \in Jobs \ astray, i # j,
                      sent[i] = sent[j], Active(i), Active(j),
                      \A k \in {i, j} \cap Recorded : rec[k].age # 2
               PROVE  FALSE
    BY DEF OrdersAreMadeOnce
  <2>1. ASSUME NEW k \in {i, j} PROVE Live(k) /\ For(k) = sent[i]
    <3>1. /\ k \in Recorded /\ sent[k] = For(k) /\ rec[k].fin = "no" /\ rec[k].age # 2
          /\ rec[k].run \/ rec[k].unknown \/ AtWork(k)
      BY DEF Sound, Once, MadeAreRecorded, Active
    <3>2. rec[k] \in Record
      BY <3>1, RecordsAreRecords DEF Sound, Fits, Recorded
    <3>3. rec[k].age < 2
      BY <3>1, <3>2 DEF Record, Ages
    <3> QED
      BY <3>1, <3>3 DEF Live
  <2> QED
    BY <2>1 DEF Sound, Once, LiveOnce
<1> QED
  BY <1>1 DEF Sound, WithinLimit

LEMMA AlwaysSound == ASSUME DeckConstants PROVE Spec => []Sound
<1>1. Init => Sound
  BY SoundInit
<1>2. Sound /\ [Next]_vars => Sound'
  BY SoundNext
<1> QED
  BY <1>1, <1>2, PTL DEF Spec
-----------------------------------------------------------------------------
(* What follows.                                                           *)

\* The records, the locks and the requests have their shapes, one request at a time reserves,
\* no two work on one job, and each finds in the record of its job what it relies on between
\* two awaits, whatever the others do meanwhile (wda_deck.py: _create_locked, _advance_locked).
THEOREM RequestsDoNotCollide == ASSUME DeckConstants PROVE Spec => []Fits
BY AlwaysSound, PTL DEF Sound

\* A person never has more jobs under way than the limit, though many requests are checked at
\* the same time: who has counted holds the lock until the reservation is in the records.
THEOREM DecksStayWithinLimit == ASSUME DeckConstants PROVE Spec => []LimitHolds
<1>1. Sound => LimitHolds
  BY SoundLimits
<1> QED
  BY <1>1, AlwaysSound, PTL

\* An order is not at work twice at the maker, though answers are lost and orders repeated,
\* but for jobs the portal lost sight of or gave up waiting for.
THEOREM OrdersStayApart == ASSUME DeckConstants PROVE Spec => []OrdersAreMadeOnce
<1>1. Sound => OrdersAreMadeOnce
  BY SoundLimits
<1> QED
  BY <1>1, AlwaysSound, PTL

\* Records, locks, requests and what is counted have the shapes the portal gives them.
THEOREM DecksHaveTypes == ASSUME DeckConstants PROVE Spec => []TypeOK
<1> DEFINE Flags == turns \in BOOLEAN /\ gone \in BOOLEAN
<1>1. Init => Flags
  BY DEF Init
<1>2. Flags /\ [Next]_vars => Flags'
  BY DEF Next, Aside, vars
<1>3. Sound /\ Flags => TypeOK
  BY DEF Sound, Fits, Types, Bounds, TypeOK
<1> HIDE DEF Flags
<1> QED
  BY <1>1, <1>2, <1>3, AlwaysSound, PTL DEF Spec

\* Beside the decks there is nobody who writes.
AllNotices == Notices({Notice(j) : j \in Jobs})

LEMMA NoticesAlways == ASSUME DeckConstants PROVE Spec => []AllNotices
<1> DEFINE E == {Notice(j) : j \in Jobs}
<1>1. Init => AllNotices
  <2> SUFFICES ASSUME Init PROVE Notices(E)
    BY DEF AllNotices
  <2>1. conv \in Seq(E) /\ DOMAIN conv = {}
    BY DEF Init
  <2> QED
    BY <2>1 DEF Init, Notices, ToldEndsAreThere, Recorded, Idle
<1>2. Fits /\ AllNotices /\ [Next]_vars => AllNotices'
  <2> SUFFICES ASSUME Fits, Notices(E), [Next]_vars PROVE Notices(E)'
    BY DEF AllNotices
  <2>1. Entries(E)
    <3>1. \A e \in E : e.role = "deck"
      BY DEF Notice
    <3>2. \A j \in Jobs : Notice(j) \in E
      OBVIOUS
    <3> QED
      BY <3>1, <3>2 DEF Entries
  <2>2. CASE DeckNext /\ UNCHANGED <<turns, gone>>
    BY <2>1, <2>2, NoticesStay
  <2>3. CASE Aside \/ UNCHANGED vars
    <3>1. UNCHANGED records /\ (gone => gone') /\ (conv' = conv \/ (conv' = <<>> /\ gone'))
      BY <2>3 DEF Aside, vars, deck, records
    <3> QED
      BY <2>1, <3>1, NoticesBeside
  <2> QED
    BY <2>2, <2>3 DEF Next
<1> QED
  BY <1>1, <1>2, RequestsDoNotCollide, PTL DEF Spec

\* The end of a job is told once: whoever stores its message holds the job's lock, and stores
\* it under the id of the job, so that a step that died in between stores no second one.
THEOREM EndsStayToldOnce == ASSUME DeckConstants PROVE Spec => []EndsAreToldOnce
<1>1. AllNotices => EndsAreToldOnce
  <2> SUFFICES ASSUME AllNotices PROVE EndsAreToldOnce
    OBVIOUS
  <2>1. \A i \in DOMAIN conv : conv[i].of \in Jobs
    BY DEF AllNotices, Notices, Notice
  <2> QED
    BY <2>1 DEF AllNotices, Notices, EndsAreToldOnce
<1> QED
  BY <1>1, NoticesAlways, PTL

\* An end is marked as told only once its message is there, or the conversation was deleted.
THEOREM ToldEndsStayThere == ASSUME DeckConstants PROVE Spec => []ToldEndsAreThere
<1>1. AllNotices => ToldEndsAreThere
  BY DEF AllNotices, Notices
<1> QED
  BY <1>1, NoticesAlways, PTL
=============================================================================
