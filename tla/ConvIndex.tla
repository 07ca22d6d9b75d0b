----------------------------- MODULE ConvIndex -----------------------------
(***************************************************************************)
(* The index behind the search of a person's conversations                 *)
(* (agent/conv_search.py).  A search first indexes what is not indexed,    *)
(* within a budget: messages are cut into chunks, chunks are embedded in   *)
(* batches by a service, and the vectors of whole messages are written     *)
(* under the name of the space the service last answered in.  Messages too *)
(* large for the budget go to a task beside the searches.  The service may *)
(* change to another model at any time, and the portal may be restarted.   *)
(***************************************************************************)
EXTENDS Naturals, Sequences, FiniteSetsExt

CONSTANTS
  Searches,    \* requests served at the same time
  Tasks,       \* tasks beside them (_OUTSIDE_TASKS)
  N,           \* the messages are 1 .. N, the newest first
  Size,        \* of a message: its chunks; none if it is too short to be found
  Batch,       \* chunks of one call (_EMBED_BATCH)
  Spaces,      \* bound: the spaces are 1 .. Spaces, in the order they are served
  MaxSearches, \* bound: searches
  MaxFails,    \* bound: calls of the service that fail
  MaxRestarts  \* bound: restarts of the portal

VARIABLES
  space,   \* the space the service answers in
  tag,     \* the name of the space last seen (_LAST)
  known,   \* it was seen since the start
  row,     \* of a message: its rows, under the name they were written with
  outside, \* messages that are with a task (_OUTSIDE)
  w,       \* what each search and each task is at
  searches, fails, restarts

vars == <<space, tag, known, row, outside, w, searches, fails, restarts>>

\* What the numbers are, and that no task is a search.
IndexConstants ==
  /\ N \in Nat /\ Size \in [1 .. N -> Nat] /\ Batch \in Nat \ {0} /\ Spaces \in Nat \ {0}
  /\ Searches \cap Tasks = {}

Messages == 1 .. N
Workers == Searches \cup Tasks
NoRow == [name |-> 0, of |-> <<>>]
\* `all` is what a task was handed, `todo` what is left of it, `group` what is embedded
\* next, `got` its vectors so far, each known by its space, `of` the answer on its way.
Idle == [pc |-> "idle", all |-> {}, todo |-> {}, group |-> {}, got |-> <<>>, of |-> 0,
         name |-> 0, embedded |-> 0]

Chunks(S) == MapThenSumSet(LAMBDA m : Size[m], S)
Least(S, n) == IF Chunks(S) <= n THEN S
               ELSE CHOOSE T \in {{m \in S : m <= k} : k \in S} :
                      Chunks(T) >= n /\ Chunks(T \ {Max(T)}) < n
Set(x, r) == w' = [w EXCEPT ![x] = r]
Counts == <<searches, fails, restarts>>
-----------------------------------------------------------------------------
Init ==
  /\ space = 1 /\ tag = 1 /\ known = FALSE
  /\ row = [m \in Messages |-> NoRow]
  /\ outside = {}
  /\ w = [x \in Workers |-> Idle]
  /\ searches = 0 /\ fails = 0 /\ restarts = 0

\* The first search since the start asks for the space.
Search(h) ==
  /\ w[h].pc = "idle" /\ searches < MaxSearches /\ searches' = searches + 1
  /\ Set(h, [Idle EXCEPT !.pc = IF known THEN "look" ELSE "learn", !.name = tag])
  /\ UNCHANGED <<space, tag, known, row, outside, fails, restarts>>

\* The service embeds what it was asked to.
Serve(x) ==
  /\ w[x].pc \in {"learn", "wait", "query"} /\ w[x].of = 0
  /\ Set(x, [w[x] EXCEPT !.of = space])
  /\ UNCHANGED <<space, tag, known, row, outside, Counts>>

Learned(h) ==
  /\ w[h].pc = "learn" /\ w[h].of # 0
  /\ tag' = w[h].of /\ known' = TRUE
  /\ Set(h, [Idle EXCEPT !.pc = "look", !.name = w[h].of])
  /\ UNCHANGED <<space, row, outside, Counts>>

\* What has no row under the name (unindexed), read in a thread.
Look(h) ==
  /\ w[h].pc = "look"
  /\ Set(h, [w[h] EXCEPT !.pc = "sort", !.todo = {m \in Messages : row[m].name # w[h].name}])
  /\ UNCHANGED <<space, tag, known, row, outside, Counts>>

\* What is with a task is left to it; what is too short is marked, in a thread.
Sort(h) ==
  /\ w[h].pc = "sort"
  /\ LET mine == w[h].todo \ outside
         marks == {m \in mine : Size[m] = 0} IN
     Set(h, [w[h] EXCEPT !.pc = IF marks = {} THEN "gather" ELSE "mark",
                         !.todo = mine \ marks, !.group = marks, !.name = tag])
  /\ UNCHANGED <<space, tag, known, row, outside, Counts>>

Mark(h) ==
  /\ w[h].pc = "mark"
  /\ row' = [m \in Messages |-> IF m \in w[h].group THEN [name |-> w[h].name, of |-> <<>>]
                                ELSE row[m]]
  /\ Set(h, [w[h] EXCEPT !.pc = "gather", !.group = {}])
  /\ UNCHANGED <<space, tag, known, outside, Counts>>

\* Messages are gathered until they fill a batch.
Gather(h) ==
  /\ w[h].pc = "gather" /\ w[h].todo # {}
  /\ Set(h, [w[h] EXCEPT !.pc = "batch", !.group = Least(w[h].todo, Batch), !.got = <<>>])
  /\ UNCHANGED <<space, tag, known, row, outside, Counts>>

\* The budget allows one more batch.
AskBatch(h) ==
  /\ w[h].pc = "batch"
  /\ Set(h, [w[h] EXCEPT !.pc = "wait"])
  /\ UNCHANGED <<space, tag, known, row, outside, Counts>>

\* What was embedded before the budget ended is written.
StopWriting(h) ==
  /\ w[h].pc \in {"gather", "batch"} /\ w[h].todo # {}
  /\ row' = [m \in Messages |-> IF m \in w[h].group /\ w[h].got # <<>>
                                THEN [name |-> tag, of |-> w[h].got] ELSE row[m]]
  /\ Set(h, [Idle EXCEPT !.pc = "query"])
  /\ UNCHANGED <<space, tag, known, outside, Counts>>

\* The budget is over: nothing of the group is written, and what has more chunks than the
\* search could embed goes to a task.
Stop(h) ==
  /\ w[h].pc \in {"gather", "batch"} /\ w[h].todo # {}
  /\ LET big == IF w[h].embedded = 0 THEN {}
                ELSE {m \in w[h].todo : Size[m] > w[h].embedded}
         query == [Idle EXCEPT !.pc = "query"] IN
     /\ outside' = outside \cup big
     /\ IF big = {} THEN Set(h, query)
        ELSE \E t \in Tasks :
               /\ w[t].pc = "idle"
               /\ w' = [w EXCEPT ![h] = query,
                          ![t] = [Idle EXCEPT !.pc = "wait", !.all = big, !.todo = big,
                                              !.group = Least(big, 1)]]
  /\ UNCHANGED <<space, tag, known, row, Counts>>

\* The vectors of a batch come back; those of the last one give the name.
Received(x) ==
  /\ w[x].pc = "wait" /\ w[x].of # 0
  /\ LET left == Chunks(w[x].group) - Len(w[x].got)
         n == IF left < Batch THEN left ELSE Batch
         got == w[x].got \o [i \in 1 .. n |-> w[x].of] IN
     Set(x, [w[x] EXCEPT !.of = 0, !.got = got, !.embedded = @ + n, !.name = w[x].of,
               !.pc = IF n = left THEN "put" ELSE IF x \in Searches THEN "batch" ELSE "wait"])
  /\ tag' = w[x].of /\ known' = TRUE
  /\ UNCHANGED <<space, row, outside, Counts>>

\* The rows of whole messages are written in one transaction, in the order of the chunks.
Written(x) ==
  [m \in Messages |->
     IF m \in w[x].group
     THEN LET before == Chunks({k \in w[x].group : k < m}) IN
          [name |-> w[x].name, of |-> SubSeq(w[x].got, before + 1, before + Size[m])]
     ELSE row[m]]

Put(h) ==
  /\ w[h].pc = "put"
  /\ row' = Written(h)
  /\ Set(h, [w[h] EXCEPT !.pc = "gather", !.todo = @ \ w[h].group, !.group = {}, !.got = <<>>])
  /\ UNCHANGED <<space, tag, known, outside, Counts>>

\* A task writes message by message and takes back what it was handed when it ends.
PutOutside(t) ==
  /\ w[t].pc = "put"
  /\ row' = Written(t)
  /\ LET rest == w[t].todo \ w[t].group IN
     IF rest = {} THEN Set(t, Idle) /\ outside' = outside \ w[t].all
     ELSE /\ Set(t, [w[t] EXCEPT !.pc = "wait", !.todo = rest, !.group = Least(rest, 1),
                                 !.got = <<>>])
          /\ UNCHANGED outside
  /\ UNCHANGED <<space, tag, known, Counts>>

\* Nothing is left to index; the question itself is embedded.
Indexed(h) ==
  /\ w[h].pc = "gather" /\ w[h].todo = {}
  /\ Set(h, [Idle EXCEPT !.pc = "query"])
  /\ UNCHANGED <<space, tag, known, row, outside, Counts>>

Answered(h) ==
  /\ w[h].pc = "query" /\ w[h].of # 0
  /\ tag' = w[h].of /\ known' = TRUE
  /\ Set(h, Idle)
  /\ UNCHANGED <<space, row, outside, Counts>>

\* The service fails: a search ends without an answer, a task ends.
EmbedFails(x) ==
  /\ w[x].pc \in {"learn", "wait", "query"} /\ fails < MaxFails /\ fails' = fails + 1
  /\ Set(x, Idle) /\ outside' = outside \ w[x].all
  /\ UNCHANGED <<space, tag, known, row, searches, restarts>>

Switch ==
  /\ space < Spaces /\ space' = space + 1
  /\ UNCHANGED <<tag, known, row, outside, w, Counts>>

Restart ==
  /\ restarts < MaxRestarts /\ restarts' = restarts + 1
  /\ tag' = 1 /\ known' = FALSE /\ outside' = {}
  /\ w' = [x \in Workers |-> Idle]
  /\ UNCHANGED <<space, row, searches, fails>>

Next ==
  \/ \E h \in Searches :
       Search(h) \/ Learned(h) \/ Look(h) \/ Sort(h) \/ Mark(h) \/ Gather(h) \/ AskBatch(h)
       \/ Stop(h) \/ Put(h) \/ Indexed(h) \/ Answered(h)
  \/ \E t \in Tasks : PutOutside(t)
  \/ \E x \in Workers : Serve(x) \/ Received(x) \/ EmbedFails(x)
  \/ Switch \/ Restart

Spec == Init /\ [][Next]_vars
-----------------------------------------------------------------------------
(* Properties                                                              *)

\* A message that counts as indexed is indexed to its end, though searches stop in the
\* middle, overlap, and fail (reindex, flush, _index_outside).
IndexedIsWhole == \A m \in Messages : row[m].name # 0 => Len(row[m].of) = Size[m]

\* What searches leave to a task is with a task: nothing is left out of the index for good
\* (_OUTSIDE).
HandedOverIsUnderWay ==
  \A m \in outside : \E t \in Tasks : w[t].pc # "idle" /\ m \in w[t].all

\* Vectors are stored under the name of the space they are of (conv_search.py:25: they are
\* stored and looked for by that name, and nothing is worse than spaces that are mixed).
VectorsAreOfTheirSpace ==
  \A m \in Messages : \A i \in 1 .. Len(row[m].of) : row[m].of[i] = row[m].name

TypeOK ==
  /\ space \in 1 .. Spaces /\ tag \in 1 .. Spaces /\ known \in BOOLEAN
  /\ row \in [Messages -> [name : 0 .. Spaces, of : Seq(1 .. Spaces)]]
  /\ outside \subseteq Messages /\ DOMAIN w = Workers
=============================================================================
