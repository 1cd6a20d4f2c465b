------------------------------ MODULE Judging ------------------------------
(***************************************************************************)
(* How a statement resolves its rows to answers: Executor.judge and        *)
(* Executor.JudgeRows (internal/exec) over the sqlite answer cache         *)
(* (internal/cache).  Sessions are executors in any number of processes    *)
(* that share one cache file.  A row stands for its (question, canonical   *)
(* object) pair, which is also the identity of its cache key: the model    *)
(* name is the same for all sessions.  Client.Judge appears as what it     *)
(* promises (JudgePromise): all pending items answered, or an error.       *)
(***************************************************************************)
EXTENDS Integers, FiniteSets, Sequences

CONSTANTS Sessions,       \* executors
          Keys,           \* distinct (question, object) pairs
          Values,         \* judgements the service may give; it may give one
                          \* pair different ones at different times
          RowLists,       \* the lists of rows statements may collect
          MaxRows,        \* Options.MaxRows
          MaxStatements   \* bound: statements per session

ASSUME RowListsAssumption == RowLists \subseteq Seq(Keys)
ASSUME ValuesAssumption == "absent" \notin Values
ASSUME MaxRowsAssumption == MaxRows \in Nat \ {0}
ASSUME MaxStatementsAssumption == MaxStatements \in Nat

\* An answer object.  One of another type than its question (or one that does
\* not parse) is not usable: the cache lookup skips it.
Entry == [usable : BOOLEAN, value : Values]
Absent == [usable |-> FALSE, value |-> "absent"]

VARIABLES pc,       \* where each session is
          rows,     \* the collected rows of its statement
          read,     \* the items GetMany has looked up
          hits,     \* what GetMany found for every key
          answer,   \* Item.Answer of every item, by the item's first row
          store,    \* the cache table
          readOk,   \* GetMany succeeded (history)
          kept,     \* history: since Start, no Clear and no failed PutMany
          started,  \* statements started (bound)
          said,     \* history: what the service answered, per key
          warm      \* history: keys usable in the cache ever since Start

svars == <<pc, rows, read, hits, answer>>
history == <<readOk, kept, said, warm>>
vars == <<svars, store, started, history>>

States == {"idle", "reading", "judging", "answered", "done", "failed", "crashed"}

\* Duplicate rows collapse into the item of the first of them.
ItemOf(s, r) == CHOOSE f \in DOMAIN rows[s] :
                  /\ rows[s][f] = rows[s][r]
                  /\ \A e \in DOMAIN rows[s] : rows[s][e] = rows[s][r] => f <= e

Order(s) == {r \in DOMAIN rows[s] : ItemOf(s, r) = r}

\* The items no usable cache entry was found for: what Judge is asked.
Pending(s) == {r \in Order(s) : ~hits[s][rows[s][r]].usable}

Usable == {k \in Keys : store[k].usable}
NoHits == [k \in Keys |-> Absent]

Init == /\ pc = [s \in Sessions |-> "idle"]
        /\ rows = [s \in Sessions |-> <<>>]
        /\ read = [s \in Sessions |-> {}]
        /\ hits = [s \in Sessions |-> NoHits]
        /\ answer = [s \in Sessions |-> <<>>]
        /\ store = NoHits
        /\ started = [s \in Sessions |-> 0]
        /\ readOk = [s \in Sessions |-> TRUE]
        /\ kept = [s \in Sessions |-> TRUE]
        /\ said = [k \in Keys |-> {}]
        /\ warm = [s \in Sessions |-> {}]

Move(s, from, to) == pc[s] = from /\ pc' = [pc EXCEPT ![s] = to]

\* collect: over budget nothing is looked up or asked.
Start(s, list) ==
  /\ pc[s] \in {"idle", "done", "failed", "crashed"}
  /\ started[s] < MaxStatements
  /\ started' = [started EXCEPT ![s] = @ + 1]
  /\ pc' = [pc EXCEPT ![s] = IF Len(list) > MaxRows THEN "failed" ELSE "reading"]
  /\ rows' = [rows EXCEPT ![s] = list]
  /\ read' = [read EXCEPT ![s] = {}]
  /\ hits' = [hits EXCEPT ![s] = NoHits]
  /\ answer' = [answer EXCEPT ![s] = [r \in DOMAIN list |-> Absent]]
  /\ readOk' = [readOk EXCEPT ![s] = TRUE]
  /\ kept' = [kept EXCEPT ![s] = TRUE]
  /\ warm' = [warm EXCEPT ![s] = Usable]
  /\ UNCHANGED <<store, said>>

\* Mutant of ReadNext: the lookup stops at the first key that is missing.
ReadNextBreaks(s) ==
  /\ pc[s] = "reading"
  /\ \E r \in Order(s) \ read[s] :
       /\ \A e \in Order(s) : e < r => e \in read[s]
       /\ read' = [read EXCEPT ![s] = IF store[rows[s][r]] = Absent THEN Order(s) ELSE @ \cup {r}]
       /\ hits' = [hits EXCEPT ![s][rows[s][r]] = store[rows[s][r]]]
  /\ UNCHANGED <<pc, rows, answer, store, started, history>>

\* GetMany: one SELECT per key, other sessions may write in between.
ReadNext(s) ==
  /\ pc[s] = "reading"
  /\ \E r \in Order(s) \ read[s] :
       /\ \A e \in Order(s) : e < r => e \in read[s]
       /\ read' = [read EXCEPT ![s] = @ \cup {r}]
       /\ hits' = [hits EXCEPT ![s][rows[s][r]] = store[rows[s][r]]]
  /\ UNCHANGED <<pc, rows, answer, store, started, history>>

\* A failed read is logged and everything counts as a miss.
ReadFails(s) ==
  /\ pc[s] = "reading" /\ read[s] # Order(s)
  /\ read' = [read EXCEPT ![s] = Order(s)]
  /\ hits' = [hits EXCEPT ![s] = NoHits]
  /\ readOk' = [readOk EXCEPT ![s] = FALSE]
  /\ UNCHANGED <<pc, rows, answer, store, started, kept, said, warm>>

\* Usable hits become answers; without anything pending the statement is done.
Resolve(s) ==
  /\ read[s] = Order(s)
  /\ Move(s, "reading", IF Pending(s) = {} THEN "done" ELSE "judging")
  /\ answer' = [answer EXCEPT ![s] =
                  [r \in DOMAIN @ |-> IF r \in Order(s) \ Pending(s)
                                      THEN hits[s][rows[s][r]] ELSE Absent]]
  /\ UNCHANGED <<rows, read, hits, store, started, history>>

\* The service's answers for the items in `asked`.
Hear(s, asked, fresh) ==
  /\ said' = [k \in Keys |-> said[k] \cup {fresh[r] : r \in {q \in asked : rows[s][q] = k}}]

JudgeSucceeds(s, fresh) ==
  /\ Move(s, "judging", "answered")
  /\ Hear(s, Pending(s), fresh)
  /\ answer' = [answer EXCEPT ![s] = [r \in DOMAIN @ |-> IF r \in Pending(s) THEN fresh[r] ELSE @[r]]]
  /\ UNCHANGED <<rows, read, hits, store, started, readOk, kept, warm>>

\* Judge returns an error after some batches were answered: judge returns the
\* error, and the items with their answers are dropped.
JudgeFails(s, asked, fresh) ==
  /\ Move(s, "judging", "failed")
  /\ Hear(s, asked, fresh)
  /\ UNCHANGED <<rows, read, hits, answer, store, started, readOk, kept, warm>>

\* Mutant of Puts: nothing is written after a failed read.
PutsIfRead(s) == {r \in Order(s) : /\ readOk[s]
                                  /\ hits[s][rows[s][r]] = Absent /\ answer[s][r] # Absent}

\* What is written back: the answered items that had no entry at all.
Puts(s) == {r \in Order(s) : hits[s][rows[s][r]] = Absent /\ answer[s][r] # Absent}

\* Mutant of Put: the answers are numbered by pending item, the keys by item.
PutMisindexed(s) ==
  /\ Move(s, "answered", "done")
  /\ store' = [k \in Keys |-> IF \E r \in Puts(s) : rows[s][r] = k
                              THEN answer[s][CHOOSE r \in Puts(s) : TRUE]
                              ELSE store[k]]
  /\ warm' = [w \in Sessions |-> warm[w] \cap {k \in Keys : store'[k].usable}]
  /\ UNCHANGED <<rows, read, hits, answer, started, readOk, kept, said>>

\* PutMany: one transaction, INSERT OR REPLACE.
Put(s) ==
  /\ Move(s, "answered", "done")
  /\ store' = [k \in Keys |-> IF \E r \in Puts(s) : rows[s][r] = k
                              THEN answer[s][CHOOSE r \in Puts(s) : rows[s][r] = k]
                              ELSE store[k]]
  /\ warm' = [w \in Sessions |-> warm[w] \cap {k \in Keys : store'[k].usable}]
  /\ UNCHANGED <<rows, read, hits, answer, started, readOk, kept, said>>

\* The transaction fails (locked, disk full, the context cancelled): rolled
\* back, logged, and the statement returns its answers all the same.
PutFails(s) ==
  /\ Move(s, "answered", "done")
  /\ kept' = [kept EXCEPT ![s] = FALSE]
  /\ UNCHANGED <<rows, read, hits, answer, store, started, readOk, said, warm>>

\* The process dies; only the cache file survives.
Crash(s) ==
  /\ pc[s] \in {"reading", "judging", "answered"}
  /\ pc' = [pc EXCEPT ![s] = "crashed"]
  /\ UNCHANGED <<rows, read, hits, answer, store, started, history>>

\* \cache clear, DELETE /v1/cache, CacheClear.
Clear ==
  /\ store # NoHits
  /\ store' = NoHits
  /\ warm' = [w \in Sessions |-> {}]
  /\ kept' = [w \in Sessions |-> FALSE]
  /\ UNCHANGED <<svars, started, readOk, said>>

Judge(s) ==
  \/ \E fresh \in [Pending(s) -> Entry] : JudgeSucceeds(s, fresh)
  \/ \E asked \in SUBSET Pending(s) : \E fresh \in [asked -> Entry] : JudgeFails(s, asked, fresh)

Next ==
  \/ \E s \in Sessions :
       \/ \E list \in RowLists : Start(s, list)
       \/ ReadNext(s) \/ ReadFails(s) \/ Resolve(s)
       \/ Judge(s)
       \/ Put(s) \/ PutFails(s) \/ Crash(s)
  \/ Clear

Spec == Init /\ [][Next]_vars
-----------------------------------------------------------------------------
\* The answer a returned statement shows for row r.
Shown(s, r) == answer[s][ItemOf(s, r)]

\* Every row of a statement that succeeded shows an answer the service gave
\* for that very object and question, from the cache or fresh: the indices of
\* order, keys, hits and pending never slip against each other.
AnswersGenuine ==
  \A s \in Sessions : pc[s] = "done" =>
    \A r \in DOMAIN rows[s] : Shown(s, r) \in said[rows[s][r]]

\* The cache only ever holds what the service said for that key, whatever
\* sessions run at once, fail half way or crash.
StoreGenuine == \A k \in Keys : store[k] # Absent => store[k] \in said[k]

\* A row is paid for only if the cache lacked it at some moment of the
\* statement (or could not be read): nothing found is asked again.
WarmNeverAsked ==
  \A s \in Sessions : pc[s] \in {"judging", "answered"} /\ readOk[s] =>
    \A r \in Pending(s) : rows[s][r] \notin warm[s]

\* After a statement succeeded and its write was kept, the same statement
\* costs nothing, whatever other sessions did to the cache meanwhile except
\* clear it: every row has a usable entry, unless the service at some time gave
\* an answer for it that is none.
SecondRunFree ==
  \A s \in Sessions : pc[s] = "done" /\ kept[s] =>
    \A r \in DOMAIN rows[s] :
      (\A e \in said[rows[s][r]] : e.usable) => store[rows[s][r]].usable
=============================================================================
