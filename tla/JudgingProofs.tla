--------------------------- MODULE JudgingProofs ---------------------------
(* Theorems about Judging, for every number of sessions, every set of keys  *)
(* and every list of rows.                                                  *)
EXTENDS Judging, WellFoundedInduction, TLAPS

\* A non-empty set of positions has a first one.
LEMMA FirstPosition ==
  ASSUME NEW T \in SUBSET Nat, T # {}
  PROVE  \E f \in T : \A e \in T : f <= e
<1> DEFINE R == OpToRel(<, Nat)
<1>1. PICK f \in T : \A e \in T : ~(<<e, f>> \in R)
  <2>1. IsWellFoundedOn(R, Nat)  BY NatLessThanWellFounded
  <2> HIDE DEF R
  <2>2. QED  BY <2>1, WFMin
<1>2. ASSUME NEW e \in T  PROVE f <= e
  <2>1. ~(e < f)  BY <1>1 DEF OpToRel
  <2>2. QED  BY <2>1
<1>3. QED  BY <1>2

\* The rows a session has collected are a sequence of keys.
RowsOk == rows \in [Sessions -> Seq(Keys)]

\* Every row has an item, that of the first row like it.
LEMMA ItemFound ==
  ASSUME NEW s \in Sessions, RowsOk, NEW r \in DOMAIN rows[s]
  PROVE  /\ ItemOf(s, r) \in Order(s)
         /\ rows[s][ItemOf(s, r)] = rows[s][r]
<1> DEFINE First(q, f) == /\ rows[s][f] = rows[s][q]
                          /\ \A e \in DOMAIN rows[s] : rows[s][e] = rows[s][q] => f <= e
<1>1. DOMAIN rows[s] \subseteq Nat  BY DEF RowsOk
<1> DEFINE T == {q \in DOMAIN rows[s] : rows[s][q] = rows[s][r]}
<1>2. \E f \in DOMAIN rows[s] : First(r, f)
  <2>1. PICK f \in T : \A e \in T : f <= e  BY <1>1, FirstPosition
  <2>2. QED  BY <2>1
<1> DEFINE i == ItemOf(s, r)
<1>3. i \in DOMAIN rows[s] /\ First(r, i)  BY <1>2 DEF ItemOf
<1>4. ItemOf(s, i) = i
  <2>1. ItemOf(s, i) = ItemOf(s, r)  BY <1>3 DEF ItemOf
  <2>2. QED  BY <2>1
<1>5. QED  BY <1>3, <1>4 DEF Order

LEMMA OrderIsRows ==
  ASSUME NEW s \in Sessions
  PROVE  Order(s) \subseteq DOMAIN rows[s] /\ Pending(s) \subseteq Order(s)
BY DEF Order, Pending

-----------------------------------------------------------------------------
(***************************************************************************)
(* The inductive invariant: everything a session holds was once said by    *)
(* the service for that very key, and every item is answered from the      *)
(* moment the session has its answers.                                     *)
(***************************************************************************)
Entries == Entry \cup {Absent}

Typed == /\ RowsOk
         /\ pc \in [Sessions -> States]
         /\ hits \in [Sessions -> [Keys -> Entries]]
         /\ DOMAIN answer = Sessions
         /\ \A s \in Sessions : answer[s] \in [DOMAIN rows[s] -> Entries]
         /\ store \in [Keys -> Entries]
         /\ said \in [Keys -> SUBSET Entry]

HitsSaid(s) == \A k \in Keys : hits[s][k] # Absent => hits[s][k] \in said[k]

AnswersSaid(s) == \A r \in DOMAIN rows[s] :
                    answer[s][r] # Absent => answer[s][r] \in said[rows[s][r]]

HasAnswers(s) == pc[s] \in {"answered", "done"}

ItemsAnswered(s) ==
  \A r \in Order(s) :
    HasAnswers(s) \/ (pc[s] = "judging" /\ r \notin Pending(s)) => answer[s][r] # Absent

SessionInv(s) == HitsSaid(s) /\ AnswersSaid(s) /\ ItemsAnswered(s)

IInv == Typed /\ StoreGenuine /\ \A s \in Sessions : SessionInv(s)

LEMMA EntriesDiffer ==
  /\ Absent \notin Entry /\ ~Absent.usable
  /\ \A e \in Entries : e # Absent => e \in Entry
BY ValuesAssumption DEF Absent, Entry, Entries

LEMMA RowKeys ==
  ASSUME RowsOk, NEW s \in Sessions
  PROVE  /\ \A r \in DOMAIN rows[s] : rows[s][r] \in Keys
         /\ DOMAIN rows[s] \subseteq Nat
BY DEF RowsOk

LEMMA InitInv == Init => IInv
<1> SUFFICES ASSUME Init PROVE IInv  OBVIOUS
<1>1. Absent \in Entries  BY DEF Entries
<1>2. Typed
  <2>1. RowsOk  BY DEF RowsOk, Init
  <2>2. \A s \in Sessions : answer[s] \in [DOMAIN rows[s] -> Entries]  BY DEF Init
  <2>3. QED  BY <1>1, <2>1, <2>2 DEF Typed, Init, NoHits, States
<1>3. StoreGenuine  BY DEF StoreGenuine, Init, NoHits
<1>4. ASSUME NEW s \in Sessions  PROVE SessionInv(s)
  BY DEF SessionInv, HitsSaid, AnswersSaid, ItemsAnswered, Order, HasAnswers, Init, NoHits
<1>5. QED  BY <1>2, <1>3, <1>4 DEF IInv

\* A session that does not move keeps its part of the invariant: the service
\* never takes back what it said.
LEMMA OthersKeep ==
  ASSUME IInv, NEW s \in Sessions, SessionInv(s),
         rows'[s] = rows[s], hits'[s] = hits[s], answer'[s] = answer[s], pc'[s] = pc[s],
         \A k \in Keys : said[k] \subseteq said'[k]
  PROVE  SessionInv(s)'
<1>1. Order(s)' = Order(s)  BY DEF Order, ItemOf
<1>2. Pending(s)' = Pending(s)  BY <1>1 DEF Pending
<1>3. HitsSaid(s)'  BY DEF SessionInv, HitsSaid
<1>4. AnswersSaid(s)'  BY RowKeys DEF SessionInv, AnswersSaid, IInv, Typed
<1>5. ItemsAnswered(s)'  BY <1>1, <1>2 DEF SessionInv, ItemsAnswered, HasAnswers
<1>6. QED  BY <1>3, <1>4, <1>5 DEF SessionInv

LEMMA StartInv ==
  ASSUME IInv, NEW s \in Sessions, NEW list \in RowLists, Start(s, list)
  PROVE  IInv'
<1> USE DEF IInv
<1>1. list \in Seq(Keys)  BY RowListsAssumption
<1>2. Typed'
  <2>1. RowsOk'  BY <1>1 DEF RowsOk, Typed, Start
  <2>2. pc' \in [Sessions -> States]  BY DEF Typed, Start, States
  <2>3. hits' \in [Sessions -> [Keys -> Entries]]  BY DEF Typed, Start, NoHits, Entries
  <2>4. DOMAIN answer' = Sessions  BY DEF Typed, Start
  <2>5. ASSUME NEW t \in Sessions  PROVE answer'[t] \in [DOMAIN rows'[t] -> Entries]
    BY DEF Typed, Start, RowsOk, Entries
  <2>6. QED  BY <2>1, <2>2, <2>3, <2>4, <2>5 DEF Typed, Start
<1>3. StoreGenuine'  BY DEF StoreGenuine, Start
<1>4. ASSUME NEW t \in Sessions  PROVE SessionInv(t)'
  <2>1. CASE t = s
    <3>1. HitsSaid(s)'  BY DEF HitsSaid, Start, Typed, NoHits
    <3>2. AnswersSaid(s)'  BY DEF AnswersSaid, Start, Typed, RowsOk
    <3>3. ~HasAnswers(s)' /\ pc'[s] # "judging"  BY DEF HasAnswers, Start, Typed
    <3>4. QED  BY <2>1, <3>1, <3>2, <3>3 DEF SessionInv, ItemsAnswered
  <2>2. CASE t # s  BY <2>2, OthersKeep DEF Start, Typed, RowsOk
  <2>3. QED  BY <2>1, <2>2
<1>5. QED  BY <1>2, <1>3, <1>4

LEMMA ReadInv ==
  ASSUME IInv, NEW s \in Sessions, ReadNext(s) \/ ReadFails(s)
  PROVE  IInv'
<1> USE DEF IInv
<1>1. /\ UNCHANGED <<pc, rows, answer, store, said>>
      /\ pc[s] = "reading"
      /\ \A t \in Sessions : t # s => hits'[t] = hits[t]
  BY DEF ReadNext, ReadFails, history, Typed
<1>2. /\ hits' \in [Sessions -> [Keys -> Entries]]
      /\ HitsSaid(s)'
  <2>1. CASE ReadFails(s)
    BY <2>1 DEF ReadFails, Typed, NoHits, Entries, HitsSaid
  <2>2. CASE ReadNext(s)
    <3>1. PICK r \in Order(s) : hits' = [hits EXCEPT ![s][rows[s][r]] = store[rows[s][r]]]
      BY <2>2 DEF ReadNext
    <3>2. rows[s][r] \in Keys  BY OrderIsRows, RowKeys DEF Typed
    <3>3. QED  BY <1>1, <3>1, <3>2 DEF Typed, HitsSaid, StoreGenuine, SessionInv
  <2>3. QED  BY <2>1, <2>2
<1>3. Typed'  BY <1>1, <1>2 DEF Typed, RowsOk
<1>4. StoreGenuine'  BY <1>1 DEF StoreGenuine
<1>5. ASSUME NEW t \in Sessions  PROVE SessionInv(t)'
  <2>1. CASE t = s
    <3>1. AnswersSaid(s)'  BY <1>1 DEF AnswersSaid, SessionInv
    <3>2. ItemsAnswered(s)'  BY <1>1 DEF ItemsAnswered, HasAnswers
    <3>3. QED  BY <2>1, <1>2, <3>1, <3>2 DEF SessionInv
  <2>2. CASE t # s  BY <1>1, <2>2, OthersKeep
  <2>3. QED  BY <2>1, <2>2
<1>6. QED  BY <1>3, <1>4, <1>5

LEMMA ResolveInv ==
  ASSUME IInv, NEW s \in Sessions, Resolve(s)
  PROVE  IInv'
<1> USE DEF IInv
<1>1. UNCHANGED <<rows, hits, store, said>>  BY DEF Resolve, history
<1>2. /\ pc' \in [Sessions -> States]
      /\ pc'[s] = "judging" \/ (pc'[s] = "done" /\ Pending(s) = {})
      /\ \A t \in Sessions : t # s => pc'[t] = pc[t]
  BY DEF Resolve, Move, Typed, States
<1>3. /\ DOMAIN answer' = Sessions
      /\ answer'[s] = [r \in DOMAIN rows[s] |-> IF r \in Order(s) \ Pending(s)
                                                THEN hits[s][rows[s][r]] ELSE Absent]
      /\ \A t \in Sessions : t # s => answer'[t] = answer[t]
  BY DEF Resolve, Typed
<1>4. Typed'
  <2>1. \A r \in DOMAIN rows[s] : hits[s][rows[s][r]] \in Entries
    BY RowKeys DEF Typed
  <2>2. answer'[s] \in [DOMAIN rows[s] -> Entries]  BY <1>3, <2>1 DEF Entries
  <2>3. QED  BY <1>1, <1>2, <1>3, <2>2 DEF Typed, RowsOk
<1>5. StoreGenuine'  BY <1>1 DEF StoreGenuine
<1>6. ASSUME NEW t \in Sessions  PROVE SessionInv(t)'
  <2>1. CASE t = s
    <3>1. HitsSaid(s)'  BY <1>1 DEF HitsSaid, SessionInv
    <3>2. AnswersSaid(s)'
      BY <1>1, <1>3, RowKeys DEF AnswersSaid, SessionInv, HitsSaid, Typed
    <3>3. Order(s)' = Order(s) /\ Pending(s)' = Pending(s)
      BY <1>1 DEF Order, Pending, ItemOf
    <3>4. \A r \in Order(s) \ Pending(s) : answer'[s][r] # Absent
      BY <1>3, OrderIsRows, EntriesDiffer DEF Pending
    <3>5. ItemsAnswered(s)'
      BY <1>2, <3>3, <3>4 DEF ItemsAnswered, HasAnswers
    <3>6. QED  BY <2>1, <3>1, <3>2, <3>5 DEF SessionInv
  <2>2. CASE t # s  BY <1>1, <1>2, <1>3, <2>2, OthersKeep
  <2>3. QED  BY <2>1, <2>2
<1>7. QED  BY <1>4, <1>5, <1>6

\* What the service says is remembered, and only answers are said.
LEMMA HearSaid ==
  ASSUME IInv, NEW s \in Sessions, NEW asked \in SUBSET Order(s),
         NEW fresh \in [asked -> Entry], Hear(s, asked, fresh)
  PROVE  /\ said' \in [Keys -> SUBSET Entry]
         /\ \A k \in Keys : said[k] \subseteq said'[k]
         /\ \A r \in asked : fresh[r] \in said'[rows[s][r]]
<1>1. said \in [Keys -> SUBSET Entry]  BY DEF IInv, Typed
<1>2. \A r \in asked : fresh[r] \in Entry /\ rows[s][r] \in Keys
  BY OrderIsRows, EntriesDiffer, RowKeys DEF IInv, Typed
<1>3. said' = [k \in Keys |-> said[k] \cup {fresh[r] : r \in {q \in asked : rows[s][q] = k}}]
  BY DEF Hear
<1>4. QED  BY <1>1, <1>2, <1>3

LEMMA JudgeSucceedsInv ==
  ASSUME IInv, NEW s \in Sessions, NEW fresh \in [Pending(s) -> Entry],
         JudgeSucceeds(s, fresh)
  PROVE  IInv'
<1> USE DEF IInv
<1>1. UNCHANGED <<rows, hits, store>>  BY DEF JudgeSucceeds
<1>2. /\ pc[s] = "judging"
      /\ pc' = [pc EXCEPT ![s] = "answered"]
  BY DEF JudgeSucceeds, Move
<1>3. /\ said' \in [Keys -> SUBSET Entry]
      /\ \A k \in Keys : said[k] \subseteq said'[k]
      /\ \A r \in Pending(s) : fresh[r] \in said'[rows[s][r]]
  <2>1. Pending(s) \in SUBSET Order(s) /\ Hear(s, Pending(s), fresh)
    BY OrderIsRows DEF JudgeSucceeds
  <2>2. QED  BY <2>1, HearSaid
<1>4. /\ DOMAIN answer' = Sessions
      /\ answer'[s] = [r \in DOMAIN rows[s] |-> IF r \in Pending(s) THEN fresh[r]
                                                ELSE answer[s][r]]
      /\ \A t \in Sessions : t # s => answer'[t] = answer[t]
  BY DEF JudgeSucceeds, Typed
<1>5. \A r \in Pending(s) : fresh[r] \in Entry  BY EntriesDiffer
<1>6. Typed'
  <2>1. answer'[s] \in [DOMAIN rows[s] -> Entries]  BY <1>4, <1>5 DEF Entries, Typed
  <2>2. pc' \in [Sessions -> States]  BY <1>2 DEF Typed, States
  <2>3. QED  BY <1>1, <1>3, <1>4, <2>1, <2>2 DEF Typed, RowsOk
<1>7. StoreGenuine'  BY <1>1, <1>3 DEF StoreGenuine
<1>8. ASSUME NEW t \in Sessions  PROVE SessionInv(t)'
  <2>1. CASE t = s
    <3>1. HitsSaid(s)'  BY <1>1, <1>3 DEF HitsSaid, SessionInv
    <3>2. AnswersSaid(s)'
      BY <1>1, <1>3, <1>4, RowKeys DEF AnswersSaid, SessionInv, Typed
    <3>3. Order(s)' = Order(s)  BY <1>1 DEF Order, ItemOf
    <3>4. \A r \in Order(s) : answer'[s][r] # Absent
      <4>1. \A r \in Order(s) \ Pending(s) : answer[s][r] # Absent
        BY <1>2 DEF SessionInv, ItemsAnswered
      <4>2. QED  BY <4>1, <1>4, <1>5, EntriesDiffer, OrderIsRows
    <3>5. ItemsAnswered(s)'  BY <3>3, <3>4 DEF ItemsAnswered
    <3>6. QED  BY <2>1, <3>1, <3>2, <3>5 DEF SessionInv
  <2>2. CASE t # s  BY <1>1, <1>2, <1>3, <1>4, <2>2, OthersKeep
  <2>3. QED  BY <2>1, <2>2
<1>9. QED  BY <1>6, <1>7, <1>8

LEMMA JudgeFailsInv ==
  ASSUME IInv, NEW s \in Sessions, NEW asked \in SUBSET Pending(s),
         NEW fresh \in [asked -> Entry], JudgeFails(s, asked, fresh)
  PROVE  IInv'
<1> USE DEF IInv
<1>1. UNCHANGED <<rows, hits, store, answer>>  BY DEF JudgeFails
<1>2. pc' = [pc EXCEPT ![s] = "failed"]  BY DEF JudgeFails, Move
<1>3. /\ said' \in [Keys -> SUBSET Entry]
      /\ \A k \in Keys : said[k] \subseteq said'[k]
  <2>1. asked \in SUBSET Order(s) /\ Hear(s, asked, fresh)
    BY OrderIsRows DEF JudgeFails
  <2>2. QED  BY <2>1, HearSaid
<1>4. Typed'  BY <1>1, <1>2, <1>3 DEF Typed, RowsOk, States
<1>5. StoreGenuine'  BY <1>1, <1>3 DEF StoreGenuine
<1>6. ASSUME NEW t \in Sessions  PROVE SessionInv(t)'
  <2>1. CASE t = s
    <3>1. HitsSaid(s)'  BY <1>1, <1>3 DEF HitsSaid, SessionInv
    <3>2. AnswersSaid(s)'  BY <1>1, <1>3, RowKeys DEF AnswersSaid, SessionInv, Typed
    <3>3. ItemsAnswered(s)'  BY <1>2 DEF ItemsAnswered, HasAnswers, Typed
    <3>4. QED  BY <2>1, <3>1, <3>2, <3>3 DEF SessionInv
  <2>2. CASE t # s  BY <1>1, <1>2, <1>3, <2>2, OthersKeep
  <2>3. QED  BY <2>1, <2>2
<1>7. QED  BY <1>4, <1>5, <1>6

LEMMA PutInv ==
  ASSUME IInv, NEW s \in Sessions, Put(s) \/ PutFails(s)
  PROVE  IInv'
<1> USE DEF IInv
<1>1. UNCHANGED <<rows, hits, answer, said>>  BY DEF Put, PutFails
<1>2. pc[s] = "answered" /\ pc' = [pc EXCEPT ![s] = "done"]
  BY DEF Put, PutFails, Move
<1>3. store' \in [Keys -> Entries] /\ StoreGenuine'
  <2>1. CASE PutFails(s)  BY <2>1 DEF PutFails, Typed, StoreGenuine
  <2>2. CASE Put(s)
    <3>1. store' = [k \in Keys |-> IF \E r \in Puts(s) : rows[s][r] = k
                                   THEN answer[s][CHOOSE r \in Puts(s) : rows[s][r] = k]
                                   ELSE store[k]]
      BY <2>2 DEF Put
    <3>2. ASSUME NEW k \in Keys
          PROVE  store'[k] \in Entries /\ (store'[k] # Absent => store'[k] \in said[k])
      <4>1. CASE \E r \in Puts(s) : rows[s][r] = k
        <5> DEFINE w == CHOOSE r \in Puts(s) : rows[s][r] = k
        <5>1. w \in Puts(s) /\ rows[s][w] = k  BY <4>1
        <5>2. w \in DOMAIN rows[s] /\ answer[s][w] # Absent
          BY <5>1, OrderIsRows DEF Puts
        <5>3. answer[s][w] \in Entries /\ answer[s][w] \in said[k]
          BY <5>1, <5>2 DEF Typed, SessionInv, AnswersSaid
        <5>4. store'[k] = answer[s][w]  BY <3>1, <4>1
        <5>5. QED  BY <5>3, <5>4
      <4>2. CASE ~ \E r \in Puts(s) : rows[s][r] = k
        BY <3>1, <4>2 DEF Typed, StoreGenuine
      <4>3. QED  BY <4>1, <4>2
    <3>3. QED  BY <1>1, <3>1, <3>2 DEF StoreGenuine
  <2>3. QED  BY <2>1, <2>2
<1>4. Typed'  BY <1>1, <1>2, <1>3 DEF Typed, RowsOk, States
<1>5. ASSUME NEW t \in Sessions  PROVE SessionInv(t)'
  <2>1. CASE t = s
    <3>1. HitsSaid(s)' /\ AnswersSaid(s)'
      BY <1>1 DEF HitsSaid, AnswersSaid, SessionInv
    <3>2. Order(s)' = Order(s)  BY <1>1 DEF Order, ItemOf
    <3>3. ItemsAnswered(s)'
      BY <1>1, <1>2, <3>2 DEF SessionInv, ItemsAnswered, HasAnswers
    <3>4. QED  BY <2>1, <3>1, <3>3 DEF SessionInv
  <2>2. CASE t # s  BY <1>1, <1>2, <2>2, OthersKeep
  <2>3. QED  BY <2>1, <2>2
<1>6. QED  BY <1>3, <1>4, <1>5

LEMMA CrashInv ==
  ASSUME IInv, NEW s \in Sessions, Crash(s)
  PROVE  IInv'
<1> USE DEF IInv
<1>1. UNCHANGED <<rows, hits, answer, store, said>>  BY DEF Crash, history
<1>2. pc' = [pc EXCEPT ![s] = "crashed"]  BY DEF Crash
<1>3. Typed'  BY <1>1, <1>2 DEF Typed, RowsOk, States
<1>4. StoreGenuine'  BY <1>1 DEF StoreGenuine
<1>5. ASSUME NEW t \in Sessions  PROVE SessionInv(t)'
  <2>1. CASE t = s
    BY <1>1, <1>2, <2>1 DEF SessionInv, HitsSaid, AnswersSaid, ItemsAnswered, HasAnswers, Typed
  <2>2. CASE t # s  BY <1>1, <1>2, <2>2, OthersKeep
  <2>3. QED  BY <2>1, <2>2
<1>6. QED  BY <1>3, <1>4, <1>5

LEMMA ClearInv ==
  ASSUME IInv, Clear
  PROVE  IInv'
<1> USE DEF IInv
<1>1. UNCHANGED <<pc, rows, hits, answer, said>> /\ store' = NoHits
  BY DEF Clear, svars
<1>2. Typed' /\ StoreGenuine'
  BY <1>1 DEF Typed, RowsOk, NoHits, Entries, StoreGenuine
<1>3. \A t \in Sessions : SessionInv(t)'  BY <1>1, OthersKeep
<1>4. QED  BY <1>2, <1>3

LEMMA NextInv == IInv /\ [Next]_vars => IInv'
<1> SUFFICES ASSUME IInv, [Next]_vars PROVE IInv'  OBVIOUS
<1>1. CASE Next
  <2>1. ASSUME NEW s \in Sessions, NEW list \in RowLists, Start(s, list)  PROVE IInv'
    BY <2>1, StartInv
  <2>2. ASSUME NEW s \in Sessions, ReadNext(s) \/ ReadFails(s)  PROVE IInv'
    BY <2>2, ReadInv
  <2>3. ASSUME NEW s \in Sessions, Resolve(s)  PROVE IInv'
    BY <2>3, ResolveInv
  <2>4. ASSUME NEW s \in Sessions, Judge(s)  PROVE IInv'
    BY <2>4, JudgeSucceedsInv, JudgeFailsInv DEF Judge
  <2>5. ASSUME NEW s \in Sessions, Put(s) \/ PutFails(s)  PROVE IInv'
    BY <2>5, PutInv
  <2>6. ASSUME NEW s \in Sessions, Crash(s)  PROVE IInv'
    BY <2>6, CrashInv
  <2>7. CASE Clear  BY <2>7, ClearInv
  <2>8. QED  BY <1>1, <2>1, <2>2, <2>3, <2>4, <2>5, <2>6, <2>7 DEF Next
<1>2. CASE UNCHANGED vars
  <2>1. UNCHANGED <<pc, rows, hits, answer, store, said>>
    BY <1>2 DEF vars, svars, history
  <2>2. Typed' /\ StoreGenuine'
    BY <2>1 DEF IInv, Typed, RowsOk, StoreGenuine
  <2>3. \A t \in Sessions : SessionInv(t)'  BY <2>1, OthersKeep DEF IInv
  <2>4. QED  BY <2>2, <2>3 DEF IInv
<1>3. QED  BY <1>1, <1>2

LEMMA Invariance == Spec => []IInv
BY InitInv, NextInv, PTL DEF Spec

\* Whatever sessions run at once, fail or crash, the shared cache only holds
\* what the service said for that key.
THEOREM CacheIsGenuine == Spec => []StoreGenuine
<1>1. IInv => StoreGenuine  BY DEF IInv
<1>2. QED  BY <1>1, Invariance, PTL

\* Every row of a statement that succeeded shows an answer the service gave
\* for that object and question.
THEOREM StatementsAreGenuine == Spec => []AnswersGenuine
<1>1. IInv => AnswersGenuine
  <2> SUFFICES ASSUME IInv, NEW s \in Sessions, pc[s] = "done", NEW r \in DOMAIN rows[s]
               PROVE  Shown(s, r) \in said[rows[s][r]]
    BY DEF AnswersGenuine
  <2> DEFINE i == ItemOf(s, r)
  <2>1. i \in Order(s) /\ rows[s][i] = rows[s][r]
    BY ItemFound DEF IInv, Typed
  <2>2. answer[s][i] # Absent
    BY <2>1 DEF IInv, SessionInv, ItemsAnswered, HasAnswers
  <2>3. answer[s][i] \in said[rows[s][i]]
    BY <2>1, <2>2, OrderIsRows DEF IInv, SessionInv, AnswersSaid
  <2>4. QED  BY <2>1, <2>3 DEF Shown
<1>2. QED  BY <1>1, Invariance, PTL

-----------------------------------------------------------------------------
(***************************************************************************)
(* What is warm when a statement starts and stays so is a hit.             *)
(***************************************************************************)
WarmUsable(s) == \A k \in warm[s] : store[k].usable

WarmHits(s) == readOk[s] => \A r \in read[s] :
                              rows[s][r] \in warm[s] => hits[s][rows[s][r]].usable

ReadAll(s) == pc[s] \in {"judging", "answered"} => read[s] = Order(s)

WarmInv == /\ warm \in [Sessions -> SUBSET Keys]
           /\ read \in [Sessions -> SUBSET Nat]
           /\ readOk \in [Sessions -> BOOLEAN]
           /\ \A s \in Sessions : WarmUsable(s) /\ WarmHits(s) /\ ReadAll(s)

LEMMA WarmInit == Init => WarmInv
BY DEF Init, WarmInv, WarmUsable, WarmHits, ReadAll

\* The steps that leave the cache, what was read and what is warm alone.
LEMMA WarmQuiet ==
  ASSUME WarmInv, UNCHANGED <<rows, read, hits, store, readOk, warm>>,
         \A t \in Sessions : pc'[t] \in {"judging", "answered"} =>
           pc[t] \in {"judging", "answered"} \/ read[t] = Order(t)
  PROVE  WarmInv'
<1>1. \A t \in Sessions : Order(t)' = Order(t)  BY DEF Order, ItemOf
<1>2. QED  BY <1>1 DEF WarmInv, WarmUsable, WarmHits, ReadAll

LEMMA WarmStart ==
  ASSUME IInv, WarmInv, NEW s \in Sessions, NEW list \in RowLists, Start(s, list)
  PROVE  WarmInv'
<1>1. /\ warm' = [warm EXCEPT ![s] = Usable]
      /\ read' = [read EXCEPT ![s] = {}]
      /\ readOk' = [readOk EXCEPT ![s] = TRUE]
      /\ rows' = [rows EXCEPT ![s] = list]
      /\ hits' = [hits EXCEPT ![s] = NoHits]
      /\ UNCHANGED store
      /\ pc'[s] \notin {"judging", "answered"}
      /\ \A t \in Sessions : t # s => pc'[t] = pc[t]
  BY DEF Start, IInv, Typed
<1>2. /\ warm' \in [Sessions -> SUBSET Keys]
      /\ read' \in [Sessions -> SUBSET Nat]
      /\ readOk' \in [Sessions -> BOOLEAN]
  BY <1>1 DEF WarmInv, Usable
<1>3. ASSUME NEW t \in Sessions  PROVE (WarmUsable(t) /\ WarmHits(t) /\ ReadAll(t))'
  <2>1. CASE t = s
    BY <1>1, <2>1 DEF WarmInv, WarmUsable, WarmHits, ReadAll, Usable
  <2>2. CASE t # s
    <3>1. /\ warm'[t] = warm[t] /\ read'[t] = read[t] /\ readOk'[t] = readOk[t]
          /\ rows'[t] = rows[t] /\ hits'[t] = hits[t] /\ pc'[t] = pc[t]
      BY <1>1, <2>2 DEF WarmInv, IInv, Typed, RowsOk
    <3>2. Order(t)' = Order(t)  BY <3>1 DEF Order, ItemOf
    <3>3. QED  BY <1>1, <3>1, <3>2 DEF WarmInv, WarmUsable, WarmHits, ReadAll
  <2>3. QED  BY <2>1, <2>2
<1>4. QED  BY <1>2, <1>3 DEF WarmInv

LEMMA WarmRead ==
  ASSUME IInv, WarmInv, NEW s \in Sessions, ReadNext(s) \/ ReadFails(s)
  PROVE  WarmInv'
<1>1. /\ UNCHANGED <<pc, rows, store, warm>>
      /\ pc[s] = "reading"
      /\ \A t \in Sessions : t # s => /\ hits'[t] = hits[t] /\ read'[t] = read[t]
                                      /\ readOk'[t] = readOk[t]
  BY DEF ReadNext, ReadFails, history, WarmInv, IInv, Typed
<1>2. /\ read' \in [Sessions -> SUBSET Nat]
      /\ readOk' \in [Sessions -> BOOLEAN]
  <2>1. Order(s) \subseteq Nat  BY OrderIsRows, RowKeys DEF IInv, Typed
  <2>2. CASE ReadFails(s)
    <3>1. /\ read' = [read EXCEPT ![s] = Order(s)]
          /\ readOk' = [readOk EXCEPT ![s] = FALSE]
      BY <2>2 DEF ReadFails
    <3>2. QED  BY <2>1, <3>1 DEF WarmInv
  <2>3. CASE ReadNext(s)
    <3>1. PICK r \in Order(s) : read' = [read EXCEPT ![s] = @ \cup {r}]
      BY <2>3 DEF ReadNext
    <3>2. readOk' = readOk  BY <2>3 DEF ReadNext, history
    <3>3. QED  BY <2>1, <3>1, <3>2 DEF WarmInv
  <2>4. QED  BY <2>2, <2>3
<1>3. WarmHits(s)'
  <2>1. CASE ReadFails(s)  BY <2>1 DEF ReadFails, WarmHits, WarmInv
  <2>2. CASE ReadNext(s)
    <3>1. PICK r \in Order(s) :
            /\ read' = [read EXCEPT ![s] = @ \cup {r}]
            /\ hits' = [hits EXCEPT ![s][rows[s][r]] = store[rows[s][r]]]
      BY <2>2 DEF ReadNext
    <3>2. rows[s][r] \in Keys  BY OrderIsRows, RowKeys DEF IInv, Typed
    <3>3. ASSUME NEW q \in read'[s], rows[s][q] \in warm[s], readOk[s]
          PROVE  hits'[s][rows[s][q]].usable
      <4>1. rows[s][q] \in Keys /\ store[rows[s][q]].usable
        BY <3>3 DEF WarmInv, WarmUsable
      <4>2. CASE rows[s][q] = rows[s][r]
        BY <3>1, <3>2, <4>1, <4>2 DEF IInv, Typed
      <4>3. CASE rows[s][q] # rows[s][r]
        <5>1. hits'[s][rows[s][q]] = hits[s][rows[s][q]]
          BY <3>1, <3>2, <4>1, <4>3 DEF IInv, Typed
        <5>2. q \in read[s]  BY <3>1, <4>3 DEF WarmInv
        <5>3. QED  BY <3>3, <5>1, <5>2 DEF WarmInv, WarmHits
      <4>4. QED  BY <4>2, <4>3
    <3>4. QED  BY <1>1, <2>2, <3>3 DEF WarmHits, ReadNext, history
  <2>3. QED  BY <2>1, <2>2
<1>4. \A t \in Sessions : Order(t)' = Order(t)  BY <1>1 DEF Order, ItemOf
<1>5. QED  BY <1>1, <1>2, <1>3, <1>4 DEF WarmInv, WarmUsable, WarmHits, ReadAll

LEMMA WarmPut ==
  ASSUME IInv, WarmInv, NEW s \in Sessions, Put(s)
  PROVE  WarmInv'
<1>1. /\ UNCHANGED <<rows, read, hits, readOk>>
      /\ warm' = [w \in Sessions |-> warm[w] \cap {k \in Keys : store'[k].usable}]
      /\ pc' = [pc EXCEPT ![s] = "done"]
  BY DEF Put, Move
<1>2. \A t \in Sessions : Order(t)' = Order(t)  BY <1>1 DEF Order, ItemOf
<1>3. warm' \in [Sessions -> SUBSET Keys]  BY <1>1 DEF WarmInv
<1>4. \A t \in Sessions : WarmUsable(t)' /\ WarmHits(t)'
  BY <1>1 DEF WarmInv, WarmUsable, WarmHits
<1>5. \A t \in Sessions : ReadAll(t)'
  BY <1>1, <1>2 DEF WarmInv, ReadAll, IInv, Typed
<1>6. QED  BY <1>1, <1>3, <1>4, <1>5 DEF WarmInv

LEMMA WarmClear ==
  ASSUME WarmInv, Clear
  PROVE  WarmInv'
<1>1. /\ UNCHANGED <<pc, rows, read, hits, readOk>>
      /\ warm' = [w \in Sessions |-> {}]
  BY DEF Clear, svars
<1>2. \A t \in Sessions : Order(t)' = Order(t)  BY <1>1 DEF Order, ItemOf
<1>3. QED  BY <1>1, <1>2 DEF WarmInv, WarmUsable, WarmHits, ReadAll

LEMMA WarmNext == IInv /\ WarmInv /\ [Next]_vars => WarmInv'
<1> SUFFICES ASSUME IInv, WarmInv, [Next]_vars PROVE WarmInv'  OBVIOUS
<1>1. CASE Next
  <2>1. ASSUME NEW s \in Sessions, NEW list \in RowLists, Start(s, list)  PROVE WarmInv'
    BY <2>1, WarmStart
  <2>2. ASSUME NEW s \in Sessions, ReadNext(s) \/ ReadFails(s)  PROVE WarmInv'
    BY <2>2, WarmRead
  <2>3. ASSUME NEW s \in Sessions, Resolve(s)  PROVE WarmInv'
    BY <2>3, WarmQuiet DEF Resolve, Move, history, IInv, Typed
  <2>4. ASSUME NEW s \in Sessions, NEW fresh \in [Pending(s) -> Entry], JudgeSucceeds(s, fresh)
        PROVE WarmInv'
    BY <2>4, WarmQuiet DEF JudgeSucceeds, Move, IInv, Typed
  <2>5. ASSUME NEW s \in Sessions, NEW asked \in SUBSET Pending(s),
               NEW fresh \in [asked -> Entry], JudgeFails(s, asked, fresh)
        PROVE WarmInv'
    BY <2>5, WarmQuiet DEF JudgeFails, Move, IInv, Typed
  <2>6. ASSUME NEW s \in Sessions, Put(s)  PROVE WarmInv'
    BY <2>6, WarmPut
  <2>7. ASSUME NEW s \in Sessions, PutFails(s)  PROVE WarmInv'
    BY <2>7, WarmQuiet DEF PutFails, Move, IInv, Typed
  <2>8. ASSUME NEW s \in Sessions, Crash(s)  PROVE WarmInv'
    BY <2>8, WarmQuiet DEF Crash, history, IInv, Typed
  <2>9. CASE Clear  BY <2>9, WarmClear
  <2>10. QED
    BY <1>1, <2>1, <2>2, <2>3, <2>4, <2>5, <2>6, <2>7, <2>8, <2>9 DEF Next, Judge
<1>2. CASE UNCHANGED vars
  BY <1>2, WarmQuiet DEF vars, svars, history
<1>3. QED  BY <1>1, <1>2

\* A row found usable in the cache throughout a statement is never asked.
THEOREM WarmIsFree == Spec => []WarmNeverAsked
<1>1. IInv /\ WarmInv => WarmNeverAsked
  <2> SUFFICES ASSUME IInv, WarmInv, NEW s \in Sessions,
                      pc[s] \in {"judging", "answered"}, readOk[s],
                      NEW r \in Pending(s), rows[s][r] \in warm[s]
               PROVE  FALSE
    BY DEF WarmNeverAsked
  <2>1. r \in read[s]  BY OrderIsRows DEF WarmInv, ReadAll
  <2>2. hits[s][rows[s][r]].usable  BY <2>1 DEF WarmInv, WarmHits
  <2>3. QED  BY <2>2 DEF Pending
<1>2. IInv /\ WarmInv /\ [Next]_vars => WarmInv'  BY WarmNext
<1>3. QED  BY <1>1, <1>2, WarmInit, Invariance, PTL DEF Spec

-----------------------------------------------------------------------------
(***************************************************************************)
(* What a second run finds.                                                *)
(***************************************************************************)
HitsKept(s) == kept[s] => \A k \in Keys : hits[s][k] # Absent => store[k] # Absent

DoneKept(s) == kept[s] /\ pc[s] = "done" => \A r \in Order(s) : store[rows[s][r]] # Absent

FreeInv == /\ kept \in [Sessions -> BOOLEAN]
           /\ \A s \in Sessions : HitsKept(s) /\ DoneKept(s)

LEMMA FreeInit == Init => FreeInv
BY DEF Init, FreeInv, HitsKept, DoneKept, NoHits

\* The steps of other sessions: entries may be added, none goes away.
LEMMA FreeGrows ==
  ASSUME IInv, FreeInv, NEW s \in Sessions,
         rows'[s] = rows[s], hits'[s] = hits[s], kept'[s] => kept[s],
         pc'[s] = "done" => pc[s] = "done",
         \A k \in Keys : store[k] # Absent => store'[k] # Absent
  PROVE  HitsKept(s)' /\ DoneKept(s)'
<1>1. Order(s)' = Order(s)  BY DEF Order, ItemOf
<1>2. \A r \in Order(s) : rows[s][r] \in Keys
  BY OrderIsRows, RowKeys DEF IInv, Typed
<1>3. QED  BY <1>1, <1>2 DEF FreeInv, HitsKept, DoneKept

LEMMA FreeStart ==
  ASSUME IInv, FreeInv, NEW s \in Sessions, NEW list \in RowLists, Start(s, list)
  PROVE  FreeInv'
<1>1. /\ UNCHANGED <<store, said>>
      /\ kept' = [kept EXCEPT ![s] = TRUE]
      /\ hits' = [hits EXCEPT ![s] = NoHits]
      /\ pc'[s] # "done"
      /\ \A t \in Sessions : t # s => /\ rows'[t] = rows[t] /\ hits'[t] = hits[t]
                                      /\ pc'[t] = pc[t] /\ kept'[t] = kept[t]
  BY DEF Start, IInv, Typed, RowsOk, FreeInv
<1>2. kept' \in [Sessions -> BOOLEAN]  BY <1>1 DEF FreeInv
<1>3. ASSUME NEW t \in Sessions  PROVE HitsKept(t)' /\ DoneKept(t)'
  <2>1. CASE t = s  BY <1>1, <2>1 DEF HitsKept, DoneKept, IInv, Typed, NoHits
  <2>2. CASE t # s  BY <1>1, <2>2, FreeGrows
  <2>3. QED  BY <2>1, <2>2
<1>4. QED  BY <1>2, <1>3 DEF FreeInv

LEMMA FreeRead ==
  ASSUME IInv, FreeInv, NEW s \in Sessions, ReadNext(s) \/ ReadFails(s)
  PROVE  FreeInv'
<1>1. /\ UNCHANGED <<pc, rows, store, said, kept>>
      /\ pc[s] = "reading"
      /\ \A t \in Sessions : t # s => hits'[t] = hits[t]
  BY DEF ReadNext, ReadFails, history, IInv, Typed
<1>3. HitsKept(s)'
  <2>1. CASE ReadFails(s)
    BY <2>1 DEF ReadFails, HitsKept, IInv, Typed, NoHits
  <2>2. CASE ReadNext(s)
    <3>1. PICK r \in Order(s) : hits' = [hits EXCEPT ![s][rows[s][r]] = store[rows[s][r]]]
      BY <2>2 DEF ReadNext
    <3>2. rows[s][r] \in Keys  BY OrderIsRows, RowKeys DEF IInv, Typed
    <3>3. QED  BY <1>1, <3>1, <3>2 DEF HitsKept, FreeInv, IInv, Typed
  <2>3. QED  BY <2>1, <2>2
<1>4. DoneKept(s)'  BY <1>1 DEF DoneKept
<1>5. \A t \in Sessions : t # s => HitsKept(t)' /\ DoneKept(t)'  BY <1>1, FreeGrows
<1>6. QED  BY <1>1, <1>3, <1>4, <1>5 DEF FreeInv

\* Without anything pending every item was a hit.
LEMMA FreeResolve ==
  ASSUME IInv, FreeInv, NEW s \in Sessions, Resolve(s)
  PROVE  FreeInv'
<1>1. /\ UNCHANGED <<rows, hits, store, said, kept>>
      /\ pc'[s] = "done" => Pending(s) = {}
      /\ \A t \in Sessions : t # s => pc'[t] = pc[t]
  BY DEF Resolve, Move, history, IInv, Typed
<1>3. Order(s)' = Order(s)  BY <1>1 DEF Order, ItemOf
<1>4. HitsKept(s)'  BY <1>1 DEF HitsKept, FreeInv
<1>5. DoneKept(s)'
  <2> SUFFICES ASSUME kept[s], Pending(s) = {}, NEW r \in Order(s)
               PROVE  store[rows[s][r]] # Absent
    BY <1>1, <1>3 DEF DoneKept
  <2>1. hits[s][rows[s][r]].usable  BY DEF Pending
  <2>2. rows[s][r] \in Keys  BY OrderIsRows, RowKeys DEF IInv, Typed
  <2>3. QED  BY <2>1, <2>2, EntriesDiffer DEF FreeInv, HitsKept
<1>6. \A t \in Sessions : t # s => HitsKept(t)' /\ DoneKept(t)'  BY <1>1, FreeGrows
<1>7. QED  BY <1>1, <1>4, <1>5, <1>6 DEF FreeInv

\* Every answer without an entry is written, and no entry is written over
\* with nothing.
LEMMA FreePut ==
  ASSUME IInv, FreeInv, NEW s \in Sessions, Put(s)
  PROVE  FreeInv'
<1>1. /\ UNCHANGED <<rows, hits, said, kept>>
      /\ pc[s] = "answered"
      /\ pc' = [pc EXCEPT ![s] = "done"]
      /\ store' = [k \in Keys |-> IF \E r \in Puts(s) : rows[s][r] = k
                                  THEN answer[s][CHOOSE r \in Puts(s) : rows[s][r] = k]
                                  ELSE store[k]]
  BY DEF Put, Move
<1>3. ASSUME NEW k \in Keys, \E r \in Puts(s) : rows[s][r] = k
      PROVE  store'[k] # Absent
  <2> DEFINE w == CHOOSE r \in Puts(s) : rows[s][r] = k
  <2>1. w \in Puts(s)  BY <1>3
  <2>2. store'[k] = answer[s][w]  BY <1>1, <1>3
  <2>3. QED  BY <2>1, <2>2 DEF Puts
<1>4. ASSUME NEW k \in Keys, store[k] # Absent  PROVE store'[k] # Absent
  <2>1. CASE \E r \in Puts(s) : rows[s][r] = k  BY <1>3, <2>1
  <2>2. CASE ~ \E r \in Puts(s) : rows[s][r] = k  BY <1>1, <1>4, <2>2
  <2>3. QED  BY <2>1, <2>2
<1>5. HitsKept(s)'  BY <1>1, <1>4 DEF FreeInv, HitsKept
<1>6. DoneKept(s)'
  <2>1. Order(s)' = Order(s)  BY <1>1 DEF Order, ItemOf
  <2> SUFFICES ASSUME kept[s], NEW r \in Order(s)  PROVE store'[rows[s][r]] # Absent
    BY <1>1, <2>1 DEF DoneKept
  <2>2. rows[s][r] \in Keys  BY OrderIsRows, RowKeys DEF IInv, Typed
  <2>3. answer[s][r] # Absent  BY <1>1 DEF IInv, SessionInv, ItemsAnswered, HasAnswers
  <2>4. CASE hits[s][rows[s][r]] = Absent
    BY <1>3, <2>2, <2>3, <2>4 DEF Puts
  <2>5. CASE hits[s][rows[s][r]] # Absent
    BY <1>4, <2>2, <2>5 DEF FreeInv, HitsKept
  <2>6. QED  BY <2>4, <2>5
<1>7. ASSUME NEW t \in Sessions, t # s  PROVE HitsKept(t)' /\ DoneKept(t)'
  BY <1>1, <1>4, <1>7, FreeGrows
<1>8. QED  BY <1>1, <1>5, <1>6, <1>7 DEF FreeInv

LEMMA FreePutFails ==
  ASSUME IInv, FreeInv, NEW s \in Sessions, PutFails(s)
  PROVE  FreeInv'
<1>1. /\ UNCHANGED <<rows, hits, store, said>>
      /\ kept' = [kept EXCEPT ![s] = FALSE]
      /\ \A t \in Sessions : t # s => pc'[t] = pc[t]
  BY DEF PutFails, Move, IInv, Typed
<1>2. kept' \in [Sessions -> BOOLEAN]  BY <1>1 DEF FreeInv
<1>3. ASSUME NEW t \in Sessions  PROVE HitsKept(t)' /\ DoneKept(t)'
  <2>1. CASE t = s  BY <1>1, <2>1 DEF FreeInv, HitsKept, DoneKept
  <2>2. CASE t # s  BY <1>1, <2>2, FreeGrows DEF FreeInv
  <2>3. QED  BY <2>1, <2>2
<1>4. QED  BY <1>2, <1>3 DEF FreeInv

LEMMA FreeClear ==
  ASSUME FreeInv, Clear
  PROVE  FreeInv'
<1>1. kept' = [w \in Sessions |-> FALSE] /\ UNCHANGED said  BY DEF Clear
<1>2. QED  BY <1>1 DEF FreeInv, HitsKept, DoneKept

LEMMA FreeNext == IInv /\ FreeInv /\ [Next]_vars => FreeInv'
<1> SUFFICES ASSUME IInv, FreeInv, [Next]_vars PROVE FreeInv'  OBVIOUS
<1>1. CASE Next
  <2>1. ASSUME NEW s \in Sessions, NEW list \in RowLists, Start(s, list)  PROVE FreeInv'
    BY <2>1, FreeStart
  <2>2. ASSUME NEW s \in Sessions, ReadNext(s) \/ ReadFails(s)  PROVE FreeInv'
    BY <2>2, FreeRead
  <2>3. ASSUME NEW s \in Sessions, Resolve(s)  PROVE FreeInv'
    BY <2>3, FreeResolve
  <2>4. ASSUME NEW s \in Sessions, NEW fresh \in [Pending(s) -> Entry], JudgeSucceeds(s, fresh)
        PROVE FreeInv'
    <3>1. /\ UNCHANGED <<rows, hits, store, kept>>
          /\ \A t \in Sessions : pc'[t] = "done" => pc[t] = "done"
      BY <2>4 DEF JudgeSucceeds, Move, IInv, Typed
    <3>2. QED  BY <3>1, FreeGrows DEF FreeInv
  <2>5. ASSUME NEW s \in Sessions, NEW asked \in SUBSET Pending(s),
               NEW fresh \in [asked -> Entry], JudgeFails(s, asked, fresh)
        PROVE FreeInv'
    <3>1. /\ UNCHANGED <<rows, hits, store, kept>>
          /\ \A t \in Sessions : pc'[t] = "done" => pc[t] = "done"
      BY <2>5 DEF JudgeFails, Move, IInv, Typed
    <3>2. QED  BY <3>1, FreeGrows DEF FreeInv
  <2>6. ASSUME NEW s \in Sessions, Put(s)  PROVE FreeInv'
    BY <2>6, FreePut
  <2>7. ASSUME NEW s \in Sessions, PutFails(s)  PROVE FreeInv'
    BY <2>7, FreePutFails
  <2>8. ASSUME NEW s \in Sessions, Crash(s)  PROVE FreeInv'
    <3>1. /\ UNCHANGED <<rows, hits, store, said, kept>>
          /\ \A t \in Sessions : pc'[t] = "done" => pc[t] = "done"
      BY <2>8 DEF Crash, history, IInv, Typed
    <3>2. QED  BY <3>1, FreeGrows DEF FreeInv
  <2>9. CASE Clear  BY <2>9, FreeClear
  <2>10. QED
    BY <1>1, <2>1, <2>2, <2>3, <2>4, <2>5, <2>6, <2>7, <2>8, <2>9 DEF Next, Judge
<1>2. CASE UNCHANGED vars
  BY <1>2, FreeGrows DEF vars, svars, history, FreeInv
<1>3. QED  BY <1>1, <1>2

\* Once a statement succeeded and its write was kept, its rows cost nothing
\* until the cache is cleared, whatever other sessions do, except those the
\* service gave an answer of another type for.
THEOREM SecondRunIsFree == Spec => []SecondRunFree
<1>1. IInv /\ FreeInv => SecondRunFree
  <2> SUFFICES ASSUME IInv, FreeInv, NEW s \in Sessions, pc[s] = "done", kept[s],
                      NEW r \in DOMAIN rows[s],
                      \A e \in said[rows[s][r]] : e.usable
               PROVE  store[rows[s][r]].usable
    BY DEF SecondRunFree
  <2>1. ItemOf(s, r) \in Order(s) /\ rows[s][ItemOf(s, r)] = rows[s][r]
    BY ItemFound DEF IInv, Typed
  <2>2. rows[s][r] \in Keys  BY RowKeys DEF IInv, Typed
  <2>3. store[rows[s][r]] # Absent  BY <2>1 DEF FreeInv, DoneKept
  <2>4. store[rows[s][r]] \in said[rows[s][r]]
    BY <2>2, <2>3 DEF IInv, StoreGenuine
  <2>5. QED  BY <2>4
<1>2. IInv /\ FreeInv /\ [Next]_vars => FreeInv'  BY FreeNext
<1>3. QED  BY <1>1, <1>2, FreeInit, Invariance, PTL DEF Spec
=============================================================================
