------------------------- MODULE JudgeClientProofs -------------------------
(* Theorems about JudgeClient, for every item list, batch size, concurrency *)
(* limit and number of retries.                                             *)
EXTENDS BatchingCode, FiniteSetTheorems, WellFoundedInduction, TLAPS

\* The quotient and the remainder of a chunking determine the position.
LEMMA DivMod ==
  ASSUME NEW m \in Nat, NEW n \in Nat, NEW s \in Nat \ {0},
         m \div s = n \div s, m % s = n % s
  PROVE  m = n
<1>1. m = s * (m \div s) + (m % s)  OBVIOUS
<1>2. n = s * (n \div s) + (n % s)  OBVIOUS
<1>3. QED  BY <1>1, <1>2

LEMMA EarlierFinite ==
  ASSUME NEW i \in Items
  PROVE  /\ IsFiniteSet(Earlier(Asked, i))
         /\ Rank(Asked, i) \in Nat
<1>1. i \in Int  BY AskedAssumption DEF Items
<1>2. IsFiniteSet(1 .. i - 1)  BY <1>1, FS_Interval
<1>3. Earlier(Asked, i) \subseteq 1 .. i - 1  BY DEF Earlier
<1>4. IsFiniteSet(Earlier(Asked, i))  BY <1>2, <1>3, FS_Subset
<1>5. QED  BY <1>4, FS_CardinalityType DEF Rank

\* An earlier item under the same question has a smaller rank.
LEMMA RankGrows ==
  ASSUME NEW i \in Items, NEW j \in Items, i < j, Asked[i] = Asked[j]
  PROVE  Rank(Asked, i) < Rank(Asked, j)
<1>1. i \in Int /\ j \in Int /\ 1 <= i  BY AskedAssumption DEF Items
<1>2. Earlier(Asked, i) \cup {i} \subseteq Earlier(Asked, j)
  BY <1>1 DEF Earlier
<1>3. i \notin Earlier(Asked, i)  BY <1>1 DEF Earlier
<1>4. IsFiniteSet(Earlier(Asked, i)) /\ IsFiniteSet(Earlier(Asked, j))
  BY EarlierFinite
<1>5. Cardinality(Earlier(Asked, i) \cup {i}) = Cardinality(Earlier(Asked, i)) + 1
  BY <1>3, <1>4, FS_AddElement
<1>6. Cardinality(Earlier(Asked, i) \cup {i}) <= Cardinality(Earlier(Asked, j))
  BY <1>2, <1>4, FS_Subset
<1>7. QED  BY <1>5, <1>6, EarlierFinite DEF Rank

\* Two items of one batch never share a `row_i`: the response has one answer
\* for each of them.
THEOREM RowsDistinct ==
  ASSUME NEW i \in Items, NEW j \in Items, Home[i] = Home[j], Row[i] = Row[j]
  PROVE  i = j
<1>1. i \in Int /\ j \in Int  BY AskedAssumption DEF Items
<1>2. /\ Asked[i] = Asked[j]
      /\ Rank(Asked, i) \div BatchSize = Rank(Asked, j) \div BatchSize
      /\ Rank(Asked, i) % BatchSize = Rank(Asked, j) % BatchSize
  BY DEF Home, Row, BatchOf, RowOf
<1>3. Rank(Asked, i) = Rank(Asked, j)
  BY <1>2, DivMod, EarlierFinite, BatchSizeAssumption
<1>4. ~(i < j)  BY <1>2, <1>3, RankGrows, EarlierFinite
<1>5. ~(j < i)  BY <1>2, <1>3, RankGrows, EarlierFinite
<1>6. QED  BY <1>1, <1>4, <1>5

\* Every item is in the batch it is packed into, and in no other.
LEMMA HomeBatch ==
  ASSUME NEW i \in Items
  PROVE  /\ Home[i] \in Batches
         /\ i \in ItemsOf[Home[i]]
         /\ \A b \in Batches : i \in ItemsOf[b] => b = Home[i]
         /\ Row[i] \in 0 .. BatchSize - 1
<1>1. Home[i] \in Batches  BY DEF Home, Batches, BatchesOf, Items
<1>2. \A b \in Batches : i \in ItemsOf[b] <=> b = Home[i]
  BY DEF Home, ItemsOf, Members, Items
<1>3. Row[i] \in 0 .. BatchSize - 1
  BY EarlierFinite, BatchSizeAssumption DEF Row, RowOf
<1>4. QED  BY <1>1, <1>2, <1>3

LEMMA MembersAreItems == \A b \in Batches : ItemsOf[b] \subseteq Items
  BY DEF ItemsOf, Members, Items

\* What a response says of an item's row is that item's own judgement.
LEMMA ResponseIsOwn ==
  ASSUME NEW b \in Batches, NEW i \in ItemsOf[b]
  PROVE  Response[b][Row[i]] = Judgement(i)
<1>1. Row[i] \in DOMAIN Request[b]  BY DEF Request
<1>2. PICK j \in ItemsOf[b] : Row[j] = Row[i] /\ Request[b][Row[i]] = j
  BY DEF Request
<1>3. i \in Items /\ j \in Items  BY MembersAreItems
<1>4. Home[i] = b /\ Home[j] = b  BY <1>3, HomeBatch
<1>5. j = i  BY <1>2, <1>3, <1>4, RowsDistinct
<1>6. QED  BY <1>1, <1>2, <1>5 DEF Response

LEMMA BatchesFinite == IsFiniteSet(Batches) /\ Cardinality(Batches) \in Nat
<1>1. IsFiniteSet(Items)  BY AskedAssumption, FS_Interval DEF Items
<1>2. Home \in Surjection(Items, Batches)
  BY DEF Surjection, Home, Batches, BatchesOf, Items
<1>3. QED  BY <1>1, <1>2, FS_Surjection, FS_CardinalityType

LEMMA SomeAnswer == \A i \in Items : Judgement(i) # NoAnswer
  BY DEF Judgement, NoAnswer
-----------------------------------------------------------------------------
LEMMA KindsAreErrors ==
  \A kind \in {"status", "transport", "ctx", "answer"} :
    [kind |-> kind, induced |-> GroupDone] \in Errors
  BY DEF Errors, GroupDone

LEMMA FailType ==
  ASSUME TypeOK, NEW b \in Batches, NEW from \in Phases,
         NEW kind \in {"status", "transport", "ctx", "answer"}, Fail(b, from, kind)
  PROVE  /\ phase' \in [Batches -> Phases]
         /\ lastErr' \in [Batches -> Errors \cup {NoError}]
<1>1. [kind |-> kind, induced |-> GroupDone] \in Errors  BY KindsAreErrors
<1>2. QED  BY <1>1 DEF TypeOK, Fail, Move, Phases

LEMMA MembersFinite ==
  \A b \in Batches : IsFiniteSet(ItemsOf[b]) /\ Cardinality(ItemsOf[b]) \in Nat
<1>1. IsFiniteSet(Items)  BY AskedAssumption, FS_Interval DEF Items
<1>2. QED  BY <1>1, MembersAreItems, FS_Subset, FS_CardinalityType

LEMMA InitType == Init => TypeOK
<1>1. SUFFICES ASSUME Init PROVE TypeOK  OBVIOUS
<1>2. NoError.induced = FALSE /\ NoTally \in [batches : Nat, items : Nat]
  BY DEF NoError, NoTally
<1>3. result \in [returned : BOOLEAN, err : Errors \cup {NoError}, requests : Nat]
  BY <1>1 DEF Init, NoResult
<1>4. phase \in [Batches -> Phases]  BY <1>1 DEF Init, Phases
<1>5. attempt \in [Batches -> 0 .. MaxRetries]  BY <1>1, MaxRetriesAssumption DEF Init
<1>6. QED  BY <1>1, <1>2, <1>3, <1>4, <1>5 DEF Init, TypeOK

LEMMA StepType ==
  ASSUME TypeOK, NEW b \in Batches, Step(b)
  PROVE  TypeOK'
<1> USE DEF Move
<1>1. CASE Launch(b)  BY <1>1 DEF Launch, TypeOK, Phases
<1>2. CASE Post(b)  BY <1>2 DEF Post, TypeOK, Phases
<1>3. CASE PostAfterDone(b)
  BY <1>3, FailType DEF PostAfterDone, TypeOK, Phases
<1>4. CASE Receive(b)
  <2>1. ASSUME NEW good \in 0 .. BatchSize, Answered(b, good)
        PROVE  TypeOK'
    <3>1. answer' \in [Items -> Answers \cup {NoAnswer}]
      <4>1. \A i \in ItemsOf[b] : Response[b][Row[i]] \in Answers
        BY ResponseIsOwn, MembersAreItems DEF Answers
      <4>2. QED  BY <2>1, <4>1 DEF Answered, TypeOK
    <3>2. /\ phase' \in [Batches -> Phases]
          /\ lastErr' \in [Batches -> Errors \cup {NoError}]
      <4>1. CASE Fail(b, "waiting", "answer")  BY <4>1, FailType DEF Phases
      <4>2. CASE Move(b, "waiting", "tallying") /\ UNCHANGED lastErr
        BY <4>2 DEF TypeOK, Phases
      <4>3. QED  BY <2>1, <4>1, <4>2 DEF Answered
    <3>3. QED  BY <2>1, <3>1, <3>2 DEF Answered, TypeOK
  <2>2. ASSUME NEW kind \in {"status", "answer"}, Retryable(b, kind)
        PROVE  TypeOK'
    <3>1. CASE attempt' = attempt /\ (Fail(b, "waiting", "ctx") \/ Fail(b, "waiting", kind))
      BY <2>2, <3>1, FailType DEF Retryable, TypeOK, Phases
    <3>2. CASE /\ attempt[b] # MaxRetries
               /\ Move(b, "waiting", "backoff")
               /\ attempt' = [attempt EXCEPT ![b] = @ + 1]
               /\ UNCHANGED lastErr
      <4>1. attempt[b] \in 0 .. MaxRetries  BY DEF TypeOK
      <4>2. attempt[b] # MaxRetries  BY <3>2
      <4>3. attempt[b] + 1 \in 0 .. MaxRetries
        BY <4>1, <4>2, MaxRetriesAssumption
      <4>4. QED  BY <2>2, <3>2, <4>3 DEF Retryable, TypeOK, Phases
    <3>3. QED  BY <2>2, <3>1, <3>2 DEF Retryable
  <2>3. ASSUME NEW kind \in {"status", "transport"}, Refused(b, kind)
        PROVE  TypeOK'
    BY <2>3, FailType DEF Refused, TypeOK, Phases
  <2>4. QED  BY <1>4, <2>1, <2>2, <2>3 DEF Receive
<1>5. CASE BackoffElapsed(b)  BY <1>5 DEF BackoffElapsed, TypeOK, Phases
<1>6. CASE BackoffCancelled(b)
  BY <1>6, FailType DEF BackoffCancelled, TypeOK, Phases
<1>7. CASE Tally(b)
  <2>1. tally' \in [batches : Nat, items : Nat]
    BY <1>7, MembersFinite DEF Tally, TypeOK
  <2>2. QED  BY <1>7, <2>1 DEF Tally, TypeOK, Phases
<1>8. CASE Report(b)  BY <1>8 DEF Report, TypeOK, Phases
<1>9. CASE RecordError(b)  BY <1>9 DEF RecordError, TypeOK, Phases
<1>10. QED
  BY <1>1, <1>2, <1>3, <1>4, <1>5, <1>6, <1>7, <1>8, <1>9 DEF Step

\* Every variable of a Judge call keeps its type.
THEOREM TypeCorrect == Spec => []TypeOK
<1>1. TypeOK /\ [Next]_vars => TypeOK'
  <2>1. SUFFICES ASSUME TypeOK, [Next]_vars PROVE TypeOK'  OBVIOUS
  <2>2. ASSUME NEW b \in Batches, Step(b) PROVE TypeOK'  BY <2>1, <2>2, StepType
  <2>3. CASE Cancel  BY <2>1, <2>3 DEF Cancel, TypeOK
  <2>4. CASE Return  BY <2>1, <2>4 DEF Return, TypeOK
  <2>5. CASE UNCHANGED vars  BY <2>1, <2>5 DEF vars, TypeOK
  <2>6. QED  BY <2>1, <2>2, <2>3, <2>4, <2>5 DEF Next, Returned
<1>2. QED  BY InitType, <1>1, PTL DEF Spec
-----------------------------------------------------------------------------
(* The inductive invariant: what is true of a batch in each phase.          *)

\* A batch that got through judgeBatch has an answer for every item.
SucceededAnswered ==
  \A b \in Batches : phase[b] \in {"tallying", "reporting", "done"} =>
    \A i \in ItemsOf[b] : answer[i] # NoAnswer

\* A failed batch has an error, and the group knows of one.
FailureKnown ==
  \A b \in Batches : /\ phase[b] = "failing" => lastErr[b] # NoError
                     /\ phase[b] = "failed" => groupErr # NoError

\* Induced errors only arise after the group was cancelled.
CauseFirst ==
  ~cancelled => /\ ~groupErr.induced
                /\ groupErr = NoError => \A b \in Batches : ~lastErr[b].induced

TallyExact == tally.batches = Cardinality(Tallied)

ResultFinal ==
  /\ ~result.returned => result = NoResult
  /\ result.returned => /\ result.err = groupErr
                        /\ result.requests = tally.batches
                        /\ \A b \in Batches : phase[b] \in {"done", "failed"}

SlotsBounded == Cardinality(Running) <= Concurrency

\* A batch is put on the wire at most once per attempt.
WireByAttempt ==
  \A b \in Batches :
    wire[b] <= attempt[b] + (IF phase[b] \in {"queued", "posting", "backoff"} THEN 0 ELSE 1)

IInv == /\ TypeOK /\ AnsweredByOwnRow /\ SucceededAnswered /\ FailureKnown
        /\ CauseFirst /\ TallyExact /\ ResultFinal /\ SlotsBounded /\ WireByAttempt

LEMMA InitInv == Init => IInv
<1>1. SUFFICES ASSUME Init PROVE IInv  OBVIOUS
<1>2. TypeOK  BY <1>1, InitType
<1>3. AnsweredByOwnRow  BY <1>1 DEF Init, AnsweredByOwnRow
<1>4. SucceededAnswered /\ FailureKnown  BY <1>1 DEF Init, SucceededAnswered, FailureKnown
<1>5. CauseFirst  BY <1>1 DEF Init, CauseFirst, NoError
<1>6. TallyExact
  <2>1. Tallied = {}  BY <1>1 DEF Init, Tallied
  <2>2. QED  BY <1>1, <2>1, FS_EmptySet DEF Init, TallyExact, NoTally
<1>7. ResultFinal  BY <1>1 DEF Init, ResultFinal, NoResult
<1>8. SlotsBounded
  <2>1. Running = {}  BY <1>1 DEF Init, Running
  <2>2. QED  BY <2>1, FS_EmptySet, ConcurrencyAssumption DEF SlotsBounded
<1>9. WireByAttempt  BY <1>1 DEF Init, WireByAttempt
<1>10. QED
  BY <1>2, <1>3, <1>4, <1>5, <1>6, <1>7, <1>8, <1>9 DEF IInv

\* A step of one goroutine moves no other goroutine, and never a finished one.
LEMMA OneMoves ==
  ASSUME TypeOK, NEW b \in Batches, Step(b)
  PROVE  /\ \A c \in Batches : c # b => phase'[c] = phase[c]
         /\ phase[b] \notin {"done", "failed"}
         /\ UNCHANGED <<cancelled, result>>
<1>1. CASE Launch(b) \/ Post(b) \/ PostAfterDone(b)
  BY <1>1 DEF Launch, Post, PostAfterDone, Fail, Move, TypeOK
<1>2. CASE Receive(b)
  BY <1>2 DEF Receive, Answered, Retryable, Refused, Fail, Move, TypeOK
<1>3. CASE BackoffElapsed(b) \/ BackoffCancelled(b)
  BY <1>3 DEF BackoffElapsed, BackoffCancelled, Fail, Move, TypeOK
<1>4. CASE Tally(b) \/ Report(b) \/ RecordError(b)
  BY <1>4 DEF Tally, Report, RecordError, Move, TypeOK
<1>5. QED  BY <1>1, <1>2, <1>3, <1>4 DEF Step

\* Items are written only when a response is decoded, and only correctly.
LEMMA StepAnswers ==
  ASSUME IInv, NEW b \in Batches, Step(b)
  PROVE  /\ AnsweredByOwnRow'
         /\ SucceededAnswered'
         /\ \A i \in Items : answer'[i] = answer[i] \/ answer'[i] = Judgement(i)
<1>1. CASE ~\E good \in 0 .. BatchSize : Answered(b, good)
  <2>1. UNCHANGED answer
    BY <1>1 DEF Step, Launch, Post, PostAfterDone, Receive, Retryable, Refused,
                BackoffElapsed, BackoffCancelled, Tally, Report, RecordError
  <2>2. \A c \in Batches :
          phase'[c] \in {"tallying", "reporting", "done"} =>
            phase[c] \in {"tallying", "reporting", "done"}
    <3>1. CASE Launch(b) \/ Post(b) \/ PostAfterDone(b)
      BY <3>1 DEF Launch, Post, PostAfterDone, Fail, Move, IInv, TypeOK
    <3>2. CASE Receive(b)
      BY <1>1, <3>2 DEF Receive, Retryable, Refused, Fail, Move, IInv, TypeOK
    <3>3. CASE BackoffElapsed(b) \/ BackoffCancelled(b)
      BY <3>3 DEF BackoffElapsed, BackoffCancelled, Fail, Move, IInv, TypeOK
    <3>4. CASE Tally(b) \/ Report(b) \/ RecordError(b)
      BY <3>4 DEF Tally, Report, RecordError, Move, IInv, TypeOK
    <3>5. QED  BY <3>1, <3>2, <3>3, <3>4 DEF Step
  <2>3. QED
    BY <2>1, <2>2 DEF IInv, SucceededAnswered, AnsweredByOwnRow
<1>2. ASSUME NEW good \in 0 .. BatchSize, Answered(b, good)
      PROVE  /\ AnsweredByOwnRow'
             /\ SucceededAnswered'
             /\ \A i \in Items : answer'[i] = answer[i] \/ answer'[i] = Judgement(i)
  <2>1. \A i \in Items : answer'[i] = answer[i] \/ answer'[i] = Judgement(i)
    BY <1>2, ResponseIsOwn DEF Answered
  <2>2. AnsweredByOwnRow'  BY <2>1 DEF IInv, AnsweredByOwnRow
  <2>3. ASSUME NEW c \in Batches, phase'[c] \in {"tallying", "reporting", "done"},
               NEW i \in ItemsOf[c]
        PROVE  answer'[i] # NoAnswer
    <3>1. i \in Items  BY MembersAreItems
    <3>2. CASE c # b
      <4>1. phase[c] \in {"tallying", "reporting", "done"}
        BY <2>3, <3>2, OneMoves DEF IInv
      <4>2. QED  BY <2>1, <3>1, <4>1, SomeAnswer DEF IInv, SucceededAnswered
    <3>3. CASE c = b
      <4>1. Row[i] < good  BY <1>2, <2>3, <3>3 DEF Answered, Fail, Move, IInv, TypeOK
      <4>2. answer'[i] = Judgement(i)
        BY <1>2, <3>1, <3>3, <4>1, ResponseIsOwn DEF Answered
      <4>3. QED  BY <3>1, <4>2, SomeAnswer
    <3>4. QED  BY <3>2, <3>3
  <2>4. QED  BY <2>1, <2>2, <2>3 DEF SucceededAnswered
<1>3. QED  BY <1>1, <1>2

\* Errors: a failed batch is known to the group, and the group's error is a
\* cause unless the caller cancelled.
LEMMA StepErrors ==
  ASSUME IInv, NEW b \in Batches, Step(b)
  PROVE  FailureKnown' /\ CauseFirst'
<1> USE DEF IInv, FailureKnown, CauseFirst, Move
<1>1. ASSUME NEW kind \in {"status", "transport", "ctx", "answer"},
             NEW from \in Phases, Fail(b, from, kind), UNCHANGED <<groupErr, cancelled>>
      PROVE  FailureKnown' /\ CauseFirst'
  <2>1. lastErr'[b] = [kind |-> kind, induced |-> GroupDone]
    BY <1>1 DEF Fail, TypeOK
  <2>2. lastErr'[b] # NoError
    <3>1. kind # "none"  OBVIOUS
    <3>2. QED  BY <2>1, <3>1 DEF NoError
  <2>3. \A c \in Batches : c # b => lastErr'[c] = lastErr[c] /\ phase'[c] = phase[c]
    BY <1>1 DEF Fail, TypeOK
  <2>4. phase'[b] = "failing"  BY <1>1 DEF Fail, TypeOK
  <2>5. FailureKnown'  BY <1>1, <2>2, <2>3, <2>4
  <2>6. ~cancelled' /\ groupErr' = NoError => ~lastErr'[b].induced
    <3>1. SUFFICES ASSUME ~cancelled', groupErr' = NoError
                   PROVE  ~lastErr'[b].induced
      OBVIOUS
    <3>2. GroupDone = FALSE  BY <1>1, <3>1 DEF GroupDone
    <3>3. lastErr'[b] = [kind |-> kind, induced |-> FALSE]  BY <2>1, <3>2
    <3>4. QED  BY <3>3
  <2>7. QED  BY <1>1, <2>3, <2>5, <2>6
<1>2. CASE Launch(b) \/ Post(b) \/ BackoffElapsed(b) \/ Tally(b) \/ Report(b)
  <2>1. UNCHANGED <<lastErr, groupErr, cancelled>>
    BY <1>2 DEF Launch, Post, BackoffElapsed, Tally, Report
  <2>2. phase'[b] \notin {"failing", "failed"}
    BY <1>2 DEF Launch, Post, BackoffElapsed, Tally, Report, TypeOK
  <2>3. QED  BY <2>1, <2>2, OneMoves
<1>3. CASE PostAfterDone(b)  BY <1>1, <1>3 DEF PostAfterDone, Phases
<1>4. CASE BackoffCancelled(b)  BY <1>1, <1>4 DEF BackoffCancelled, Phases
<1>5. CASE Receive(b)
  <2>1. CASE \E kind \in {"status", "transport", "ctx", "answer"} : Fail(b, "waiting", kind)
    <3>1. UNCHANGED <<groupErr, cancelled>>
      BY <1>5 DEF Receive, Answered, Retryable, Refused
    <3>2. QED  BY <1>1, <2>1, <3>1 DEF Phases
  <2>2. CASE /\ UNCHANGED <<lastErr, groupErr, cancelled>>
             /\ phase'[b] \notin {"failing", "failed"}
    BY <2>2, OneMoves
  <2>3. QED
    BY <1>5, <2>1, <2>2 DEF Receive, Answered, Retryable, Refused, TypeOK
<1>6. CASE RecordError(b)
  <2>1. phase'[b] = "failed"  BY <1>6 DEF RecordError, TypeOK
  <2>2. lastErr[b] # NoError  BY <1>6 DEF RecordError
  <2>3. groupErr' # NoError  BY <1>6, <2>2 DEF RecordError
  <2>4. FailureKnown'  BY <1>6, <2>1, <2>3, OneMoves DEF RecordError
  <2>5. CauseFirst'  BY <1>6, <2>3 DEF RecordError
  <2>6. QED  BY <2>4, <2>5
<1>7. QED  BY <1>2, <1>3, <1>4, <1>5, <1>6 DEF Step

\* Slots: a goroutine starts only below the limit.
LEMMA StepSlots ==
  ASSUME IInv, NEW b \in Batches, Step(b)
  PROVE  SlotsBounded'
<1>1. IsFiniteSet(Running)  BY BatchesFinite, FS_Subset DEF Running
<1>2. CASE Launch(b)
  <2>1. Running' \subseteq Running \cup {b}
    BY <1>2, OneMoves DEF IInv, Running
  <2>2. Cardinality(Running \cup {b}) <= Cardinality(Running) + 1
    <3>1. Cardinality(Running) \in Nat  BY <1>1, FS_CardinalityType
    <3>2. Cardinality(Running \cup {b}) =
            IF b \in Running THEN Cardinality(Running) ELSE Cardinality(Running) + 1
      BY <1>1, FS_AddElement, Zenon
    <3>3. QED  BY <3>1, <3>2
  <2>3. IsFiniteSet(Running \cup {b})  BY <1>1, FS_AddElement
  <2>4. Cardinality(Running') <= Cardinality(Running \cup {b})
    BY <2>1, <2>3, FS_Subset
  <2>5. Cardinality(Running) + 1 <= Concurrency
    BY <1>1, <1>2, FS_CardinalityType, ConcurrencyAssumption DEF Launch
  <2>6. /\ Cardinality(Running') \in Nat
        /\ Cardinality(Running) \in Nat
        /\ Cardinality(Running \cup {b}) \in Nat
    BY <1>1, <2>1, <2>3, FS_Subset, FS_CardinalityType
  <2>7. QED
    BY <2>2, <2>4, <2>5, <2>6, ConcurrencyAssumption DEF SlotsBounded
<1>3. CASE ~Launch(b)
  <2>1. phase[b] # "queued"
    BY <1>3 DEF Step, Post, PostAfterDone, Receive, Answered, Retryable, Refused,
                BackoffElapsed, BackoffCancelled, Tally, Report, RecordError, Fail, Move
  <2>2. Running' \subseteq Running  BY <2>1, OneMoves DEF IInv, Running
  <2>3. Cardinality(Running') <= Cardinality(Running)  BY <1>1, <2>2, FS_Subset
  <2>4. Cardinality(Running') \in Nat /\ Cardinality(Running) \in Nat
    BY <1>1, <2>2, FS_Subset, FS_CardinalityType
  <2>5. QED  BY <2>3, <2>4, ConcurrencyAssumption DEF IInv, SlotsBounded
<1>4. QED  BY <1>2, <1>3

\* The wire counter and the attempt counter move together.
LEMMA StepWire ==
  ASSUME IInv, NEW b \in Batches, Step(b)
  PROVE  WireByAttempt'
<1> USE DEF Move, Fail
<1>1. /\ attempt \in [Batches -> 0 .. MaxRetries] /\ wire \in [Batches -> Nat]
      /\ phase \in [Batches -> Phases]
  BY DEF IInv, TypeOK
<1>2. \A c \in Batches : attempt[c] \in Nat /\ wire[c] \in Nat
  BY <1>1, MaxRetriesAssumption
<1>3. \A c \in Batches : c # b => attempt'[c] = attempt[c] /\ wire'[c] = wire[c]
  BY <1>1 DEF Step, Launch, Post, PostAfterDone, Receive, Answered, Retryable, Refused,
              BackoffElapsed, BackoffCancelled, Tally, Report, RecordError
<1>4. wire[b] <= attempt[b] + (IF phase[b] \in {"queued", "posting", "backoff"} THEN 0 ELSE 1)
  BY DEF IInv, WireByAttempt
<1>5. wire'[b] <= attempt'[b] + (IF phase'[b] \in {"queued", "posting", "backoff"} THEN 0 ELSE 1)
  <2>1. CASE Launch(b) \/ BackoffElapsed(b)
    BY <1>1, <1>2, <1>4, <2>1 DEF Launch, BackoffElapsed
  <2>2. CASE Post(b)  BY <1>1, <1>2, <1>4, <2>2 DEF Post
  <2>3. CASE PostAfterDone(b) \/ BackoffCancelled(b)
    BY <1>1, <1>2, <1>4, <2>3 DEF PostAfterDone, BackoffCancelled
  <2>4. CASE Receive(b)
    <3>1. CASE attempt' = attempt
      <4>1. wire' = wire /\ phase[b] = "waiting"
        BY <2>4 DEF Receive, Answered, Retryable, Refused
      <4>2. phase'[b] \in {"failing", "tallying"}
        BY <1>1, <1>2, <2>4, <3>1 DEF Receive, Answered, Retryable, Refused
      <4>3. QED  BY <1>2, <1>4, <3>1, <4>1, <4>2
    <3>2. CASE attempt' # attempt
      <4>1. /\ wire' = wire /\ phase[b] = "waiting" /\ phase'[b] = "backoff"
            /\ attempt'[b] = attempt[b] + 1
        BY <1>1, <2>4, <3>2 DEF Receive, Answered, Retryable, Refused
      <4>2. QED  BY <1>2, <1>4, <4>1
    <3>3. QED  BY <3>1, <3>2
  <2>5. CASE Tally(b) \/ Report(b) \/ RecordError(b)
    BY <1>1, <1>2, <1>4, <2>5 DEF Tally, Report, RecordError
  <2>6. QED  BY <2>1, <2>2, <2>3, <2>4, <2>5 DEF Step
<1>6. QED  BY <1>3, <1>5, OneMoves DEF IInv, WireByAttempt

\* The tally counts the batches that went through the critical section.
LEMMA StepTally ==
  ASSUME IInv, NEW b \in Batches, Step(b)
  PROVE  TallyExact' /\ ResultFinal'
<1>1. IsFiniteSet(Tallied)  BY BatchesFinite, FS_Subset DEF Tallied
<1>2. TallyExact'
  <2>1. CASE Tally(b)
    <3>1. Tallied' = Tallied \cup {b} /\ b \notin Tallied
      BY <2>1, OneMoves DEF IInv, TypeOK, Tally, Move, Tallied
    <3>2. QED  BY <1>1, <2>1, <3>1, FS_AddElement DEF IInv, TallyExact, Tally
  <2>2. CASE ~Tally(b)
    <3>1. Tallied' = Tallied
      <4>1. b \in Tallied' <=> b \in Tallied
        BY <2>2 DEF Step, Launch, Post, PostAfterDone, Receive, Answered, Retryable,
                    Refused, BackoffElapsed, BackoffCancelled, Report, RecordError,
                    Fail, Move, Tallied, IInv, TypeOK
      <4>2. QED  BY <4>1, OneMoves DEF IInv, Tallied
    <3>2. UNCHANGED tally
      BY <2>2 DEF Step, Launch, Post, PostAfterDone, Receive, Answered, Retryable,
                  Refused, BackoffElapsed, BackoffCancelled, Report, RecordError
    <3>3. QED  BY <3>1, <3>2 DEF IInv, TallyExact
  <2>3. QED  BY <2>1, <2>2
<1>3. ~result.returned  BY OneMoves DEF IInv, ResultFinal
<1>4. ResultFinal'  BY <1>3, OneMoves DEF IInv, ResultFinal
<1>5. QED  BY <1>2, <1>4

LEMMA NextInv == IInv /\ [Next]_vars => IInv'
<1>1. SUFFICES ASSUME IInv, [Next]_vars PROVE IInv'  OBVIOUS
<1>2. ASSUME NEW b \in Batches, Step(b) PROVE IInv'
  <2>1. TypeOK'  BY <1>1, <1>2, StepType DEF IInv
  <2>2. QED
    BY <1>1, <1>2, <2>1, StepAnswers, StepErrors, StepSlots, StepWire, StepTally DEF IInv
<1>3. CASE Cancel
  <2>1. TypeOK'  BY <1>1, <1>3 DEF Cancel, IInv, TypeOK
  <2>2. QED
    BY <1>1, <1>3, <2>1 DEF Cancel, IInv, AnsweredByOwnRow, SucceededAnswered,
      FailureKnown, CauseFirst, TallyExact, Tallied, ResultFinal, SlotsBounded, Running,
      WireByAttempt
<1>4. CASE Return
  <2>1. TypeOK'  BY <1>1, <1>4 DEF Return, IInv, TypeOK
  <2>2. ResultFinal'  BY <1>4 DEF Return, ResultFinal
  <2>3. QED
    BY <1>1, <1>4, <2>1, <2>2 DEF Return, IInv, AnsweredByOwnRow, SucceededAnswered,
      FailureKnown, CauseFirst, TallyExact, Tallied, SlotsBounded, Running, WireByAttempt
<1>5. CASE UNCHANGED vars
  BY <1>1, <1>5 DEF vars, IInv, TypeOK, AnsweredByOwnRow, SucceededAnswered, FailureKnown,
    CauseFirst, TallyExact, Tallied, ResultFinal, SlotsBounded, Running, WireByAttempt
<1>6. QED  BY <1>1, <1>2, <1>3, <1>4, <1>5 DEF Next, Returned

LEMMA Invariance == Spec => []IInv
  BY InitInv, NextInv, PTL DEF Spec
-----------------------------------------------------------------------------
\* No item ever holds the judgement of another row or another question.
THEOREM OwnRow == Spec => []AnsweredByOwnRow
<1>1. IInv => AnsweredByOwnRow  BY DEF IInv
<1>2. QED  BY <1>1, Invariance, PTL

\* A call that returns without an error answered every item it was given.
THEOREM AllAnswered == Spec => []AllOrError
<1>1. IInv => AllOrError
  <2>1. SUFFICES ASSUME IInv, result.returned, result.err = NoError
                 PROVE  /\ \A i \in Items : answer[i] # NoAnswer
                        /\ result.requests = Cardinality(Batches)
    BY DEF AllOrError
  <2>2. \A b \in Batches : phase[b] = "done"
    BY <2>1 DEF IInv, ResultFinal, FailureKnown
  <2>3. \A i \in Items : answer[i] # NoAnswer
    BY <2>1, <2>2, HomeBatch DEF IInv, SucceededAnswered
  <2>4. Tallied = Batches  BY <2>2 DEF Tallied
  <2>5. QED  BY <2>1, <2>3, <2>4 DEF IInv, ResultFinal, TallyExact
<1>2. QED  BY <1>1, Invariance, PTL

\* Without a cancellation by the caller, the error returned is the one that
\* started the failure, not an echo of it.
THEOREM CauseIsReported == Spec => []CauseReported
<1>1. IInv => CauseReported  BY DEF IInv, ResultFinal, CauseFirst, CauseReported
<1>2. QED  BY <1>1, Invariance, PTL

\* The service never sees more than Concurrency requests at once, nor a batch
\* more than 1 + MaxRetries times.
THEOREM LoadIsBounded == Spec => []LoadBounded
<1>1. IInv => LoadBounded
  <2>1. SUFFICES ASSUME IInv PROVE LoadBounded  OBVIOUS
  <2>2. {b \in Batches : phase[b] = "waiting"} \subseteq Running  BY DEF Running
  <2>3. IsFiniteSet(Running)  BY BatchesFinite, FS_Subset DEF Running
  <2>4. Cardinality({b \in Batches : phase[b] = "waiting"}) <= Concurrency
    <3>1. Cardinality({b \in Batches : phase[b] = "waiting"}) <= Cardinality(Running)
      BY <2>2, <2>3, FS_Subset
    <3>2. /\ Cardinality({b \in Batches : phase[b] = "waiting"}) \in Nat
          /\ Cardinality(Running) \in Nat
      BY <2>2, <2>3, FS_Subset, FS_CardinalityType
    <3>3. QED  BY <2>1, <3>1, <3>2, ConcurrencyAssumption DEF IInv, SlotsBounded
  <2>5. ASSUME NEW b \in Batches PROVE wire[b] <= MaxRetries + 1
    <3>1. attempt[b] \in 0 .. MaxRetries /\ wire[b] \in Nat
      BY <2>1 DEF IInv, TypeOK
    <3>2. wire[b] <= attempt[b] + 1
      BY <2>1, <3>1, MaxRetriesAssumption DEF IInv, WireByAttempt
    <3>3. QED  BY <3>1, <3>2, MaxRetriesAssumption
  <2>6. QED  BY <2>4, <2>5 DEF LoadBounded
<1>2. QED  BY <1>1, Invariance, PTL

\* JudgeClient implements what Judge promises its callers.
THEOREM Refinement == Spec => KeepsPromise
<1>1. Init => Promise!Init
  BY DEF Init, Promise!Init, NoResult, NoError
<1>2. IInv /\ IInv' /\ [Next]_vars => [Promise!Next]_(Promise!pvars)
  <2>1. SUFFICES ASSUME IInv, IInv', [Next]_vars
                 PROVE  Promise!Next \/ UNCHANGED Promise!pvars
    OBVIOUS
  <2>2. ASSUME NEW b \in Batches, Step(b)
        PROVE  Promise!Next
    <3>1. UNCHANGED <<result>> /\ ~result.returned
      BY <2>1, <2>2, OneMoves DEF IInv, ResultFinal
    <3>2. \A i \in Items : answer'[i] = answer[i] \/ answer'[i] = Judgement(i)
      BY <2>1, <2>2, StepAnswers
    <3>3. answer \in [Items -> Answers \cup {NoAnswer}]
          /\ answer' \in [Items -> Answers \cup {NoAnswer}]
      BY <2>1 DEF IInv, TypeOK
    <3> DEFINE S == {i \in Items : answer'[i] = Judgement(i)}
    <3>4. answer' = [i \in Items |-> IF i \in S THEN Judgement(i) ELSE answer[i]]
      BY <3>2, <3>3
    <3>5. Promise!AnswerSome(S)  BY <3>1, <3>4 DEF Promise!AnswerSome
    <3>6. QED  BY <3>5 DEF Promise!Next
  <2>3. CASE Return
    <3>1. result.err = NoError  BY <2>1, <2>3 DEF Return, IInv, ResultFinal, NoResult
    <3>2. result' = [returned |-> TRUE, err |-> groupErr, requests |-> tally.batches]
          /\ answer' = answer /\ ~result.returned
      BY <2>3 DEF Return
    <3>3. groupErr = NoError => \A i \in Items : answer[i] # NoAnswer
      BY <2>1, <2>3, HomeBatch DEF Return, IInv, FailureKnown, SucceededAnswered
    <3>4. Promise!Return  BY <3>1, <3>2, <3>3 DEF Promise!Return
    <3>5. QED  BY <3>4 DEF Promise!Next
  <2>4. CASE Cancel \/ UNCHANGED vars \/ Returned
    BY <2>4 DEF Cancel, Returned, vars, Promise!pvars
  <2>5. QED  BY <2>1, <2>2, <2>3, <2>4 DEF Next
<1>3. QED
  BY <1>1, <1>2, Invariance, PTL DEF Spec, KeepsPromise, Promise!Spec
-----------------------------------------------------------------------------
(* The progress callbacks.                                                  *)

\* The items of the batches tallied.
ItemsDone == {i \in Items : Home[i] \in Tallied}
ItemsCounted == tally.items = Cardinality(ItemsDone)

LEMMA InitProgress == Init => ProgressExact /\ ItemsCounted
<1>1. SUFFICES ASSUME Init PROVE ProgressExact /\ ItemsCounted  OBVIOUS
<1>2. Tallied = {} /\ ItemsDone = {}  BY <1>1 DEF Init, Tallied, ItemsDone
<1>3. {progress[b].batches : b \in Tallied} = {} /\ 1 .. 0 = {}  BY <1>2
<1>4. QED
  BY <1>1, <1>2, <1>3, FS_EmptySet DEF Init, ProgressExact, ItemsCounted, NoTally

LEMMA ItemsFinite == \A S \in SUBSET Items : IsFiniteSet(S) /\ Cardinality(S) \in Nat
<1>1. IsFiniteSet(Items)  BY AskedAssumption, FS_Interval DEF Items
<1>2. QED  BY <1>1, FS_Subset, FS_CardinalityType

\* The critical section gives the next number, and counts the batch's items to
\* those of all the batches numbered before.
LEMMA TallyProgress ==
  ASSUME IInv, ProgressExact, ItemsCounted, NEW b \in Batches, Tally(b)
  PROVE  ProgressExact' /\ ItemsCounted'
<1> DEFINE n == Cardinality(Tallied)
           m == Cardinality(ItemsOf[b])
<1>1. Tallied' = Tallied \cup {b} /\ b \notin Tallied
  BY OneMoves DEF IInv, TypeOK, Tally, Move, Tallied, Step
<1>2. IsFiniteSet(Tallied) /\ n \in Nat
  BY BatchesFinite, FS_Subset, FS_CardinalityType DEF Tallied
<1>3. Cardinality(Tallied') = n + 1  BY <1>1, <1>2, FS_AddElement
<1>4. /\ progress'[b] = [batches |-> n + 1, items |-> tally.items + m]
      /\ \A c \in Tallied : progress'[c] = progress[c]
      /\ tally'.items = tally.items + m
  BY <1>1 DEF Tally, IInv, TypeOK, TallyExact, Tallied
<1>5. \A c \in Tallied : progress[c].batches \in 1 .. n
  BY DEF ProgressExact
<1>6. ItemsDone' = ItemsDone \cup ItemsOf[b] /\ ItemsDone \cap ItemsOf[b] = {}
  BY <1>1, HomeBatch, MembersAreItems DEF ItemsDone, Tallied
<1>7. Cardinality(ItemsDone') = Cardinality(ItemsDone) + m
  <2>1. IsFiniteSet(ItemsDone) /\ IsFiniteSet(ItemsOf[b])
    BY ItemsFinite, MembersAreItems DEF ItemsDone
  <2>2. Cardinality(ItemsDone \cap ItemsOf[b]) = 0  BY <1>6, FS_EmptySet
  <2>3. Cardinality(ItemsDone) \in Nat /\ m \in Nat  BY <2>1, FS_CardinalityType
  <2>4. Cardinality(ItemsDone \cup ItemsOf[b])
          = Cardinality(ItemsDone) + m - Cardinality(ItemsDone \cap ItemsOf[b])
    BY <2>1, FS_Union
  <2>5. QED  BY <1>6, <2>2, <2>3, <2>4
<1>8. ItemsCounted'  BY <1>4, <1>7 DEF ItemsCounted
<1>9. {progress'[c].batches : c \in Tallied'} = 1 .. n + 1
  <2>1. {progress[c].batches : c \in Tallied} = 1 .. n  BY DEF ProgressExact
  <2>2. {progress'[c].batches : c \in Tallied'} = (1 .. n) \cup {n + 1}
    BY <1>1, <1>4, <2>1
  <2>3. QED  BY <1>2, <2>2
<1>10. ASSUME NEW c \in Tallied'
       PROVE  progress'[c].items = Cardinality({i \in Items :
                /\ Home[i] \in Tallied'
                /\ progress'[Home[i]].batches <= progress'[c].batches})
  <2> DEFINE S == {i \in Items : /\ Home[i] \in Tallied'
                                 /\ progress'[Home[i]].batches <= progress'[c].batches}
  <2>1. CASE c = b
    <3>1. \A d \in Tallied' : progress'[d].batches <= n + 1
      BY <1>1, <1>2, <1>4, <1>5
    <3>2. S = ItemsDone'  BY <1>4, <2>1, <3>1 DEF ItemsDone
    <3>3. progress'[c].items = Cardinality(ItemsDone')
      BY <1>4, <1>8, <2>1 DEF ItemsCounted
    <3>4. QED  BY <3>2, <3>3
  <2>2. CASE c \in Tallied
    <3>1. S = {i \in Items : /\ Home[i] \in Tallied
                             /\ progress[Home[i]].batches <= progress[c].batches}
      <4>1. ~(n + 1 <= progress[c].batches)  BY <1>2, <1>5, <2>2
      <4>2. QED  BY <1>1, <1>4, <2>2, <4>1
    <3>2. QED  BY <1>4, <2>2, <3>1 DEF ProgressExact
  <2>3. QED  BY <1>1, <2>1, <2>2
<1>11. QED  BY <1>3, <1>8, <1>9, <1>10 DEF ProgressExact

\* The callbacks of a call count its batches and items exactly, in whatever
\* order the goroutines get to make them.
THEOREM ProgressIsExact == Spec => []ProgressExact
<1>1. IInv /\ ProgressExact /\ ItemsCounted /\ [Next]_vars => ProgressExact' /\ ItemsCounted'
  <2>1. SUFFICES ASSUME IInv, ProgressExact, ItemsCounted, [Next]_vars
                 PROVE  ProgressExact' /\ ItemsCounted'
    OBVIOUS
  <2>2. CASE UNCHANGED <<Tallied, progress, tally>>
    BY <2>1, <2>2 DEF ProgressExact, ItemsCounted, ItemsDone
  <2>3. ASSUME NEW b \in Batches, Step(b) PROVE ProgressExact' /\ ItemsCounted'
    <3>1. CASE Tally(b)  BY <2>1, <3>1, TallyProgress
    <3>2. CASE ~Tally(b)
      <4>1. b \in Tallied' <=> b \in Tallied
        BY <2>1, <2>3, <3>2 DEF Step, Launch, Post, PostAfterDone, Receive, Answered, Retryable,
                    Refused, BackoffElapsed, BackoffCancelled, Report, RecordError,
                    Fail, Move, Tallied, IInv, TypeOK
      <4>2. Tallied' = Tallied  BY <2>1, <2>3, <4>1, OneMoves DEF IInv, Tallied
      <4>3. UNCHANGED <<tally, progress>>
        BY <2>3, <3>2 DEF Step, Launch, Post, PostAfterDone, Receive, Answered, Retryable,
                  Refused, BackoffElapsed, BackoffCancelled, Report, RecordError
      <4>4. QED  BY <2>2, <4>2, <4>3
    <3>3. QED  BY <3>1, <3>2
  <2>4. CASE Cancel \/ Return \/ Returned \/ UNCHANGED vars
    BY <2>2, <2>4 DEF Cancel, Return, Returned, vars, Tallied
  <2>5. QED  BY <2>1, <2>3, <2>4 DEF Next
<1>2. QED  BY <1>1, InitProgress, Invariance, PTL DEF Spec
-----------------------------------------------------------------------------
(* The packing loops.                                                       *)

LEMMA LeastOne ==
  ASSUME NEW T \in SUBSET Nat, T # {}
  PROVE  \E x \in T : \A y \in T : x <= y
<1> DEFINE R == {ss \in Nat \X Nat : ss[1] < ss[2]}
<1>1. IsWellFoundedOn(R, Nat)
  BY NatLessThanWellFounded DEF OpToRel
<1>2. PICK x \in T : \A y \in T : ~(<<y, x>> \in R)
  <2>1. T \subseteq Nat
    OBVIOUS
  <2> HIDE DEF R
  <2> QED BY <1>1, <2>1, WFMin
<1>3. ASSUME NEW y \in T PROVE x <= y
  <2>1. y < x => <<y, x>> \in R
    OBVIOUS
  <2> QED BY <1>2, <2>1
<1> QED BY <1>3

LEMMA Induct ==
  ASSUME NEW P \in SUBSET Nat, 0 \in P, \A n \in P : n + 1 \in P
  PROVE  P = Nat
<1> SUFFICES ASSUME Nat \ P # {} PROVE FALSE
  OBVIOUS
<1>1. PICK x \in Nat \ P : \A y \in Nat \ P : x <= y
  <2>1. Nat \ P \in SUBSET Nat
    OBVIOUS
  <2> QED BY <2>1, LeastOne
<1>2. x - 1 \in Nat
  OBVIOUS
<1>3. x - 1 \in P
  BY <1>1, <1>2
<1>4. (x - 1) + 1 \in P
  BY <1>3
<1> QED BY <1>4

\* The first loop: read is its function.
IsRead(read, list, n) ==
  read = [i \in 0 .. n |->
           IF i = 0 THEN [order |-> <<>>, items |-> [q \in {list[j] : j \in DOMAIN list} |-> <<>>]]
           ELSE LET r == read[i - 1]  q == list[i]
                IN  [order |-> IF r.items[q] = <<>> THEN Append(r.order, q) ELSE r.order,
                     items |-> [r.items EXCEPT ![q] = Append(@, i)]]]

LEMMA ReadExists ==
  ASSUME NEW list, NEW n \in Nat
  PROVE  \E read : IsRead(read, list, n)
<1> DEFINE Def(read, i) ==
             IF i = 0 THEN [order |-> <<>>, items |-> [q \in {list[j] : j \in DOMAIN list} |-> <<>>]]
             ELSE LET r == read[i - 1]  q == list[i]
                  IN  [order |-> IF r.items[q] = <<>> THEN Append(r.order, q) ELSE r.order,
                       items |-> [r.items EXCEPT ![q] = Append(@, i)]]
           P == {m \in Nat : \E f : f = [i \in 0 .. m |-> Def(f, i)]}
<1>1. 0 \in P
  <2>1. PICK first : first = [q \in {list[j] : j \in DOMAIN list} |-> <<>>]
    OBVIOUS
  <2>2. PICK f : f = [i \in 0 .. 0 |-> [order |-> <<>>, items |-> first]]
    OBVIOUS
  <2>3. f = [i \in 0 .. 0 |-> Def(f, i)]
    BY <2>1, <2>2
  <2> QED BY <2>3
<1>2. ASSUME NEW m \in P PROVE m + 1 \in P
  <2>1. PICK f : f = [i \in 0 .. m |-> Def(f, i)]
    OBVIOUS
  <2>2. m \in Nat
    OBVIOUS
  <2>3. PICK g : g = [i \in 0 .. m + 1 |-> Def(f, i)]
    OBVIOUS
  <2> HIDE DEF Def
  <2>4. \A i \in 0 .. m : g[i] = f[i]
    BY <2>1, <2>2, <2>3
  <2>5. \A i \in 0 .. m + 1 : i # 0 => i - 1 \in 0 .. m
    BY <2>2
  <2>6. \A i \in 0 .. m + 1 : Def(f, i) = Def(g, i)
    BY <2>4, <2>5 DEF Def
  <2>7. g = [i \in 0 .. m + 1 |-> Def(g, i)]
    BY <2>3, <2>6
  <2> QED BY <2>2, <2>7
<1>3. P = Nat
  <2>1. P \in SUBSET Nat
    OBVIOUS
  <2> HIDE DEF P
  <2> QED BY <1>1, <1>2, <2>1, Induct
<1>4. PICK f : f = [i \in 0 .. n |-> Def(f, i)]
  BY <1>3
<1>5. IsRead(f, list, n)
  BY <1>4 DEF IsRead
<1> QED BY <1>5

\* What one step of the loop does, from r to s with item i of question q.
Reads(r, s, q, i) ==
  /\ s.order = IF r.items[q] = <<>> THEN Append(r.order, q) ELSE r.order
  /\ s.items = [r.items EXCEPT ![q] = Append(r.items[q], i)]

LEMMA GroupedRead ==
  ASSUME NEW K, NEW list \in Seq(K)
  PROVE  \E read : /\ Grouped(list) = read[Len(list)]
                   /\ read[0].order = <<>>
                   /\ read[0].items = [q \in {list[j] : j \in DOMAIN list} |-> <<>>]
                   /\ \A i \in 1 .. Len(list) : Reads(read[i - 1], read[i], list[i], i)
<1>1. PICK n \in Nat : n = Len(list)
  OBVIOUS
<1>2. PICK read : read = CHOOSE f : IsRead(f, list, n)
  OBVIOUS
<1>3. IsRead(read, list, n)
  BY <1>2, ReadExists
<1>4. Grouped(list) = read[n]
  BY <1>1, <1>2 DEF Grouped, IsRead
<1>5. 0 \in 0 .. n
  OBVIOUS
<1>6. read[0].order = <<>> /\ read[0].items = [q \in {list[j] : j \in DOMAIN list} |-> <<>>]
  <2>1. PICK first : first = [q \in {list[j] : j \in DOMAIN list} |-> <<>>]
    OBVIOUS
  <2>2. read[0] = [order |-> <<>>, items |-> first]
    BY <1>3, <1>5, <2>1 DEF IsRead
  <2> QED BY <2>1, <2>2
<1>7. ASSUME NEW i \in 1 .. n PROVE Reads(read[i - 1], read[i], list[i], i)
  <2>1. PICK r : r = read[i - 1]
    OBVIOUS
  <2>2. PICK q : q = list[i]
    OBVIOUS
  <2>3. i \in 0 .. n /\ i # 0
    OBVIOUS
  <2>4. read[i] = [order |-> IF r.items[q] = <<>> THEN Append(r.order, q) ELSE r.order,
                   items |-> [r.items EXCEPT ![q] = Append(@, i)]]
    BY <1>3, <2>1, <2>2, <2>3 DEF IsRead
  <2> QED BY <2>1, <2>2, <2>4 DEF Reads
<1> QED BY <1>1, <1>4, <1>6, <1>7

\* The items up to i that ask question q.
Upto(list, q, i) == {j \in 1 .. i : list[j] = q}

LEMMA UptoCount ==
  ASSUME NEW list, NEW q, NEW i \in Nat
  PROVE  /\ IsFiniteSet(Upto(list, q, i)) /\ Cardinality(Upto(list, q, i)) \in Nat
         /\ Cardinality(Upto(list, q, 0)) = 0
         /\ list[i + 1] = q => Cardinality(Upto(list, q, i + 1)) = Cardinality(Upto(list, q, i)) + 1
         /\ list[i + 1] # q => Upto(list, q, i + 1) = Upto(list, q, i)
<1>1. IsFiniteSet(Upto(list, q, i)) /\ Cardinality(Upto(list, q, i)) \in Nat
  <2>1. IsFiniteSet(1 .. i)
    BY FS_Interval
  <2>2. Upto(list, q, i) \subseteq 1 .. i
    BY DEF Upto
  <2> QED BY <2>1, <2>2, FS_Subset, FS_CardinalityType
<1>2. Cardinality(Upto(list, q, 0)) = 0
  <2>1. Upto(list, q, 0) = {}
    BY DEF Upto
  <2> QED BY <2>1, FS_EmptySet
<1>3. ASSUME list[i + 1] = q PROVE Cardinality(Upto(list, q, i + 1)) = Cardinality(Upto(list, q, i)) + 1
  <2>1. Upto(list, q, i + 1) = Upto(list, q, i) \cup {i + 1}
    BY <1>3 DEF Upto
  <2>2. i + 1 \notin Upto(list, q, i)
    BY DEF Upto
  <2> QED BY <1>1, <2>1, <2>2, FS_AddElement
<1>4. ASSUME list[i + 1] # q PROVE Upto(list, q, i + 1) = Upto(list, q, i)
  BY <1>4 DEF Upto
<1> QED BY <1>1, <1>2, <1>3, <1>4

LEMMA RankUpto ==
  ASSUME NEW list, NEW i \in Nat
  PROVE  Rank(list, i + 1) = Cardinality(Upto(list, list[i + 1], i))
<1>1. Earlier(list, i + 1) = Upto(list, list[i + 1], i)
  <2>1. (i + 1) - 1 = i
    OBVIOUS
  <2> QED BY <2>1 DEF Earlier, Upto
<1> QED BY <1>1 DEF Rank

LEMMA RankIsNat ==
  ASSUME NEW list, NEW j \in Nat \ {0}
  PROVE  Rank(list, j) \in Nat
<1>1. PICK i \in Nat : j = i + 1
  <2>1. j - 1 \in Nat /\ j = (j - 1) + 1
    OBVIOUS
  <2> QED BY <2>1
<1>2. PICK q : q = list[i + 1]
  OBVIOUS
<1>3. Rank(list, i + 1) = Cardinality(Upto(list, q, i))
  BY <1>2, RankUpto
<1>4. Cardinality(Upto(list, q, i)) \in Nat
  BY UptoCount
<1> QED BY <1>1, <1>3, <1>4

\* items are those of question q up to i, each at its rank.
Collects(list, items, q, i) ==
  /\ items \in Seq(Nat) /\ Len(items) = Cardinality(Upto(list, q, i))
  /\ \A x \in 1 .. Len(items) :
       items[x] \in 1 .. i /\ list[items[x]] = q /\ Rank(list, items[x]) = x - 1
  /\ \A j \in 1 .. i : list[j] = q =>
       Rank(list, j) + 1 \in 1 .. Len(items) /\ items[Rank(list, j) + 1] = j

LEMMA CollectsOneMore ==
  ASSUME NEW list, NEW items, NEW q, NEW i \in Nat, Collects(list, items, q, i), list[i + 1] = q
  PROVE  Collects(list, Append(items, i + 1), q, i + 1)
<1>1. PICK n \in Nat : n = Len(items)
  BY DEF Collects
<1>2. PICK more : more = Append(items, i + 1)
  OBVIOUS
<1>3. /\ more \in Seq(Nat) /\ Len(more) = n + 1 /\ more[n + 1] = i + 1
      /\ \A x \in 1 .. n : more[x] = items[x]
  BY <1>1, <1>2 DEF Collects
<1>4. Rank(list, i + 1) = n /\ Cardinality(Upto(list, q, i + 1)) = n + 1
  <2>1. n = Cardinality(Upto(list, q, i))
    BY <1>1 DEF Collects
  <2>2. Rank(list, i + 1) = Cardinality(Upto(list, q, i))
    BY RankUpto
  <2>3. Cardinality(Upto(list, q, i + 1)) = Cardinality(Upto(list, q, i)) + 1
    BY UptoCount
  <2> QED BY <2>1, <2>2, <2>3
<1>5. ASSUME NEW x \in 1 .. n + 1
      PROVE  more[x] \in 1 .. i + 1 /\ list[more[x]] = q /\ Rank(list, more[x]) = x - 1
  <2>1. CASE x = n + 1
    BY <1>3, <1>4, <2>1
  <2>2. CASE x \in 1 .. n
    BY <1>1, <1>3, <2>2 DEF Collects
  <2> QED BY <2>1, <2>2
<1>6. ASSUME NEW j \in 1 .. i + 1, list[j] = q
      PROVE  Rank(list, j) + 1 \in 1 .. n + 1 /\ more[Rank(list, j) + 1] = j
  <2>1. CASE j = i + 1
    BY <1>3, <1>4, <2>1
  <2>2. CASE j \in 1 .. i
    <3>1. Rank(list, j) + 1 \in 1 .. n /\ items[Rank(list, j) + 1] = j
      BY <1>1, <1>6, <2>2 DEF Collects
    <3> QED BY <1>3, <3>1
  <2> QED BY <2>1, <2>2
<1> QED BY <1>2, <1>3, <1>4, <1>5, <1>6 DEF Collects

LEMMA CollectsOthers ==
  ASSUME NEW list, NEW items, NEW q, NEW i \in Nat, Collects(list, items, q, i), list[i + 1] # q
  PROVE  Collects(list, items, q, i + 1)
<1>1. Upto(list, q, i + 1) = Upto(list, q, i)
  BY UptoCount
<1>2. ASSUME NEW j \in 1 .. i + 1, list[j] = q PROVE j \in 1 .. i
  BY <1>2
<1>3. \A x \in 1 .. Len(items) :
        items[x] \in 1 .. i + 1 /\ list[items[x]] = q /\ Rank(list, items[x]) = x - 1
  BY DEF Collects
<1>4. \A j \in 1 .. i + 1 : list[j] = q =>
        Rank(list, j) + 1 \in 1 .. Len(items) /\ items[Rank(list, j) + 1] = j
  BY <1>2 DEF Collects
<1> QED BY <1>1, <1>3, <1>4 DEF Collects

\* order has the questions up to item i, by first appearance.
Ordered(list, order, i) ==
  /\ order \in Seq({list[j] : j \in DOMAIN list})
  /\ \A j \in 1 .. i : \E a \in 1 .. Len(order) : order[a] = list[j]
  /\ \A a \in 1 .. Len(order) : \E j \in 1 .. i : order[a] = list[j]
  /\ \A a, b \in 1 .. Len(order) : a < b =>
       \E j \in 1 .. i : list[j] = order[a] /\ \A k \in 1 .. j : list[k] # order[b]

LEMMA OrderedNew ==
  ASSUME NEW list, NEW order, NEW i \in Nat, Ordered(list, order, i), i + 1 \in DOMAIN list,
         \A j \in 1 .. i : list[j] # list[i + 1]
  PROVE  Ordered(list, Append(order, list[i + 1]), i + 1)
<1>1. PICK n \in Nat : n = Len(order)
  BY DEF Ordered
<1>2. PICK q : q = list[i + 1]
  OBVIOUS
<1>3. PICK more : more = Append(order, q)
  OBVIOUS
<1>4. /\ more \in Seq({list[j] : j \in DOMAIN list}) /\ Len(more) = n + 1 /\ more[n + 1] = q
      /\ \A a \in 1 .. n : more[a] = order[a]
  <2>1. order \in Seq({list[j] : j \in DOMAIN list})
    BY DEF Ordered
  <2>2. PICK S : S = {list[j] : j \in DOMAIN list}
    OBVIOUS
  <2>3. order \in Seq(S) /\ q \in S
    BY <1>2, <2>1, <2>2
  <2>4. more \in Seq(S) /\ Len(more) = n + 1 /\ more[n + 1] = q
        /\ \A a \in 1 .. n : more[a] = order[a]
    BY <1>1, <1>3, <2>3
  <2> QED BY <2>2, <2>4
<1>5. ASSUME NEW j \in 1 .. i + 1 PROVE \E a \in 1 .. n + 1 : more[a] = list[j]
  <2>1. CASE j = i + 1
    BY <1>2, <1>4, <2>1
  <2>2. CASE j \in 1 .. i
    <3>1. PICK a \in 1 .. n : order[a] = list[j]
      BY <1>1, <2>2 DEF Ordered
    <3> QED BY <1>4, <3>1
  <2> QED BY <2>1, <2>2
<1>6. ASSUME NEW a \in 1 .. n + 1 PROVE \E j \in 1 .. i + 1 : more[a] = list[j]
  <2>1. CASE a = n + 1
    BY <1>2, <1>4, <2>1
  <2>2. CASE a \in 1 .. n
    <3>1. PICK j \in 1 .. i : order[a] = list[j]
      BY <1>1, <2>2 DEF Ordered
    <3> QED BY <1>4, <2>2, <3>1
  <2> QED BY <2>1, <2>2
<1>7. ASSUME NEW a \in 1 .. n + 1, NEW b \in 1 .. n + 1, a < b
      PROVE  \E j \in 1 .. i + 1 : list[j] = more[a] /\ \A k \in 1 .. j : list[k] # more[b]
  <2>1. a \in 1 .. n
    BY <1>7
  <2>2. CASE b = n + 1
    <3>1. PICK j \in 1 .. i : order[a] = list[j]
      BY <1>1, <2>1 DEF Ordered
    <3>2. \A k \in 1 .. j : list[k] # q
      BY <1>2
    <3>3. j \in 1 .. i + 1
      OBVIOUS
    <3>4. more[a] = order[a]
      BY <1>4, <2>1
    <3>5. more[b] = q
      BY <1>4, <2>2
    <3> QED BY <3>1, <3>2, <3>3, <3>4, <3>5
  <2>3. CASE b \in 1 .. n
    <3>1. PICK j \in 1 .. i : list[j] = order[a] /\ \A k \in 1 .. j : list[k] # order[b]
      BY <1>1, <1>7, <2>1, <2>3 DEF Ordered
    <3> QED BY <1>4, <2>1, <2>3, <3>1
  <2> QED BY <2>2, <2>3
<1>8. Ordered(list, more, i + 1)
  <2>1. \A a, b \in 1 .. n + 1 : a < b =>
          \E j \in 1 .. i + 1 : list[j] = more[a] /\ \A k \in 1 .. j : list[k] # more[b]
    BY <1>7
  <2> QED BY <1>4, <1>5, <1>6, <2>1 DEF Ordered
<1> QED BY <1>2, <1>3, <1>8

LEMMA OrderedOld ==
  ASSUME NEW list, NEW order, NEW i \in Nat, Ordered(list, order, i),
         NEW j0 \in 1 .. i, list[j0] = list[i + 1]
  PROVE  Ordered(list, order, i + 1)
<1>1. ASSUME NEW j \in 1 .. i + 1 PROVE \E a \in 1 .. Len(order) : order[a] = list[j]
  <2>1. CASE j = i + 1
    BY <2>1 DEF Ordered
  <2>2. CASE j \in 1 .. i
    BY <2>2 DEF Ordered
  <2> QED BY <2>1, <2>2
<1>2. \A j \in 1 .. i : j \in 1 .. i + 1
  OBVIOUS
<1>3. \A a \in 1 .. Len(order) : \E j \in 1 .. i + 1 : order[a] = list[j]
  BY <1>2 DEF Ordered
<1>4. \A a, b \in 1 .. Len(order) : a < b =>
       \E j \in 1 .. i + 1 : list[j] = order[a] /\ \A k \in 1 .. j : list[k] # order[b]
  BY <1>2 DEF Ordered
<1> QED BY <1>1, <1>3, <1>4 DEF Ordered

\* The first loop after i items.
ReadTo(list, r, i) ==
  /\ Ordered(list, r.order, i)
  /\ DOMAIN r.items = {list[j] : j \in DOMAIN list}
  /\ \A q \in DOMAIN r.items : Collects(list, r.items[q], q, i)

LEMMA ReadNothing ==
  ASSUME NEW list, NEW r, r.order = <<>>, r.items = [q \in {list[j] : j \in DOMAIN list} |-> <<>>]
  PROVE  ReadTo(list, r, 0)
<1>1. Ordered(list, <<>>, 0)
  <2>1. <<>> \in Seq({list[j] : j \in DOMAIN list}) /\ Len(<<>>) = 0
    OBVIOUS
  <2> QED BY <2>1 DEF Ordered
<1>2. ASSUME NEW q PROVE Collects(list, <<>>, q, 0)
  <2>1. <<>> \in Seq(Nat) /\ Len(<<>>) = 0
    OBVIOUS
  <2>2. Cardinality(Upto(list, q, 0)) = 0
    BY UptoCount
  <2> QED BY <2>1, <2>2 DEF Collects
<1> QED BY <1>1, <1>2 DEF ReadTo

LEMMA ReadOneMore ==
  ASSUME NEW K, NEW list \in Seq(K), NEW r, NEW s, NEW i \in Nat, i + 1 <= Len(list),
         ReadTo(list, r, i), Reads(r, s, list[i + 1], i + 1)
  PROVE  ReadTo(list, s, i + 1)
<1>1. i + 1 \in DOMAIN list
  OBVIOUS
<1>2. PICK q : q = list[i + 1]
  OBVIOUS
<1>3. PICK mine : mine = r.items[q]
  OBVIOUS
<1>4. q \in DOMAIN r.items /\ Collects(list, mine, q, i)
  BY <1>1, <1>2, <1>3 DEF ReadTo
<1>5. s.order = (IF mine = <<>> THEN Append(r.order, q) ELSE r.order)
  BY <1>2, <1>3 DEF Reads
<1>6. s.items = [r.items EXCEPT ![q] = Append(mine, i + 1)]
  BY <1>2, <1>3 DEF Reads
<1>7. Ordered(list, s.order, i + 1)
  <2>1. Ordered(list, r.order, i)
    BY DEF ReadTo
  <2>2. CASE mine = <<>>
    <3>1. Len(mine) = 0
      BY <2>2
    <3>2. \A j \in 1 .. i : list[j] # q
      BY <1>4, <3>1 DEF Collects
    <3>3. Ordered(list, Append(r.order, q), i + 1)
      BY <1>1, <1>2, <2>1, <3>2, OrderedNew
    <3> QED BY <1>5, <2>2, <3>3
  <2>3. CASE mine # <<>>
    <3>1. 1 \in 1 .. Len(mine)
      BY <1>4, <2>3 DEF Collects
    <3>2. PICK j \in 1 .. i : list[j] = q
      BY <1>4, <3>1 DEF Collects
    <3>3. Ordered(list, r.order, i + 1)
      BY <1>2, <2>1, <3>2, OrderedOld
    <3> QED BY <1>5, <2>3, <3>3
  <2> QED BY <2>2, <2>3
<1>8. DOMAIN s.items = DOMAIN r.items
  BY <1>6
<1>9. ASSUME NEW k \in DOMAIN r.items PROVE Collects(list, s.items[k], k, i + 1)
  <2>1. CASE k = q
    <3>1. s.items[k] = Append(mine, i + 1)
      BY <1>4, <1>6, <2>1
    <3>2. Collects(list, Append(mine, i + 1), q, i + 1)
      BY <1>2, <1>4, CollectsOneMore
    <3> QED BY <2>1, <3>1, <3>2
  <2>2. CASE k # q
    <3>1. s.items[k] = r.items[k]
      BY <1>6, <2>2
    <3>2. PICK others : others = r.items[k]
      OBVIOUS
    <3>3. Collects(list, others, k, i)
      BY <3>2 DEF ReadTo
    <3>4. Collects(list, others, k, i + 1)
      BY <1>2, <2>2, <3>3, CollectsOthers
    <3> QED BY <3>1, <3>2, <3>4
  <2> QED BY <2>1, <2>2
<1> QED BY <1>7, <1>8, <1>9 DEF ReadTo

LEMMA GroupedRight ==
  ASSUME NEW K, NEW list \in Seq(K)
  PROVE  ReadTo(list, Grouped(list), Len(list))
<1>1. PICK n \in Nat : n = Len(list)
  OBVIOUS
<1>2. PICK read : /\ Grouped(list) = read[n]
                  /\ read[0].order = <<>>
                  /\ read[0].items = [q \in {list[j] : j \in DOMAIN list} |-> <<>>]
                  /\ \A i \in 1 .. n : Reads(read[i - 1], read[i], list[i], i)
  BY <1>1, GroupedRead
<1> DEFINE P == {i \in Nat : i <= n => ReadTo(list, read[i], i)}
<1>3. 0 \in P
  <2>1. PICK r : r = read[0]
    OBVIOUS
  <2>2. ReadTo(list, r, 0)
    BY <1>2, <2>1, ReadNothing
  <2> QED BY <2>1, <2>2
<1>4. ASSUME NEW i \in P PROVE i + 1 \in P
  <2>1. SUFFICES ASSUME i + 1 <= n PROVE ReadTo(list, read[i + 1], i + 1)
    OBVIOUS
  <2>2. PICK r : r = read[i]
    OBVIOUS
  <2>3. PICK s : s = read[i + 1]
    OBVIOUS
  <2>4. i \in Nat /\ ReadTo(list, r, i)
    BY <2>1, <2>2
  <2>5. i + 1 \in 1 .. n /\ (i + 1) - 1 = i
    BY <2>1, <2>4
  <2>6. Reads(read[(i + 1) - 1], read[i + 1], list[i + 1], i + 1)
    BY <1>2, <2>5
  <2>7. Reads(r, s, list[i + 1], i + 1)
    BY <2>2, <2>3, <2>5, <2>6
  <2>8. ReadTo(list, s, i + 1)
    BY <1>1, <2>1, <2>4, <2>7, ReadOneMore
  <2> QED BY <2>3, <2>8
<1>5. P = Nat
  <2>1. P \in SUBSET Nat
    OBVIOUS
  <2> HIDE DEF P
  <2> QED BY <1>3, <1>4, <2>1, Induct
<1>6. ReadTo(list, read[n], n)
  <2>1. \A i \in Nat : i <= n => ReadTo(list, read[i], i)
    BY <1>5
  <2> QED BY <2>1
<1> QED BY <1>1, <1>2, <1>6

\* Quotient and remainder.
LEMMA DivIs ==
  ASSUME NEW r \in Nat, NEW s \in Nat \ {0}
  PROVE  /\ r \div s \in Nat /\ r % s \in 0 .. s - 1 /\ r = s * (r \div s) + (r % s)
         /\ \A d \in Nat : s * d <= r /\ r < s * d + s => r \div s = d /\ r % s = r - s * d
<1>1. r \div s \in Nat /\ r % s \in 0 .. s - 1 /\ r = s * (r \div s) + (r % s)
  OBVIOUS
<1>2. ASSUME NEW d \in Nat, s * d <= r, r < s * d + s PROVE r \div s = d /\ r % s = r - s * d
  <2>1. PICK e \in Nat : e = r \div s
    BY <1>1
  <2>2. PICK p \in Int : p = s * d
    OBVIOUS
  <2>3. PICK o \in Int : o = s * e
    OBVIOUS
  <2>4. o <= r /\ r < o + s /\ p <= r /\ r < p + s
    BY <1>1, <1>2, <2>1, <2>2, <2>3
  <2>5. ~(e < d)
    <3>1. SUFFICES ASSUME e + 1 <= d PROVE FALSE
      OBVIOUS
    <3>2. s * (e + 1) <= s * d
      BY <3>1
    <3>3. s * (e + 1) = o + s
      BY <2>3
    <3> QED BY <2>2, <2>4, <3>2, <3>3
  <2>6. ~(d < e)
    <3>1. SUFFICES ASSUME d + 1 <= e PROVE FALSE
      OBVIOUS
    <3>2. s * (d + 1) <= s * e
      BY <3>1
    <3>3. s * (d + 1) = p + s
      BY <2>2
    <3> QED BY <2>3, <2>4, <3>2, <3>3
  <2>7. e = d
    BY <2>5, <2>6
  <2> QED BY <1>1, <2>1, <2>7
<1> QED BY <1>1, <1>2

\* The number of chunks of a list of n items.
LEMMA ChunkCount ==
  ASSUME NEW n \in Nat, NEW s \in Nat \ {0}
  PROVE  /\ (n + s - 1) \div s \in Nat
         /\ \A c \in 1 .. (n + s - 1) \div s : s * (c - 1) + 1 <= n
         /\ \A r \in Nat : r < n => r \div s + 1 \in 1 .. (n + s - 1) \div s
<1>1. PICK m \in Nat : m = n + s - 1
  OBVIOUS
<1>2. PICK t \in Nat : t = m \div s
  BY DivIs
<1>3. m % s \in 0 .. s - 1 /\ m = s * t + (m % s) /\ s * t \in Nat
  BY <1>2, DivIs
<1>4. ASSUME NEW c \in 1 .. t PROVE s * (c - 1) + 1 <= n
  <2>1. s * c <= s * t
    OBVIOUS
  <2>2. s * (c - 1) = s * c - s /\ s * c \in Nat
    OBVIOUS
  <2> QED BY <1>1, <1>3, <2>1, <2>2
<1>5. ASSUME NEW r \in Nat, r < n PROVE r \div s + 1 \in 1 .. t
  <2>1. PICK d \in Nat : d = r \div s
    BY DivIs
  <2>2. r = s * d + (r % s) /\ r % s \in 0 .. s - 1 /\ s * d \in Nat
    BY <2>1, DivIs
  <2>3. ~(t < d + 1)
    <3>1. SUFFICES ASSUME t <= d PROVE FALSE
      BY <2>1, <1>2
    <3>2. s * t <= s * d
      BY <3>1
    <3>3. m < s * d + s /\ m >= r + s
      BY <1>1, <1>3, <1>5, <2>2, <3>2
    <3> QED BY <2>2, <3>3
  <2> QED BY <2>1, <2>3
<1> QED BY <1>1, <1>2, <1>4, <1>5

\* One chunk is the batch of its question and number.
IsBatch(list, size, chunk, q, c) ==
  /\ chunk.q = q
  /\ {chunk.items[r] : r \in DOMAIN chunk.items} = Members(list, size, <<q, c - 1>>)
  /\ \A r \in DOMAIN chunk.items : RowOf(list, size, chunk.items[r]) = r - 1
  /\ Len(chunk.items) \in 1 .. size /\ DOMAIN chunk.items = 1 .. Len(chunk.items)

LEMMA ChunkIsBatch ==
  ASSUME NEW K, NEW list \in Seq(K), NEW items, NEW q, Collects(list, items, q, Len(list)),
         NEW size \in Nat \ {0}, NEW c \in DOMAIN Chunks(q, items, size)
  PROVE  IsBatch(list, size, Chunks(q, items, size)[c], q, c)
<1>1. PICK n \in Nat : n = Len(items)
  BY DEF Collects
<1>2. PICK m \in Nat : m = Len(list)
  OBVIOUS
<1>3. c \in 1 .. (n + size - 1) \div size
  BY <1>1 DEF Chunks
<1>4. c \in Nat \ {0} /\ c - 1 \in Nat
  BY <1>3, ChunkCount
<1>5. PICK from \in Nat : from = size * (c - 1)
  BY <1>4
<1>6. from + 1 <= n /\ c * size = from + size /\ (c - 1) * size = from
  BY <1>3, <1>4, <1>5, ChunkCount
<1>7. PICK end : end = IF from + size > n THEN n ELSE from + size
  OBVIOUS
<1>8. end \in Nat /\ from + 1 <= end /\ end <= n /\ end <= from + size
  BY <1>6, <1>7
<1>9. PICK cut : cut = SubSeq(items, from + 1, end)
  OBVIOUS
<1>10. PICK chunk : chunk = [q |-> q, items |-> cut]
  OBVIOUS
<1>11. Chunks(q, items, size)[c] = chunk
  BY <1>1, <1>3, <1>6, <1>7, <1>9, <1>10 DEF Chunks
<1>12. /\ Len(cut) = end - from /\ DOMAIN cut = 1 .. end - from
       /\ \A r \in 1 .. end - from : cut[r] = items[from + r]
  <2>1. items \in Seq(Nat)
    BY DEF Collects
  <2> QED BY <1>1, <1>8, <1>9, <2>1
<1>13. ASSUME NEW r \in 1 .. end - from
       PROVE  /\ cut[r] \in 1 .. m /\ list[cut[r]] = q
              /\ Rank(list, cut[r]) \div size = c - 1 /\ Rank(list, cut[r]) % size = r - 1
  <2>1. from + r \in 1 .. n /\ cut[r] = items[from + r]
    BY <1>8, <1>12
  <2>2. /\ cut[r] \in 1 .. m /\ list[cut[r]] = q /\ Rank(list, cut[r]) = (from + r) - 1
    BY <1>1, <1>2, <2>1 DEF Collects
  <2>3. PICK k \in Nat : k = from + r - 1
    OBVIOUS
  <2>4. size * (c - 1) <= k /\ k < size * (c - 1) + size
    BY <1>5, <1>8, <2>3
  <2>5. k \div size = c - 1 /\ k % size = k - size * (c - 1)
    BY <1>4, <2>4, DivIs
  <2> QED BY <1>5, <2>2, <2>3, <2>5
<1>14. ASSUME NEW j \in 1 .. m, list[j] = q, Rank(list, j) \div size = c - 1
       PROVE  \E r \in 1 .. end - from : cut[r] = j
  <2>1. Rank(list, j) + 1 \in 1 .. n /\ items[Rank(list, j) + 1] = j
    BY <1>1, <1>2, <1>14 DEF Collects
  <2>2. PICK k \in Nat : k = Rank(list, j)
    <3>1. Rank(list, j) \in Nat
      BY RankIsNat
    <3> QED BY <3>1
  <2>3. k = size * (c - 1) + (k % size) /\ k % size \in 0 .. size - 1
    <3>1. k = size * (k \div size) + (k % size) /\ k % size \in 0 .. size - 1
      BY DivIs
    <3>2. k \div size = c - 1
      BY <1>14, <2>2
    <3> QED BY <3>1, <3>2
  <2>4. PICK rem \in 0 .. size - 1 : k = from + rem
    BY <1>5, <2>3
  <2>5. k - from + 1 \in 1 .. end - from /\ from + (k - from + 1) = k + 1
    BY <1>7, <2>1, <2>2, <2>4
  <2> QED BY <1>12, <2>1, <2>2, <2>5
<1>15. {cut[r] : r \in 1 .. end - from} = Members(list, size, <<q, c - 1>>)
  <2>1. \A j \in 1 .. m : j \in Members(list, size, <<q, c - 1>>)
                            <=> list[j] = q /\ Rank(list, j) \div size = c - 1
    BY <1>2 DEF Members, BatchOf
  <2>2. Members(list, size, <<q, c - 1>>) \subseteq 1 .. m
    BY <1>2 DEF Members
  <2>3. \A r \in 1 .. end - from : cut[r] \in Members(list, size, <<q, c - 1>>)
    BY <1>13, <2>1
  <2>4. \A j \in Members(list, size, <<q, c - 1>>) : \E r \in 1 .. end - from : cut[r] = j
    BY <1>14, <2>1, <2>2
  <2> QED BY <2>3, <2>4
<1>16. \A r \in 1 .. end - from : RowOf(list, size, cut[r]) = r - 1
  BY <1>13 DEF RowOf
<1>17. Len(cut) \in 1 .. size
  BY <1>8, <1>12
<1>18. chunk.q = q /\ chunk.items = cut
  BY <1>10
<1> QED BY <1>11, <1>12, <1>15, <1>16, <1>17, <1>18 DEF IsBatch

\* The second loop: out joins the pieces ss, one after the other.
Joined(out, ss, n) == out[0] = <<>> /\ \A k \in 1 .. n : out[k] = out[k - 1] \o ss[k]

\* Where the pieces are: piece m after at[m] elements.
Placed(at, ss, total, n) ==
  /\ \A m \in 1 .. n : at[m] \in Nat /\ Len(ss[m]) \in Nat /\ at[m] + Len(ss[m]) <= total
  /\ \A a, b \in 1 .. n : a < b => at[a] + Len(ss[a]) <= at[b]
  /\ \A p \in 1 .. total : \E m \in 1 .. n : p - at[m] \in 1 .. Len(ss[m])

Holding(whole, at, ss, n) ==
  \A m \in 1 .. n : \A j \in 1 .. Len(ss[m]) : whole[at[m] + j] = ss[m][j]

\* The pieces up to k, joined.
JoinedTo(S, whole, at, ss, k) ==
  whole \in Seq(S) /\ Placed(at, ss, Len(whole), k) /\ Holding(whole, at, ss, k)

LEMMA JoinOneMore ==
  ASSUME NEW S, NEW n \in Nat, NEW ss \in [1 .. n -> Seq(S)], NEW k \in Nat, k + 1 <= n,
         NEW at, NEW whole, JoinedTo(S, whole, at, ss, k),
         at[k + 1] = Len(whole)
  PROVE  JoinedTo(S, whole \o ss[k + 1], at, ss, k + 1)
<1>1. PICK more : more = ss[k + 1]
  OBVIOUS
<1>2. k + 1 \in 1 .. n /\ more \in Seq(S) /\ whole \in Seq(S)
  BY <1>1 DEF JoinedTo
<1>3. PICK w \in Nat : w = Len(whole)
  BY <1>2
<1>4. PICK l \in Nat : l = Len(more)
  BY <1>2
<1>5. PICK all : all = whole \o more
  OBVIOUS
<1>6. /\ all \in Seq(S) /\ Len(all) = w + l
      /\ \A p \in 1 .. w : all[p] = whole[p]
      /\ \A j \in 1 .. l : all[w + j] = more[j]
  BY <1>2, <1>3, <1>4, <1>5
<1>7. at[k + 1] = w /\ Len(ss[k + 1]) = l
  BY <1>1, <1>3, <1>4
<1>8. /\ \A m \in 1 .. k : at[m] \in Nat /\ Len(ss[m]) \in Nat /\ at[m] + Len(ss[m]) <= w
      /\ \A a, b \in 1 .. k : a < b => at[a] + Len(ss[a]) <= at[b]
      /\ \A p \in 1 .. w : \E m \in 1 .. k : p - at[m] \in 1 .. Len(ss[m])
  BY <1>3 DEF JoinedTo, Placed
<1>9. Placed(at, ss, w + l, k + 1)
  <2>1. ASSUME NEW m \in 1 .. k + 1
        PROVE  at[m] \in Nat /\ Len(ss[m]) \in Nat /\ at[m] + Len(ss[m]) <= w + l
    <3>1. CASE m = k + 1
      BY <1>7, <3>1
    <3>2. CASE m \in 1 .. k
      BY <1>8, <3>2
    <3> QED BY <3>1, <3>2
  <2>2. ASSUME NEW a \in 1 .. k + 1, NEW b \in 1 .. k + 1, a < b PROVE at[a] + Len(ss[a]) <= at[b]
    <3>1. a \in 1 .. k
      BY <2>2
    <3>2. CASE b = k + 1
      BY <1>7, <1>8, <3>1, <3>2
    <3>3. CASE b \in 1 .. k
      BY <1>8, <2>2, <3>1, <3>3
    <3> QED BY <3>2, <3>3
  <2>3. ASSUME NEW p \in 1 .. w + l PROVE \E m \in 1 .. k + 1 : p - at[m] \in 1 .. Len(ss[m])
    <3>1. CASE p \in 1 .. w
      <4>1. PICK m \in 1 .. k : p - at[m] \in 1 .. Len(ss[m])
        BY <1>8, <3>1
      <4>2. m \in 1 .. k + 1
        OBVIOUS
      <4> QED BY <4>1, <4>2
    <3>2. CASE p > w
      <4>1. k + 1 \in 1 .. k + 1 /\ p - at[k + 1] \in 1 .. Len(ss[k + 1])
        BY <1>7, <3>2
      <4> QED BY <4>1
    <3> QED BY <3>1, <3>2
  <2> QED BY <2>1, <2>2, <2>3 DEF Placed
<1>10. Holding(all, at, ss, k + 1)
  <2>1. ASSUME NEW m \in 1 .. k + 1, NEW j \in 1 .. Len(ss[m])
        PROVE  all[at[m] + j] = ss[m][j]
    <3>1. CASE m = k + 1
      BY <1>1, <1>4, <1>6, <1>7, <3>1
    <3>2. CASE m \in 1 .. k
      <4>1. whole[at[m] + j] = ss[m][j]
        BY <3>2 DEF JoinedTo, Holding
      <4>2. at[m] + j \in 1 .. w
        <5>1. at[m] \in Nat /\ Len(ss[m]) \in Nat /\ at[m] + Len(ss[m]) <= w
          BY <1>8, <3>2
        <5> QED BY <5>1, SMTT(30)
      <4> QED BY <1>6, <4>1, <4>2
    <3> QED BY <3>1, <3>2, SMTT(30)
  <2> QED BY <2>1 DEF Holding
<1> QED BY <1>1, <1>5, <1>6, <1>9, <1>10 DEF JoinedTo

LEMMA JoinAll ==
  ASSUME NEW S, NEW n \in Nat, NEW ss \in [1 .. n -> Seq(S)], NEW out, Joined(out, ss, n)
  PROVE  \E at : JoinedTo(S, out[n], at, ss, n)
<1>1. PICK at : at = [m \in 1 .. n |-> Len(out[m - 1])]
  OBVIOUS
<1> DEFINE P == {k \in Nat : k <= n => JoinedTo(S, out[k], at, ss, k)}
<1>2. 0 \in P
  <2>1. out[0] = <<>>
    BY DEF Joined
  <2>2. <<>> \in Seq(S) /\ Len(<<>>) = 0
    OBVIOUS
  <2>3. JoinedTo(S, <<>>, at, ss, 0)
    BY <2>2 DEF JoinedTo, Placed, Holding
  <2> QED BY <2>1, <2>3
<1>3. ASSUME NEW k \in P PROVE k + 1 \in P
  <2>1. SUFFICES ASSUME k + 1 <= n PROVE JoinedTo(S, out[k + 1], at, ss, k + 1)
    OBVIOUS
  <2>2. PICK whole : whole = out[k]
    OBVIOUS
  <2>3. k \in Nat /\ JoinedTo(S, whole, at, ss, k)
    BY <2>1, <2>2
  <2>4. k + 1 \in 1 .. n /\ (k + 1) - 1 = k
    BY <2>1, <2>3
  <2>5. at[k + 1] = Len(whole)
    BY <1>1, <2>2, <2>4
  <2>6. out[k + 1] = whole \o ss[k + 1]
    BY <2>2, <2>4 DEF Joined
  <2>7. JoinedTo(S, whole \o ss[k + 1], at, ss, k + 1)
    BY <2>1, <2>3, <2>5, JoinOneMore
  <2> QED BY <2>6, <2>7
<1>4. P = Nat
  <2>1. P \in SUBSET Nat
    OBVIOUS
  <2> HIDE DEF P
  <2> QED BY <1>2, <1>3, <2>1, Induct
<1>5. JoinedTo(S, out[n], at, ss, n)
  <2>1. \A k \in Nat : k <= n => JoinedTo(S, out[k], at, ss, k)
    BY <1>4
  <2> QED BY <2>1
<1> QED BY <1>5

IsOut(out, ss, n) == out = [k \in 0 .. n |-> IF k = 0 THEN <<>> ELSE out[k - 1] \o ss[k]]

LEMMA OutExists ==
  ASSUME NEW ss, NEW n \in Nat
  PROVE  \E out : IsOut(out, ss, n)
<1> DEFINE Def(out, k) == IF k = 0 THEN <<>> ELSE out[k - 1] \o ss[k]
           P == {m \in Nat : \E f : f = [k \in 0 .. m |-> Def(f, k)]}
<1>1. 0 \in P
  <2>1. PICK f : f = [k \in 0 .. 0 |-> <<>>]
    OBVIOUS
  <2>2. f = [k \in 0 .. 0 |-> Def(f, k)]
    BY <2>1
  <2> QED BY <2>2
<1>2. ASSUME NEW m \in P PROVE m + 1 \in P
  <2>1. PICK f : f = [k \in 0 .. m |-> Def(f, k)]
    OBVIOUS
  <2>2. m \in Nat
    OBVIOUS
  <2>3. PICK g : g = [k \in 0 .. m + 1 |-> Def(f, k)]
    OBVIOUS
  <2> HIDE DEF Def
  <2>4. \A k \in 0 .. m : g[k] = f[k]
    BY <2>1, <2>2, <2>3
  <2>5. \A k \in 0 .. m + 1 : k # 0 => k - 1 \in 0 .. m
    BY <2>2
  <2>6. \A k \in 0 .. m + 1 : Def(f, k) = Def(g, k)
    BY <2>4, <2>5 DEF Def
  <2>7. g = [k \in 0 .. m + 1 |-> Def(g, k)]
    BY <2>3, <2>6
  <2> QED BY <2>2, <2>7
<1>3. P = Nat
  <2>1. P \in SUBSET Nat
    OBVIOUS
  <2> HIDE DEF P
  <2> QED BY <1>1, <1>2, <2>1, Induct
<1>4. PICK f : f = [k \in 0 .. n |-> Def(f, k)]
  BY <1>3
<1> QED BY <1>4 DEF IsOut

\* The pieces of Packed: the chunks of each question.
Pieces(list, size) ==
  LET byQ == Grouped(list)
  IN  [k \in 1 .. Len(byQ.order) |-> Chunks(byQ.order[k], byQ.items[byQ.order[k]], size)]

LEMMA PackedJoins ==
  ASSUME NEW list, NEW size, NEW n \in Nat, n = Len(Grouped(list).order)
  PROVE  \E out : Packed(list, size) = out[n] /\ Joined(out, Pieces(list, size), n)
<1>1. PICK byQ : byQ = Grouped(list)
  OBVIOUS
<1>2. PICK ss : ss = Pieces(list, size)
  OBVIOUS
<1>3. ss = [k \in 1 .. n |-> Chunks(byQ.order[k], byQ.items[byQ.order[k]], size)]
  BY <1>1, <1>2 DEF Pieces
<1> DEFINE Made(f) == f = [k \in 0 .. n |-> IF k = 0 THEN <<>> ELSE f[k - 1] \o
                             Chunks(byQ.order[k], byQ.items[byQ.order[k]], size)]
<1>4. PICK g : IsOut(g, ss, n)
  BY OutExists
<1>5. \A k \in 0 .. n : k # 0 => ss[k] = Chunks(byQ.order[k], byQ.items[byQ.order[k]], size)
  BY <1>3
<1>6. Made(g)
  BY <1>4, <1>5 DEF IsOut
<1>7. PICK f : f = CHOOSE h : Made(h)
  OBVIOUS
<1>8. Packed(list, size) = f[n]
  BY <1>1, <1>7 DEF Packed
<1> HIDE DEF Made
<1>9. Made(f)
  BY <1>6, <1>7
<1>10. Joined(f, ss, n)
  <2>1. 0 \in 0 .. n /\ f[0] = <<>>
    BY <1>9 DEF Made
  <2>2. ASSUME NEW k \in 1 .. n PROVE f[k] = f[k - 1] \o ss[k]
    <3>1. k \in 0 .. n /\ k # 0
      OBVIOUS
    <3> QED BY <1>5, <1>9, <3>1 DEF Made
  <2> QED BY <2>1, <2>2 DEF Joined
<1> QED BY <1>2, <1>8, <1>10

\* Batch c of question order[m] is at at[m] + c, and every batch is one of these.
Packs(list, size, packed, order, at, ss, n) ==
  /\ Ordered(list, order, Len(list)) /\ n \in Nat /\ n = Len(order)
  /\ Len(packed) \in Nat /\ DOMAIN packed = 1 .. Len(packed) /\ Placed(at, ss, Len(packed), n)
  /\ \A m \in 1 .. n : \A c \in 1 .. Len(ss[m]) :
       c \in Nat /\ IsBatch(list, size, packed[at[m] + c], order[m], c)
  /\ \A m \in 1 .. n : \A j \in 1 .. Len(list) : list[j] = order[m] =>
       Rank(list, j) \div size + 1 \in 1 .. Len(ss[m])

LEMMA PackedRight ==
  ASSUME NEW K, NEW list \in Seq(K), NEW size \in Nat \ {0}
  PROVE  \E order, at, ss, n : Packs(list, size, Packed(list, size), order, at, ss, n)
<1>1. PICK byQ : byQ = Grouped(list)
  OBVIOUS
<1>2. PICK order : order = byQ.order
  OBVIOUS
<1>3. ReadTo(list, byQ, Len(list))
  BY <1>1, GroupedRight
<1>4. Ordered(list, order, Len(list))
  BY <1>2, <1>3 DEF ReadTo
<1>5. PICK n \in Nat : n = Len(order)
  BY <1>4 DEF Ordered
<1>6. PICK ss : ss = Pieces(list, size)
  OBVIOUS
<1>7. PICK S : S = UNION {{ss[m][c] : c \in DOMAIN ss[m]} : m \in 1 .. n}
  OBVIOUS
<1>8. DOMAIN ss = 1 .. n /\ \A m \in 1 .. n : ss[m] = Chunks(order[m], byQ.items[order[m]], size)
  BY <1>1, <1>2, <1>5, <1>6 DEF Pieces
<1>9. ASSUME NEW m \in 1 .. n
      PROVE  /\ Collects(list, byQ.items[order[m]], order[m], Len(list))
             /\ Len(ss[m]) \in Nat /\ DOMAIN ss[m] = 1 .. Len(ss[m]) /\ ss[m] \in Seq(S)
             /\ Len(ss[m]) = (Len(byQ.items[order[m]]) + size - 1) \div size
             /\ Len(byQ.items[order[m]]) \in Nat
  <2>1. PICK q : q = order[m]
    OBVIOUS
  <2>2. PICK items : items = byQ.items[q]
    OBVIOUS
  <2>3. PICK j \in 1 .. Len(list) : q = list[j]
    BY <1>4, <1>5, <2>1 DEF Ordered
  <2>4. q \in DOMAIN byQ.items
    <3>1. j \in DOMAIN list
      OBVIOUS
    <3> QED BY <1>3, <2>3, <3>1 DEF ReadTo
  <2>5. Collects(list, items, q, Len(list))
    BY <1>3, <2>2, <2>4 DEF ReadTo
  <2>6. PICK l \in Nat : l = Len(items)
    BY <2>5 DEF Collects
  <2>7. PICK k \in Nat : k = (l + size - 1) \div size
    BY ChunkCount
  <2>8. PICK s : s = ss[m]
    OBVIOUS
  <2>9. s = Chunks(q, items, size)
    BY <1>8, <2>1, <2>2, <2>8
  <2>10. s = [c \in 1 .. k |-> s[c]]
    BY <2>6, <2>7, <2>9 DEF Chunks
  <2>11. \A c \in 1 .. k : s[c] \in S
    <3>1. PICK T : T = {s[c] : c \in DOMAIN s}
      OBVIOUS
    <3>2. T \subseteq S
      BY <1>7, <2>8, <3>1
    <3>3. DOMAIN s = 1 .. k
      BY <2>10
    <3> QED BY <3>1, <3>2, <3>3
  <2>12. s \in Seq(S) /\ Len(s) = k /\ DOMAIN s = 1 .. k
    <3>1. s \in [1 .. k -> S]
      BY <2>10, <2>11
    <3> QED BY <3>1
  <2> QED BY <2>1, <2>2, <2>5, <2>6, <2>7, <2>8, <2>12
<1>10. ss \in [1 .. n -> Seq(S)]
  <2>1. ss = [m \in 1 .. n |-> ss[m]]
    BY <1>6, <1>8, <1>1, <1>2, <1>5 DEF Pieces
  <2> QED BY <1>9, <2>1
<1>11. PICK out : Packed(list, size) = out[n] /\ Joined(out, ss, n)
  BY <1>1, <1>2, <1>5, <1>6, PackedJoins
<1>12. PICK packed : packed = Packed(list, size)
  OBVIOUS
<1>13. PICK at : JoinedTo(S, out[n], at, ss, n)
  BY <1>10, <1>11, JoinAll
<1>14. JoinedTo(S, packed, at, ss, n)
  BY <1>11, <1>12, <1>13
<1>15. Len(packed) \in Nat /\ DOMAIN packed = 1 .. Len(packed) /\ Placed(at, ss, Len(packed), n)
  BY <1>14 DEF JoinedTo
<1>16. ASSUME NEW m \in 1 .. n, NEW c \in 1 .. Len(ss[m])
       PROVE  c \in Nat /\ IsBatch(list, size, packed[at[m] + c], order[m], c)
  <2>1. PICK q : q = order[m]
    OBVIOUS
  <2>2. PICK items : items = byQ.items[q]
    OBVIOUS
  <2>3. Collects(list, items, q, Len(list))
    BY <1>9, <2>1, <2>2
  <2>4. ss[m] = Chunks(q, items, size)
    BY <1>8, <2>1, <2>2
  <2>5. c \in DOMAIN Chunks(q, items, size)
    BY <1>9, <2>4
  <2>6. IsBatch(list, size, Chunks(q, items, size)[c], q, c)
    BY <2>3, <2>5, ChunkIsBatch
  <2>7. packed[at[m] + c] = ss[m][c]
    BY <1>14 DEF JoinedTo, Holding
  <2>8. c \in Nat
    BY <1>9
  <2> QED BY <2>1, <2>4, <2>6, <2>7, <2>8
<1>17. ASSUME NEW m \in 1 .. n, NEW j \in 1 .. Len(list), list[j] = order[m]
       PROVE  Rank(list, j) \div size + 1 \in 1 .. Len(ss[m])
  <2>1. PICK l \in Nat : l = Len(byQ.items[order[m]])
    BY <1>9
  <2>2. Rank(list, j) + 1 \in 1 .. l
    BY <1>9, <1>17, <2>1 DEF Collects
  <2>3. PICK r \in Nat : r = Rank(list, j) /\ r < l
    <3>1. Rank(list, j) \in Nat
      BY RankIsNat
    <3> QED BY <2>2, <3>1
  <2>4. Len(ss[m]) = (l + size - 1) \div size
    BY <1>9, <2>1
  <2> QED BY <2>3, <2>4, ChunkCount
<1>18. Packs(list, size, packed, order, at, ss, n)
  BY <1>4, <1>5, <1>15, <1>16, <1>17 DEF Packs
<1> QED BY <1>12, <1>18

\* Questions stand once in order.
LEMMA OrderedOnce ==
  ASSUME NEW list, NEW order, NEW i \in Nat, Ordered(list, order, i),
         NEW a \in 1 .. Len(order), NEW b \in 1 .. Len(order), order[a] = order[b]
  PROVE  a = b
<1>1. Len(order) \in Nat
  BY DEF Ordered
<1>2. ASSUME NEW x \in 1 .. Len(order), NEW y \in 1 .. Len(order), x < y, order[x] = order[y] PROVE FALSE
  <2>1. PICK j \in 1 .. i : list[j] = order[x] /\ \A k \in 1 .. j : list[k] # order[y]
    BY <1>2 DEF Ordered
  <2>2. j \in 1 .. j
    OBVIOUS
  <2> QED BY <1>2, <2>1, <2>2
<1> QED BY <1>1, <1>2

LEMMA NameIs ==
  ASSUME NEW K, NEW list \in Seq(K), NEW size, NEW packed, NEW order, NEW at, NEW ss, NEW n,
         Packs(list, size, packed, order, at, ss, n),
         NEW m \in 1 .. n, NEW c \in 1 .. Len(ss[m])
  PROVE  at[m] + c \in 1 .. Len(packed) /\ Name(packed, at[m] + c) = <<order[m], c - 1>>
<1>1. n \in Nat /\ n = Len(order) /\ Len(packed) \in Nat /\ Ordered(list, order, Len(list))
  BY DEF Packs
<1>2. PICK w \in Nat : w = at[m]
  BY DEF Packs, Placed
<1>3. c \in Nat /\ 1 <= c /\ w + c <= Len(packed)
  <2>1. Len(ss[m]) \in Nat /\ at[m] + Len(ss[m]) <= Len(packed)
    BY DEF Packs, Placed
  <2> QED BY <1>1, <1>2, <2>1
<1>4. PICK p \in Nat : p = w + c
  BY <1>3
<1>5. packed[p].q = order[m]
  BY <1>2, <1>4 DEF Packs, IsBatch
<1>6. ASSUME NEW l \in 1 .. p - 1 PROVE packed[l].q = order[m] <=> l \in w + 1 .. p - 1
  <2>1. l \in 1 .. Len(packed)
    BY <1>1, <1>3, <1>4
  <2>2. PICK a \in 1 .. n : l - at[a] \in 1 .. Len(ss[a])
    BY <2>1 DEF Packs, Placed
  <2>3. PICK v \in Nat : v = at[a]
    BY DEF Packs, Placed
  <2>4. PICK d \in Nat : d = l - v /\ d \in 1 .. Len(ss[a]) /\ l = v + d
    BY <2>2, <2>3
  <2>5. packed[l].q = order[a]
    <3>1. at[a] + d = l
      BY <2>3, <2>4
    <3>2. IsBatch(list, size, packed[at[a] + d], order[a], d)
      BY <2>4 DEF Packs
    <3> QED BY <3>1, <3>2 DEF IsBatch
  <2>6. /\ v + Len(ss[a]) \in Nat /\ w + Len(ss[m]) \in Nat
        /\ a < m => v + Len(ss[a]) <= w
        /\ m < a => w + Len(ss[m]) <= v
    <3>1. Placed(at, ss, Len(packed), n)
      BY DEF Packs
    <3>2. Len(ss[a]) \in Nat /\ Len(ss[m]) \in Nat
      BY <3>1 DEF Placed
    <3>3. a < m => at[a] + Len(ss[a]) <= at[m]
      BY <3>1 DEF Placed
    <3>4. m < a => at[m] + Len(ss[m]) <= at[a]
      BY <3>1 DEF Placed
    <3>5. a < m => v + Len(ss[a]) <= w
      BY <1>2, <2>3, <3>3
    <3>6. m < a => w + Len(ss[m]) <= v
      BY <1>2, <2>3, <3>4
    <3>7. v + Len(ss[a]) \in Nat /\ w + Len(ss[m]) \in Nat
      BY <3>2
    <3> QED BY <3>5, <3>6, <3>7
  <2>7. l \in w + 1 .. p - 1 => a = m
    <3>1. Len(ss[a]) \in Nat /\ Len(ss[m]) \in Nat
      BY DEF Packs, Placed
    <3>2. a < m => l <= w
      BY <2>4, <2>6, <3>1
    <3>3. m < a => w + c < l
      BY <2>4, <2>6, <3>1, <1>3
    <3> QED BY <1>3, <1>4, <3>2, <3>3
  <2>8. order[a] = order[m] => a = m
    BY <1>1, OrderedOnce
  <2>9. a = m => v = w
    BY <1>2, <2>3
  <2>10. a = m => l \in w + 1 .. p - 1
    BY <2>4, <2>9
  <2> QED BY <2>5, <2>7, <2>8, <2>10
<1>7. {l \in 1 .. p - 1 : packed[l].q = packed[p].q} = w + 1 .. p - 1
  <2>1. w + 1 .. p - 1 \subseteq 1 .. p - 1
    OBVIOUS
  <2> QED BY <1>5, <1>6, <2>1
<1>8. Cardinality(w + 1 .. p - 1) = c - 1
  <2>1. PICK u \in Int, t \in Int : u = w + 1 /\ t = p - 1
    OBVIOUS
  <2>2. Cardinality(u .. t) = IF u > t THEN 0 ELSE t - u + 1
    BY FS_Interval
  <2> QED BY <1>3, <1>4, <2>1, <2>2
<1>9. Name(packed, p) = <<order[m], c - 1>>
  BY <1>5, <1>7, <1>8 DEF Name
<1> QED BY <1>1, <1>2, <1>3, <1>4, <1>9

LEMMA BeforeIs ==
  ASSUME NEW K, NEW list \in Seq(K), NEW order, Ordered(list, order, Len(list)),
         NEW a \in 1 .. Len(order), NEW b \in 1 .. Len(order), NEW c \in Int, NEW d \in Int
  PROVE  Before(list, <<order[a], c>>, <<order[b], d>>) <=> a < b \/ (a = b /\ c < d)
<1>1. Len(order) \in Nat /\ Len(list) \in Nat
  <2>1. Len(order) \in Nat
    BY DEF Ordered
  <2> QED BY <2>1
<1>2. CASE a = b
  BY <1>1, <1>2 DEF Before
<1>3. CASE a < b
  <2>1. PICK j \in 1 .. Len(list) : list[j] = order[a] /\ \A k \in 1 .. j : list[k] # order[b]
    BY <1>3 DEF Ordered
  <2>2. order[a] # order[b]
    BY <1>1, <1>3, OrderedOnce
  <2> QED BY <1>3, <2>1, <2>2 DEF Before
<1>4. CASE b < a
  <2>1. PICK j \in 1 .. Len(list) : list[j] = order[b] /\ \A k \in 1 .. j : list[k] # order[a]
    BY <1>4 DEF Ordered
  <2>2. order[a] # order[b]
    BY <1>1, <1>4, OrderedOnce
  <2>3. ASSUME NEW i \in 1 .. Len(list), list[i] = order[a], \A k \in 1 .. i : list[k] # order[b]
        PROVE  FALSE
    <3>1. ~(j <= i)
      BY <1>1, <2>1, <2>3
    <3>2. ~(i <= j)
      BY <1>1, <2>1, <2>3
    <3> QED BY <1>1, <3>1, <3>2
  <2>4. ~Before(list, <<order[a], c>>, <<order[b], d>>)
    BY <2>2, <2>3 DEF Before
  <2> QED BY <1>1, <1>4, <2>4
<1> QED BY <1>1, <1>2, <1>3, <1>4

\* The loops of Client.Batches (typesafe/client.go), whatever the items: the
\* batches are those of the declarative packing, each with its items in order of
\* their `row_i`, and the goroutines start in the order Before says.
THEOREM LoopsPack ==
  ASSUME NEW K, NEW list \in Seq(K), NEW size \in Nat \ {0}
  PROVE  Matches(list, size, Packed(list, size))
<1>1. PICK packed : packed = Packed(list, size)
  OBVIOUS
<1>2. PICK order, at, ss, n : Packs(list, size, packed, order, at, ss, n)
  BY <1>1, PackedRight
<1>3. /\ n \in Nat /\ n = Len(order) /\ Len(packed) \in Nat /\ DOMAIN packed = 1 .. Len(packed)
      /\ Ordered(list, order, Len(list))
  BY <1>2 DEF Packs
<1>4. ASSUME NEW k \in DOMAIN packed
      PROVE  \E m \in 1 .. n : \E c \in 1 .. Len(ss[m]) :
               k = at[m] + c /\ Name(packed, k) = <<order[m], c - 1>>
                 /\ c \in Nat /\ IsBatch(list, size, packed[k], order[m], c)
  <2>1. PICK m \in 1 .. n : k - at[m] \in 1 .. Len(ss[m])
    BY <1>2, <1>3 DEF Packs, Placed
  <2>2. at[m] \in Nat
    BY <1>2 DEF Packs, Placed
  <2>3. PICK c \in 1 .. Len(ss[m]) : k = at[m] + c
    BY <1>3, <2>1, <2>2
  <2>4. Name(packed, at[m] + c) = <<order[m], c - 1>>
    BY <1>2, NameIs
  <2>5. c \in Nat /\ IsBatch(list, size, packed[at[m] + c], order[m], c)
    BY <1>2 DEF Packs
  <2> QED BY <2>3, <2>4, <2>5
<1>5. {Name(packed, k) : k \in DOMAIN packed} = BatchesOf(list, size)
  <2>1. ASSUME NEW k \in DOMAIN packed PROVE Name(packed, k) \in BatchesOf(list, size)
    <3>1. PICK m \in 1 .. n, c \in Nat :
            Name(packed, k) = <<order[m], c - 1>> /\ IsBatch(list, size, packed[k], order[m], c)
      BY <1>4
    <3>2. PICK items : items = packed[k].items
      OBVIOUS
    <3>3. Len(items) \in 1 .. size /\ 1 \in DOMAIN items
          /\ {items[r] : r \in DOMAIN items} = Members(list, size, <<order[m], c - 1>>)
      BY <3>1, <3>2, SMTT(30) DEF IsBatch
    <3>4. PICK i \in Members(list, size, <<order[m], c - 1>>) : TRUE
      BY <3>3
    <3> QED BY <3>1, <3>4 DEF Members, BatchesOf
  <2>2. ASSUME NEW i \in 1 .. Len(list)
        PROVE  \E k \in DOMAIN packed : Name(packed, k) = BatchOf(list, size, i)
    <3>1. PICK m \in 1 .. n : order[m] = list[i]
      BY <1>3 DEF Ordered
    <3>2. PICK c \in 1 .. Len(ss[m]) : c = Rank(list, i) \div size + 1
      BY <1>2, <3>1 DEF Packs
    <3>3. at[m] + c \in 1 .. Len(packed) /\ Name(packed, at[m] + c) = <<order[m], c - 1>>
      BY <1>2, NameIs
    <3>4. c - 1 = Rank(list, i) \div size
      <4>1. Rank(list, i) \in Nat
        BY RankIsNat
      <4>2. PICK d \in Nat : d = Rank(list, i) \div size
        BY <4>1, DivIs
      <4> QED BY <3>2, <4>2
    <3> QED BY <1>3, <3>1, <3>3, <3>4 DEF BatchOf
  <2> QED BY <2>1, <2>2 DEF BatchesOf
<1>6. ASSUME NEW k \in DOMAIN packed
      PROVE  /\ {packed[k].items[r] : r \in DOMAIN packed[k].items}
                  = Members(list, size, Name(packed, k))
             /\ \A r \in DOMAIN packed[k].items : RowOf(list, size, packed[k].items[r]) = r - 1
             /\ Len(packed[k].items) \in 1 .. size
  <2>1. PICK m \in 1 .. n, c \in Nat :
          Name(packed, k) = <<order[m], c - 1>> /\ IsBatch(list, size, packed[k], order[m], c)
    BY <1>4
  <2> QED BY <2>1 DEF IsBatch
<1>7. ASSUME NEW k \in DOMAIN packed, NEW l \in DOMAIN packed
      PROVE  k < l <=> Before(list, Name(packed, k), Name(packed, l))
  <2>1. PICK a \in 1 .. n, c \in Nat :
          c \in 1 .. Len(ss[a]) /\ k = at[a] + c /\ Name(packed, k) = <<order[a], c - 1>>
    BY <1>4
  <2>2. PICK b \in 1 .. n, d \in Nat :
          d \in 1 .. Len(ss[b]) /\ l = at[b] + d /\ Name(packed, l) = <<order[b], d - 1>>
    BY <1>4
  <2>3. Before(list, <<order[a], c - 1>>, <<order[b], d - 1>>) <=> a < b \/ (a = b /\ c - 1 < d - 1)
    <3>1. PICK x \in Int, y \in Int : x = c - 1 /\ y = d - 1
      BY <2>1, <2>2
    <3> QED BY <1>3, <3>1, BeforeIs
  <2>4. Placed(at, ss, Len(packed), n)
    BY <1>2 DEF Packs
  <2>5. PICK x \in Nat, y \in Nat : x = at[a] /\ y = at[b]
    BY <2>4 DEF Placed
  <2>6. PICK u \in Nat, v \in Nat : u = Len(ss[a]) /\ v = Len(ss[b])
    BY <2>4 DEF Placed
  <2>7. k = x + c /\ l = y + d /\ c \in 1 .. u /\ d \in 1 .. v
    BY <2>1, <2>2, <2>5, <2>6
  <2>8. (a < b => x + u <= y) /\ (b < a => y + v <= x) /\ (a = b => x = y)
    <3>1. a < b => at[a] + Len(ss[a]) <= at[b]
      BY <2>4 DEF Placed
    <3>2. b < a => at[b] + Len(ss[b]) <= at[a]
      BY <2>4 DEF Placed
    <3> QED BY <2>5, <2>6, <3>1, <3>2
  <2>9. k < l <=> a < b \/ (a = b /\ c - 1 < d - 1)
    BY <1>3, <2>7, <2>8
  <2> QED BY <2>1, <2>2, <2>3, <2>9
<1>8. Matches(list, size, packed)
  BY <1>5, <1>6, <1>7 DEF Matches
<1> QED BY <1>1, <1>8

\* The batches a Judge call runs are as many as the loops cut, and the loops are
\* right on the lists TLC looks at too, which are some of all lists.
THEOREM PackingHolds == Spec => []PackingMatches
<1>1. ASSUME TypeOK PROVE Cardinality(DOMAIN phase) = Len(Packed(Asked, BatchSize))
  <2>1. PICK packed : packed = Packed(Asked, BatchSize)
    OBVIOUS
  <2>2. Matches(Asked, BatchSize, packed)
    BY <2>1, LoopsPack, AskedAssumption, BatchSizeAssumption
  <2>3. PICK n \in Nat : n = Len(packed) /\ DOMAIN packed = 1 .. n
    <3>1. PICK order, at, ss, m : Packs(Asked, BatchSize, packed, order, at, ss, m)
      BY <2>1, PackedRight, AskedAssumption, BatchSizeAssumption
    <3> QED BY <3>1 DEF Packs
  <2>4. PICK name : name = [k \in 1 .. n |-> Name(packed, k)]
    OBVIOUS
  <2>5. /\ \A k \in 1 .. n : name[k] \in Batches
        /\ \A b \in Batches : \E k \in 1 .. n : name[k] = b
    <3>1. {Name(packed, k) : k \in 1 .. n} = Batches
      BY <2>2, <2>3 DEF Matches, Batches
    <3> QED BY <2>4, <3>1
  <2>6. ASSUME NEW k \in 1 .. n, NEW l \in 1 .. n, name[k] = name[l] PROVE k = l
    <3>1. k < l <=> Before(Asked, name[k], name[l])
      BY <2>2, <2>3, <2>4 DEF Matches
    <3>2. k < k <=> Before(Asked, name[k], name[k])
      BY <2>2, <2>3, <2>4 DEF Matches
    <3>3. l < k <=> Before(Asked, name[l], name[k])
      BY <2>2, <2>3, <2>4 DEF Matches
    <3> QED BY <2>6, <3>1, <3>2, <3>3
  <2>7. name \in Bijection(1 .. n, Batches)
    <3>1. name \in [1 .. n -> Batches]
      BY <2>4, <2>5
    <3>2. name \in Injection(1 .. n, Batches)
      BY <2>6, <3>1 DEF Injection, IsInjective
    <3>3. name \in Surjection(1 .. n, Batches)
      BY <2>5, <3>1 DEF Surjection
    <3> QED BY <3>2, <3>3 DEF Bijection
  <2>8. IsFiniteSet(1 .. n) /\ Cardinality(1 .. n) = n
    <3>1. 1 \in Int /\ n \in Int /\ (IF 1 > n THEN 0 ELSE n - 1 + 1) = n
      OBVIOUS
    <3> QED BY <3>1, FS_Interval
  <2>9. Cardinality(Batches) = n
    BY <2>7, <2>8, FS_Bijection DEF ExistsBijection
  <2>10. DOMAIN phase = Batches
    BY <1>1 DEF TypeOK
  <2> QED BY <2>1, <2>3, <2>9, <2>10
<1>2. LoopsAgree
  <2>1. Lists \subseteq Seq({"a", "b", "c"})
    <3>1. PICK S : S = {"a", "b", "c"}
      OBVIOUS
    <3>2. ASSUME NEW n \in 0 .. 5, NEW list \in [1 .. n -> S] PROVE list \in Seq(S)
      OBVIOUS
    <3> QED BY <3>1, <3>2 DEF Lists
  <2>2. \A size \in 1 .. 3 : size \in Nat \ {0}
    OBVIOUS
  <2> QED BY <2>1, <2>2, LoopsPack DEF LoopsAgree
<1>3. ASSUME TypeOK PROVE PackingMatches
  BY <1>1, <1>2, <1>3 DEF PackingMatches
<1> QED BY <1>3, TypeCorrect, PTL
=============================================================================
