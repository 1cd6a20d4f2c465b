---------------------------- MODULE JudgeClient ----------------------------
(***************************************************************************)
(* One call of Client.Judge (internal/typesafe/client.go): its items are   *)
(* packed into batches, every batch is a goroutine of an errgroup limited  *)
(* to Concurrency, and every goroutine posts its batch, retries with       *)
(* backoff, writes the answers into its items, and tallies under a mutex.  *)
(* The first error cancels the group's context; the caller may cancel the  *)
(* call's own context at any time.                                         *)
(***************************************************************************)
EXTENDS Batching

CONSTANTS Asked,        \* the items: the sequence of their question keys
          BatchSize,    \* Client.BatchSize, 40 unless configured
          Concurrency,  \* Client.Concurrency, 6 unless configured
          MaxRetries    \* Client.MaxRetries, 4

ASSUME AskedAssumption == Asked \in Seq(STRING)
ASSUME BatchSizeAssumption == BatchSize \in Nat \ {0}
ASSUME ConcurrencyAssumption == Concurrency \in Nat \ {0}
ASSUME MaxRetriesAssumption == MaxRetries \in Nat

Items == 1 .. Len(Asked)
Batches == BatchesOf(Asked, BatchSize)
ItemsOf == [b \in Batches |-> Members(Asked, BatchSize, b)]
Home == [i \in Items |-> BatchOf(Asked, BatchSize, i)]
Row == [i \in Items |-> RowOf(Asked, BatchSize, i)]
Ahead == [b \in Batches |-> {c \in Batches : Before(Asked, c, b)}]

\* What TypeSafe says of item i's row under i's question; `null` before.
Judgement(i) == <<"judged", Asked[i], i>>
NoAnswer == <<"null">>
Answers == {Judgement(i) : i \in Items}

VARIABLES phase,     \* where each batch's goroutine is
          attempt,   \* judgeBatch's loop variable
          lastErr,   \* the error each batch is about to return
          answer,    \* Item.Answer
          groupErr,  \* errgroup's first error
          cancelled, \* the caller cancelled its context
          tally,     \* done and itemsDone, under mu
          progress,  \* the Progress each batch took under mu
          result,    \* what Judge returned
          wire       \* history: requests each batch put on the wire

vars == <<phase, attempt, lastErr, answer, groupErr, cancelled, tally, progress,
          result, wire>>

Phases == {"queued",    \* g.Go not called yet
           "posting",   \* about to call HTTP.Do
           "waiting",   \* the request is on the wire
           "backoff",   \* sleeping before the next attempt
           "tallying",  \* judgeBatch succeeded, about to take mu
           "reporting", \* mu released, about to call progress
           "failing",   \* judgeBatch failed, errOnce not reached
           "done", "failed"}

\* An error's kind: an APIError with an HTTP status, an APIError of Status 0
\* for a request that got no response, ctx.Err(), or a plain error for a
\* response that cannot be used.  `induced` (history) says that the group was
\* already cancelled when the error arose.
Errors == [kind : {"status", "transport", "ctx", "answer"}, induced : BOOLEAN]
NoError == [kind |-> "none", induced |-> FALSE]

NoTally == [batches |-> 0, items |-> 0]
NoResult == [returned |-> FALSE, err |-> NoError, requests |-> 0]

\* The group's context is done.
GroupDone == cancelled \/ groupErr # NoError

Running == {b \in Batches : phase[b] \notin {"queued", "done", "failed"}}

\* Mutant of Request: the rows are sent in reverse.
RequestReversed ==
  [b \in Batches |-> [r \in {Row[i] : i \in ItemsOf[b]} |->
     CHOOSE i \in ItemsOf[b] : Row[i] = Cardinality(ItemsOf[b]) - 1 - r]]

\* The request of batch b: the item whose row is sent as `row_r`.
Request == [b \in Batches |-> [r \in {Row[i] : i \in ItemsOf[b]} |->
                 CHOOSE i \in ItemsOf[b] : Row[i] = r]]

\* The service (not in this repository) judges every row it was sent under
\* the batch's question; answers[r] is its answer for `row_r`.
Response == [b \in Batches |-> [r \in DOMAIN Request[b] |-> Judgement(Request[b][r])]]

Init == /\ phase = [b \in Batches |-> "queued"]
        /\ attempt = [b \in Batches |-> 0]
        /\ lastErr = [b \in Batches |-> NoError]
        /\ answer = [i \in Items |-> NoAnswer]
        /\ groupErr = NoError
        /\ cancelled = FALSE
        /\ tally = NoTally
        /\ progress = [b \in Batches |-> NoTally]
        /\ result = NoResult
        /\ wire = [b \in Batches |-> 0]

Move(b, from, to) == phase[b] = from /\ phase' = [phase EXCEPT ![b] = to]

\* judgeBatch returns an error of this kind.
Fail(b, from, kind) ==
  /\ Move(b, from, "failing")
  /\ lastErr' = [lastErr EXCEPT ![b] = [kind |-> kind, induced |-> GroupDone]]

\* The loop over batches: g.Go blocks while Concurrency goroutines run.
Launch(b) ==
  /\ \A c \in Ahead[b] : phase[c] # "queued"
  /\ Cardinality(Running) < Concurrency
  /\ Move(b, "queued", "posting")
  /\ UNCHANGED <<attempt, lastErr, answer, groupErr, cancelled, tally, progress,
                 result, wire>>

\* post puts the request on the wire, unless its context is already done:
\* HTTP.Do then fails at once and post wraps it as APIError{Status: 0}.
Post(b) ==
  /\ ~GroupDone
  /\ Move(b, "posting", "waiting")
  /\ wire' = [wire EXCEPT ![b] = @ + 1]
  /\ UNCHANGED <<attempt, lastErr, answer, groupErr, cancelled, tally, progress, result>>

PostAfterDone(b) ==
  /\ GroupDone
  /\ Fail(b, "posting", "transport")
  /\ UNCHANGED <<attempt, answer, groupErr, cancelled, tally, progress, result, wire>>

\* Mutant of Answered: `continue` on a missing answer instead of an error.
AnsweredSkipping(b, good) ==
  /\ answer' = [i \in Items |-> IF i \in ItemsOf[b] /\ Row[i] < good
                                THEN Response[b][Row[i]] ELSE answer[i]]
  /\ Move(b, "waiting", "tallying")
  /\ UNCHANGED <<attempt, lastErr, groupErr, cancelled, tally, progress, result, wire>>

\* A decoded 2xx response.  `good` is the number of rows the loop decodes
\* before one that is missing or malformed; those items keep their answers.
Answered(b, good) ==
  /\ answer' = [i \in Items |-> IF i \in ItemsOf[b] /\ Row[i] < good
                                THEN Response[b][Row[i]] ELSE answer[i]]
  /\ \/ /\ \A i \in ItemsOf[b] : Row[i] < good
        /\ Move(b, "waiting", "tallying")
        /\ UNCHANGED lastErr
     \/ /\ \E i \in ItemsOf[b] : Row[i] = good
        /\ Fail(b, "waiting", "answer")
  /\ UNCHANGED <<attempt, groupErr, cancelled, tally, progress, result, wire>>

\* Mutant of Retryable: one attempt too many.
RetryableOnceMore(b, kind) ==
  /\ IF GroupDone \/ attempt[b] > MaxRetries
       THEN Fail(b, "waiting", kind) /\ UNCHANGED attempt
       ELSE /\ Move(b, "waiting", "backoff")
            /\ attempt' = [attempt EXCEPT ![b] = @ + 1]
            /\ UNCHANGED lastErr
  /\ UNCHANGED <<answer, groupErr, cancelled, tally, progress, result, wire>>

\* HTTP 429, HTTP 5xx, a body that cannot be read or decoded, or no answers.
Retryable(b, kind) ==
  /\ IF GroupDone
       THEN Fail(b, "waiting", "ctx") /\ UNCHANGED attempt
     ELSE IF attempt[b] = MaxRetries
       THEN Fail(b, "waiting", kind) /\ UNCHANGED attempt
       ELSE /\ Move(b, "waiting", "backoff")
            /\ attempt' = [attempt EXCEPT ![b] = @ + 1]
            /\ UNCHANGED lastErr
  /\ UNCHANGED <<answer, groupErr, cancelled, tally, progress, result, wire>>

\* Any other status, or no response at all (a lost connection, the client's
\* timeout, the context done while waiting): returned without a retry.
Refused(b, kind) ==
  /\ Fail(b, "waiting", kind)
  /\ UNCHANGED <<attempt, answer, groupErr, cancelled, tally, progress, result, wire>>

BackoffElapsed(b) ==
  /\ Move(b, "backoff", "posting")
  /\ UNCHANGED <<attempt, lastErr, answer, groupErr, cancelled, tally, progress,
                 result, wire>>

BackoffCancelled(b) ==
  /\ GroupDone
  /\ Fail(b, "backoff", "ctx")
  /\ UNCHANGED <<attempt, answer, groupErr, cancelled, tally, progress, result, wire>>

\* Mutant of Tally: the lock is released before progress is filled in, so
\* another batch may be counted in between (here: the values of Report time).
TallyNotCopied(b) ==
  /\ Move(b, "tallying", "reporting")
  /\ tally' = [batches |-> tally.batches + 1,
               items |-> tally.items + Cardinality(ItemsOf[b])]
  /\ progress' = [c \in Batches |-> IF c = b \/ phase[c] = "reporting" THEN tally' ELSE progress[c]]
  /\ UNCHANGED <<attempt, lastErr, answer, groupErr, cancelled, result, wire>>

\* The critical section under mu, progress copied inside it.
Tally(b) ==
  /\ Move(b, "tallying", "reporting")
  /\ tally' = [batches |-> tally.batches + 1,
               items |-> tally.items + Cardinality(ItemsOf[b])]
  /\ progress' = [progress EXCEPT ![b] = tally']
  /\ UNCHANGED <<attempt, lastErr, answer, groupErr, cancelled, result, wire>>

\* The callback runs outside mu; then the goroutine ends and frees its slot.
Report(b) ==
  /\ Move(b, "reporting", "done")
  /\ UNCHANGED <<attempt, lastErr, answer, groupErr, cancelled, tally, progress,
                 result, wire>>

\* Mutant of RecordError: every error overwrites the one before.
RecordLastError(b) ==
  /\ Move(b, "failing", "failed")
  /\ groupErr' = lastErr[b]
  /\ UNCHANGED <<attempt, lastErr, answer, cancelled, tally, progress, result, wire>>

\* errgroup: errOnce keeps the first error and cancels the context.
RecordError(b) ==
  /\ Move(b, "failing", "failed")
  /\ groupErr' = IF groupErr = NoError THEN lastErr[b] ELSE groupErr
  /\ UNCHANGED <<attempt, lastErr, answer, cancelled, tally, progress, result, wire>>

\* The caller: Ctrl-C, a client that hung up, the server shutting down.
Cancel ==
  /\ ~cancelled /\ ~result.returned
  /\ cancelled' = TRUE
  /\ UNCHANGED <<phase, attempt, lastErr, answer, groupErr, tally, progress, result, wire>>

\* Mutants of Return: back as soon as one batch failed; a failed batch never
\* counted as ended.
ReturnAtFirstError ==
  /\ ~result.returned
  /\ groupErr # NoError \/ \A b \in Batches : phase[b] \in {"done", "failed"}
  /\ result' = [returned |-> TRUE, err |-> groupErr, requests |-> tally.batches]
  /\ UNCHANGED <<phase, attempt, lastErr, answer, groupErr, cancelled, tally, progress, wire>>

ReturnWhenAllDone ==
  /\ ~result.returned
  /\ \A b \in Batches : phase[b] = "done"
  /\ result' = [returned |-> TRUE, err |-> groupErr, requests |-> tally.batches]
  /\ UNCHANGED <<phase, attempt, lastErr, answer, groupErr, cancelled, tally, progress, wire>>

\* g.Wait: every batch was started and has ended.
Return ==
  /\ ~result.returned
  /\ \A b \in Batches : phase[b] \in {"done", "failed"}
  /\ result' = [returned |-> TRUE, err |-> groupErr, requests |-> tally.batches]
  /\ UNCHANGED <<phase, attempt, lastErr, answer, groupErr, cancelled, tally, progress, wire>>

Receive(b) ==
  \/ \E good \in 0 .. BatchSize : Answered(b, good)
  \/ \E kind \in {"status", "answer"} : Retryable(b, kind)
  \/ \E kind \in {"status", "transport"} : Refused(b, kind)

Step(b) == \/ Launch(b) \/ Post(b) \/ PostAfterDone(b) \/ Receive(b)
           \/ BackoffElapsed(b) \/ BackoffCancelled(b)
           \/ Tally(b) \/ Report(b) \/ RecordError(b)

\* After Judge returned nothing of it runs any more.
Returned == result.returned /\ UNCHANGED vars

Next == (\E b \in Batches : Step(b)) \/ Cancel \/ Return \/ Returned

\* Go schedules every runnable goroutine, the HTTP client's 120 s timeout ends
\* every request and every backoff timer fires.  Nobody need cancel.
Fairness == WF_vars(Return) /\ \A b \in Batches : WF_vars(Step(b))

Spec == Init /\ [][Next]_vars
FairSpec == Spec /\ Fairness
-----------------------------------------------------------------------------
TypeOK ==
  /\ phase \in [Batches -> Phases]
  /\ attempt \in [Batches -> 0 .. MaxRetries]
  /\ lastErr \in [Batches -> Errors \cup {NoError}]
  /\ answer \in [Items -> Answers \cup {NoAnswer}]
  /\ groupErr \in Errors \cup {NoError}
  /\ cancelled \in BOOLEAN
  /\ tally \in [batches : Nat, items : Nat]
  /\ progress \in [Batches -> [batches : Nat, items : Nat]]
  /\ result \in [returned : BOOLEAN, err : Errors \cup {NoError}, requests : Nat]
  /\ wire \in [Batches -> Nat]

\* Whatever is retried, reordered or half decoded, an item holds no answer but
\* the judgement of its own row under its own question (judgeBatch's `row_i`).
AnsweredByOwnRow == \A i \in Items : answer[i] \in {NoAnswer, Judgement(i)}

\* A nil error from Judge means that every item is answered and that the usage
\* counts every batch's request: no batch was dropped by the limit, a retry or
\* the error path of another goroutine.
AllOrError ==
  result.returned /\ result.err = NoError =>
    /\ \A i \in Items : answer[i] # NoAnswer
    /\ result.requests = Cardinality(Batches)

\* Unless the caller cancelled, the error Judge returns is one that happened on
\* its own, never the echo of the group's cancellation in another batch
\* (errgroup keeps the first error; g.Wait hands it out).
CauseReported ==
  result.returned /\ ~cancelled => ~result.err.induced

\* The load put on the service: at most Concurrency requests are outstanding
\* and no batch is sent more than 1 + MaxRetries times.
LoadBounded ==
  /\ Cardinality({b \in Batches : phase[b] = "waiting"}) <= Concurrency
  /\ \A b \in Batches : wire[b] <= MaxRetries + 1

\* The batches that have been through the critical section of Judge.
Tallied == {b \in Batches : phase[b] \in {"reporting", "done"}}

\* The progress callbacks are numbered 1, 2, ... without a gap or a repeat, and
\* the one numbered n counts the items of exactly the batches numbered up to n,
\* in whatever order the callbacks are made.
ProgressExact ==
  /\ {progress[b].batches : b \in Tallied} = 1 .. Cardinality(Tallied)
  /\ \A b \in Tallied :
       progress[b].items =
         Cardinality({i \in Items :
                         /\ Home[i] \in Tallied
                         /\ progress[Home[i]].batches <= progress[b].batches})

\* Judge returns, cancelled or not: no batch is left waiting for a slot, the
\* mutex, a timer or a response for ever.
JudgeReturns == <>result.returned

\* Judge keeps the promise made to exec.judge and exec.JudgeRows.
Promise == INSTANCE JudgePromise WITH
             finished <- result.returned,
             failed <- result.err # NoError
KeepsPromise == Promise!Spec
=============================================================================
