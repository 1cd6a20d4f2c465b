---------------------------- MODULE JudgePromise ----------------------------
(***************************************************************************)
(* What Client.Judge promises its callers (exec.judge and exec.JudgeRows): *)
(* items are only ever given the judgement of their own row under their    *)
(* own question, an answer once given is not taken back, and Judge returns *)
(* once, with no error only if every item has its answer.  Batches,        *)
(* goroutines, retries and cancellation do not appear.                     *)
(***************************************************************************)
CONSTANTS Items,          \* the items passed to Judge
          Judgement(_),   \* the judgement of an item's row under its question
          NoAnswer        \* Item.Answer = nil

VARIABLES answer,    \* Item.Answer of every item
          finished,  \* Judge has returned
          failed     \* ... with an error

pvars == <<answer, finished, failed>>

Init == /\ answer = [i \in Items |-> NoAnswer]
        /\ finished = FALSE
        /\ failed = FALSE

AnswerSome(S) ==
  /\ ~finished
  /\ answer' = [i \in Items |-> IF i \in S THEN Judgement(i) ELSE answer[i]]
  /\ UNCHANGED <<finished, failed>>

Return ==
  /\ ~finished
  /\ finished' = TRUE
  /\ failed' \in BOOLEAN
  /\ ~failed' => \A i \in Items : answer[i] # NoAnswer
  /\ UNCHANGED answer

Next == (\E S \in SUBSET Items : AnswerSome(S)) \/ Return

Spec == Init /\ [][Next]_pvars
=============================================================================
