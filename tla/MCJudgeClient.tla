--------------------------- MODULE MCJudgeClient ---------------------------
(* A small instance of JudgeClient for TLC.                                 *)
EXTENDS BatchingCode

\* Two questions interleaved; with BatchSize 2 they make three batches, one of
\* them half full.
MCAsked == <<"a", "b", "a", "a", "b">>
=============================================================================
