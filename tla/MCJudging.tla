----------------------------- MODULE MCJudging -----------------------------
(* Small instances of Judging for TLC.                                      *)
EXTENDS Judging, TLC

CONSTANTS s1, s2, k1, k2, v1

\* No rows, one row, two rows with a duplicate, and one list over budget.
MCRowLists == {<<>>, <<k2>>, <<k1, k2, k1>>, <<k1, k1, k2, k2>>}

MCSymmetry == Permutations({s1, s2})
=============================================================================
