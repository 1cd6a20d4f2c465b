------------------------------ MODULE Batching ------------------------------
(***************************************************************************)
(* How Client.Batches (internal/typesafe/client.go) packs the items of one *)
(* Judge call into requests: the items that share a question, in the order *)
(* given, cut into chunks of `size`; questions in order of first           *)
(* appearance.  An item is its position in `asked`, the sequence of the    *)
(* items' question keys.  A batch is named by its question and the number  *)
(* of its chunk.                                                           *)
(***************************************************************************)
EXTENDS Integers, FiniteSets, Sequences

\* The items before item i that ask the same question.
Earlier(asked, i) == {j \in 1 .. i - 1 : asked[j] = asked[i]}

\* Item i's position, from 0, in the list grouped under its question.
Rank(asked, i) == Cardinality(Earlier(asked, i))

BatchOf(asked, size, i) == <<asked[i], Rank(asked, i) \div size>>

\* The number i of `row_i`: the item's index within its own batch.
RowOf(asked, size, i) == Rank(asked, i) % size

BatchesOf(asked, size) == {BatchOf(asked, size, i) : i \in 1 .. Len(asked)}

Members(asked, size, b) ==
  {i \in 1 .. Len(asked) : BatchOf(asked, size, i) = b}

\* No question is asked before its first item: b is made before c.
Before(asked, b, c) ==
  \/ b[1] = c[1] /\ b[2] < c[2]
  \/ /\ b[1] # c[1]
     /\ \E i \in 1 .. Len(asked) :
          asked[i] = b[1] /\ \A j \in 1 .. i : asked[j] # c[1]
=============================================================================
