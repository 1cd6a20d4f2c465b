----------------------------- MODULE MCTwoPass -----------------------------
(* Small sets of queries, tables and verdicts for TwoPass.                  *)
EXTENDS TwoPass

Row2(x, y) == [a |-> x, b |-> y]

MCTables ==
  {<<>>, <<Row2(1, 0)>>, <<Row2(Null, 1)>>,
   <<Row2(1, 0), Row2(0, 1)>>, <<Row2(1, 1), Row2(1, 1)>>,
   <<Row2(1, 0), Row2(1, 1), Row2(0, 1)>>, <<Row2(Null, 1), Row2(0, 1), Row2(1, Null)>>}

Objects == ({Null, 0, 1} \X {Null, 0, 1}) \cup {<<Null>>, <<0>>, <<1>>}

\* Three services that disagree on every object.
MCVerdicts ==
  {[o \in Objects |-> ((FoldLeft(LAMBDA n, v : 2 * n + v, 4, o) + s) % 3)] : s \in 0 .. 2}

Call(fn, src, thr) == [fn |-> fn, arg |-> src, thr |-> thr]
Prob == Call("jev_prob", "t", 0)
Item(x) == [x |-> x, as |-> ""]
Named(x, as) == [x |-> x, as |-> as]
Pos(n, desc, nf) == [by |-> "position", n |-> n, x |-> Star, desc |-> desc, nullsFirst |-> nf]
Exp(x, desc, nf) == [by |-> "expression", n |-> 0, x |-> x, desc |-> desc, nullsFirst |-> nf]

Query(list, where, group, order, limit, offset) ==
  [list |-> list, where |-> where, group |-> group, order |-> order,
   limit |-> limit, offset |-> offset, also |-> {}]

\* With and without plain terms, with and without jev terms, and both in an AND
\* within the AND.
Wheres ==
  {<<>>, <<Plain("a = 1")>>, <<NotJev(Call("jev", "t", 2)), Plain("NOT a = 1")>>,
   <<Jev(Call("jev", "t", 0)), NotJev(Call("jev", "a", 2))>>,
   <<Plain("a = 1"), And(<<Jev(Call("jev", "t", 0)), Plain("a = 1"), NotJev(Call("jev", "a", 2))>>)>>}

\* Ungrouped queries; with a star no plain target comes after it, hidden ones
\* included (MCStar has them).
Orders == {<<>>, <<Exp(Col("p"), TRUE, TRUE)>>, <<Exp(Col("a"), TRUE, FALSE)>>,
           <<Exp(Col("a"), FALSE, TRUE), Exp(Col("p"), TRUE, TRUE)>>,
           <<Pos(1, FALSE, FALSE), Exp(Call("jev", "a", 2), FALSE, FALSE)>>}
StarOrders == {<<>>, <<Exp(Col("p"), TRUE, TRUE), Exp(Call("jev", "a", 2), FALSE, FALSE)>>}
ListOrders ==
  ({<<Item(Col("b")), Named(Prob, "p")>>} \X Orders)
  \cup ({<<Named(Prob, "p"), Item(Call("jev", "a", 0)), Item(Star)>>} \X StarOrders)
Cuts == {<<<<>>, <<>>>>, <<<<1>>, <<>>>>, <<<<2>>, <<1>>>>, <<<<0>>, <<4>>>>}

MCUngrouped ==
  {Query(lo[1], w, <<>>, lo[2], c[1], c[2]) : lo \in ListOrders, w \in Wheres, c \in Cuts}

\* Grouped queries.
GroupLists ==
  ({<<Named(Call("jev", "t", 0), "j"), Item(X("count", "*")), Item(X("sum", "b")), Item(X("max", "b"))>>}
   \X {<<Pos(1, FALSE, FALSE)>>, <<Exp(Col("j"), FALSE, FALSE), Exp(Col("a"), FALSE, FALSE)>>})
  \cup ({<<Item(X("min", "a")), Item(X("count distinct", "b")), Item(X("count", "a"))>>}
         \X {<<Exp(Call("jev", "t", 0), FALSE, FALSE), Exp(Col("a"), FALSE, FALSE)>>})
GroupOrders == {<<>>, <<Pos(2, TRUE, TRUE)>>, <<Exp(X("count", "*"), FALSE, FALSE), Pos(1, TRUE, TRUE)>>,
                <<Exp(X("sum", "a"), TRUE, FALSE)>>}

MCGrouped ==
  {Query(l[1], w, l[2], o, c[1], c[2]) :
     l \in GroupLists, w \in Wheres, o \in GroupOrders, c \in {<<<<>>, <<>>>>, <<<<1>>, <<1>>>>}}

\* Refused: a plain column outside GROUP BY, a position past the list, an
\* unknown alias, a negative LIMIT; and what jevql rejects.
OfList(x) == Query(<<Item(x)>>, <<>>, <<>>, <<>>, <<>>, <<>>)
MCRefused ==
  {Query(<<Item(Prob), Item(Col("a"))>>, <<>>, <<Pos(1, FALSE, FALSE)>>, <<>>, <<>>, <<>>),
   Query(<<Item(Prob)>>, <<>>, <<>>, <<Pos(2, FALSE, FALSE)>>, <<>>, <<>>),
   Query(<<Item(Prob)>>, <<>>, <<>>, <<>>, <<-1>>, <<>>),
   Query(<<Item(Prob)>>, <<>>, <<>>, <<Exp(X("around jev", "t"), TRUE, TRUE)>>, <<>>, <<>>),
   Query(<<Item(Prob)>>, <<>>, <<Exp(Prob, TRUE, TRUE)>>, <<>>, <<>>, <<>>),
   Query(<<Item(Prob)>>, <<>>, <<>>, <<Exp(Prob, TRUE, TRUE)>>, <<>>, <<>>),
   OfList(Call("jev", "u", 0)), OfList(X("around jev", "t")), OfList(X("other aggregate", "a"))}
  \cup {Query(<<Item(Col("a"))>>, <<t>>, <<>>, <<>>, <<>>, <<>>) :
          t \in {Around(Prob), Jev(Prob), And(<<Plain("a = 1"), NotJev(Prob)>>)}}
  \cup {[OfList(Prob) EXCEPT !.also = {c}] :
          c \in {"jev in a CTE", "UNION", "DISTINCT", "HAVING", "FOR UPDATE", "WITH TIES"}}

MCQueries == MCUngrouped \cup MCGrouped \cup MCRefused

\* A sort key that is no other output column, or a column, after a star.
MCStar == {Query(<<Item(Star)>>, <<Jev(Call("jev", "t", 0))>>, <<>>, <<Exp(Col("a"), FALSE, FALSE)>>, <<>>, <<>>),
           Query(<<Item(Star), Item(Col("a")), Item(Prob)>>, <<>>, <<>>, <<>>, <<>>, <<>>)}
=============================================================================
