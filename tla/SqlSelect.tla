----------------------------- MODULE SqlSelect -----------------------------
(***************************************************************************)
(* What a SELECT with jev_* calls means: the results Postgres could give   *)
(* if the calls were functions of the row.  Tables have the columns a and  *)
(* b; jev(t, ...) judges the row object of all columns, jev(ROW(a), ...)   *)
(* an object of one.  This is the promise TwoPass is checked against.      *)
(***************************************************************************)
EXTENDS Integers, SequencesExt

CONSTANTS Threshold      \* --threshold, on the scale of the verdicts

Columns == <<"a", "b">>
Null == -1               \* NULL; the columns' values are naturals
Rows == [a : Nat \cup {Null}, b : Nat \cup {Null}]

\* Expressions.  arg is a column, "*", or the row source of a call; thr is the
\* third argument of jev(), 0 when there is none.
X(fn, arg) == [fn |-> fn, arg |-> arg, thr |-> 0]
Col(c) == X("col", c)
Star == X("*", "*")
IsJev(x) == x.fn \in {"jev", "jev_prob"}
IsAgg(x) == x.fn \in {"count", "count distinct", "sum", "min", "max"}

Object(src, row) == IF src = "t" THEN <<row.a, row.b>> ELSE <<row[src]>>

\* jev() is p >= threshold: the explicit one, else the session's.
Holds(x, p) == p >= (IF x.thr = 0 THEN Threshold ELSE x.thr)

Value(x, row, verdict) ==
  CASE x.fn = "col" -> row[x.arg]
    [] x.fn = "jev" -> IF Holds(x, verdict[Object(x.arg, row)]) THEN 1 ELSE 0
    [] x.fn = "jev_prob" -> verdict[Object(x.arg, row)]
-----------------------------------------------------------------------------
(* A query: select list (expressions with optional names), AND terms of      *)
(* WHERE, GROUP BY and ORDER BY keys, LIMIT and OFFSET (sequences of at most *)
(* one number), and what else the statement has (also).                     *)

\* A term of WHERE: a test of column a, jev(...) or NOT jev(...), an AND in
\* parentheses, or any other condition around a call (OR, a comparison, NOT).
Term(kind, x, terms) == [kind |-> kind, x |-> x, terms |-> terms]
Plain(test) == Term("plain", X(test, "a"), <<>>)
Jev(x) == Term("jev", x, <<>>)
NotJev(x) == Term("not jev", x, <<>>)
Around(x) == Term("around", x, <<>>)
And(terms) == Term("and", Star, terms)

\* What a query may be made of.
Exprs == [fn : STRING, arg : STRING, thr : Nat]
SimpleTerms == [kind : {"plain", "jev", "not jev", "around"}, x : Exprs, terms : {<<>>}]
Keys == [by : {"position", "expression"}, n : Int, x : Exprs, desc : BOOLEAN, nullsFirst : BOOLEAN]
Statements ==
  [list : Seq([x : Exprs, as : STRING]),
   where : Seq(SimpleTerms \cup [kind : {"and"}, x : {Star}, terms : Seq(SimpleTerms)]),
   group : Seq(Keys), order : Seq(Keys), limit : Seq(Int), offset : Seq(Int),
   also : SUBSET STRING]

\* SelectSeq, which the proof system leaves undefined.
Select(s, Test(_)) == FlattenSeq([i \in DOMAIN s |-> IF Test(s[i]) THEN <<s[i]>> ELSE <<>>])

\* The terms without parentheses.
Terms(q) ==
  FlattenSeq([i \in DOMAIN q.where |->
    IF q.where[i].kind = "and" THEN q.where[i].terms ELSE <<q.where[i]>>])

\* The select list with * written out.
Expanded(q) ==
  FlattenSeq([i \in DOMAIN q.list |->
    IF q.list[i].x = Star THEN [c \in DOMAIN Columns |-> Col(Columns[c])]
                          ELSE <<q.list[i].x>>])

\* What a key stands for: a position of the list, the name of one of its
\* expressions (in GROUP BY, a column of that name comes first), or an expression.
KeyExpr(q, ref, grouping) ==
  LET named == {i \in DOMAIN q.list : ref.x.fn = "col" /\ q.list[i].as = ref.x.arg}
  IN  IF ref.by = "position" THEN Expanded(q)[ref.n]
      ELSE IF named = {} \/ (grouping /\ ref.x.arg \in Range(Columns)) THEN ref.x
      ELSE q.list[CHOOSE i \in named : TRUE].x

IsGrouped(q) == q.group # <<>> \/ \E i \in DOMAIN q.list : IsAgg(q.list[i].x)

GroupExprs(q) == {KeyExpr(q, q.group[i], TRUE) : i \in DOMAIN q.group}

OrderExprs(q) == {KeyExpr(q, q.order[i], FALSE) : i \in DOMAIN q.order}

\* Queries Postgres would run.
Legal(q) ==
  /\ \A ref \in Range(q.group) \cup Range(q.order) :
       ref.by = "position" => ref.n \in 1 .. Len(Expanded(q))
  /\ \A x \in Range(Expanded(q)) \cup GroupExprs(q) \cup OrderExprs(q) \cup {t.x : t \in Range(Terms(q))} :
       x.arg \in Range(Columns) \cup {"*", "t"}
  /\ \A n \in Range(q.limit) \cup Range(q.offset) : n >= 0
  /\ \A x \in GroupExprs(q) : ~IsAgg(x)
  /\ IsGrouped(q) =>
       \A x \in Range(Expanded(q)) \cup OrderExprs(q) :
         IsAgg(x) \/ x \in GroupExprs(q)

\* Queries that are not "rejected, on purpose" (docs/sql.mdx, README).
Supported(q) ==
  /\ q.also = {}
  /\ \A t \in Range(Terms(q)) : t.kind # "around" /\ (t.kind # "plain" => t.x.fn = "jev")
  /\ \A x \in Range(Expanded(q)) \cup GroupExprs(q) \cup OrderExprs(q) :
       x.fn \notin {"around jev", "other aggregate"}

\* A condition is NULL, and not met, where the column is.
TestHolds(test, row) ==
  row.a # Null /\ (IF test = "a = 1" THEN row.a = 1 ELSE row.a # 1)

Filtered(q, row) == \A t \in Range(Terms(q)) : t.kind = "plain" => TestHolds(t.x.fn, row)

Qualifies(q, row, verdict) ==
  /\ Filtered(q, row)
  /\ \A t \in Range(Terms(q)) :
       t.kind # "plain" => Holds(t.x, verdict[Object(t.x.arg, row)]) = (t.kind = "jev")
-----------------------------------------------------------------------------
Least(S) == CHOOSE m \in S : \A n \in S : m <= n
Greatest(S) == CHOOSE m \in S : \A n \in S : m >= n

\* An aggregate over the rows at the positions I of a table.
Aggregate(x, tab, I) ==
  LET J == IF x.arg = "*" THEN I ELSE {i \in I : tab[i][x.arg] # Null}
      V == IF x.arg = "*" THEN {} ELSE {tab[i][x.arg] : i \in J}
  IN  IF x.fn = "count" THEN Cardinality(J)
      ELSE IF x.fn = "count distinct" THEN Cardinality(V)
      ELSE IF J = {} THEN Null
      ELSE CASE x.fn = "sum" -> FoldLeft(LAMBDA s, i : s + tab[i][x.arg], 0, SetToSeq(J))
             [] x.fn = "min" -> Least(V)
             [] x.fn = "max" -> Greatest(V)

\* The output lines before ordering, each with its sort keys.
Lines(q, tab, verdict) ==
  LET I == {i \in DOMAIN tab : Qualifies(q, tab[i], verdict)}
      Line(V(_)) == [cells |-> [k \in DOMAIN Expanded(q) |-> V(Expanded(q)[k])],
                     keys |-> [k \in DOMAIN q.order |-> V(KeyExpr(q, q.order[k], FALSE))]]
      Same(i, j) == \A x \in GroupExprs(q) :
                      Value(x, tab[i], verdict) = Value(x, tab[j], verdict)
      Groups == IF q.group = <<>> THEN {I} ELSE {{j \in I : Same(i, j)} : i \in I}
      Of(i) == Line(LAMBDA x : Value(x, tab[i], verdict))
      OfGroup(G) == Line(LAMBDA x : IF IsAgg(x) THEN Aggregate(x, tab, G)
                                    ELSE Value(x, tab[Least(G)], verdict))
  IN  IF IsGrouped(q)
        THEN LET gs == SetToSeq(Groups) IN [g \in DOMAIN gs |-> OfGroup(gs[g])]
        ELSE LET is == SetToSeq(I) IN [k \in DOMAIN is |-> Of(is[k])]
-----------------------------------------------------------------------------
\* v comes before w under an ORDER BY key.
Precedes(v, w, key) ==
  CASE v = Null -> w # Null /\ key.nullsFirst
    [] v # Null /\ w = Null -> ~key.nullsFirst
    [] OTHER -> IF key.desc THEN v > w ELSE v < w

Before(ks, ls, order) ==
  \E k \in DOMAIN order : /\ Precedes(ks[k], ls[k], order[k])
                          /\ \A j \in 1 .. k - 1 : ks[j] = ls[j]

\* The ways to put n things with these keys in order (ties either way).
Arrangements(keys, order) ==
  {f \in Injection(DOMAIN keys, DOMAIN keys) :
     \A i, j \in DOMAIN keys : i < j => ~Before(keys[f[j]], keys[f[i]], order)}

\* OFFSET and LIMIT.
Slice(s, q) ==
  LET t == IF q.offset = <<>> THEN s ELSE SubSeq(s, q.offset[1] + 1, Len(s))
  IN  IF q.limit = <<>> \/ q.limit[1] >= Len(t) THEN t ELSE SubSeq(t, 1, q.limit[1])

\* out is a result of the query.
IsResult(q, tab, verdict, out) ==
  LET L == Lines(q, tab, verdict)
  IN  \E f \in Arrangements([i \in DOMAIN L |-> L[i].keys], q.order) :
        out = Slice([i \in DOMAIN L |-> L[f[i]].cells], q)
=============================================================================
