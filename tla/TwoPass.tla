------------------------------ MODULE TwoPass ------------------------------
(***************************************************************************)
(* How jevql runs a SELECT with jev_* calls: parse.Analyze, rewrite.Build, *)
(* and Executor.Run with its three passes, collect (in Postgres), judge,   *)
(* and project (in jevql), or the explain report.  One step per pass.      *)
(***************************************************************************)
EXTENDS SqlSelect, TLC

CONSTANTS Queries,   \* the statements that may be run
          Tables,    \* contents of the FROM clause
          Verdicts,  \* functions from row objects to what the service says
          Budgets    \* values of --max-rows, 0 for no limit

ASSUME QueriesAssumption == Queries \subseteq Statements
ASSUME TablesAssumption == Tables \subseteq Seq(Rows)
ASSUME BudgetsAssumption == Budgets \subseteq Nat
ASSUME VerdictsAssumption ==
  \A v \in Verdicts, t \in Tables : \A i \in DOMAIN t :
    \A src \in {"t"} \cup Range(Columns) : v[Object(src, t[i])] \in Nat

VARIABLES query, table, verdict, maxRows,  \* the run
          pc,
          plan,       \* Analysis and Plan
          collected,  \* the rows of the collect query
          asked,      \* row objects judged, with the question
          estimate,   \* Explain.Judgements, -1 if not explained
          out         \* the Table, or an error

vars == <<query, table, verdict, maxRows, pc, plan, collected, asked, estimate, out>>

NoPlan == [targets |-> <<>>, calls |-> <<>>, fields |-> <<>>]
NoResult == [err |-> "none", rows |-> <<>>]
Failed(why) == /\ out' = [err |-> why, rows |-> <<>>]
               /\ pc' = "done"

Init == /\ query \in Queries
        /\ table \in Tables
        /\ verdict \in Verdicts
        /\ maxRows \in Budgets
        /\ pc = "analyze"
        /\ plan = NoPlan
        /\ collected = <<>>
        /\ asked = {}
        /\ estimate = -1
        /\ out = NoResult
-----------------------------------------------------------------------------
(* parse.Analyze *)

Kind(x) == IF IsJev(x) THEN "jev" ELSE IF IsAgg(x) THEN "agg" ELSE "plain"

\* classifyTarget: a call or an aggregate is the whole expression; an aggregate
\* is one of five.
Refused(x) == x.fn \in {"around jev", "other aggregate"}

Target(x, as, hidden) == [x |-> x, as |-> as, hidden |-> hidden, kind |-> Kind(x)]

Visible(ts) == FlattenSeq([i \in DOMAIN ts |-> IF ts[i].hidden THEN <<>> ELSE <<i>>])

\* The targets a key that is no position may mean: by name, or by text.
Matches(ts, ref) ==
  LET named == {i \in DOMAIN ts : ref.x.fn = "col" /\ ~ts[i].hidden /\ ts[i].as = ref.x.arg}
  IN  IF named # {} THEN named ELSE {i \in DOMAIN ts : ts[i].x = ref.x}

\* resolveRef: the target a key refers to, a hidden one added if there is none.
Resolve(ts, ref, grouped, grouping) ==
  LET vis == Visible(ts)
      bad == [ok |-> FALSE, i |-> 0, ts |-> ts]
  IN  IF ref.by = "position"
        THEN IF ref.n \in DOMAIN vis THEN [ok |-> TRUE, i |-> vis[ref.n], ts |-> ts] ELSE bad
      ELSE IF Matches(ts, ref) # {}
        THEN [ok |-> TRUE, i |-> Least(Matches(ts, ref)), ts |-> ts]
      ELSE IF \/ Refused(ref.x) \/ ref.x = Star
              \/ Kind(ref.x) = "agg" /\ grouping
              \/ Kind(ref.x) = "plain" /\ grouped /\ ~grouping
        THEN bad
      ELSE [ok |-> TRUE, i |-> Len(ts) + 1, ts |-> Append(ts, Target(ref.x, "", TRUE))]

\* All keys of a clause, one after the other.
ResolveAll(ts, refs, grouped, grouping) ==
  LET acc[k \in 0 .. Len(refs)] ==
        IF k = 0 THEN [ok |-> TRUE, is |-> <<>>, ts |-> ts]
        ELSE IF ~acc[k - 1].ok THEN acc[k - 1]
        ELSE LET r == Resolve(acc[k - 1].ts, refs[k], grouped, grouping)
             IN  [ok |-> r.ok, is |-> Append(acc[k - 1].is, r.i), ts |-> r.ts]
  IN  acc[Len(refs)]

\* splitWhere: the jev() terms, and the terms that stay with Postgres.
Predicates(q) ==
  LET ps == Select(Terms(q), LAMBDA t : t.kind \in {"jev", "not jev"})
  IN  [i \in DOMAIN ps |-> [x |-> ps[i].x, negate |-> ps[i].kind = "not jev"]]

Rest(q) == {t \in Range(Terms(q)) : t.kind = "plain"}

\* What is neither, and a call that is not jev().
SplitFails(q) ==
  \E t \in Range(Terms(q)) : t.kind = "around" \/ (t.kind \in {"jev", "not jev"} /\ t.x.fn # "jev")

\* addCall: each call of the select list, of WHERE, and of the hidden targets.
Calls(ts, q) == Select([i \in DOMAIN q.list |-> ts[i].x], IsJev)
                \o [i \in DOMAIN Predicates(q) |-> Predicates(q)[i].x]
                \o Select([i \in 1 .. Len(ts) - Len(q.list) |-> ts[Len(q.list) + i].x], IsJev)

\* JevCalls: the calls the statement has, keys that repeat one included.
Written(q) ==
  LET OfKeys(refs) == Cardinality({i \in DOMAIN refs : refs[i].by = "expression" /\ IsJev(refs[i].x)})
  IN  Cardinality({i \in DOMAIN q.list : IsJev(q.list[i].x)}) + Len(Predicates(q))
      + OfKeys(q.group) + OfKeys(q.order)

Analysis(q) ==
  LET list == [i \in DOMAIN q.list |-> Target(q.list[i].x, q.list[i].as, FALSE)]
      grouped == q.group # <<>> \/ \E i \in DOMAIN list : list[i].kind = "agg"
      g == ResolveAll(list, q.group, grouped, TRUE)
      o == ResolveAll(g.ts, q.order, grouped, FALSE)
      calls == Calls(o.ts, q)
      ok == /\ q.also = {}
            /\ \A i \in DOMAIN list : ~Refused(list[i].x)
            /\ grouped => \A i \in DOMAIN list : list[i].x # Star
            /\ ~SplitFails(q)
            /\ g.ok
            /\ \A i \in Range(g.is) : g.ts[i].kind # "agg"
            /\ grouped => \A i \in DOMAIN list : list[i].kind = "plain" => i \in Range(g.is)
            /\ o.ok
            /\ Written(q) = Len(calls)
            /\ \A i \in DOMAIN calls : calls[i].arg \in {"t"} \cup Range(Columns)
  IN  [ok |-> ok, targets |-> o.ts, grouped |-> grouped, groupKeys |-> g.is,
       orderKeys |-> o.is, calls |-> calls, preds |-> Predicates(q), rest |-> Rest(q)]
-----------------------------------------------------------------------------
(* rewrite.Build *)

\* The row sources, in the order of their first calls.
Sources(calls) ==
  FlattenSeq([i \in DOMAIN calls |->
    IF \E j \in 1 .. i - 1 : calls[j].arg = calls[i].arg THEN <<>> ELSE <<calls[i].arg>>])

SourceColumns(src) == IF src = "t" THEN Columns ELSE <<src>>

\* The first collect column of each source's fields.
SourceStart(srcs, k) ==
  1 + Len(FlattenSeq([j \in 1 .. k - 1 |-> SourceColumns(srcs[j])]))

\* Columns a target advances the layout by: for * only the separator is counted.
Width(t) == CASE t.kind = "plain" -> 1
              [] t.kind = "agg" -> IF t.x.arg = "*" THEN 0 ELSE 1
              [] t.kind = "jev" -> 0

Layout(ts, srcs) ==
  LET next[i \in 0 .. Len(ts)] == IF i = 0 THEN SourceStart(srcs, Len(srcs) + 1)
                                  ELSE next[i - 1] + Width(ts[i])
  IN  [i \in DOMAIN ts |-> IF Width(ts[i]) = 0 THEN 0 ELSE next[i - 1]]

\* Mutants of ServerOrder: WHERE is not looked at; nothing is pushed down.
ServerOrderNever(a) == FALSE
ServerOrderDespitePreds(a) ==
  /\ ~a.grouped
  /\ \A i \in Range(a.orderKeys) : a.targets[i].kind = "plain"

\* ORDER BY, LIMIT and OFFSET stay with Postgres.
ServerOrder(a) ==
  /\ ~a.grouped
  /\ a.preds = <<>>
  /\ \A i \in Range(a.orderKeys) : a.targets[i].kind = "plain"

Sep == "__jev_sep"

\* The columns Postgres returns for the collect query's select list.
TargetColumns(t) ==
  CASE t.x = Star -> Append(Columns, Sep)
    [] t.kind # "jev" /\ t.x # Star /\ t.x.arg # "*" -> <<t.x.arg>>
    [] OTHER -> <<>>

Fields(ts, srcs) == FlattenSeq([k \in DOMAIN srcs |-> SourceColumns(srcs[k])])
                    \o FlattenSeq([i \in DOMAIN ts |-> TargetColumns(ts[i])])

\* One step: both only compute.
Analyze ==
  LET a == Analysis(query) IN
  /\ pc = "analyze"
  /\ IF ~a.ok
       THEN Failed("sql") /\ UNCHANGED plan
       ELSE LET srcs == Sources(a.calls) IN
            /\ plan' = [targets |-> a.targets, grouped |-> a.grouped, groupKeys |-> a.groupKeys,
                        orderKeys |-> a.orderKeys, calls |-> a.calls, srcs |-> srcs,
                        preds |-> a.preds, rest |-> a.rest,
                        layout |-> Layout(a.targets, srcs),
                        fields |-> Fields(a.targets, srcs),
                        serverOrder |-> ServerOrder(a)]
            /\ pc' = "planned"
            /\ UNCHANGED out
  /\ UNCHANGED <<query, table, verdict, maxRows, collected, asked, estimate>>
-----------------------------------------------------------------------------
(* collect *)

\* Mutant of CollectRows: the plain terms of WHERE are lost with the jev ones.
CollectRowsAll == DOMAIN table

\* What is left of WHERE is the server's: the positions of the rows it leaves.
CollectRows == {i \in DOMAIN table : \A t \in plan.rest : TestHolds(t.x.fn, table[i])}

\* The rows of the collect query in an order Postgres may choose.  Sorting by
\* a star is a syntax error; so is, at run time, a negative LIMIT or OFFSET.
CollectOrders ==
  LET at == SetToSeq(CollectRows)
      rows == [k \in DOMAIN at |-> table[at[k]]]
      keys == [i \in DOMAIN rows |-> [k \in DOMAIN plan.orderKeys |->
                 Value(plan.targets[plan.orderKeys[k]].x, rows[i], verdict)]]
      given == [i \in DOMAIN rows |-> <<>>]
      perms == IF plan.serverOrder THEN Arrangements(keys, query.order)
                                   ELSE Arrangements(given, <<>>)
  IN  {LET s == [i \in DOMAIN rows |-> rows[f[i]]]
       IN  IF plan.serverOrder THEN Slice(s, query) ELSE s : f \in perms}

ServerRefuses ==
  plan.serverOrder /\ \/ \E i \in Range(plan.orderKeys) : plan.targets[i].x = Star
                      \/ \E n \in Range(query.limit) \cup Range(query.offset) : n < 0

\* A collected row: the values of its columns.
Row(r) == [c \in DOMAIN plan.fields |-> IF plan.fields[c] = Sep THEN Null ELSE r[plan.fields[c]]]

\* Mutant of OverBudget: one row too late.
OverBudgetLate(n) == maxRows > 0 /\ n > maxRows + 1

OverBudget(n) == maxRows > 0 /\ n > maxRows

Collect ==
  /\ pc = "planned"
  /\ IF ServerRefuses
       THEN Failed("sql") /\ UNCHANGED collected
       ELSE \E rows \in CollectOrders :
              IF OverBudget(Len(rows))
                THEN Failed("budget") /\ UNCHANGED collected
                ELSE /\ collected' = [i \in DOMAIN rows |-> Row(rows[i])]
                     /\ pc' = "collected"
                     /\ UNCHANGED out
  /\ UNCHANGED <<query, table, verdict, maxRows, plan, asked, estimate>>

\* Mutant of ExplainQuery: LIMIT is counted in where it is not pushed down.
ExplainQueryLimited ==
  /\ pc = "planned" /\ estimate = -1 /\ ~ServerRefuses
  /\ \E rows \in CollectOrders : estimate' = Len(Slice(rows, query))
  /\ UNCHANGED <<query, table, verdict, maxRows, pc, plan, collected, asked, out>>

\* --explain: count the rows of the collect query, and multiply by the number
\* of distinct questions.  The model has one question text, so there is one.
ExplainQuery ==
  /\ pc = "planned" /\ estimate = -1 /\ ~ServerRefuses
  /\ \E rows \in CollectOrders : estimate' = Len(rows)
  /\ UNCHANGED <<query, table, verdict, maxRows, pc, plan, collected, asked, out>>
-----------------------------------------------------------------------------
(* judge *)

\* The object of a call's source, from the collect columns.
ObjectOf(row, x) ==
  LET k == CHOOSE k \in DOMAIN plan.srcs : plan.srcs[k] = x.arg
  IN  [c \in DOMAIN SourceColumns(x.arg) |-> row[SourceStart(plan.srcs, k) + c - 1]]

\* Every distinct object is judged once (Judging models how).
Judge ==
  /\ pc = "collected"
  /\ asked' = {ObjectOf(collected[i], plan.calls[c]) : i \in DOMAIN collected, c \in DOMAIN plan.calls}
  /\ pc' = "judged"
  /\ UNCHANGED <<query, table, verdict, maxRows, plan, collected, estimate, out>>
-----------------------------------------------------------------------------
(* project *)

\* span: a star reaches from its first column to the next separator.
Span(i) ==
  LET s == plan.layout[i]
      seps == {c \in s .. Len(plan.fields) : plan.fields[c] = Sep}
  IN  IF plan.targets[i].x = Star
        THEN s .. (IF seps = {} THEN Len(plan.fields) ELSE Least(seps) - 1)
        ELSE s .. s

JevValue(row, x) ==
  LET p == verdict[ObjectOf(row, x)]
  IN  IF x.fn = "jev" THEN (IF Holds(x, p) THEN 1 ELSE 0) ELSE p

\* An aggregate is no value of a row: outside groups it has no cells.
Cells(row, i) ==
  IF plan.targets[i].kind = "jev" THEN <<JevValue(row, plan.targets[i].x)>>
  ELSE IF plan.targets[i].kind = "agg" THEN <<>>
  ELSE LET S == Span(i) IN [k \in 1 .. Cardinality(S) |-> row[Least(S) + k - 1]]

\* The value a target sorts and groups by: NULL for a star, unless it is one column.
KeyOf(row, i) == IF Len(Cells(row, i)) = 1 THEN Cells(row, i)[1] ELSE Null

Kept ==
  Select(collected, LAMBDA row :
    \A k \in DOMAIN plan.preds :
      LET x == plan.preds[k].x
          pass == Holds(x, verdict[ObjectOf(row, x)])
      IN  IF plan.preds[k].negate THEN ~pass ELSE pass)

Shown == Visible(plan.targets)

PlainLine(row) == [cells |-> FlattenSeq([k \in DOMAIN Shown |-> Cells(row, Shown[k])]),
               keys |-> [k \in DOMAIN plan.orderKeys |-> KeyOf(row, plan.orderKeys[k])]]

\* An aggregate over the rows of a group; NULLs do not count.
Accumulate(rows, i) ==
  LET x == plan.targets[i].x
      vs == IF x.arg = "*" THEN [k \in DOMAIN rows |-> 1]
            ELSE SelectSeq([k \in DOMAIN rows |-> rows[k][plan.layout[i]]], LAMBDA v : v # Null)
  IN  IF x.fn = "count" THEN Len(vs)
      ELSE IF x.fn = "count distinct" THEN Cardinality(Range(vs))
      ELSE IF vs = <<>> THEN Null
      ELSE CASE x.fn = "sum" -> FoldLeft(LAMBDA s, v : s + v, 0, vs)
             [] x.fn = "min" -> FoldLeft(LAMBDA m, v : IF v < m THEN v ELSE m, vs[1], vs)
             [] x.fn = "max" -> FoldLeft(LAMBDA m, v : IF v > m THEN v ELSE m, vs[1], vs)

GroupKey(row) == [k \in DOMAIN plan.groupKeys |-> KeyOf(row, plan.groupKeys[k])]

\* Groups in order of appearance; other targets show the group's first row.
Grouped(rows) ==
  LET keys == FoldLeft(LAMBDA acc, row : IF Contains(acc, GroupKey(row)) THEN acc
                                         ELSE Append(acc, GroupKey(row)), <<>>, rows)
      Members(key) == SelectSeq(rows, LAMBDA row : GroupKey(row) = key)
      At(key, i) == IF plan.targets[i].kind = "agg" THEN Accumulate(Members(key), i)
                    ELSE KeyOf(Members(key)[1], i)
  IN  [g \in DOMAIN keys |->
        [cells |-> [k \in DOMAIN Shown |-> At(keys[g], Shown[k])],
         keys |-> [k \in DOMAIN plan.orderKeys |-> At(keys[g], plan.orderKeys[k])]]]

\* sortRows' comparison.
Less(x, y) ==
  \E k \in DOMAIN query.order :
    /\ \A j \in 1 .. k - 1 : x.keys[j] = y.keys[j]
    /\ LET v == x.keys[k]  w == y.keys[k]
       IN  IF v = Null THEN w # Null /\ query.order[k].nullsFirst
           ELSE IF w = Null THEN ~query.order[k].nullsFirst
           ELSE IF query.order[k].desc THEN v > w ELSE v < w

\* A stable sort: each row goes before the first one it is less than.
Inserted(acc, r) ==
  LET later == {i \in DOMAIN acc : Less(r, acc[i])}
  IN  InsertAt(acc, IF later = {} THEN Len(acc) + 1 ELSE Least(later), r)

Sorted(rows) ==
  LET upTo[k \in 0 .. Len(rows)] == IF k = 0 THEN <<>> ELSE Inserted(upTo[k - 1], rows[k])
  IN  upTo[Len(rows)]

\* rows[off:][:limit]
Cut(rows) ==
  LET off == IF query.offset = <<>> THEN 0
             ELSE IF query.offset[1] > Len(rows) THEN Len(rows) ELSE query.offset[1]
      t == SubSeq(rows, off + 1, Len(rows))
  IN  IF query.limit # <<>> /\ query.limit[1] < Len(t) THEN SubSeq(t, 1, query.limit[1]) ELSE t

\* A slice expression with a negative bound panics.
Panics(n) == \/ query.offset # <<>> /\ query.offset[1] < 0
             \/ query.limit # <<>> /\ query.limit[1] < 0

Project ==
  LET rows == IF plan.grouped THEN Grouped(Kept)
              ELSE [i \in DOMAIN Kept |-> PlainLine(Kept[i])]
      final == IF plan.serverOrder THEN rows ELSE Cut(Sorted(rows))
  IN
  /\ pc = "judged"
  /\ IF ~plan.serverOrder /\ Panics(Len(rows))
       THEN Failed("panic")
       ELSE /\ out' = [err |-> "", rows |-> [i \in DOMAIN final |-> final[i].cells]]
            /\ pc' = "done"
  /\ UNCHANGED <<query, table, verdict, maxRows, plan, collected, asked, estimate>>

Finished == pc = "done" /\ UNCHANGED vars

Next == Analyze \/ Collect \/ ExplainQuery \/ Judge \/ Project \/ Finished

Spec == Init /\ [][Next]_vars
-----------------------------------------------------------------------------
FilteredRows == {i \in DOMAIN table : Filtered(query, table[i])}

\* A call of the list, or of a key before, is written again as a key.
Repeats(q) ==
  LET refs == q.group \o q.order
  IN  \E k \in DOMAIN refs :
        /\ refs[k].by = "expression" /\ IsJev(refs[k].x)
        /\ \/ \E i \in DOMAIN q.list : q.list[i].x = refs[k].x
           \/ \E j \in 1 .. k - 1 : refs[j].by = "expression" /\ refs[j].x = refs[k].x

\* The three passes together return what Postgres could return, whatever the
\* mix of plain and judged columns, filters, groups, sort keys and limits; what
\* is "rejected, on purpose" (docs/sql.mdx) is; and another query that Postgres
\* would run fails for nothing but the budget, or a repeated call (see the README).
ResultAsPostgres ==
  pc = "done" =>
    CASE out.err = "" -> /\ Legal(query) /\ Supported(query)
                         /\ IsResult(query, table, verdict, out.rows)
      [] out.err = "budget" -> maxRows > 0 /\ Cardinality(FilteredRows) > maxRows
      [] out.err = "sql" -> ~Legal(query) \/ ~Supported(query) \/ Repeats(query)
      [] OTHER -> FALSE

\* Nothing is judged that the plain part of WHERE excludes, and each object once:
\* row contents leave the machine, and each costs money.
OnlyFilteredJudged ==
  asked \subseteq {Object(plan.calls[c].arg, table[i]) : c \in DOMAIN plan.calls, i \in FilteredRows}

\* "Then LIMIT 10 judges ten rows": with nothing but plain sort keys, no more
\* rows are judged than are shown.
LimitJudged ==
  /\ pc = "done" /\ out.err = "" /\ ~IsGrouped(query)
  /\ \A t \in Range(Terms(query)) : t.kind = "plain"
  /\ \A x \in OrderExprs(query) : ~IsJev(x)
  => Len(collected) = Len(out.rows)

\* A query over budget asks nothing.
BudgetBeforeCall ==
  /\ out.err = "budget" => asked = {}
  /\ maxRows > 0 => Len(collected) <= maxRows

\* What --explain announces (rows times questions) covers what the run then
\* asks, source by source, although LIMIT, the cache and duplicates are not in it.
ExplainCovers ==
  estimate # -1 => Cardinality(asked) <= estimate * Len(plan.srcs)

\* "TargetLayout says where a target's data sits in the collect result"
\* (rewrite.go:46).  Does not hold after a star: see the README.
LayoutIsRight ==
  pc # "analyze" => \A i \in DOMAIN plan.targets :
    LET t == plan.targets[i]
    IN  Width(t) > 0 => plan.fields[plan.layout[i]] = IF t.x = Star THEN Columns[1] ELSE t.x.arg
=============================================================================
