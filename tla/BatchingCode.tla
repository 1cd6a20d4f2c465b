---------------------------- MODULE BatchingCode ----------------------------
(***************************************************************************)
(* Client.Batches as its loops write it, over a sequence of items; and     *)
(* that it cuts the same batches as the declarative Batching, which the    *)
(* client model uses.  An item is its position in the list.                *)
(***************************************************************************)
EXTENDS JudgeClient

\* The first loop: byQ[k].items (<<>> for a key that is not in the map yet),
\* and order, the questions by first appearance.
Grouped(list) ==
  LET read[i \in 0 .. Len(list)] ==
        IF i = 0 THEN [order |-> <<>>, items |-> [q \in {list[j] : j \in DOMAIN list} |-> <<>>]]
        ELSE LET r == read[i - 1]  q == list[i]
             IN  [order |-> IF r.items[q] = <<>> THEN Append(r.order, q) ELSE r.order,
                  items |-> [r.items EXCEPT ![q] = Append(@, i)]]
  IN  read[Len(list)]

\* Mutant of Chunks: the last, short chunk is cut off.
ChunksFullOnly(q, items, size) ==
  [k \in 1 .. Len(items) \div size |->
     [q |-> q, items |-> SubSeq(items, (k - 1) * size + 1, k * size)]]

\* for i := 0; i < len(items); i += BatchSize: the chunks of one question.
Chunks(q, items, size) ==
  [k \in 1 .. (Len(items) + size - 1) \div size |->
     LET end == IF k * size > Len(items) THEN Len(items) ELSE k * size
     IN  [q |-> q, items |-> SubSeq(items, (k - 1) * size + 1, end)]]

\* The []batch returned.
Packed(list, size) ==
  LET byQ == Grouped(list)
      out[k \in 0 .. Len(byQ.order)] ==
        IF k = 0 THEN <<>>
        ELSE out[k - 1] \o Chunks(byQ.order[k], byQ.items[byQ.order[k]], size)
  IN  out[Len(byQ.order)]
-----------------------------------------------------------------------------
\* Batch k by its question and its number within the question.
Name(packed, k) ==
  <<packed[k].q, Cardinality({l \in 1 .. k - 1 : packed[l].q = packed[k].q})>>

\* One slice of batches is the declarative packing: the same sets of items,
\* each item at the index that becomes its `row_i`, none lost or asked twice,
\* in the order the goroutines are started.
Matches(list, size, packed) ==
  /\ {Name(packed, k) : k \in DOMAIN packed} = BatchesOf(list, size)
  /\ \A k \in DOMAIN packed :
       LET items == packed[k].items
       IN  /\ {items[r] : r \in DOMAIN items} = Members(list, size, Name(packed, k))
           /\ \A r \in DOMAIN items : RowOf(list, size, items[r]) = r - 1
           /\ Len(items) \in 1 .. size
  /\ \A k, l \in DOMAIN packed : k < l <=> Before(list, Name(packed, k), Name(packed, l))

\* The lists TLC looks at: up to five items over three questions.
Lists == UNION {[1 .. n -> {"a", "b", "c"}] : n \in 0 .. 5}

LoopsAgree == \A list \in Lists, size \in 1 .. 3 : Matches(list, size, Packed(list, size))

\* The loops of Client.Batches cut exactly the batches that are run here, and
\* do so whatever the order of the items and however short the last chunk.
PackingMatches ==
  /\ Cardinality(DOMAIN phase) = Len(Packed(Asked, BatchSize))
  /\ LoopsAgree
=============================================================================
