---------------------------- MODULE ScriptBlocks ----------------------------
(* What a text and its files must look like for the writes of a block to be *)
(* all or nothing: they stand once, in one transaction of the text or of    *)
(* one file, and the session gets there by one way only.                    *)
EXTENDS Script

IsList(items) == items \in Seq(ToSet(items))

\* A piece that runs as a statement; one with no write of the block in it, as a
\* statement or behind \explain, that includes no file but those in quiet.
Statement(item) == item # <<>> /\ ~IsMeta(item)
Mentions(text, b) == Kind(text) = "write" /\ Word(text) \in b
Includes(item, files) == item # <<>> /\ Head(item) = "\\i" /\ item[2] \in files
Silent(item, b, quiet) ==
  /\ item # <<>>
  /\ ~Mentions(item, b)
  /\ IsMeta(item) => ~Mentions(Tail(item), b)
  /\ Includes(item, DOMAIN Files) => Includes(item, quiet)
Calm(items, b, quiet) == IsList(items) /\ \A n \in 1 .. Len(items) : Silent(items[n], b, quiet)

\* Files without a write of the block, however they include each other.
Quiet(b) ==
  UNION {quiet \in SUBSET DOMAIN Files :
           \A f \in quiet : Calm(SplitScript(Files[f]), b, quiet)}

\* The body of the transaction: after position i and up to j, which commits; no
\* other transaction begins or ends there, and the writes in todo come once each.
Body(items, b, todo, i, j) ==
  /\ Statement(items[j]) /\ Kind(items[j]) = "commit"
  /\ \A n \in i + 1 .. j - 1 : Statement(items[n]) /\ Kind(items[n]) \notin {"begin", "commit"}
  /\ \A n \in 1 .. Len(items) : n \notin i + 1 .. j - 1 => Silent(items[n], b, Quiet(b))
  /\ \A n \in i + 1 .. j - 1 : Mentions(items[n], b) => Word(items[n]) \in todo
  /\ \A n, m \in i + 1 .. j - 1 :
       Mentions(items[n], b) /\ Mentions(items[m], b) /\ Word(items[n]) = Word(items[m]) => n = m
  /\ \A w \in todo : \E n \in i + 1 .. j - 1 : Mentions(items[n], b) /\ Word(items[n]) = w

Ahead(items, b) ==
  /\ IsList(items)
  /\ \E i, j \in 1 .. Len(items) :
       i < j /\ Statement(items[i]) /\ Kind(items[i]) = "begin" /\ Body(items, b, b, i, j)

\* Or it is in one of the files, included in one place.
Through(items, b, files) ==
  /\ IsList(items)
  /\ \E i \in 1 .. Len(items) :
       /\ Includes(items[i], files)
       /\ \A n \in 1 .. Len(items) : n # i => Silent(items[n], b, Quiet(b))

Holders(b) ==
  UNION {files \in SUBSET DOMAIN Files :
           \A f \in files : \/ Ahead(SplitScript(Files[f]), b)
                            \/ Through(SplitScript(Files[f]), b, files)}

ASSUME BlocksAssumption ==
  \A b \in Sent :
    /\ b \subseteq Writes
    /\ \A t \in Texts : \A items \in {SplitScript(t), ReadPrompt(t)} :
         Calm(items, b, Quiet(b)) \/ Ahead(items, b) \/ Through(items, b, Holders(b))
=============================================================================
