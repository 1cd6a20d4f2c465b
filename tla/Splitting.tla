----------------------------- MODULE Splitting -----------------------------
(* How the lines of a script, or of the prompt, become statements and meta  *)
(* commands: splitScript and repl (internal/app) over the semicolons of     *)
(* parse.Split (internal/parse/analyze.go).                                 *)
(*                                                                          *)
(* A line is a sequence of lexemes: words, ";", a quote mark "$$", brackets *)
(* "(" and ")", or, as the last one, a comment: "--", or "--;" if its text  *)
(* ends in a semicolon.  A meta command is one from its first lexeme on.    *)
EXTENDS Naturals, Sequences, FiniteSets, SequencesExt

Metas == {"\\q", "\\i", "\\set", "\\explain", "\\d", "\\nope"}
IsMeta(line) == line # <<>> /\ Head(line) \in Metas

Comments == {"--", "--;"}
OnlyComments(text) == ToSet(text) \subseteq Comments

\* A quote that is open at the end of the text.
Unclosed(text) == Cardinality({i \in DOMAIN text : text[i] = "$$"}) % 2 = 1

\* Text read so far: the statements in it, and the start of the next one.
Nothing == [out |-> <<>>, buf |-> <<>>]
Flushed(acc) == IF OnlyComments(acc.buf) THEN [acc EXCEPT !.buf = <<>>]
                ELSE [out |-> Append(acc.out, acc.buf), buf |-> <<>>]

\* Mutant of Lexeme: every semicolon counts, in a quote too.
LexemeUnquoted(acc, t) == IF t = ";" THEN Flushed(acc) ELSE [acc EXCEPT !.buf = Append(@, t)]

\* The pieces of parse.Split: between semicolons that no quote hides, in brackets
\* as well.
Lexeme(acc, t) == IF t = ";" /\ ~Unclosed(acc.buf) THEN Flushed(acc)
                  ELSE [acc EXCEPT !.buf = Append(@, t)]
Scan(acc, text) ==
  LET upTo[k \in 0 .. Len(text)] == IF k = 0 THEN acc ELSE Lexeme(upTo[k - 1], text[k])
  IN  upTo[Len(text)]

\* parse.Split: a text the lexer cannot read to its end stays one piece.
Split(text) == IF Unclosed(text) THEN <<text>>
               ELSE Flushed(Scan(Nothing, text)).out

EndsInSemicolon(line) == line # <<>> /\ Last(line) \in {";", "--;"}

\* A line of a script: a meta command if nothing is buffered; a line that ends
\* with a semicolon splits the buffer, whatever the semicolon is part of.
ReadLine(acc, line) ==
  IF IsMeta(line) /\ acc.buf = <<>> THEN [acc EXCEPT !.out = Append(@, line)]
  ELSE IF EndsInSemicolon(line)
       THEN [out |-> acc.out \o Split(acc.buf \o line), buf |-> <<>>]
       ELSE [acc EXCEPT !.buf = @ \o line]

Read(lines) ==
  LET upTo[k \in 0 .. Len(lines)] == IF k = 0 THEN Nothing ELSE ReadLine(upTo[k - 1], lines[k])
  IN  upTo[Len(lines)]

\* What is left at the end of a script is split as well; a prompt forgets it.
SplitScript(lines) == LET acc == Read(lines) IN acc.out \o Split(acc.buf)
ReadPrompt(lines) == Read(lines).out
-----------------------------------------------------------------------------
\* What psql reads (psqlscan.l, external), lexeme by lexeme.  items are the
\* statements and meta commands so far, text is the statement that has begun;
\* psql is in a quote, in brackets, or in the arguments of a meta command.
\* "(" and ")" stand for parentheses, and for the BEGIN ATOMIC and END of a body.
PsqlStart == [items |-> <<>>, text |-> <<>>, quoted |-> FALSE, depth |-> 0, command |-> FALSE]

\* A meta command is run wherever it stands outside quotes, and takes what
\* follows on its line; the statement around it goes on after that.  A semicolon
\* ends a statement outside quotes and brackets, and comments are nothing.
PsqlLexeme(p, t) ==
  CASE p.quoted -> [p EXCEPT !.text = Append(@, t), !.quoted = t # "$$"]
    [] ~p.quoted /\ t \in Metas -> [p EXCEPT !.items = Append(@, <<t>>), !.command = TRUE]
    [] ~p.quoted /\ t \notin Metas /\ p.command ->
         [p EXCEPT !.items[Len(p.items)] = Append(@, t)]
    [] ~p.quoted /\ ~p.command /\ t \in Comments -> p
    [] ~p.quoted /\ ~p.command /\ t = ";" /\ p.depth = 0 ->
         [p EXCEPT !.items = IF p.text = <<>> THEN @ ELSE Append(@, p.text), !.text = <<>>]
    [] OTHER ->
         [p EXCEPT !.text = Append(@, t), !.quoted = t = "$$",
                   !.depth = CASE t = "(" -> @ + 1
                               [] t = ")" /\ @ > 0 -> @ - 1
                               [] OTHER -> @]

\* Where psql is after k lexemes of a line, and after n lines.
PsqlIn(p, line) ==
  LET at[k \in 0 .. Len(line)] == IF k = 0 THEN p ELSE PsqlLexeme(at[k - 1], line[k]) IN at
PsqlAfter(lines) ==
  LET at[n \in 0 .. Len(lines)] ==
        IF n = 0 THEN PsqlStart
        ELSE [PsqlIn(at[n - 1], lines[n])[Len(lines[n])] EXCEPT !.command = FALSE]
  IN  at

\* At the end what has begun is run as well.
TopLevel(lines) ==
  LET p == PsqlAfter(lines)[Len(lines)] IN
  IF p.text = <<>> THEN p.items ELSE Append(p.items, p.text)
=============================================================================
