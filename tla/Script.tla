------------------------------- MODULE Script -------------------------------
(* A session of the command line (internal/app): the statements and meta    *)
(* commands of a script, of the files it includes, or of the prompt, run    *)
(* one after the other over the reconnecting connection, up to the exit     *)
(* code.                                                                    *)
(*                                                                          *)
(* PgConn has the connection's steps for concurrent requests; here one      *)
(* statement runs at a time, and the transaction it is part of matters.     *)
EXTENDS Integers, FiniteSets, Splitting

CONSTANTS Texts,       \* what a session may be given: sequences of lines
          Files,       \* the lines of every file that \i finds, by name
          Writes,      \* words that are statements which write
          Refused,     \* those of them that jevql refuses, and does not send
          Blocks,      \* the writes of each text that are one transaction
          MaxLosses    \* bound: how often the link is lost

ASSUME RefusedAssumption == Refused \subseteq Writes
ASSUME TextsAssumption == Texts \subseteq Seq(Seq(STRING))
ASSUME MaxLossesAssumption == MaxLosses \in Nat

VARIABLES prompt,     \* the session reads a terminal: repl() and not runScript()
          opened,     \* the text it was given
          cfg,        \* the flag --explain
          frames,     \* the scripts being run, the innermost last
          pc,         \* where the session is
          current,    \* the statement being run
          tried,      \* Query has re-sent it
          key,        \* there is an API key
          explain,    \* Executor.Opts.Explain
          cancelled,  \* SIGINT or SIGTERM
          exit,       \* the exit code; -1 while it runs
          conn,       \* the link: up, lost without notice, or dropped
          losses,
          warned,     \* "reconnected to" was printed
          tx,         \* the server's transaction: none, open or failed
          pending,    \* writes of the open transaction, each as often as it ran
          committed,  \* writes that are there to stay
          failed,     \* history: kinds of errors of the outermost script
          abandoned   \* history: an API error ended an included script in a transaction

server == <<conn, losses, warned, tx, pending, committed>>
history == <<failed, abandoned>>
vars == <<prompt, opened, cfg, frames, pc, current, tried, key, explain, cancelled,
          exit, server, history>>

ExitOK == 0
ExitSQL == 1
ExitAPI == 2

Zero == [w \in Writes |-> 0]

\* explained: \explain runs it and puts Opts.Explain back to prev.
NoStatement == [kind |-> "none", word |-> "", explained |-> FALSE, prev |-> FALSE, ok |-> TRUE]

Depth == Len(frames)
Top == frames[Depth]
Frame(items) == [items |-> items, code |-> ExitOK]
InPrompt == prompt /\ Depth = 1

Init ==
  /\ prompt \in BOOLEAN /\ cfg \in BOOLEAN /\ key \in BOOLEAN
  /\ explain = cfg
  /\ opened \in Texts
  /\ frames = <<Frame(IF prompt THEN ReadPrompt(opened) ELSE SplitScript(opened))>>
  /\ pc = "next" /\ current = NoStatement /\ tried = FALSE
  /\ cancelled = FALSE /\ exit = -1
  /\ conn = "up" /\ losses = 0 /\ warned = FALSE
  /\ tx = "none" /\ pending = Zero /\ committed = Zero
  /\ failed = {} /\ abandoned = FALSE

\* What a piece of text is to ParseOne and to the server.  A write is refused if
\* ParseOne does not know its syntax, or for a jev call in it (Analyze).
Kind(text) ==
  LET words == SelectSeq(text, LAMBDA t : t \notin Comments \cup {";"})
      only(ws) == Len(words) = 1 /\ words[1] \in ws
  IN  CASE only({"begin", "jev"}) -> words[1]
        [] only({"commit", "end"}) -> "commit"
        [] only(Writes \ Refused) -> "write"
        [] only(Refused) -> "refused"
        [] Len(words) > 1 /\ Head(words) = "create" /\ Last(words) \in {"$$", ")"} /\ ~Unclosed(words)
             -> "create"
        [] OTHER -> "bad"

Word(text) == SelectSeq(text, LAMBDA t : t \notin Comments \cup {";"})[1]
-----------------------------------------------------------------------------
\* The script at hand returns: to Main, or to \i, which does not look at the
\* code.
Leave(code) ==
  IF Depth > 1
    THEN frames' = Front(frames) /\ pc' = "next" /\ UNCHANGED exit
    ELSE /\ exit' = IF prompt THEN ExitOK ELSE code
         /\ pc' = "closing" /\ UNCHANGED frames

Worse(code, c) == IF c > code THEN c ELSE code

\* The script at hand goes on, after an error if there was one.
GoOn(how) ==
  /\ pc' = "next" /\ UNCHANGED exit
  /\ frames' = [frames EXCEPT ![Depth].code = IF how = "ok" THEN @ ELSE Worse(@, ExitSQL)]

Note(how) ==
  /\ failed' = IF Depth > 1 \/ how = "ok" THEN failed ELSE failed \cup {how}
  /\ abandoned' = (abandoned \/ (how = "api" /\ Depth > 1 /\ tx # "none"))

\* Mutant of StatementEnds: a statement that \explain could not plan leaves
\* Explain on.
StatementEndsStuck(how) ==
  /\ current' = NoStatement
  /\ IF current.explained
       THEN /\ explain' = IF how = "ok" THEN current.prev ELSE explain
            /\ GoOn("ok") /\ UNCHANGED history
       ELSE /\ Note(how) /\ UNCHANGED explain
            /\ IF how = "api" /\ ~InPrompt THEN Leave(ExitAPI) ELSE GoOn(how)

\* runStatement returns: \explain ignores an error, the prompt goes on after
\* any, a script ends at an API (or budget) error.
StatementEnds(how) ==
  /\ current' = NoStatement
  /\ IF current.explained
       THEN explain' = current.prev /\ GoOn("ok") /\ UNCHANGED history
       ELSE /\ Note(how) /\ UNCHANGED explain
            /\ IF how = "api" /\ ~InPrompt THEN Leave(ExitAPI) ELSE GoOn(how)
-----------------------------------------------------------------------------
\* The top of the loop.

Item == Head(Top.items)
ItemReady == pc = "next" /\ Top.items # <<>> /\ ~cancelled
Taken == [frames EXCEPT ![Depth].items = Tail(@)]

ScriptEnds ==
  /\ pc = "next" /\ Top.items = <<>>
  /\ Leave(Top.code)
  /\ UNCHANGED <<prompt, opened, cfg, current, tried, key, explain, cancelled, server, history>>

\* The context is looked at before each item.
ScriptCancelled ==
  /\ pc = "next" /\ Top.items # <<>> /\ cancelled
  /\ Leave(ExitSQL)
  /\ UNCHANGED <<prompt, opened, cfg, current, tried, key, explain, cancelled, server, history>>

\* Mutant of Quit: it always means success.
QuitOK ==
  /\ ItemReady /\ Item = <<"\\q">>
  /\ Leave(ExitOK)
  /\ UNCHANGED <<prompt, opened, cfg, current, tried, key, explain, cancelled, server, history>>

Quit ==
  /\ ItemReady /\ Item = <<"\\q">>
  /\ Leave(Top.code)
  /\ UNCHANGED <<prompt, opened, cfg, current, tried, key, explain, cancelled, server, history>>

Include ==
  /\ ItemReady /\ Head(Item) = "\\i"
  /\ Item[2] \in DOMAIN Files
  /\ frames' = Append(Taken, Frame(SplitScript(Files[Item[2]])))
  /\ UNCHANGED <<prompt, opened, cfg, pc, current, tried, key, explain, cancelled, exit,
                 server, history>>

\* A file that is not there, a command that is not implemented.
MetaFails ==
  /\ ItemReady
  /\ \/ Head(Item) = "\\i" /\ Item[2] \notin DOMAIN Files
     \/ Head(Item) = "\\nope"
  /\ frames' = [Taken EXCEPT ![Depth].code = ExitSQL]
  /\ Note("sql")
  /\ UNCHANGED <<prompt, opened, cfg, pc, current, tried, key, explain, cancelled, exit, server>>

SetKey ==
  /\ ItemReady /\ Item = <<"\\set">>
  /\ frames' = Taken
  /\ key' = TRUE
  /\ UNCHANGED <<prompt, opened, cfg, pc, current, tried, explain, cancelled, exit, server, history>>

\* runStatement, or \explain and runStatement, up to the first thing that can
\* fail.
Start(text, explained) ==
  /\ frames' = Taken
  /\ current' = [kind |-> Kind(text), word |-> Word(text), explained |-> explained,
                 prev |-> explain, ok |-> TRUE]
  /\ explain' = (explain \/ explained)
  /\ pc' \in CASE cfg \/ Kind(text) \notin {"jev", "refused"} -> {"parse"}
               [] ~cfg /\ Kind(text) = "jev" -> {"key"}
               [] ~cfg /\ Kind(text) = "refused" -> {"key", "parse"}  \* with a jev call or not
  /\ UNCHANGED <<prompt, opened, cfg, tried, key, cancelled, exit, server, history>>

StartStatement == ItemReady /\ ~IsMeta(Item) /\ Start(Item, FALSE)
StartExplain == ItemReady /\ Head(Item) = "\\explain" /\ Start(Tail(Item), TRUE)

\* A statement with a jev call needs an API key; the prompt asks for one.
AskKey ==
  /\ pc = "key"
  /\ key' \in IF prompt THEN {key, TRUE} ELSE {key}
  /\ IF key' THEN pc' = "parse" /\ UNCHANGED <<current, explain, history, frames, exit>>
     ELSE StatementEnds("api")
  /\ UNCHANGED <<prompt, opened, cfg, tried, cancelled, server>>

\* What ParseOne or Analyze refuses never reaches the server, whose transaction
\* goes on.
Parse ==
  /\ pc = "parse"
  /\ tried' = FALSE
  /\ \/ current.kind \in {"bad", "refused", "jev"} /\ StatementEnds("sql")
     \/ /\ current.kind \notin {"bad", "refused"}
        /\ pc' = "send" /\ UNCHANGED <<current, explain, history, frames, exit>>
  /\ UNCHANGED <<prompt, opened, cfg, key, cancelled, server>>
-----------------------------------------------------------------------------
\* pgdb.Query (PgConn has its steps one by one).

\* The server ends the transaction of a connection that is gone.
Hung(c) == conn' = c /\ tx' = "none" /\ pending' = Zero

\* Mutant of Redial: nothing is printed when Query dials again.
RedialSilent ==
  /\ pc = "send" /\ conn # "up" /\ ~cancelled
  /\ \/ /\ conn = "lost" => ~tried
        /\ conn' = "up"
        /\ tried' \in IF conn = "lost" THEN BOOLEAN ELSE {tried}
        /\ warned' = (warned \/ conn = "dropped")
        /\ UNCHANGED <<pc, current, explain, history, frames, exit>>
     \/ /\ conn' = "dropped" /\ StatementEnds("sql")
        /\ UNCHANGED <<tried, warned>>
  /\ UNCHANGED <<prompt, opened, cfg, key, cancelled, losses, tx, pending, committed>>

\* A lost link is found by the ping or by the first try, which counts; a
\* dropped one by get.  The new connection knows nothing of a transaction.
Redial ==
  /\ pc = "send" /\ conn # "up" /\ ~cancelled
  /\ \/ /\ conn = "lost" => ~tried
        /\ conn' = "up" /\ warned' = TRUE
        /\ tried' \in IF conn = "lost" THEN BOOLEAN ELSE {tried}
        /\ UNCHANGED <<pc, current, explain, history, frames, exit>>
     \/ \* the server cannot be reached, or the second try fails as well
        /\ conn' = "dropped" /\ StatementEnds("sql")
        /\ UNCHANGED <<tried, warned>>
  /\ UNCHANGED <<prompt, opened, cfg, key, cancelled, losses, tx, pending, committed>>

Send ==
  /\ pc = "send" /\ conn = "up" /\ ~cancelled
  /\ pc' = "running"
  /\ UNCHANGED <<prompt, opened, cfg, frames, current, tried, key, explain, cancelled, exit,
                 server, history>>

\* The server (external) runs the statement, or refuses it.
Execute ==
  LET w == current.word
      ran(ok) == current' = [current EXCEPT !.ok = ok]
  IN
  /\ pc = "running" /\ conn = "up"
  /\ pc' = "ran"
  /\ CASE current.kind = "commit" ->
            \* a failed transaction is rolled back, which is no error
            /\ ran(TRUE) /\ tx' = "none" /\ pending' = Zero
            /\ committed' = IF tx = "open" THEN [v \in Writes |-> committed[v] + pending[v]]
                            ELSE committed
       [] tx = "failed" /\ current.kind # "commit" ->
            ran(FALSE) /\ UNCHANGED <<tx, pending, committed>>
       [] current.kind = "begin" /\ tx # "failed" ->
            ran(TRUE) /\ tx' = "open" /\ UNCHANGED <<pending, committed>>
       [] current.kind \in {"write", "create", "jev"} /\ tx # "failed" ->
            \/ /\ ran(FALSE) /\ tx' = IF tx = "open" THEN "failed" ELSE tx
               /\ UNCHANGED <<pending, committed>>
            \/ /\ ran(TRUE) /\ UNCHANGED tx
               /\ IF current.kind # "write" THEN UNCHANGED <<pending, committed>>
                  ELSE IF tx = "open"
                         THEN pending' = [pending EXCEPT ![w] = @ + 1] /\ UNCHANGED committed
                         ELSE committed' = [committed EXCEPT ![w] = @ + 1] /\ UNCHANGED pending
  /\ UNCHANGED <<prompt, opened, cfg, frames, tried, key, explain, cancelled, exit, conn, losses,
                 warned, history>>

\* The rows are read; a jev statement that is not only explained is judged.
Reply ==
  /\ pc = "ran" /\ conn = "up"
  /\ IF current.ok /\ current.kind = "jev" /\ ~explain
       THEN pc' = "judging" /\ UNCHANGED <<current, explain, history, frames, exit>>
       ELSE StatementEnds(IF current.ok THEN "ok" ELSE "sql")
  /\ UNCHANGED <<prompt, opened, cfg, tried, key, cancelled, server>>

\* The link is lost before the first reply, and Query tries once more, or
\* later, and the statement fails.
ReplyLost ==
  /\ pc \in {"running", "ran"} /\ conn = "lost"
  /\ conn' = "dropped"
  /\ \/ /\ ~tried /\ ~cancelled
        /\ tried' = TRUE /\ pc' = "send"
        /\ UNCHANGED <<current, explain, history, frames, exit>>
     \/ StatementEnds("sql") /\ UNCHANGED tried
  /\ UNCHANGED <<prompt, opened, cfg, key, cancelled, losses, warned, tx, pending, committed>>

\* The context is done before or while the statement runs: the connection is
\* closed, and the transaction with it.
Interrupted ==
  /\ pc \in {"send", "running", "ran"} /\ cancelled
  /\ Hung("dropped")
  /\ StatementEnds("sql")
  /\ UNCHANGED <<prompt, opened, cfg, tried, key, cancelled, losses, warned, committed>>

\* Executor.runJev after the rows: budgets, TypeSafe and the second pass.
Judged ==
  /\ pc = "judging"
  /\ \E how \in {"ok", "api", "sql"} : StatementEnds(how)
  /\ UNCHANGED <<prompt, opened, cfg, tried, key, cancelled, server>>
-----------------------------------------------------------------------------
\* Main's deferred s.close.
Close ==
  /\ pc = "closing"
  /\ pc' = "exited" /\ Hung("dropped")
  /\ UNCHANGED <<prompt, opened, cfg, frames, current, tried, key, explain, cancelled, exit,
                 losses, warned, committed, history>>

Signal ==
  /\ ~cancelled /\ pc \notin {"closing", "exited"}
  /\ cancelled' = TRUE
  /\ UNCHANGED <<prompt, opened, cfg, frames, pc, current, tried, key, explain, exit, server, history>>

Lose ==
  /\ conn = "up" /\ losses < MaxLosses /\ pc # "exited"
  /\ losses' = losses + 1 /\ Hung("lost")
  /\ UNCHANGED <<prompt, opened, cfg, frames, pc, current, tried, key, explain, cancelled, exit,
                 warned, committed, history>>

Exited == pc = "exited" /\ UNCHANGED vars

Loop == ScriptEnds \/ ScriptCancelled \/ Quit \/ Include \/ MetaFails \/ SetKey
        \/ StartStatement \/ StartExplain
RunStatement == AskKey \/ Parse \/ Redial \/ Send \/ Execute \/ Reply \/ ReplyLost
                \/ Interrupted \/ Judged

Next == Loop \/ RunStatement \/ Close \/ Signal \/ Lose \/ Exited

Spec == Init /\ [][Next]_vars
-----------------------------------------------------------------------------
\* What a caller of a script concludes from the exit code (README, "Exit
\* codes") is true of the statements and commands of that script: 0 says none
\* of them failed, and 2 that the one that failed last failed at TypeSafe or
\* at a budget.
ExitTells ==
  exit # -1 /\ ~prompt =>
    /\ exit = ExitOK => failed = {}
    /\ exit = ExitAPI <=> "api" \in failed

\* \explain plans its own statement only: whatever happens to it, the next one
\* is executed, or planned, as the command line says.
ExplainForOne == pc = "next" => explain = cfg

\* What jevql sends of a block is all or nothing, and once, across lost links,
\* retries, statements that fail at the server and signals, unless a new
\* connection was announced, or an API error ended an included script in the
\* middle of a transaction.  What jevql refuses itself is not part of it: the
\* transaction goes on without, and COMMIT commits the others.
Sent == {b \ Refused : b \in Blocks}
WholeUnlessWarned ==
  ~warned /\ ~abandoned =>
    \A b \in Sent : \A v, w \in b : committed[v] = committed[w] /\ committed[v] <= 1

\* Where the code and psql read a text alike: no quote goes on at the end of a
\* line, there are no comments, no semicolon is in brackets, and a meta command
\* begins a line and stands between two statements.
Tame(lines) ==
  \A n \in DOMAIN lines :
    /\ ~Unclosed(lines[n]) /\ ToSet(lines[n]) \cap Comments = {}
    /\ \A k \in DOMAIN lines[n] :
         LET p == PsqlIn(PsqlAfter(lines)[n - 1], lines[n])[k - 1]
         IN  ~p.quoted => /\ lines[n][k] = ";" => p.depth = 0
                          /\ lines[n][k] \in Metas => k = 1 /\ p.text = <<>>

\* Such a text is cut where psql cuts it, several statements on a line, one on
\* several lines, and semicolons in quotes included.
SplitMatches ==
  pc = "next" /\ frames = <<Frame(SplitScript(opened))>> /\ Tame(opened)
    => Top.items = TopLevel(opened)

\* "split on top-level semicolons" (app.go:679), "so strings, dollar quotes and
\* comments are respected" (analyze.go:21): nothing runs that is not a
\* statement of the text.  Does not hold: see the README.
QuotedNotRun ==
  \A w \in Writes : committed[w] > 0 =>
    \E t \in {opened} \cup {Files[f] : f \in DOMAIN Files} : <<w>> \in ToSet(TopLevel(t))
=============================================================================
