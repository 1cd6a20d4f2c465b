# A verification project for jevql

jevql gives vanilla Postgres a set of `jev_*` functions that a language model
service (TypeSafe) evaluates. A Go process parses a statement, has Postgres run
what Postgres can run, sends the rows to TypeSafe, caches the answers in a
sqlite file, and computes the result itself. The process is a command line, an
HTTP and MCP service, an in-process Go library, or an engine that a TypeScript
or Python client starts for itself.

This directory holds TLA+ models of that code, the TLC runs that check them on
small instances, and TLAPS proofs of the main theorems for every value of the
constants. `PROJECT.json` is the index: components, runs, the source lines each
definition translates (`map`), the mutants that show each property can fail,
the hazards of the code and the properties aimed at them.

    tlc -config JudgeClient.cfg MCJudgeClient      one run (see the table below)
    tlapm JudgeClientProofs.tla                    one module of proofs

All paths below are relative to the repository (`src/` in `PROJECT.json`).

## 1. Inventory

| Part | State | Operations | Talks to |
|---|---|---|---|
| **TypeSafe client**, `internal/typesafe/client.go` | per call: items, batches, one goroutine per batch, the slots of the errgroup, the tally under `mu` | `Judge`, `Batches`, `judgeBatch`, `post`, retry and backoff, `Report` | TypeSafe over HTTP; the caller's context |
| **Judging of rows**, `internal/exec/judge.go`, `exec.go`, `internal/cache/cache.go` | a statement's `order`, `keys`, `hits`, `answers`; the sqlite file that all processes share | `JudgeRows`, `judge`, `GetMany`, `PutMany`, `Clear` | the client; other processes through the file |
| **Postgres connection**, `internal/app/pgdb.go` | the current connection, the time of its last use, `mu` | `get`, `Query`, `drop`, `watchRows.Err`, `Close` | Postgres; the mutexes of the HTTP and the MCP handler |
| **Two-pass execution**, `internal/parse/analyze.go`, `internal/rewrite/rewrite.go`, `internal/exec/exec.go` | the plan of one statement: targets, calls, layout, what the server sorts | `Analyze`, `Build`, `collect`, `judge`, `project`, `sortRows`, `explain` | Postgres; judging |
| **HTTP service**, `internal/serve`, `internal/wire` | the mutex in front of the executor, the token buckets | the routes, CORS, `allow`, `executor`, `ErrorFor` | clients; executor |
| **Embedded engine**, `sdk/typescript/src/engine.ts`, `index.ts` and the process in `serve.go`, `app.go` | `child`, `starting`, `running`, `ready`, `transport`; the process and its signals | `start`, `spawn`, `fail`, `killNow`, `stop`, `close`, the exit hook; `newSession`, `ListenAndServe`, `WatchParent` | one JavaScript thread; pipes, signals, exit events |
| **Command line**, `internal/app/app.go`, `repl.go`, `parse.Split` | a session's API key, options and variables; the loop of each script being read | `runScript`, `splitScript`, `repl`, `meta`, `runStatement`, `exitFor` | executor, connection, files, signals |
| **MCP tools**, `internal/mcp/mcp.go` | one mutex; what the mount allows | five tools, the read-only rule | the executor of the service |
| **Python SDK**, `sdk/python` | `process`, `url`, a lock; the client kept for a URL | `start`, `_read_ready`, `stop`, `close`, the exit hook | threads and signal handlers of the host; the engine process |
| **Go SDK**, `sdk/go/jevql.go` | one mutex, the executor's options | `Query`, `Explain`, `Judge`, `CacheClear`, `Close` | executor |
| Statement parsing, `internal/parse/walk.go`, `call.go` | none | which calls a statement has | Postgres' own parser |
| Values and output, counters, TypeScript HTTP transport | none that outlives a call | conversions | |
| Site, deployment, scripts, fixtures | | | |

Where it is hard, and what has to be true there:

* **Concurrency in one process.** Batches answer in any order into one map;
  an item must get its own row's answer, a failed batch must fail the call with
  *its* error, the load must stay bounded, cancellation must stop the retries.
  Statements of different handlers share one connection and one executor.
* **Concurrency between processes.** Sessions read, fill and clear one cache
  file; nothing they do to each other may give a row a wrong answer, or make a
  statement pay for what it found.
* **Failure.** Links break silently or loudly, before or after a statement ran;
  a retry must heal what can be healed and lie about nothing. The cache may be
  unreadable or refuse a write; the statement must go on.
* **Order.** LIMIT and ORDER BY are moved between Postgres and jevql: the
  result must be one that Postgres could give, and no more rows than needed
  may leave the machine.
* **Sequences.** A script is many statements over a connection that may be
  replaced, with errors that do or do not end it: its text must be cut where a
  statement ends, its exit code must tell, a transaction must stay whole.
* **Lifetime.** An engine must be started once, stopped, and never outlive its
  host, whatever order ready lines, timers, signals and exit events arrive in,
  and, in Python, whatever two threads and a raising signal handler do to the
  same three fields.

`PROJECT.json` lists each hazard at its line, with the properties against it.

## 2. Modules

| Module | Models | Extends / instances |
|---|---|---|
| `Batching` | items and the batches they belong to, as functions: what packing has to be | |
| `BatchingCode` | the packing loops of `Client.Batches`, next to the client that runs their batches | `JudgeClient` |
| `JudgePromise` | the abstract specification of one `Judge` call: all answered, or an error | |
| `JudgeClient` | `Client.Judge` in full | `Batching`; implements `JudgePromise` |
| `JudgeClientProofs` | the theorems of both | `BatchingCode` |
| `Judging` | `judge` / `JudgeRows` over the shared cache; uses `Judge` as what `JudgePromise` promises | |
| `JudgingProofs` | its theorems | `Judging` |
| `PgConn` | the connection, under requests of one or two handlers | |
| `PgConnProofs` | its theorems | `PgConn` |
| `SqlSelect` | the abstract specification of a SELECT: which results Postgres could give if `jev_*` were functions of the row | |
| `TwoPass` | `Analyze`, `Build`, collect, judge, project, explain | `SqlSelect` |
| `TwoPassProofs` | its theorems | `TwoPass` |
| `EngineProcess` | the process of an embedded engine, as its host sees it | |
| `Engine` | the TypeScript SDK as its host: one thread of callbacks | `EngineProcess` |
| `EngineProofs` | its theorems | `Engine` |
| `PyEngine` | the Python SDK as its host: threads, a lock that `stop` does not take | `EngineProcess` |
| `PyEngineProofs` | its theorems | `PyEngine` |
| `Service` | the HTTP service, the MCP tools and the Go client down to the executor | |
| `ServiceProofs` | its theorems | `Service` |
| `Splitting` | lines into statements and meta commands, as the code and as psql do it | |
| `Script` | a command-line session: scripts, included files, the prompt, transactions, the exit code | `Splitting` |
| `ScriptBlocks` | what a text must look like for a transaction of it to be one | `Script` |
| `ScriptProofs` | theorems about `Script` | `ScriptBlocks` |
| `MC...` | constants and small sets for TLC | the module of that name |

How they compose. `Service` and `PgConn` look at the same request from two
sides: `Service` has the routes, the limiter and the mutex and lets the executor
succeed or fail; `PgConn` has what the mutex protects. `TwoPass` judges each distinct object in one
step; `Judging` opens that step up into lookup, `Judge`, write-back and crashes;
its `Judge` step is in turn what `JudgeClient` is proved to implement. `Script`
has one statement at a time on the connection of `PgConn`, whose steps it merges
into `Send`, `Redial`, `Reply` and `ReplyLost`, and adds the transaction.

### 2.1 JudgeClient

*State and code.* `phase[b]` is where the goroutine of batch `b` is: not
started, about to post, on the wire, in its backoff, at the tally, reporting,
ended. `slots` of the errgroup are counted from the phases. `answer[i]` is
`items[i].Answer`; `wire`, `attempt`, `tally`, `reported`, `firstErr` and the two
cancellation flags are what their names say. A goroutine's steps are
`Go`, `Post`, `Answered`, `Retryable`, `Fails`, `Wake`, `Tally`, `Report`,
`RecordError`; the caller's are `Cancel` and `Return`. `Post` looks at the context just before
the request goes out, as `HTTP.Do` does; a request that is on the wire when the
group is cancelled may still be answered, since the answer may be there already.

*Service.* External: it judges each `row_r` of a request under the request's
question. It may answer in full, in part, with any status, or not at all.

*Abstracted.* The wording of the request, token counts and the budget of characters.
Answers are distinct tokens per (row, question), so that any mix-up of indices shows.

### 2.2 Judging

A row stands for its (question, canonical object) pair, which is also its cache
key. Sessions are processes; they share `store`. `Start` dedups rows into
items; `ReadNext` is one SELECT of `GetMany`, so that
other sessions' writes fall between; `ReadFails` is the logged error
that makes every row a miss; `Resolve` splits hits and pending; `JudgeSucceeds`
and `JudgeFails` are `Client.Judge`; `Put` and `PutFails` the transaction of
`PutMany`; `Crash` and `Clear` may come at any time. An entry may be *unusable*
(of another type than its question, or not JSON), since the service may answer so.
`said`, `warm`, `kept` and `readOk` are history.

### 2.3 PgConn

`links` is every connection ever opened, `conn` the current one. A link is
open, reset (the next use fails at once), silent (it fails after a long
timeout) or closed, and has at most one statement in some stage of being run by the server. A
request goes through `Lock`, `GetTrusted` / `GetPinged` / `GetDials`, `Send` or
`Rejected`, `Reply` or `ReplyLost`, `RowsEnd`, `RowsLost` or `StatementFails`;
`Drop` is the one retry. `ServerRuns` is Postgres: closing a connection takes
back nothing it has received. `Lose`, `Cancel` and `Close` (5 s after the
server was told to stop) come at any time. `LockOf` says which mutex a request
takes, so that the same module models HTTP alone and HTTP with MCP.

The connection runs in simple protocol mode (`app.go`), so `Query` returns only
after the first reply; this is why a read error can reach the retry at all.

### 2.4 SqlSelect and TwoPass

A query is a list of expressions (columns, `*`, `jev` with a threshold,
`jev_prob`, aggregates) with or without a name, the terms of its WHERE (plain ones,
`jev()`, `NOT jev()`, a call inside something else, an AND of these), GROUP BY and
ORDER BY keys (a position or an expression, which may be a bare name), LIMIT and
OFFSET, and the clauses that jevql does not support. `Statements` is the set of all of them, for
lists of any length and any numbers; the theorems are about every one.
`SqlSelect!IsResult` says which row lists are results, with ties and the order
of the table left open, from the meaning of SQL alone: a name in ORDER BY is an output
column first, in GROUP BY a column of the table first, and a term that is NULL keeps no row.
`Supported` says which queries jevql means to run; the others it has to refuse. `TwoPass` has the code's
structures: the terms of WHERE split into predicates and the rest, targets with
hidden ones, the count of calls that no clause may exceed, the layout of the collect query and its separators, `ServerOrder`, the row budget,
objects, and the client's stable sort, grouping and cut. `Collect` chooses
any order Postgres may return rows in.

### 2.5 EngineProcess, Engine and PyEngine

`EngineProcess` is `jevql serve --ready-json --parent-pid`: a process boots
(`newSession`, `net.Listen`), writes its line, serves, drains and dies;
it looks at its parent only while serving, as `WatchParent` does. A process is
named by the order in which it was spawned.

`Engine`: the JavaScript host is one thread; a callback with the promise
reactions it triggers is one action. The promise of `spawn` has the name of
its process. `child`, `starting`, `ready`, `transport`, `running`
and `closing` are the fields of `Engine` and `Jevql` and the pending `stop()`
calls. `HostExits` runs the exit hook, `HostCrashes` does not.

`PyEngine`: threads share one client. `pc[t]` says before which access
to `process` or `url` a thread is: `start` looks at `process` twice
(`Acquire`, `PollProcess`) and then at `url`, `stop` reads and resets them in three
steps and without the lock. `mine[t]` is its local `proc`, `after[t]` what its `stop`
belongs to: a `close()`, a start that failed, the exit hook. `Interrupt` is an
exception of a signal handler, anywhere in the main thread; a Ctrl-C also reaches
the engines. `crossed` and `gone` are history. `Engine.start`
returns and the request that follows is one action (`Return`).

### 2.6 Service

A request carries what the checks look at: client, route or tool, method, token,
whether its body or arguments decode, what its statement is (with `jev` calls,
plain, a write, or a *writing select*: a SELECT by its syntax that writes, through a
DELETE in its WITH, an INTO or a volatile function), and its options. `Arrive` takes it through CORS, the limiter and
its route's checks up to the mutex (these share nothing but the limiter, which
has its own lock); `Lock`, `Succeed`, `Fail`, `Cancelled` and `Reply` follow.
HTTP routes and MCP tools have a mutex each and one executor; the Go client has its
own of both, in another process, and so a run is of one or the other
(`SameProcess`). Routes and tools run on a copy of the executor; the Go client's
`run` assigns to it and restores it (`Lock`, `Restore`). `schemaTables` and
`schemaTable` keep the mutex until their reply is written, which may be never: a client may
stop reading. `HangUp` may come at any time.

### 2.7 Splitting and Script

A text is a sequence of lines, a line a sequence of lexemes. `SplitScript` is
`splitScript`: meta commands are taken while nothing is buffered, a line that ends in a
semicolon has the buffer cut by `parse.Split`. `ReadPrompt` is the
prompt's loop.

`TopLevel` is what psql makes of the same text: an automaton of its own
(`PsqlLexeme`) that shares nothing with the code's reading. It goes from lexeme to lexeme
with the items so far, the statement that has begun, and whether it is in a quote, how deep in
brackets (or in a `BEGIN ATOMIC` body), or in the arguments of a meta command. Unlike the
code it runs a meta command anywhere outside quotes, in mid-statement too, and ends no
statement inside brackets.

`frames` is the stack of `runScript` loops (`\i` nests them; the outermost may
be the prompt), each with the items left and its code. A statement goes through
`Start`, `AskKey`, `Parse`, `Send`, `Execute`, `Reply` and `Judged`, and ends in
`StatementEnds`. `Execute` is Postgres: `tx`, `pending` and `committed` are its
transaction and what a write has left. `Signal` and `Lose` come at any time;
what they do to a statement is `Interrupted`, `ReplyLost` and `Redial`.

A statement may be refused before anything is sent: `Parse` refuses what `ParseOne` does not
know (`bad`), and a write with a `jev` call in it or of a syntax newer than the parser's
(`Refused`); the server's transaction does not notice.
`abandoned` is history: an API error ended an included script inside a transaction.

*Abstracted.* A write is a word, and counts; a `jev` statement reads; a text that is
not one of the known statements does not parse. `\set` stands for setting the
API key; display settings, `\cache` and `\d` are left out.

## 3. Runs

| Run | Question | Distinct states |
|---|---|---|
| `judge_client` | Does a `Judge` call keep its promise, with three batches of two interleaved questions, two slots, one retry, any failure, a cancelling caller? | 33,164 |
| `judging` | Are answers genuine and nothing paid twice, with two sessions of two statements over one cache, failures, crashes and `Clear` anywhere? | 742,512 (symmetric) |
| `pg_conn` | Two HTTP requests of two statements, one loss, cancellation, shutdown: does success mean run, is an old loss healed, does nothing leak or hang? | 667,328 |
| `pg_conn_shared` | Is the connection used by one statement at a time when HTTP and MCP share a process? **No** (4.1) | |
| `two_pass` | 278 queries x 7 tables x 3 services x every order of collection: is the result one that Postgres could give, within budget, with nothing judged in vain, and is only refused what is not supported? | 122,736 |
| `two_pass_star` | Does the layout hold after a `*`? **No** (4.2) | |
| `engine` | Three engines, failed starts, crashes, one `close()`, a host that exits or crashes: shared spawns, no kept failure, no orphan? | 51,188 |
| `engine_close` | Does `close()` stop the engine? **Not always** (4.3) | |
| `py_engine` | Two threads, two engines, one `close()`, one exception of a signal handler: is an engine only lost in a race or an interrupted call, does no query get a dead one, does `stop()` stop, does every call return? | 155,250 |
| `service` | Three requests of two clients on the routes and tools, or three calls of a Go client: rate bound, no effect without token, own options, everybody answered who is not behind a client that stopped reading? | 417,687 |
| `script` | 185 texts as a script and at the prompt, two lost links, a signal, failures and refusals anywhere: cut as psql does where the text is tame, exit code true, options restored, transactions whole? | 343,844 |
| `script_split` | Is only run what is a statement of the text? **No** (4.4) | |

### 3.1 What the properties say

`judge_client`
* `PackingMatches`: the packing loops cut exactly the batches the
  model runs, for every list of up to five items over three questions and batch sizes 1 to 3.
* `AnsweredByOwnRow`: an item only holds the judgement of its own row and question.
* `AllOrError`: nil is returned only with every item answered and counted.
* `CauseReported`: unless the caller cancelled, the error returned is the first
  failure's own and not the echo of the cancellation it caused.
* `LoadBounded`: at most `Concurrency` requests outstanding, `1 + MaxRetries` per batch.
* `ProgressExact`: every progress report was the true count at some moment since.
* `JudgeReturns` (liveness), `KeepsPromise` (refinement of `JudgePromise`).

`judging`: `AnswersGenuine`, `StoreGenuine`, `WarmNeverAsked` (a row usable in the cache
all through the lookup is not asked), `SecondRunFree` (after a kept write the
same statement is free until someone clears, for each row whose answers so far
were all usable).

`pg_conn`: `NoLeak`, `SuccessIsReal` (a request that succeeds had each of
its statements run, across reconnects), `OldLossHealed` (a loss from before the
request never fails it, except one that gives no sign and is younger than the
5 s in which no ping is sent), `RunAtMostTwice`, `EveryRequestEnds`.

`two_pass`: `ResultAsPostgres`, `OnlyFilteredJudged`, `LimitJudged` (with plain sort
keys only the rows shown are judged), `BudgetBeforeCall` (over budget, nothing was
sent), `ExplainCovers` (what explain announces covers what the run asks).

`engine`: `SpawnsShared`, `FailureNotKept`, `StartSettles`, `CloseReturns`,
`EnginesEndWithHost`.

`py_engine`
* `OnlyRacesLose`: an engine that runs and that nothing will stop before the host
  ends has been spawned across another thread's `stop()`, or there are as many interrupted calls.
* `NoDeadUrl`: `start()` does not return an engine that had ended before the query
  began, unless a restart was interrupted.
* `StoppedEngines`: the engine that a `stop()` returned for is gone or killed, and the
  one of a failed start told to end.
* `CallsReturn` (liveness): also with an engine that hangs.

`service`
* `RateBounded`: over *any* stretch of time a client gets through at most the bucket's
  `Burst` and the refill of that time, and once more `Burst` for each time the map was emptied; the map stays
  within its bound. This is the bound of a token bucket: with `--rate-limit N` it is up to
  2N in one minute, where the documents say N "requests per minute".
* `NothingWithoutToken`: without the token nothing reaches the executor or clears the cache,
  and where the server does not allow writes its tools run no statement that is not a SELECT. It does not say
  that they write nothing: a writing select passes `checkReadOnly` (see *Tools* in 4).
* `OwnOptions`, whatever ran before, failed, waits or runs beside it.
* `EveryRequestEnds` (liveness): every request is answered, or dropped after its client left,
  unless its own reply is a client's that has stopped reading, or it waits for the mutex behind such a
  reply of `schemaTables` or `schemaTable`. That stalls the HTTP routes and never the tools.

`script`
* `SplitMatches`: a *tame* text is cut where psql cuts it. In a tame text no quote stays open at a
  line end, there are no comments, no semicolon is in brackets, and a meta command begins
  a line and stands between two statements. Of the 185 texts 153 are tame. Of the others one
  is read alike (a `\q` at the end of a line); the differences are named in 4.
* `ExitTells` (0: nothing of this script failed; 2: a TypeSafe or budget error ended it).
* `ExplainForOne`.
* `WholeUnlessWarned`: what jevql *sends* of a transaction is applied whole or not at all, and
  once, unless "reconnected to" was printed, or an API error ended an included script
  in the middle of a transaction. A write that jevql refuses is not sent; the rest is committed
  without it (see *Scripts* in 4). Where the writes of a block stand is an assumption on the texts
  (`ScriptBlocks!BlocksAssumption`), which TLC evaluates for those of both runs.

Types are proved (`TypeCorrect`, in `JudgingProofs` `Typed`, parts of the invariants in `TwoPassProofs`
and `ScriptProofs`) and are not properties of a run of their own.

Each has a mutant in `PROJECT.json` that breaks it: an index the wrong way
round, an unlock forgotten, a copy not taken, an off-by-one.

### 3.2 Bounds, and why they are enough

* `judge_client`: five items, two questions, `BatchSize` 2 give a full batch, another
  full one and a short last one; with two slots one batch has to wait, and
  one retry is enough to exhaust. More batches only repeat the pairs
  of which one fails while another waits, runs, backs off or reports. The proofs have no bound.
* `judging`: two sessions suffice for every read/write race on one key, two keys
  for a lookup torn between them, and two statements each for a second run. Row lists: none,
  one, two with a duplicate, and one over budget. One usable answer per key
  and the unusable one are all that `SecondRunFree` tells apart; answers of different keys differ. The proofs have no bound.
* `pg_conn`: `MaxLosses = 1` hits each of the two statements of either request
  at each stage; `Close` and `Cancel` are further causes. One more loss is one more
  independent failure of the same retry. `SuccessIsReal` and `NoLeak` are proved for any number.
* `two_pass`: up to three rows with two columns hold ties, duplicates and NULLs;
  the queries take every way of naming a key and every aggregate but `avg`.
  Values 0 and 1 tell apart anything that compares.
  There is a query for each reason to refuse one.
* `engine`: three engines are needed for a failed start, its retry, and one after a
  `close()`; one `close()`.
* `py_engine`: two threads have every race of a `start` or `stop` with another; two
  engines are one and its replacement. The safety properties were also run with three
  engines (3.1 million states).
* `service`: `Burst = 1`, `Rate = 2` and `MaxBuckets = 1` make the refill overshoot
  and a second client empty the map; three slots let two wait for one, on either mutex. `MaxTicks = 1`.
* `script`: every text of up to two lines over ten, of three over four, and ten picked
  ones with transactions over several lines, a refused write in one, included files, no key,
  `\explain`, and brackets, quotes and meta commands in mid-statement. Two losses make the retry fail as well.

`CHECK_DEADLOCK FALSE` where the system may stop: all statements used up
(`judging`), the host ended (`engine`, `py_engine`), all slots used (`service`).

### 3.3 Fairness

Fairness is assumed of what the code waits for with a bound of its own, of the scheduler, and of
three things that have no bound in the code and are named below: that Postgres answers (`PgConn`),
hence that the executor returns (`Service`), and that a `Shutdown` or a kill takes effect
(`Engine`). Of clients nothing is assumed.

* `JudgeClient`: weak fairness of each goroutine's own steps (the Go scheduler,
  the backoff timer), and of an answer *or* failure of a request on the wire
  (the HTTP client's timeout of 120 s). The caller never has to cancel.
* `PgConn`: weak fairness of each handler and of Postgres running what it was sent.
  A mutex that is released goes to a waiter because with weak fairness of
  `Handle` and finitely many requests nobody can take it for ever. Losses,
  cancellation and `Close` need not happen.
* `Engine`: ready lines, exit events and timers are delivered; a serving process notices
  its cancelled context (the tick of 2 s); `Shutdown` gives up after 5 s; SIGKILL kills. A booting
  process has to end only if it was cancelled or its host is gone
  (`ProcessMustStep`), since the connect to the database has its own timeout then and not otherwise.
* `PyEngine`: threads are scheduled, their timers (15 s, 2 s, 60 s) expire, and a lock
  that keeps being released is given to every waiter (strong fairness of
  `Acquire`). Nothing is assumed of the engines.
* `Service`: strong fairness of `Lock` (Go's mutex is starvation free), weak of
  the executor's return (`JudgeReturns` and `PgConn!EveryRequestEnds`). None of the reply: the
  server sets no `WriteTimeout` (`serve.go:201`), so a client may keep its reply waiting for ever.

## 4. Where the code and its documents disagree

Each of these is a run that ends in a counterexample.

1. **HTTP and MCP use one connection at once** (`OneUser`). Each holds its own
   mutex. The second statement gets "conn busy", which `dead()` takes for a lost
   link: `drop` closes the connection under the first.
2. **A target after `*` reads the wrong column** (`LayoutIsRight`). `Build`
   counts one column for a star, `span` finds the real width of the star only:
   `SELECT * FROM t WHERE jev(t, 'q') ORDER BY a` sorts by another column.
3. **`close()` may leave the engine running** (`CloseStopsEngine`). The exit
   handler of an earlier child resets `child` and `running`, whichever child they now stand for.
   The engine ends with its host all the same (`EnginesEndWithHost`).
4. **A function body is run as statements of the script** (`QuotedNotRun`). Each line that
   ends in a semicolon cuts the buffer, inside a dollar quote too: the
   CREATE FUNCTION does not parse, the lines of its body run by themselves, and its
   `END;` commits the transaction the script is in.

Known differences that no run shows:

* *Cache.* An unusable entry is never replaced: the lookup skips it and asks
  again, but only keys that had no entry are put (`judge.go:111`,
  `exec.go:272`), so every later run pays again.
* *Connection.* `Query` may run a statement twice: a read error after the server
  ran it is `dead()` too (`pgdb.go:113`); it is never three times (`RunAtMostTwice`).
* *Explain.* An explain of a statement without `jev` calls runs it, a write included,
  and then answers 400 or a tool error (`exec.go:97`); `sdk/PROTOCOL.md:65` says "plan and cost
  only". `\explain`, "plan, no HTTP", asks for an API key.
* *Keys.* A `jev` call that the select list has and ORDER BY or GROUP BY repeats as
  an expression is refused ("unsupported position": `resolveRef` takes the
  target for it and the count of calls no longer agrees, `analyze.go:322`), although
  `mcp.go:415` and `sql.mdx` say "or the expression itself". A name in GROUP BY that is an
  alias and a column means the alias here, the column in Postgres.
* *Options.* `max_rows` of the query tool replaces `--max-rows`, which `mcp.mdx:70` says
  "caps the rows any single query may collect". `describe_table` does not look at `rows.Err`
  (`mcp.go:369`).
* *Tools.* A read-only mount "rejects anything that is not a SELECT" (`mcp.mdx:70`) and its tools carry
  a read-only hint (`mcp.go:64`), but `checkReadOnly` (`mcp.go:226`) only asks for the syntax of a
  SELECT: `WITH d AS (DELETE ... RETURNING *) SELECT`, `SELECT INTO` and volatile functions pass and are run, and write.
  What keeps the tools from writing is a database role that may not (`deploy.mdx:69`).
* *Catalog routes.* `schemaTables` and `schemaTable` write their reply while they hold the mutex
  (`routes.go:248`, `routes.go:297`), and the server has no `WriteTimeout`: one client that stops reading keeps every
  other HTTP statement waiting (`EveryRequestEnds` names this exception).
* *Reading a text.* Next to 4.4: `parse.Split` ends a statement at every semicolon outside quotes, where "top-level
  semicolons" (`analyze.go:20`, `app.go:679`) would leave those in brackets or in a `BEGIN ATOMIC` body alone:
  `CREATE RULE ... DO (a; b)` is cut in two. A meta command in mid-statement or in the middle of a
  line, which psql runs, becomes part of the statement. Comments differ as well.
* *Refused in a transaction.* A statement that `ParseOne` or `Analyze` refuses (`exec.go:92`, `exec.go:99`), such as an
  UPDATE with a `jev` call, never reaches Postgres. There the transaction goes on, and in a script the
  `COMMIT` that follows commits the other writes, where Postgres, had it refused the statement, would roll them back.
* *Scripts.* A comment line before a meta command swallows the command. The failure
  of a file run by `\i`, or of a statement under `\explain`, does not reach the exit code.
  A file that ends at an API error inside a transaction leaves the including script in it
  (`repl.go:241` drops the code): its next `COMMIT` commits half of the file's block.
* *TypeScript.* An engine that dies by itself is not replaced: the transport
  keeps its URL until `close()`.
* *Python.* A `start()` that a signal handler interrupts leaves an engine without a
  URL, or with the URL of the one before; a `close()` that crosses a `start()` may forget
  the new engine. Both end with the host.
* *Go.* `Close` takes no lock and closes the connection under a statement; the
  client has one connection and never a second, so a cancelled call, which closes
  it, is the last one that works.

Others, which the queries of `two_pass` leave out: `count(*)` without GROUP BY over no
rows gives no row; a judged column outside GROUP BY is not refused; a position in ORDER BY
counts a `*` as one column; of two columns of one name ORDER BY takes the first, and an
aggregate in ORDER BY without groups sorts nothing (Postgres refuses both); a negative LIMIT that
jevql itself applies panics;
explain counts one question on two sources once in its total (which is why
`ExplainCovers` multiplies by the sources). And two behaviours that no document speaks
of: a cancelled call returns an `APIError` of status 0, and the answers of a
statement that failed half way are thrown away although they were paid for.

## 5. Proofs

Everything below is checked by TLAPS for all values of the constants that meet
the named assumptions of the modules: sizes and bounds are naturals, `Asked` is a finite
sequence, queries are among `Statements`, a service has an answer for each row of the tables
(`VerdictsAssumption`), requests are records of the routes and
tools, refused words are writes (`RefusedAssumption`), texts are lists of lines and have their transactions in one
place (`BlocksAssumption`). TLC evaluates
each of them on the constants of the runs. Each invariant was checked by TLC on
those constants before it was proved.

**`JudgeClientProofs`.** `RowsDistinct`: two items of one batch never share a
`row_i`; from `DivMod` and from `RankGrows`, that the rank of an item among those of its question grows
strictly. `TypeCorrect`. The inductive invariant `IInv` is
`TypeOK` and `AnsweredByOwnRow` with: `SucceededAnswered` (a batch that ended well has all its
items answered), `FailureKnown` and `CauseFirst` (a failed batch is recorded, and
the first recorded error is no echo unless the caller cancelled), `TallyExact`,
`ResultFinal`, `SlotsBounded`, `WireByAttempt` (requests
sent are bounded by the attempt count). `AllOrError` is not inductive by
itself: what the result says is only known through every batch's phase, hence
`SucceededAnswered`; `LoadBounded` needs the slots and the attempts
apart. From it: `OwnRow`, `AllAnswered`, `CauseIsReported`, `LoadIsBounded`; `Refinement`
maps each step to one of `JudgePromise` or a stutter. `ProgressIsExact` needs
`ItemsCounted`: the items counted are those of the batches tallied, so that a
report is the count of a set of batches that had ended, however late it is made.
`LoopsPack`: the loops of `Batches`, as `BatchingCode` has them, cut the packing of
`Batching`, for every list of items and every batch size; with `PackingHolds`
(`PackingMatches`) the batches the model runs are theirs. The invariant of the first loop is
that each list holds its question's items at their ranks (`Collects`) and that `order` is
by first appearance (`Ordered`); of the second, where the chunks of each question
stand in the result (`Placed`); `ChunkIsBatch` is the arithmetic of one chunk. The prover has no induction
over operators, so `LeastOne` and `Induct` state it about sets of naturals, and
the existence of each recursive function is a lemma.

**`JudgingProofs`.** The invariant keeps each session's `order`, `hits`
and `answer` in step with its rows (`SessionInv`), and the store genuine.
`CacheIsGenuine`, `StatementsAreGenuine`. `WarmIsFree` needs
`WarmInv` (what was warm when it was read was a hit), `SecondRunIsFree` needs
`FreeInv` (every key a statement found or kept stays in the store until
somebody clears) and that the store is genuine: an entry is one of the answers said.

**`PgConnProofs`.** `TypeCorrect`, `ConnectionsClosed` (`NoLeak`),
`SuccessMeansRun` (`SuccessIsReal`). The invariant says of a request past
statement `n` that `n` was run, and of a link whose reply has
been read that its job was run, through drops and retries.
`OneRetry` (`RunAtMostTwice`): to count what was run is not inductive, since a
closed link may still hold a copy that the server will run. `Counted` adds these
copies (`Pending`): both together never exceed the tries so far, and `DropsOnce`
bounds those. `LossHealed` (`OldLossHealed`) has the hypothesis `OneMutex`: with two
handlers the property is false, as `OneUser` shows (4.1). `HeldInv` says that an active request
holds the mutex and that a link in use is used by the request that runs on it;
`FreshInv` that a request nothing has disturbed dials when it tries again, and
is on an open link unless the loss was silent and not pinged.

**`ServiceProofs`.** `ClientsBounded` (`RateBounded`) is about any two moments; the
inductive form is a ledger (`Balanced`): since any admission, what the client
has spent and the tokens left are at most `Burst` for each time the map was emptied,
and once more, plus `Rate` times the time. `RequestInv` has `Exclusive` (who is inside holds
the mutex of its side, and nobody else does), `Restored` (the options of the
executor are the server's unless a Go call is inside) and `Checked` (what is past its checks
has passed them); from it `MutualExclusion`, `OptionsOwn`, and `TokenFirst`, which says of the tools what
`checkReadOnly` does and no more: no statement but a SELECT.

**`EngineProofs`.** `OneEngineAtATime` (`SpawnsShared`) from `Paid`: every engine
but the current one is paid for by a failed start or a `close()`. Neither of the fields `starting` and
`ready` says so alone, since a failed start resets them in different callbacks.
`FailureForgotten`.

**`PyEngineProofs`**, for any number of threads and engines. `Local(t)` says of each
thread what its place and its local process tell about engine, signal and URL;
`UrlOfProcess` that only a restart under way lets URL and process differ;
`StrayBound` that every engine without a keeper is due to a crossing `stop()` or
is one of at most `interrupts`. From them `LostByRaceOnly`, `DeadUrlReplaced`, `StopStops`.

**`TwoPassProofs`**, for every statement, table and budget. `ObjectRight` says
that the columns of a collected row, cut where the layout says, are the object
the call is about. It rests on `FlattenLaid` (in a concatenation each sequence
is found at the sum of the lengths before it, a lemma) and `SourceFields`. The steps are:
a row that comes back satisfies the plain terms (`CollectedRows`), what is asked
is made of collected rows (`AskedOfCollected`), and explain counted at least
as many rows, in whatever order they came (`EstimateHolds`). From them
`FilteredBeforeJudged`, `NothingOverBudget`, `ExplainIsBound`.
`LimitPushed` (`LimitJudged`): `ResolveMeans` says that the target `resolveRef` finds for a key
of ORDER BY, or adds for it, is the expression the key means in SQL (`KeyExpr`), because the
targets begin with the select list and all that follows is hidden (`Grown`); so nothing judged
is sorted by, and `PushedDown`. Its hypothesis `KeysClear` leaves out the three kinds of keys
named in 4 under *Others* (a position where the list has a `*`, a name of two columns, an
aggregate without groups), for which the property may be false. Every query of `two_pass` that
is run to its end meets it.
`FlattenSeq` is defined by recursion over data; the two facts it needs are proved by
induction over sets, as above.

`RowsAsPostgres` (`ResultAsPostgres`) has the hypothesis `Rowwise`: nothing is grouped; in the
select list no column comes after a `*`, and next to a `*` ORDER BY has no column that the list
does not have, unless Postgres itself sorts (there the layout is wrong, 4.2, and the property
false); each ORDER BY key means one expression, as above; a call in the WHERE clause is not about
`*`, nor is a plain term a count of rows; and a negative LIMIT or OFFSET is one that Postgres sees
(jevql panics at one it slices by itself, 4). This holds of all
140 queries of `two_pass` that are not grouped, 40 of which have a `*`, and of 16 of the 18 that
are refused (the other two group). The
inductive invariant `RowInv` says of the plan that it has what the statement asks for (`PlanIs`,
from `Given`), of the rows collected that they are what Postgres returns of those the plain
terms leave (`CollectedSo`), and of the result that it is Postgres'. The argument:
* *Refusals.* `AcceptedLegal` and `LegalAccepted`: what `Analyze` accepts Postgres would run and
  jevql supports, and the other way round unless a call is written twice. The second rests on
  counting: each call of a key gets its hidden target once (`Adds`), so that `CallsParts` finds
  as many calls as were written (`Written`).
* *Columns.* Each target has one column, those of the table (a `*`) or none (`Fits`); `Layout`,
  which carries a place from target to target, gives the place where its column is as long as no
  star is before it (`PlacedPoints`, `CellIsValue`, `KeyIsValue`). A call has no place, so calls
  may follow. That the cells of a row are its line, with the columns of a star spread over them,
  is an induction over the list (`LineIsLine`).
* *Filters.* The judged terms of WHERE that `splitWhere` takes out are, with those it leaves,
  the whole of WHERE (`PassesQualifies`).
* *Order.* `sortRows` puts the rows in order and loses none (`SortArranges`: `Before` is a strict
  order, and inserting keeps the sorted rows sorted), whatever rows were filtered out first.
* *Slices.* Postgres' `Slice` and jevql's `Cut` keep the same places of a list
  (`SliceAt`, `CutIsSlice`), so that slicing before the cells are made or after is one.

**`ScriptProofs`.** `ExplainPutBack` (`ExplainForOne`): while a `\explain` runs, `prev` is what
was configured (`ExplainInv`). `ExitCodeTells` (`ExitTells`): the frames are a pile of which the
outermost alone decides (`SoFar`). `BlocksWhole` (`WholeUnlessWarned`): a block is
in one stage at a time, `Before`, `Opening`, `Within`, `Ending`, `After` or `Lost`
(the connection is gone, or the session is, with nothing half done).
`Within` is the hard one: the writes still to come in the
frames, the one at hand and those pending are together the block, each once, and
the `COMMIT` is ahead in the same frame. `Quiet` files, which hold no write of the block, may run
at any point outside it; a block may stand in a file (`Holders`). The assumption says that
a text has a block once and in one piece; of a block that is written twice or in pieces the
property would ask what no program does. It speaks of `Sent`, the writes of a block without those that are
refused, since a refusal leaves the transaction open. `abandoned` is a part the proof asked for: the script that
includes the file may still commit what the file began.

`SplitAsPsql` (`SplitMatches`), for tame texts of any length. The proof has two halves, with the text
joined to one piece and cut at unquoted semicolons (`Joined`) in the middle. *The code's lines:* it reads lines and splits its
buffer when a line ends in a semicolon; no quote is open between lines, so that cutting each line as it
comes and cutting all of them at the end is the same (`Follows`, `CutAsJoined`). *psql's
lexemes:* `Agrees` relates the code's buffer to psql's automaton after each lexeme. A mark changes both
readings alike, so that a quote is open for both or for neither (`MarkAppend`, `QuotedLexeme`,
`OtherLexeme`); at an unquoted semicolon psql is outside brackets and both end the statement (`EndingLexeme`); a
line with a meta command leaves what has begun empty on both sides (`CommandLine`). `JoinedAsPsql` takes this over the
lines. Without any of the conditions of `Tame` the two readings may differ.

Only model-checked: every liveness property (fairness is beyond the prover), and of
`ResultAsPostgres` the statements that are not `Rowwise`: groups and aggregates, where a result is
a fold over data that the model and SQL write in different forms.

## 6. Not modelled

* Request wording, token estimates, decoding of answers, canonical JSON and
  output formats: data without control. Where a conversion can fail, the
  failure is an action or an outcome.
* Joins, subqueries and the catalog lookup of `Analyze`; `avg`; integer widths of
  `sum`; text, where `compare()` takes numerals for numbers and is not transitive.
* `internal/parse` below `Analyze`: a walk over trees of Postgres' own parser.
* Flags, the configuration file, the prompts for a URL and a password, display
  settings, the `\d` commands and their `QueryRow`.
* The single catalog queries of the routes and tools (one step with one outcome).
* The HTTP client that Python keeps for a URL (`_client` reads it twice, without a
  lock), the stdout and stderr pipes of an engine, the finding of its binary.
* `New`, `QueryMaps` and `Close` of the Go client.
* The MCP protocol (a library), the site, packaging, fixtures.

## 7. Plan

Done, in this order: the TypeSafe client (everything else rests on its promise),
judging and cache, the connection, the two passes with their refusals, the TypeScript
and the Python engine, the service with its tools and the Go client, the command line.
Then the proofs, of every safety property; of `ResultAsPostgres` for the statements named in 5.

Next, in this order:
1. `ResultAsPostgres` for groups without aggregates.
2. Texts that are not tame: what exactly differs with comments, brackets and meta commands in mid-line.
