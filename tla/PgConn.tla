------------------------------- MODULE PgConn -------------------------------
(***************************************************************************)
(* The one Postgres connection of a jevql process (internal/app/pgdb.go)   *)
(* under the requests that share it.  A request takes the mutex of its     *)
(* handler (serve.Server.mu for HTTP, mcp.server.mu for MCP), sends its    *)
(* statements one after the other through pgdb.Query, and lets go of the   *)
(* mutex when it ends.  The connection runs in simple protocol mode        *)
(* (app.go), so Query only returns once the first reply has been read.     *)
(***************************************************************************)
EXTENDS Integers, Sequences, FiniteSets

CONSTANTS Requests,     \* the requests of one lifetime of the process
          LockOf,       \* which handler's mutex each of them takes
          Statements,   \* statements per request: catalog lookups, collect, ...
          MaxLosses     \* bound: how often the link is lost

ASSUME LockOfAssumption == DOMAIN LockOf = Requests
ASSUME StatementsAssumption == Statements \in Nat \ {0}
ASSUME MaxLossesAssumption == MaxLosses \in Nat

Free == "free"
ASSUME FreeAssumption == Free \notin Requests

Locks == {LockOf[r] : r \in Requests}

VARIABLES mutex,     \* holder of each handler's mutex
          conn,      \* pgdb.conn: the number of a connection, 0 for nil
          links,     \* every connection dialled so far
          pc, stmt,  \* where each request is, in which statement
          using,     \* the connection that get returned to it
          tried,     \* Query is on its second connection
          cause,     \* the error of a request that failed
          cancelled, \* its context is done (the client hung up)
          closed,    \* pgdb.Close was called
          losses,    \* links lost (bound)
          ran,       \* history: executions of each request's statements
          disturbed, \* history: a link was lost or closed since it locked
          pinged     \* history: its current connection was pinged

vars == <<mutex, conn, links, pc, stmt, using, tried, cause, cancelled, closed,
          losses, ran, disturbed, pinged>>

\* state: "reset" if the next read or write fails at once, "silent" if it
\* fails only after a long timeout, "closed" if pgx knows it is gone.
\* user: who has a statement on it (pgx's own busy flag).
\* job: what the server has of statement n of that user.
Link == [state : {"open", "reset", "silent", "closed"},
         user : Requests \cup {Free},
         n : 1 .. Statements,
         job : {"none", "sent", "ran"}]
NewLink == [state |-> "open", user |-> Free, n |-> 1, job |-> "none"]

Ended == {"done", "failed"}

Init == /\ mutex = [l \in Locks |-> Free]
        /\ conn = 1
        /\ links = <<NewLink>>
        /\ pc = [r \in Requests |-> "start"]
        /\ stmt = [r \in Requests |-> 1]
        /\ using = [r \in Requests |-> 0]
        /\ tried = [r \in Requests |-> FALSE]
        /\ cause = [r \in Requests |-> "none"]
        /\ cancelled = [r \in Requests |-> FALSE]
        /\ closed = FALSE
        /\ losses = 0
        /\ ran = [r \in Requests |-> [n \in 1 .. Statements |-> 0]]
        /\ disturbed = [r \in Requests |-> FALSE]
        /\ pinged = [r \in Requests |-> FALSE]

Goto(r, to) == pc' = [pc EXCEPT ![r] = to]

\* conn.Close: the server sees the end of the session only after it has run
\* what it already received.
Closed(ls, c) == IF c = 0 THEN ls ELSE [ls EXCEPT ![c].state = "closed"]

\* Mutant of Fail: an early return without Unlock.
FailHoldsMutex(r, why) ==
  /\ Goto(r, "failed")
  /\ cause' = [cause EXCEPT ![r] = why]
  /\ UNCHANGED mutex

\* The handler returns an error and its mutex is unlocked.
Fail(r, why) ==
  /\ Goto(r, "failed")
  /\ cause' = [cause EXCEPT ![r] = why]
  /\ mutex' = [mutex EXCEPT ![LockOf[r]] = Free]

\* mu.Lock does not look at the request's context.
Lock(r) ==
  /\ pc[r] = "start" /\ mutex[LockOf[r]] = Free
  /\ mutex' = [mutex EXCEPT ![LockOf[r]] = r]
  /\ Goto(r, "get")
  /\ disturbed' = [disturbed EXCEPT ![r] = FALSE]
  /\ UNCHANGED <<conn, links, stmt, using, tried, cause, cancelled, closed, losses,
                 ran, pinged>>

\* get: a connection used within idleCheck is trusted, as far as pgx knows.
GetTrusted(r) ==
  /\ pc[r] = "get"
  /\ conn # 0 /\ links[conn].state # "closed"
  /\ using' = [using EXCEPT ![r] = conn]
  /\ pinged' = [pinged EXCEPT ![r] = FALSE]
  /\ Goto(r, "query")
  /\ UNCHANGED <<mutex, conn, links, stmt, tried, cause, cancelled, closed, losses,
                 ran, disturbed>>

Pingable(r) == links[conn].state = "open" /\ links[conn].user = Free /\ ~cancelled[r]

\* get: an idle connection answers the ping.
GetPinged(r) ==
  /\ pc[r] = "get"
  /\ conn # 0 /\ Pingable(r)
  /\ using' = [using EXCEPT ![r] = conn]
  /\ pinged' = [pinged EXCEPT ![r] = TRUE]
  /\ Goto(r, "query")
  /\ UNCHANGED <<mutex, conn, links, stmt, tried, cause, cancelled, closed, losses,
                 ran, disturbed>>

\* get: there is no connection, or the ping failed (for whatever reason, the
\* request's own context included): close it and dial.
GetDials(r) ==
  /\ pc[r] = "get"
  /\ conn # 0 => ~Pingable(r)
  /\ \/ /\ ~cancelled[r]
        /\ links' = Append(Closed(links, conn), NewLink)
        /\ conn' = Len(links) + 1
        /\ using' = [using EXCEPT ![r] = conn']
        /\ pinged' = [pinged EXCEPT ![r] = TRUE]
        /\ Goto(r, "query")
        /\ UNCHANGED <<mutex, cause>>
     \/ \* the server is down, refuses, or the context is done
        /\ links' = Closed(links, conn)
        /\ conn' = 0
        /\ Fail(r, IF cancelled[r] THEN "ctx" ELSE "dial")
        /\ UNCHANGED <<using, pinged>>
  /\ UNCHANGED <<stmt, tried, cancelled, closed, losses, ran, disturbed>>

\* pgx takes the statement and puts it on the wire.
Send(r) ==
  LET c == using[r] IN
  /\ pc[r] = "query"
  /\ links[c].state # "closed" /\ links[c].user = Free /\ ~cancelled[r]
  /\ links' = [links EXCEPT ![c].user = r, ![c].n = stmt[r],
                            ![c].job = IF links[c].state = "open" THEN "sent" ELSE "none"]
  /\ Goto(r, "running")
  /\ UNCHANGED <<mutex, conn, stmt, using, tried, cause, cancelled, closed, losses, ran,
                 disturbed, pinged>>

\* Mutant of Dead: no second connection.
DeadGivesUp(r, why) == Fail(r, why)

\* An error that dead() takes for a lost connection: Query drops the
\* connection and tries once more.
Dead(r, why) ==
  IF tried[r] THEN Fail(r, why)
  ELSE Goto(r, "drop") /\ UNCHANGED <<mutex, cause>>

\* pgx refuses at once: "conn busy", "conn closed", or the context is done;
\* all of them SafeToRetry.
Rejected(r) ==
  LET c == using[r] IN
  /\ pc[r] = "query"
  /\ \/ links[c].state # "closed" /\ links[c].user # Free /\ Dead(r, "busy")
     \/ links[c].state = "closed" /\ Dead(r, "link")
     \/ cancelled[r] /\ Dead(r, "ctx")
  /\ UNCHANGED <<conn, links, stmt, using, tried, cancelled, closed, losses, ran,
                 disturbed, pinged>>

\* Mutants of Drop: the old connection is not closed; the retry is not counted.
DropForgets(r) ==
  /\ pc[r] = "drop"
  /\ conn' = 0
  /\ tried' = [tried EXCEPT ![r] = TRUE]
  /\ Goto(r, "get")
  /\ UNCHANGED <<mutex, links, stmt, using, cause, cancelled, closed, losses, ran, disturbed, pinged>>

DropUncounted(r) ==
  /\ pc[r] = "drop"
  /\ links' = Closed(links, conn)
  /\ conn' = 0
  /\ Goto(r, "get")
  /\ UNCHANGED <<mutex, stmt, using, tried, cause, cancelled, closed, losses, ran, disturbed, pinged>>

\* drop closes whatever connection is the current one, then get again.
Drop(r) ==
  /\ pc[r] = "drop"
  /\ links' = Closed(links, conn)
  /\ conn' = 0
  /\ tried' = [tried EXCEPT ![r] = TRUE]
  /\ Goto(r, "get")
  /\ UNCHANGED <<mutex, stmt, using, cause, cancelled, closed, losses, ran, disturbed, pinged>>

\* The server (external) runs a statement it received; nothing the client does
\* to the connection afterwards takes that back.
ServerRuns(c) ==
  /\ links[c].job = "sent"
  /\ links' = [links EXCEPT ![c].job = "ran"]
  /\ ran' = [ran EXCEPT ![links[c].user][links[c].n] = @ + 1]
  /\ UNCHANGED <<mutex, conn, pc, stmt, using, tried, cause, cancelled, closed, losses,
                 disturbed, pinged>>

\* The first reply arrives: Query returns rows.
Reply(r) ==
  LET c == using[r] IN
  /\ pc[r] = "running" /\ links[c].state = "open" /\ links[c].job = "ran"
  /\ Goto(r, "rows")
  /\ UNCHANGED <<mutex, conn, links, stmt, using, tried, cause, cancelled, closed, losses,
                 ran, disturbed, pinged>>

\* A statement the server rejects (before running it), or one the handler
\* gives up on (a budget, a row it cannot scan): rows.Close, and an error.
StatementFails(r) ==
  LET c == using[r] IN
  /\ \/ pc[r] = "running" /\ links[c].job = "sent"
     \/ pc[r] = "rows"
  /\ links[c].state = "open"
  /\ links' = [links EXCEPT ![c].user = Free, ![c].job = "none"]
  /\ Fail(r, "sql")
  /\ UNCHANGED <<conn, stmt, using, tried, cancelled, closed, losses, ran, disturbed, pinged>>

\* All rows are read: the next statement, or the end of the request.
RowsEnd(r) ==
  LET c == using[r] IN
  /\ pc[r] = "rows" /\ links[c].state = "open"
  /\ links' = [links EXCEPT ![c].user = Free, ![c].job = "none"]
  /\ IF stmt[r] < Statements
       THEN /\ Goto(r, "get")
            /\ stmt' = [stmt EXCEPT ![r] = @ + 1]
            /\ tried' = [tried EXCEPT ![r] = FALSE]
            /\ UNCHANGED mutex
       ELSE /\ Goto(r, "done")
            /\ mutex' = [mutex EXCEPT ![LockOf[r]] = Free]
            /\ UNCHANGED <<stmt, tried>>
  /\ UNCHANGED <<conn, using, cause, cancelled, closed, losses, ran, disturbed, pinged>>

\* Mutant of ReplyLost: the error is not looked at, as if there were no rows.
ReplyLostIgnored(r) ==
  LET c == using[r] IN
  /\ pc[r] = "running" /\ links[c].state # "open"
  /\ links' = Closed(links, c)
  /\ Goto(r, "done")
  /\ mutex' = [mutex EXCEPT ![LockOf[r]] = Free]
  /\ UNCHANGED <<conn, stmt, using, tried, cause, cancelled, closed, losses, ran, disturbed, pinged>>

\* A read that fails while Query waits for the first reply; pgx closes its
\* side.  A statement already sent may still run.
ReplyLost(r) ==
  LET c == using[r] IN
  /\ pc[r] = "running" /\ links[c].state # "open"
  /\ links' = Closed(links, c)
  /\ IF links[c].state = "silent" THEN Fail(r, "timeout") ELSE Dead(r, "link")
  /\ UNCHANGED <<conn, stmt, using, tried, cancelled, closed, losses, ran, disturbed, pinged>>

\* ... or while the rows are read: watchRows.Err drops the connection, the
\* request fails.
RowsLost(r) ==
  LET c == using[r] IN
  /\ pc[r] = "rows" /\ links[c].state # "open"
  /\ IF links[c].state = "silent"
       THEN links' = Closed(links, c) /\ UNCHANGED conn
       ELSE links' = Closed(Closed(links, c), conn) /\ conn' = 0
  /\ Fail(r, IF links[c].state = "silent" THEN "timeout" ELSE "link")
  /\ UNCHANGED <<stmt, using, tried, cancelled, closed, losses, ran, disturbed, pinged>>

\* The context ends during a statement: pgx closes the connection.
Interrupted(r) ==
  /\ pc[r] \in {"running", "rows"} /\ cancelled[r]
  /\ links' = Closed(links, using[r])
  /\ Fail(r, "ctx")
  /\ UNCHANGED <<conn, stmt, using, tried, cancelled, closed, losses, ran, disturbed, pinged>>

Cancel(r) ==
  /\ ~cancelled[r] /\ pc[r] \notin Ended
  /\ cancelled' = [cancelled EXCEPT ![r] = TRUE]
  /\ UNCHANGED <<mutex, conn, links, pc, stmt, using, tried, cause, closed, losses, ran,
                 disturbed, pinged>>

\* The network, a pooler or the server drops the link: a statement on the way
\* arrives or does not.
Lose(c) ==
  /\ losses < MaxLosses /\ links[c].state = "open"
  /\ losses' = losses + 1
  /\ \E s \in {"reset", "silent"}, keep \in BOOLEAN :
       links' = [links EXCEPT ![c].state = s,
                              ![c].job = IF @ = "sent" /\ ~keep THEN "none" ELSE @]
  /\ disturbed' = [r \in Requests |-> TRUE]
  /\ UNCHANGED <<mutex, conn, pc, stmt, using, tried, cause, cancelled, closed, ran, pinged>>

\* session.close, 5 s after the server was told to stop, whoever still runs.
Close ==
  /\ ~closed
  /\ closed' = TRUE
  /\ links' = Closed(links, conn)
  /\ conn' = 0
  /\ disturbed' = [r \in Requests |-> TRUE]
  /\ UNCHANGED <<mutex, pc, stmt, using, tried, cause, cancelled, losses, ran, pinged>>

Query(r) == \/ GetTrusted(r) \/ GetPinged(r) \/ GetDials(r) \/ Send(r) \/ Rejected(r)
            \/ Drop(r) \/ Reply(r) \/ ReplyLost(r)

Handle(r) == \/ Lock(r) \/ Query(r) \/ StatementFails(r) \/ RowsEnd(r) \/ RowsLost(r)
             \/ Interrupted(r)

AllEnded == (\A r \in Requests : pc[r] \in Ended) /\ UNCHANGED vars

Next == \/ \E r \in Requests : Handle(r) \/ Cancel(r)
        \/ \E c \in DOMAIN links : ServerRuns(c) \/ Lose(c)
        \/ Close
        \/ AllEnded

\* Go runs every handler that can run, and Postgres answers every statement it
\* was sent.  Nothing has to be cancelled, lost or closed.
Fairness == /\ \A r \in Requests : WF_vars(Handle(r))
            /\ WF_vars(\E c \in DOMAIN links : ServerRuns(c))

Spec == Init /\ [][Next]_vars
FairSpec == Spec /\ Fairness
-----------------------------------------------------------------------------
PCs == {"start", "get", "query", "running", "rows", "drop"} \cup Ended
Causes == {"none", "sql", "ctx", "dial", "link", "timeout", "busy"}

TypeOK ==
  /\ mutex \in [Locks -> Requests \cup {Free}]
  /\ links \in Seq(Link)
  /\ conn \in 0 .. Len(links)
  /\ pc \in [Requests -> PCs]
  /\ stmt \in [Requests -> 1 .. Statements]
  /\ using \in [Requests -> 0 .. Len(links)]
  /\ tried \in [Requests -> BOOLEAN]
  /\ cause \in [Requests -> Causes]
  /\ cancelled \in [Requests -> BOOLEAN]
  /\ closed \in BOOLEAN
  /\ losses \in 0 .. MaxLosses
  /\ ran \in [Requests -> [1 .. Statements -> Nat]]
  /\ disturbed \in [Requests -> BOOLEAN]
  /\ pinged \in [Requests -> BOOLEAN]

\* No connection leaks: whatever is dropped, redialled or cancelled, every
\* connection but the current one has been closed (Postgres has few to give).
NoLeak == \A c \in DOMAIN links : c # conn => links[c].state = "closed"

\* A request that reports success had every statement run by the server, also
\* across a reconnect in the middle.
SuccessIsReal ==
  \A r \in Requests : pc[r] = "done" => \A n \in 1 .. Statements : ran[r][n] >= 1

\* The duty of pgdb: "the first request after that used to fail with conn
\* closed".  A link lost before a request took its mutex never fails it, found
\* by the ping or by the retry, unless the loss gives no sign and is too
\* recent for a ping; and no request fails for what another one did.
OldLossHealed ==
  \A r \in Requests : pc[r] = "failed" =>
    \/ cause[r] \in {"sql", "dial"}
    \/ cause[r] = "ctx" /\ cancelled[r]
    \/ disturbed[r]
    \/ cause[r] = "timeout" /\ ~pinged[r]

\* One retry at most: no statement ever runs three times.
RunAtMostTwice ==
  \A r \in Requests : \A n \in 1 .. Statements : ran[r][n] <= 2

\* Nobody waits for ever: not for a mutex, a connection or a reply.
EveryRequestEnds == \A r \in Requests : <>(pc[r] \in Ended)

\* "pgx connections are not safe for concurrent use" (serve.go:40).  Does not
\* hold when HTTP and MCP requests share the process: see the README.
OneUser ==
  \A r, q \in Requests : r # q =>
    ~(/\ pc[r] \in {"running", "rows"} /\ pc[q] \in {"query", "running", "rows"}
      /\ using[r] = using[q] /\ links[using[r]].state # "closed")
=============================================================================
