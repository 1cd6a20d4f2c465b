------------------------------ MODULE Service ------------------------------
(***************************************************************************)
(* The front ends of an executor.  `jevql serve` (internal/serve,          *)
(* internal/mcp): CORS, the token bucket per client, the routes with their *)
(* checks and the MCP tools mounted beside them, the mutex each of the two *)
(* puts in front of the one executor, the options of a request, and the    *)
(* reply.  Or, in another process, the Go client (sdk/go), which puts the  *)
(* options of a call into its executor and back.                           *)
(*                                                                         *)
(* Each request is a goroutine.  Up to the mutex it shares                 *)
(* nothing with the others but the rate limiter, which has its own lock:   *)
(* one action takes it there.  What the executor does under the mutex is   *)
(* the subject of other modules; here it succeeds or fails.                *)
(***************************************************************************)
EXTENDS Integers, Sequences, FiniteSets

CONSTANTS Slots,        \* bound: 1 .. n, the requests of one run in order of arrival
          Requests,     \* the requests that may arrive
          Clients,      \* clientIP
          Burst, Rate,  \* RatePerMinute as burst and as tokens per tick
          MaxBuckets,   \* 10000 in the code
          MaxTicks,     \* bound: the clock
          CacheAdmin,   \* Server.CacheAdmin
          Cors,         \* Server.CORSOrigins is given
          AllowWrites,  \* mcp.Options.AllowWrites
          Default       \* the options the server or the Go client was started with

ASSUME LimiterParameters == Burst \in Nat \ {0} /\ Rate \in Nat /\ MaxBuckets \in Nat \ {0}
ASSUME Flags == CacheAdmin \in BOOLEAN /\ Cors \in BOOLEAN /\ AllowWrites \in BOOLEAN
ASSUME Bounds == MaxTicks \in Nat /\ IsFiniteSet(Slots) /\ Slots = 1 .. Cardinality(Slots)

\* Only the bodies of /v1/query and /v1/explain have the field explain; the
\* explain tool and Explain take a statement and nothing else.
ASSUME RequestFields ==
  \A q \in Requests :
    /\ q.client \in Clients /\ q.token \in BOOLEAN /\ q.explain \in BOOLEAN
    /\ q.explain => q.route \in {"query", "explain"}
    /\ q.route \in {"mcp explain", "go explain"} => q.threshold = <<>> /\ q.maxRows = <<>>

VARIABLES
  clock,     \* time.Now, in ticks
  buckets,   \* rateLimiter.buckets
  req,       \* the request of each slot, <<>> before it arrives
  phase,     \* idle, waiting (for the mutex), running, replying, done, silent
  reply,     \* the HTTP status, or NoStatus
  hungUp,    \* the client of a request under way has gone: r.Context() is cancelled
  mutex,     \* Server.mu, mcp.server.mu and Client.mu: the holder of each, 0 for none
  opts,      \* Opts of the executor
  saved,     \* saved, in the Go client's run: what opts were at its start
  used,      \* the options a request runs with, Default while it does not
  did,       \* what a request did: ran or wrote in Postgres, planned, judged, ...
  admitted,  \* history: the requests the limiter let through
  flushes    \* history: how often the limiter forgot its buckets

limiter == <<buckets, admitted, flushes>>
executors == <<opts, saved>>
vars == <<clock, limiter, req, phase, reply, hungUp, mutex, executors, used, did>>

NoStatus == -1   \* a tool result with isError, an error returned by the Go client

Tools == {"mcp query", "mcp explain", "mcp judge", "mcp tables", "mcp table"}
Calls == {"go query", "go explain", "go judge"}
Catalog == {"tables", "table", "mcp tables", "mcp table"}

\* The mutex a request takes.
Side(q) == IF q.route \in Tools THEN "mcp" ELSE IF q.route \in Calls THEN "go" ELSE "http"

Least(m, n) == IF m < n THEN m ELSE n

Init ==
  /\ clock = 0
  /\ buckets = <<>> /\ admitted = <<>> /\ flushes = 0
  /\ req = [s \in Slots |-> <<>>]
  /\ phase = [s \in Slots |-> "idle"]
  /\ reply = [s \in Slots |-> 0]
  /\ hungUp = [s \in Slots |-> FALSE]
  /\ mutex = [side \in {"http", "mcp", "go"} |-> 0]
  /\ opts = Default /\ saved = Default
  /\ used = [s \in Slots |-> Default]
  /\ did = [s \in Slots |-> {}]
-----------------------------------------------------------------------------
(* ratelimit.go *)

Known(key) == key \in DOMAIN buckets

\* A new client makes the map too large, which empties it.
Overfull(key) == ~Known(key) /\ Cardinality(DOMAIN buckets) + 1 > MaxBuckets

\* Mutant of Tokens: what has been saved up is not capped.
TokensUncapped(key) ==
  IF Known(key) THEN buckets[key].tokens + (clock - buckets[key].last) * Rate ELSE Burst

\* The tokens of a client, refilled for the time since its last request.
Tokens(key) ==
  IF Known(key) THEN Least(buckets[key].tokens + (clock - buckets[key].last) * Rate, Burst)
                ELSE Burst

\* allow: one token.
Allowed(key) == Tokens(key) >= 1

Allow(key) ==
  LET kept == IF Overfull(key) THEN {key} ELSE DOMAIN buckets \cup {key}
      left == IF Allowed(key) THEN Tokens(key) - 1 ELSE Tokens(key)
  IN  /\ buckets' = [c \in kept |-> IF c = key THEN [tokens |-> left, last |-> clock] ELSE buckets[c]]
      /\ flushes' = IF Overfull(key) THEN flushes + 1 ELSE flushes
      /\ admitted' = IF Allowed(key)
                       THEN Append(admitted, [client |-> key, at |-> clock, flushes |-> flushes'])
                       ELSE admitted
-----------------------------------------------------------------------------
(* serve.go, routes.go, mcp.go: the checks of each route and tool, in their  *)
(* own order.  A status answers at once; 0 goes on to the mutex.             *)

GateGet(q, status) == IF q.method # "GET" THEN 405 ELSE IF ~q.token THEN 401 ELSE status
GatePost(q) ==
  IF q.method # "POST" THEN 405 ELSE IF ~q.token THEN 401 ELSE IF q.body = "bad" THEN 400 ELSE 0

\* A statement is with jev calls, plain, a "write" (not a SELECT) or a "writing
\* select": one whose WITH has a DELETE, a SELECT INTO, or with a volatile function.
Writing == {"write", "writing select"}

\* requireAuth; then empty sql or name, and checkReadOnly, which asks for a
\* SELECT and not for what it does.
GateTool(q) ==
  IF ~q.token THEN 401
  ELSE IF \/ q.route \in {"mcp query", "mcp explain", "mcp table"} /\ q.body = "bad"
          \/ q.route \in {"mcp query", "mcp explain"} /\ ~AllowWrites /\ q.sql = "write"
  THEN NoStatus ELSE 0

\* Mutant of Gate: the cache route asks for the token only where admin is off.
GateCacheOpen(q) ==
  CASE q.route = "cache" /\ ~CacheAdmin -> IF ~q.token THEN 401 ELSE 403
    [] q.route = "cache" /\ CacheAdmin -> IF q.method \in {"GET", "DELETE"} THEN 200 ELSE 405
    [] q.route \in Tools -> GateTool(q)
    [] OTHER -> GatePost(q)

Gate(q) ==
  CASE q.route = "openapi" -> IF q.method = "GET" THEN 200 ELSE 405
    [] q.route = "cache" ->
         IF ~q.token THEN 401 ELSE IF ~CacheAdmin THEN 403
         ELSE IF q.method \in {"GET", "DELETE"} THEN 200 ELSE 405
    [] q.route = "health" -> GateGet(q, 200)
    [] q.route = "tables" -> GateGet(q, 0)
    [] q.route = "table" -> GateGet(q, IF q.body = "bad" THEN 400 ELSE 0)
    [] q.route \in Tools -> GateTool(q)
    [] q.route \in Calls -> IF q.route # "go judge" /\ q.body = "bad" THEN NoStatus ELSE 0
    [] OTHER -> GatePost(q)

\* Requests that do not pay: preflights (whoever answers them), the API
\* document, and calls in the same process.
Free(q) == q.method = "OPTIONS" \/ q.route = "openapi" \/ q.route \in Calls

\* Through cors, the limiter and the mux to the route's own checks.
Status(q) ==
  CASE Cors /\ q.method = "OPTIONS" -> 204
    [] ~Free(q) /\ ~Allowed(q.client) -> 429
    [] OTHER -> Gate(q)

\* A run is of one process: a server, or a program with a Go client.
SameProcess(p, q) == p.route \in Calls <=> q.route \in Calls

Clears(q) == q.route = "cache" /\ q.method = "DELETE" /\ Status(q) = 200

Arrive(s, q) ==
  /\ phase[s] = "idle" /\ \A r \in Slots : r < s => phase[r] # "idle" /\ SameProcess(req[r], q)
  /\ req' = [req EXCEPT ![s] = q]
  /\ IF Free(q) THEN UNCHANGED limiter ELSE Allow(q.client)
  /\ \/ /\ Status(q) = 0
        /\ phase' = [phase EXCEPT ![s] = "waiting"] /\ UNCHANGED <<reply, did>>
     \/ /\ Status(q) # 0 /\ phase' = [phase EXCEPT ![s] = "done"]
        /\ reply' = [reply EXCEPT ![s] = Status(q)]
        /\ did' = IF Clears(q) THEN [did EXCEPT ![s] = {"cleared"}] ELSE did
     \/ /\ q.route = "cache" /\ Status(q) = 200   \* the cache fails
        /\ phase' = [phase EXCEPT ![s] = "done"]
        /\ reply' = [reply EXCEPT ![s] = 500] /\ UNCHANGED did
  /\ UNCHANGED <<clock, hungUp, mutex, executors, used>>
-----------------------------------------------------------------------------
(* Under the mutex *)

Own(given, default) == IF given = <<>> THEN default ELSE given[1]

\* executor(...), on a copy of the server's, and the assignments of the Go
\* client's run.  The explain tool and Explain have no options of their own;
\* mcp.Options.MaxRows is what the executor was started with as well.
Executor(q) ==
  LET bare == q.route \in {"mcp explain", "go explain"}
  IN  [threshold |-> IF bare THEN opts.threshold ELSE Own(q.threshold, opts.threshold),
       maxRows   |-> IF bare THEN opts.maxRows ELSE Own(q.maxRows, opts.maxRows),
       explain   |-> q.route \in {"explain", "mcp explain", "go explain"} \/ (q.route = "query" /\ q.explain)]

\* Client.run, where the others work on a copy: Judge overrides nothing.
InPlace(q) == q.route \in {"go query", "go explain"}

\* Mutant of Lock: the overrides are written to the shared executor.
LockInPlace(s) ==
  /\ phase[s] = "waiting" /\ mutex[Side(req[s])] = 0
  /\ mutex' = [mutex EXCEPT ![Side(req[s])] = s]
  /\ used' = [used EXCEPT ![s] = Executor(req[s])]
  /\ opts' = Executor(req[s])
  /\ phase' = [phase EXCEPT ![s] = "running"]
  /\ UNCHANGED <<clock, limiter, req, reply, hungUp, saved, did>>

\* s.mu.Lock does not look at the context: a client that has gone waits as well.
Lock(s) ==
  LET q == req[s] IN
  /\ phase[s] = "waiting" /\ mutex[Side(q)] = 0
  /\ mutex' = [mutex EXCEPT ![Side(q)] = s]
  /\ used' = [used EXCEPT ![s] = Executor(q)]
  /\ IF InPlace(q)
       THEN saved' = opts /\ opts' = Executor(q)
       ELSE UNCHANGED executors
  /\ phase' = [phase EXCEPT ![s] = "running"]
  /\ UNCHANGED <<clock, limiter, req, reply, hungUp, did>>

\* Mutant of Restore: only a call that succeeds puts the options back.
RestoreIfOk(s, ok) ==
  IF InPlace(req[s]) /\ ok
    THEN opts' = saved /\ saved' = Default
    ELSE UNCHANGED executors

\* The deferred `c.ex.Opts = saved`, before the unlock.
Restore(s, ok) ==
  IF InPlace(req[s])
    THEN opts' = saved /\ saved' = Default
    ELSE UNCHANGED executors

Unlock(s) == mutex' = [mutex EXCEPT ![Side(req[s])] = 0]

\* What the executor does, as far as it gets: a statement without jev calls
\* is run as it is, whatever the options say (exec.go:97).
Effect(s) ==
  IF req[s].route \in Catalog THEN "catalog"
  ELSE IF req[s].route \in {"judge", "mcp judge", "go judge"} THEN "judged"
  ELSE CASE req[s].sql \in Writing -> "wrote"
         [] req[s].sql = "plain" -> "ran"
         [] OTHER -> IF used[s].explain THEN "planned" ELSE "judged"

\* What may go wrong: a catalog query, a name that is no relation's; a statement,
\* the service, the budget (the judge route looks at it first, with this code).
Errors(q) == IF q.route \in Catalog THEN {"sql", "missing"} ELSE {"sql", "api", "budget"}

\* wire.ErrorFor, schemaTable and toolErr.
ErrorStatus(q, e) ==
  IF q.route \in Tools \cup Calls THEN NoStatus
  ELSE CASE e = "budget" -> 402 [] e = "api" -> 502 [] e = "sql" -> 400 [] e = "missing" -> 404

\* Run returned: the mutex is released and the reply written.  schemaTables and
\* schemaTable write their reply first, with the mutex held.
Answer(s, status) ==
  /\ reply' = [reply EXCEPT ![s] = status]
  /\ hungUp' = [hungUp EXCEPT ![s] = FALSE]
  /\ used' = [used EXCEPT ![s] = Default]
  /\ IF req[s].route \in {"tables", "table"}
       THEN phase' = [phase EXCEPT ![s] = "replying"] /\ UNCHANGED mutex
       ELSE phase' = [phase EXCEPT ![s] = "done"] /\ Unlock(s)

Succeed(s) ==
  /\ phase[s] = "running"
  /\ did' = [did EXCEPT ![s] = {Effect(s)}]
  /\ Answer(s, CASE req[s].route = "explain" /\ Effect(s) # "planned" -> 400
                 [] req[s].route \in {"mcp explain", "go explain"} /\ Effect(s) # "planned" -> NoStatus
                 [] OTHER -> 200)
  /\ Restore(s, TRUE)
  /\ UNCHANGED <<clock, limiter, req>>

\* Run fails, before the statement took effect or after.
Fail(s, e) ==
  /\ phase[s] = "running" /\ e \in Errors(req[s])
  /\ \/ UNCHANGED did
     \/ e = "sql" /\ did' = [did EXCEPT ![s] = {Effect(s)}]
  /\ Answer(s, ErrorStatus(req[s], e))
  /\ Restore(s, FALSE)
  /\ UNCHANGED <<clock, limiter, req>>

\* Run returns context.Canceled: the routes answer nobody, the others an error.
Cancelled(s) ==
  /\ phase[s] = "running" /\ hungUp[s]
  /\ Restore(s, FALSE)
  /\ IF req[s].route \in Tools \cup Calls
       THEN Answer(s, NoStatus)
       ELSE /\ phase' = [phase EXCEPT ![s] = "silent"]
            /\ Unlock(s)
            /\ hungUp' = [hungUp EXCEPT ![s] = FALSE]
            /\ used' = [used EXCEPT ![s] = Default]
            /\ UNCHANGED reply
  /\ UNCHANGED <<clock, limiter, req, did>>

\* Mutant of Reply: a handler that answered forgets the mutex.
ReplyLocked(s) ==
  /\ phase[s] = "replying"
  /\ phase' = [phase EXCEPT ![s] = "done"]
  /\ UNCHANGED <<clock, limiter, req, reply, hungUp, mutex, executors, used, did>>

\* The reply of schemaTables or schemaTable is written; the deferred Unlock follows.
Reply(s) ==
  /\ phase[s] = "replying"
  /\ phase' = [phase EXCEPT ![s] = "done"]
  /\ Unlock(s)
  /\ UNCHANGED <<clock, limiter, req, reply, hungUp, executors, used, did>>

HangUp(s) ==
  /\ phase[s] \in {"waiting", "running"} /\ ~hungUp[s]
  /\ hungUp' = [hungUp EXCEPT ![s] = TRUE]
  /\ UNCHANGED <<clock, limiter, req, phase, reply, mutex, executors, used, did>>

Tick ==
  /\ clock < MaxTicks /\ clock' = clock + 1
  /\ \E s \in Slots : phase[s] = "idle"   \* only arrivals look at the clock
  /\ UNCHANGED <<limiter, req, phase, reply, hungUp, mutex, executors, used, did>>

Returns(s) == Succeed(s) \/ Cancelled(s) \/ \E e \in {"sql", "api", "budget", "missing"} : Fail(s, e)

Next ==
  \/ Tick
  \/ \E s \in Slots :
       \/ \E q \in Requests : Arrive(s, q)
       \/ Lock(s) \/ Returns(s) \/ Reply(s) \/ HangUp(s)

Spec == Init /\ [][Next]_vars

\* The executor returns (JudgeClient, PgConn), and a mutex that keeps being
\* released is given to every waiter.  No client has to read its reply: the server
\* has no WriteTimeout.
Fairness == \A s \in Slots : SF_vars(Lock(s)) /\ WF_vars(Returns(s))

FairSpec == Spec /\ Fairness
-----------------------------------------------------------------------------
\* --rate-limit, as the token bucket keeps it: over any stretch of time a client
\* gets through no more often than its burst and the refill of that time (in a
\* minute up to twice the "requests per minute" of the documents), plus one burst
\* for each time the limiter forgot everyone; and its map stays within its bound.
RateBounded ==
  /\ Cardinality(DOMAIN buckets) <= MaxBuckets
  /\ \A i, j \in DOMAIN admitted : i <= j /\ admitted[i].client = admitted[j].client =>
       LET mine == {k \in i .. j : admitted[k].client = admitted[i].client}
           forgot == admitted[j].flushes - admitted[i].flushes
       IN  Cardinality(mine) <= Burst * (1 + forgot) + Rate * (admitted[j].at - admitted[i].at)

\* "every request needs Authorization" (PROTOCOL.md): whatever the route or tool
\* and the order of its checks, nothing happens for a request without the token
\* (a call in the same process needs none), the cache is only cleared where the
\* server allows it, and where it does not allow writes the tools run nothing "that
\* is not a SELECT" (mcp.mdx:70).  That is no promise that nothing is written: a
\* SELECT can write, and the tools run it.
NothingWithoutToken ==
  \A s \in Slots : did[s] # {} =>
    /\ req[s].token \/ req[s].route \in Calls
    /\ "cleared" \in did[s] => CacheAdmin /\ req[s].route = "cache"
    /\ "wrote" \in did[s] /\ req[s].route \in Tools =>
         AllowWrites \/ req[s].sql = "writing select"

\* "threshold and max_rows override the server defaults for that request"
\* (serve.mdx:34), "overrides per call" (sdk-go.mdx:58): each runs with its own
\* options, or the ones the server or Go client was started with, whatever ran
\* before it and how that ended, waits with it, or runs beside it on the other
\* mutex; and what is to be explained is not judged.
OwnOptions ==
  \A s \in Slots : phase[s] = "running" =>
    /\ used[s].threshold = Own(req[s].threshold, Default.threshold)
    /\ used[s].maxRows = Own(req[s].maxRows, Default.maxRows)
    /\ used[s].explain = (req[s].route \in {"explain", "mcp explain", "go explain"} \/ req[s].explain)

\* A reply being written under the mutex of s, to a client that may never read it.
Stalled(s) == \E r \in Slots : phase[r] = "replying" /\ Side(req[r]) = Side(req[s])

\* Every request is answered, or dropped after its client left, however the ones
\* before it on its mutex end, unless it is behind (or is) a catalog request whose
\* client has stopped reading: no path leaves a mutex locked, and what stalls the
\* HTTP routes does not reach the tools.  (A run has one request for each slot.)
EveryRequestEnds ==
  <>[](\A s \in Slots : \/ phase[s] \in {"idle", "done", "silent", "replying"}
                        \/ phase[s] = "waiting" /\ Stalled(s))
=============================================================================
