----------------------------- MODULE MCService -----------------------------
(* A small instance of Service: requests that take every way through it.    *)
EXTENDS Service

MCDefault == [threshold |-> 5, maxRows |-> 100, explain |-> FALSE]

\* A request of one client, as sent by a well-behaved caller.
From(client, route, method) ==
  [client |-> client, route |-> route, method |-> method, token |-> TRUE, body |-> "good",
   sql |-> "jev", threshold |-> <<>>, maxRows |-> <<>>, explain |-> FALSE]

Routes(c) ==
  {[From(c, "query", "POST") EXCEPT !.threshold = <<7>>, !.explain = TRUE],
   [From(c, "query", "POST") EXCEPT !.sql = "write"],
   From(c, "table", "GET"), From(c, "cache", "DELETE")}

Refused(c) ==
  {[From(c, "cache", "DELETE") EXCEPT !.token = FALSE],
   From(c, "query", "OPTIONS")}

MCTools(c) ==
  {[From(c, "mcp query", "POST") EXCEPT !.threshold = <<7>>, !.maxRows = <<9>>],
   [From(c, "mcp query", "POST") EXCEPT !.sql = "write"],
   [From(c, "mcp explain", "POST") EXCEPT !.sql = "writing select"],
   From(c, "mcp table", "POST")}

MCCalls(c) ==
  {[From(c, "go query", "call") EXCEPT !.threshold = <<7>>], From(c, "go judge", "call"), From(c, "go explain", "call")}

MCRequests == Routes("a") \cup Refused("a") \cup MCTools("a") \cup MCCalls("b")
              \cup {From("b", "explain", "POST"), From("b", "openapi", "GET"), From("b", "health", "GET")}
=============================================================================
