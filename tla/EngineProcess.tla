--------------------------- MODULE EngineProcess ---------------------------
(***************************************************************************)
(* The process an SDK runs as its private engine, `jevql serve             *)
(* --ready-json --parent-pid` (internal/app/app.go, internal/serve/        *)
(* serve.go), from its host's point of view: it boots, writes its ready    *)
(* line, serves, and ends.  Engine and PyEngine are the hosts.             *)
(***************************************************************************)
EXTENDS Naturals, FiniteSets

CONSTANT MaxSpawns    \* bound: the engines spawned in one run

ASSUME SpawnBound == MaxSpawns \in Nat

Pids == 1 .. MaxSpawns   \* numbered as they are spawned
NoPid == 0               \* null, None

VARIABLES
  proc,       \* the engine processes: booting (newSession), serving, draining
  signals,    \* TERM (SIGTERM or SIGINT) and KILL received by each
  line,       \* the ready line: not written, in the pipe, or read
  host        \* the host process is up

engines == <<proc, signals, line>>

MaybePid == Pids \cup {NoPid}
Live(p) == proc[p] \in {"booting", "serving", "draining"}
Stays(p) == Live(p) /\ "KILL" \notin signals[p]

InitProcesses ==
  /\ proc = [p \in Pids |-> "none"]
  /\ signals = [p \in Pids |-> {}]
  /\ line = [p \in Pids |-> "none"]
  /\ host = TRUE

\* The next process of the host.
Fork(p, state) ==
  /\ proc[p] = "none" /\ \A q \in Pids : q < p => proc[q] # "none"
  /\ proc' = [proc EXCEPT ![p] = state]

\* A process ends; what is in the pipe stays.
Dead(p) ==
  /\ proc' = [proc EXCEPT ![p] = "dead"]
  /\ signals' = [signals EXCEPT ![p] = {}]
  /\ UNCHANGED <<line, host>>

\* newSession (no database, say) or net.Listen fails; SIGTERM has cancelled its
\* context.
BootFails(p) ==
  /\ proc[p] = "booting"
  /\ Dead(p)

\* ListenAndServe: the listener is bound, the ready line written, the requests
\* are served, in this order, even if SIGTERM came during newSession.
Listen(p) ==
  /\ proc[p] = "booting"
  /\ proc' = [proc EXCEPT ![p] = "serving"]
  /\ line' = [line EXCEPT ![p] = "written"]
  /\ UNCHANGED <<signals, host>>

\* Mutant of Cancelled: the parent is not watched.
CancelledBySignal(p) == "TERM" \in signals[p]

\* The context given to ListenAndServe is done: SIGTERM, or WatchParent's tick
\* finds the parent gone.
Cancelled(p) == "TERM" \in signals[p] \/ ~host

\* srv.Shutdown: at most 5 s for the requests in flight.
Drain(p) ==
  /\ proc[p] = "serving" /\ Cancelled(p)
  /\ proc' = [proc EXCEPT ![p] = "draining"]
  /\ UNCHANGED <<signals, line, host>>

\* session.close and the end of main.
Ends(p) ==
  /\ proc[p] = "draining"
  /\ Dead(p)

\* Killed by the host, or by anything else (a panic, the OOM killer).
Dies(p) ==
  /\ Live(p)
  /\ Dead(p)

ProcessStep(p) == BootFails(p) \/ Listen(p) \/ Drain(p) \/ Ends(p) \/ Dies(p)

\* What a process is sure to do: newSession may hang until it is told to stop or
\* is left alone (a cancelled or timed-out connect ends it then), Shutdown gives
\* up after 5 s, and SIGKILL kills.
ProcessMustStep(p) ==
  \/ Cancelled(p) /\ (BootFails(p) \/ Listen(p))
  \/ Drain(p) \/ Ends(p)
  \/ "KILL" \in signals[p] /\ Dies(p)
=============================================================================
