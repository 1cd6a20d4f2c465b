------------------------------- MODULE Engine -------------------------------
(***************************************************************************)
(* The embedded engine of the TypeScript SDK (sdk/typescript/src/engine.ts *)
(* and index.ts), the host of the processes of EngineProcess.              *)
(*                                                                         *)
(* The host is one JavaScript thread: a callback and the promise reactions *)
(* it triggers run without anything in between, so each is one action.     *)
(* The engines are processes of their own; pipes, signals and exit events  *)
(* take any time.  A process is named by its pid, and so is the promise of *)
(* the spawn that made it.                                                 *)
(***************************************************************************)
EXTENDS EngineProcess

CONSTANT MaxCloses   \* bound: the calls of close()

ASSUME CloseBound == MaxCloses \in Nat

VARIABLES
  child,      \* Engine.child
  starting,   \* Engine.starting
  ready,      \* Engine.ready: the engine whose URL it holds
  running,    \* this Engine is in the set `running`
  transport,  \* Jevql.transport: the engine it sends to
  spawned,    \* of spawn(): "pending", "resolved", "rejected" (`done` is not pending)
  exitSeen,   \* the "exit" event (or "error", for no process) was delivered
  closing,    \* stop() waits for the exit of these
  closes,     \* calls of close()
  owed        \* history: engines that were up when close() was called

object == <<child, starting, ready, running, transport>>
vars == <<engines, host, object, spawned, exitSeen, closing, closes, owed>>

Spawns == {p \in Pids : spawned[p] # "none"}

Init ==
  /\ InitProcesses
  /\ child = NoPid /\ starting = NoPid /\ ready = NoPid
  /\ running = FALSE
  /\ transport = NoPid
  /\ spawned = [p \in Pids |-> "none"]
  /\ exitSeen = [p \in Pids |-> FALSE]
  /\ closing = {} /\ closes = 0 /\ owed = {}
-----------------------------------------------------------------------------
(* The host: Jevql.ready and Engine.start *)

\* ready() with a transport at hand, or while another call's start is under
\* way, changes nothing.  With a resolved start it makes a new transport.
StartResolved ==
  /\ host /\ transport = NoPid /\ ready # NoPid
  /\ transport' = ready
  /\ UNCHANGED <<engines, host, child, starting, ready, running, spawned, exitSeen, closing, closes, owed>>

\* Mutant of Start: concurrent callers do not share the spawn.
StartUnshared(p) ==
  /\ host /\ transport = NoPid /\ ready = NoPid
  /\ Fork(p, "booting")
  /\ child' = p /\ starting' = p /\ running' = TRUE
  /\ spawned' = [spawned EXCEPT ![p] = "pending"]
  /\ UNCHANGED <<signals, line, host, ready, transport, exitSeen, closing, closes, owed>>

\* start() with nothing under way: spawn.
Start(p) ==
  /\ host /\ transport = NoPid /\ ready = NoPid /\ starting = NoPid
  /\ Fork(p, "booting")
  /\ child' = p /\ starting' = p /\ running' = TRUE
  /\ spawned' = [spawned EXCEPT ![p] = "pending"]
  /\ UNCHANGED <<signals, line, host, ready, transport, exitSeen, closing, closes, owed>>

\* The ready line arrives: the promise resolves, start() keeps its result and
\* the waiting ready() makes its transport, whatever happened since.
ReadReady(p) ==
  /\ host /\ line[p] = "written" /\ spawned[p] = "pending"
  /\ line' = [line EXCEPT ![p] = "read"]
  /\ spawned' = [spawned EXCEPT ![p] = "resolved"]
  /\ ready' = p /\ transport' = p
  /\ UNCHANGED <<proc, signals, host, child, starting, running, exitSeen, closing, closes, owed>>

\* killNow(): SIGKILL to the current child, unless it was signalled before.
KillNow(c) ==
  signals' = [p \in Pids |->
    IF p = c /\ Live(p) /\ signals[p] = {} THEN {"KILL"} ELSE signals[p]]

\* Mutant of StartFails: the rejected promise stays.
StartFailsSticks(p) ==
  /\ host /\ spawned[p] = "pending"
  /\ KillNow(child)
  /\ spawned' = [spawned EXCEPT ![p] = "rejected"]
  /\ running' = FALSE
  /\ UNCHANGED <<proc, line, host, child, starting, ready, transport, exitSeen, closing, closes, owed>>

\* Mutant of StartFails: no timer, only the end of the process counts.
StartFailsNoTimer(p) ==
  /\ host /\ spawned[p] = "pending" /\ proc[p] = "dead"
  /\ KillNow(child)
  /\ spawned' = [spawned EXCEPT ![p] = "rejected"]
  /\ running' = FALSE /\ starting' = NoPid
  /\ UNCHANGED <<proc, line, host, child, ready, transport, exitSeen, closing, closes, owed>>

\* fail(): the start timer fired, or the first line was no ready line.
StartFails(p) ==
  /\ host /\ spawned[p] = "pending"
  /\ KillNow(child)
  /\ spawned' = [spawned EXCEPT ![p] = "rejected"]
  /\ running' = FALSE /\ starting' = NoPid
  /\ UNCHANGED <<proc, line, host, child, ready, transport, exitSeen, closing, closes, owed>>

\* The binary cannot be executed: the "error" event follows in the same tick.
\* There is no "exit" event then, and the child object stays, its exitCode set.
SpawnError(p) ==
  /\ host /\ transport = NoPid /\ ready = NoPid /\ starting = NoPid
  /\ Fork(p, "dead")
  /\ exitSeen' = [exitSeen EXCEPT ![p] = TRUE]
  /\ spawned' = [spawned EXCEPT ![p] = "rejected"]
  /\ child' = p /\ running' = FALSE
  /\ UNCHANGED <<signals, line, host, starting, ready, transport, closing, closes, owed>>

\* Mutant of SeeExit: stop()'s own listener is not called.
SeeExitDeaf(p) ==
  /\ host /\ proc[p] = "dead" /\ ~exitSeen[p]
  /\ exitSeen' = [exitSeen EXCEPT ![p] = TRUE]
  /\ running' = FALSE /\ child' = NoPid
  /\ IF spawned[p] = "pending"
       THEN starting' = NoPid /\ spawned' = [spawned EXCEPT ![p] = "rejected"]
       ELSE UNCHANGED <<starting, spawned>>
  /\ UNCHANGED <<engines, host, ready, transport, closing, closes, owed>>

\* The "exit" event: the handler of spawn() forgets the child, whichever it now
\* is, and fails a start still pending; then the listeners of stop() finish
\* their close().
SeeExit(p) ==
  /\ host /\ proc[p] = "dead" /\ ~exitSeen[p]
  /\ exitSeen' = [exitSeen EXCEPT ![p] = TRUE]
  /\ running' = FALSE /\ child' = NoPid
  /\ IF spawned[p] = "pending"
       THEN starting' = NoPid /\ spawned' = [spawned EXCEPT ![p] = "rejected"]
       ELSE UNCHANGED <<starting, spawned>>
  /\ closing' = closing \ {p}
  /\ transport' = IF p \in closing THEN NoPid ELSE transport
  /\ UNCHANGED <<engines, host, ready, closes, owed>>
-----------------------------------------------------------------------------
(* The host: close() and its end *)

\* stop() up to its await, or to its end when there is no child to wait for.
Close ==
  /\ host /\ closes < MaxCloses
  /\ closes' = closes + 1
  /\ owed' = owed \cup {p \in Pids : Stays(p)}
  /\ ready' = NoPid /\ starting' = NoPid /\ running' = FALSE
  /\ IF child = NoPid \/ (child # NoPid /\ exitSeen[child])
       THEN /\ child' = NoPid /\ transport' = NoPid
            /\ UNCHANGED <<signals, closing>>
       ELSE /\ signals' = IF Live(child) THEN [signals EXCEPT ![child] = @ \cup {"TERM"}] ELSE signals
            /\ closing' = closing \cup {child}
            /\ UNCHANGED <<child, transport>>
  /\ UNCHANGED <<proc, line, host, spawned, exitSeen>>

\* Two seconds after SIGTERM.
KillTimer(p) ==
  /\ host /\ p \in closing /\ Stays(p)
  /\ signals' = [signals EXCEPT ![p] = @ \cup {"KILL"}]
  /\ UNCHANGED <<proc, line, host, object, spawned, exitSeen, closing, closes, owed>>

\* process.exit: the hook kills what is running.
HostExits ==
  /\ host /\ host' = FALSE
  /\ IF running THEN KillNow(child) ELSE UNCHANGED signals
  /\ UNCHANGED <<proc, line, object, spawned, exitSeen, closing, closes, owed>>

\* The host dies without running its hook.
HostCrashes ==
  /\ host /\ host' = FALSE
  /\ UNCHANGED <<engines, object, spawned, exitSeen, closing, closes, owed>>
-----------------------------------------------------------------------------
\* The engines run on their own.
Runs(p) == ProcessStep(p) /\ UNCHANGED <<object, spawned, exitSeen, closing, closes, owed>>
MustRun(p) == ProcessMustStep(p) /\ UNCHANGED <<object, spawned, exitSeen, closing, closes, owed>>
-----------------------------------------------------------------------------
Next ==
  \/ StartResolved \/ Close \/ HostExits \/ HostCrashes
  \/ \E p \in Pids :
       \/ Start(p) \/ ReadReady(p) \/ StartFails(p) \/ SpawnError(p) \/ SeeExit(p)
       \/ KillTimer(p) \/ Runs(p)

Spec == Init /\ [][Next]_vars

\* Pipes, timers and exit events are delivered, and the engines do what they
\* are sure to do; a watched parent's end is noticed at the next tick.
Fairness ==
  \A p \in Pids :
    /\ WF_vars(ReadReady(p)) /\ WF_vars(StartFails(p)) /\ WF_vars(SeeExit(p)) /\ WF_vars(KillTimer(p))
    /\ WF_vars(MustRun(p))

FairSpec == Spec /\ Fairness
-----------------------------------------------------------------------------
\* "Concurrent callers share the same spawn" (engine.ts:122): a further engine
\* is only started after a failed start or a close().
SpawnsShared ==
  Cardinality(Spawns)
    <= 1 + Cardinality({p \in Pids : spawned[p] = "rejected"}) + closes

\* "a failed start can be retried" (engine.test.ts:142): no call is handed the
\* promise of a start that already failed, nor an engine whose start failed.
FailureNotKept ==
  /\ starting # NoPid => spawned[starting] # "rejected"
  /\ \A p \in {ready, transport} \ {NoPid} : spawned[p] = "resolved"

\* Every start is answered, by a URL or by an error, unless the host ends.
StartSettles == \A p \in Pids : spawned[p] = "pending" ~> (spawned[p] # "pending" \/ ~host)

\* Every close() returns, even if the engine hangs or is already gone.
CloseReturns == \A p \in Pids : p \in closing ~> (p \notin closing \/ ~host)

\* "A crashed host never leaves an orphan" (PROTOCOL.md): however the host ends,
\* all engines end, those it had lost track of included.
EnginesEndWithHost == ~host ~> \A p \in Pids : ~Live(p)

\* "db.close() // stops the engine" (sdk/typescript/README.md:36): when no close()
\* is under way any more, each engine that was up when one was called is gone
\* or killed.  Does not hold: see the README.
CloseStopsEngine == host /\ closing = {} => \A p \in owed : ~Stays(p)
=============================================================================
