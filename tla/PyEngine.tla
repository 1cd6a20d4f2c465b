------------------------------ MODULE PyEngine ------------------------------
(***************************************************************************)
(* The embedded engine of the Python SDK (sdk/python/src/jevql/engine.py   *)
(* and transport.py), the host of the processes of EngineProcess.          *)
(*                                                                         *)
(* Threads of the host share one client.  Engine.start holds a lock,       *)
(* Engine.stop does not, nor does EmbeddedTransport: another thread may    *)
(* run between any two accesses to their fields, so each access that       *)
(* matters is a step.  A signal handler of the host may raise an exception *)
(* (KeyboardInterrupt, an alarm) wherever the main thread is.              *)
(***************************************************************************)
EXTENDS EngineProcess

CONSTANTS Threads, Main,   \* the threads, and the one that handles signals
          NoThread,
          MaxCloses,       \* bound: the calls of close()
          MaxInterrupts    \* bound: the exceptions raised by signal handlers

ASSUME ThreadsOfHost == Main \in Threads /\ NoThread \notin Threads
ASSUME CallBounds == MaxCloses \in Nat /\ MaxInterrupts \in Nat

VARIABLES
  process,     \* Engine.process
  url,         \* Engine.url: the engine whose URL it is
  lock,        \* Engine._lock
  pc,          \* where each thread is, "idle" outside of the client
  mine,        \* its local proc, in start() or stop()
  after,       \* what its stop() belongs to: a close, a failed start, the exit
  closes, interrupts,
  gone,        \* history: the engines that had ended when the thread's query began
  crossed      \* history: the engines spawned across another thread's stop()

fields == <<process, url, lock>>
locals == <<mine, after, gone>>
bounds == <<closes, interrupts>>
vars == <<engines, host, fields, pc, locals, bounds, crossed>>

Init ==
  /\ InitProcesses
  /\ process = NoPid /\ url = NoPid /\ lock = NoThread
  /\ pc = [t \in Threads |-> "idle"]
  /\ mine = [t \in Threads |-> NoPid]
  /\ after = [t \in Threads |-> "none"] /\ gone = [t \in Threads |-> {}]
  /\ closes = 0 /\ interrupts = 0 /\ crossed = {}

\* A thread goes from one place to the next.
Trans(t, from, to) == host /\ pc[t] = from /\ pc' = [pc EXCEPT ![t] = to]

\* Its call ends, by a result or an exception; a `with` gives the lock back.
Leave(t) ==
  /\ pc' = [pc EXCEPT ![t] = "idle"]
  /\ mine' = [mine EXCEPT ![t] = NoPid]
  /\ after' = [after EXCEPT ![t] = "none"] /\ gone' = [gone EXCEPT ![t] = {}]
  /\ lock' = IF lock = t THEN NoThread ELSE lock

\* The host ends, and what it had in memory.
HostGone ==
  /\ host' = FALSE
  /\ process' = NoPid /\ url' = NoPid /\ lock' = NoThread
  /\ pc' = [t \in Threads |-> "idle"]
  /\ mine' = [t \in Threads |-> NoPid]
  /\ after' = [t \in Threads |-> "none"] /\ gone' = [t \in Threads |-> {}]

Leaving == after[Main] = "exit"
-----------------------------------------------------------------------------
(* EmbeddedTransport.run, judge, health: start(), then the request *)

Query(t) ==
  /\ ~Leaving
  /\ Trans(t, "idle", "lock")
  /\ gone' = [gone EXCEPT ![t] = {p \in Pids : proc[p] = "dead"}]
  /\ UNCHANGED <<engines, host, fields, mine, after, bounds, crossed>>
-----------------------------------------------------------------------------
(* Engine.start *)

\* Mutant of Acquire: start takes no lock.
AcquireNothing(t) ==
  /\ Trans(t, "lock", IF process = NoPid THEN "spawn" ELSE "poll")
  /\ UNCHANGED <<engines, host, fields, locals, bounds, crossed>>

\* `with self._lock`, and the first look at process, in `running`.
Acquire(t) ==
  /\ Trans(t, "lock", IF process = NoPid THEN "spawn" ELSE "poll")
  /\ lock = NoThread /\ lock' = t
  /\ UNCHANGED <<engines, host, process, url, locals, bounds, crossed>>

\* Mutant of PollProcess: a process once started counts as running.
PollNothing(t) ==
  /\ Trans(t, "poll", "url")
  /\ UNCHANGED <<engines, host, fields, locals, bounds, crossed>>

\* `running` reads process again: a stop() in between makes it poll None.
PollProcess(t) ==
  /\ host /\ pc[t] = "poll"
  /\ IF process = NoPid
       THEN Leave(t)
       ELSE /\ Trans(t, "poll", IF Live(process) THEN "url" ELSE "spawn")
            /\ UNCHANGED <<lock, locals>>
  /\ UNCHANGED <<engines, host, process, url, bounds, crossed>>

LookAtUrl(t) ==
  /\ Trans(t, "url", IF url = NoPid THEN "spawn" ELSE "return")
  /\ UNCHANGED <<engines, host, fields, locals, bounds, crossed>>

\* Its stop() has read process, and has not cleared both fields.
Clearing(t) == pc[t] \in {"clear process", "clear url"}

\* Popen; the first time, stop is registered with atexit.
Spawn(t, p) ==
  /\ Trans(t, "spawn", "ready")
  /\ Fork(p, "booting")
  /\ process' = p /\ mine' = [mine EXCEPT ![t] = p]
  /\ crossed' = IF \E u \in Threads \ {t} : Clearing(u) THEN crossed \cup {p} ELSE crossed
  /\ UNCHANGED <<signals, line, host, url, lock, after, gone, bounds>>

\* No usable binary, or Popen raises OSError.
SpawnFails(t) ==
  /\ host /\ pc[t] = "spawn" /\ Leave(t)
  /\ UNCHANGED <<engines, host, process, url, bounds, crossed>>

\* The reader thread has the ready line, and start assigns its URL.
ReadReady(t) ==
  LET p == mine[t] IN
  /\ Trans(t, "ready", "return")
  /\ line[p] = "written" /\ line' = [line EXCEPT ![p] = "read"]
  /\ url' = p
  /\ UNCHANGED <<proc, signals, host, process, lock, locals, bounds, crossed>>

\* `return self.url`, whatever it is by now, and the end of the `with`; the
\* transport makes a client of the URL if it has another (None has none), sends
\* the request and has its answer or an error, in 60 s at the latest.
Return(t) ==
  /\ host /\ pc[t] = "return" /\ Leave(t)
  /\ UNCHANGED <<engines, host, process, url, bounds, crossed>>

Terminate(p) == signals' = IF Live(p) THEN [signals EXCEPT ![p] = @ \cup {"TERM"}] ELSE signals

\* _read_ready gives up: 15 s have passed, the process has ended, or the line is
\* something else.  _stderr_tail terminates the engine, and stop() follows.
ReadyFails(t) ==
  /\ Trans(t, "ready", "stop")
  /\ Terminate(mine[t])
  /\ after' = [after EXCEPT ![t] = "failed"]
  /\ UNCHANGED <<proc, line, host, fields, mine, gone, bounds, crossed>>
-----------------------------------------------------------------------------
(* Engine.stop *)

ReadProcess(t) ==
  /\ Trans(t, "stop", IF process = NoPid THEN "stopped" ELSE "clear process")
  /\ mine' = IF process = NoPid THEN mine ELSE [mine EXCEPT ![t] = process]
  /\ UNCHANGED <<engines, host, fields, after, gone, bounds, crossed>>

ClearProcess(t) ==
  /\ Trans(t, "clear process", "clear url")
  /\ process' = NoPid
  /\ UNCHANGED <<engines, host, url, lock, locals, bounds, crossed>>

ClearUrl(t) ==
  /\ Trans(t, "clear url", "terminate")
  /\ url' = NoPid
  /\ UNCHANGED <<engines, host, process, lock, locals, bounds, crossed>>

TerminateProcess(t) ==
  /\ Trans(t, "terminate", "wait")
  /\ Terminate(mine[t])
  /\ UNCHANGED <<proc, line, host, fields, locals, bounds, crossed>>

\* wait() returns, or had nothing to wait for.
Waited(t) ==
  /\ \E from \in {"wait", "wait again"} : Trans(t, from, "stopped")
  /\ ~Live(mine[t])
  /\ UNCHANGED <<engines, host, fields, locals, bounds, crossed>>

\* Mutants of WaitExpires: stop() gives up; it waits for ever.
WaitGivesUp(t) ==
  /\ Trans(t, "wait", "stopped")
  /\ Live(mine[t])
  /\ UNCHANGED <<engines, host, fields, locals, bounds, crossed>>

WaitNeverExpires(t) == pc[t] = "never" /\ UNCHANGED vars

\* TimeoutExpired after two seconds: kill.
WaitExpires(t) ==
  /\ Trans(t, "wait", "wait again")
  /\ Live(mine[t])
  /\ signals' = [signals EXCEPT ![mine[t]] = @ \cup {"KILL"}]
  /\ UNCHANGED <<proc, line, host, fields, locals, bounds, crossed>>

\* Two more seconds: this TimeoutExpired is not caught.
KillExpires(t) ==
  /\ host /\ pc[t] = "wait again" /\ Live(mine[t])
  /\ IF after[t] = "exit"
       THEN HostGone
       ELSE Leave(t) /\ UNCHANGED <<host, process, url>>
  /\ UNCHANGED <<engines, bounds, crossed>>

\* stop() has returned: close() forgets its client, a failed start raises, and
\* the interpreter ends.
Stopped(t) ==
  /\ host /\ pc[t] = "stopped"
  /\ IF after[t] = "exit"
       THEN HostGone
       ELSE Leave(t) /\ UNCHANGED <<host, process, url>>
  /\ UNCHANGED <<engines, bounds, crossed>>
-----------------------------------------------------------------------------
(* close(), the exit, and what may happen to the host *)

Close(t) ==
  /\ ~Leaving /\ closes < MaxCloses
  /\ Trans(t, "idle", "stop")
  /\ closes' = closes + 1
  /\ after' = [after EXCEPT ![t] = "close"]
  /\ UNCHANGED <<engines, host, fields, mine, gone, interrupts, crossed>>

\* The interpreter has joined its threads and runs the exit hook, if an engine
\* was ever spawned.
Exit ==
  /\ \A t \in Threads : pc[t] = "idle"
  /\ Trans(Main, "idle", IF proc[1] = "none" THEN "stopped" ELSE "stop")
  /\ after' = [after EXCEPT ![Main] = "exit"]
  /\ UNCHANGED <<engines, host, fields, mine, gone, bounds, crossed>>

HostCrashes == host /\ HostGone /\ UNCHANGED <<engines, bounds, crossed>>

\* A signal handler raises in the main thread; SIGINT from a terminal also goes
\* to the engines, which share its process group.
Interrupt ==
  /\ host /\ ~Leaving /\ pc[Main] # "idle" /\ interrupts < MaxInterrupts
  /\ interrupts' = interrupts + 1
  /\ Leave(Main)
  /\ \/ UNCHANGED signals
     \/ signals' = [p \in Pids |-> IF Live(p) THEN signals[p] \cup {"TERM"} ELSE signals[p]]
  /\ UNCHANGED <<proc, line, host, process, url, closes, crossed>>

\* The engines run on their own.
Runs(p) == ProcessStep(p) /\ UNCHANGED <<fields, pc, locals, bounds, crossed>>
-----------------------------------------------------------------------------
\* What a thread does by itself once it has called the client.
Step(t) ==
  \/ PollProcess(t) \/ LookAtUrl(t)
  \/ SpawnFails(t) \/ \E p \in Pids : Spawn(t, p)
  \/ ReadReady(t) \/ ReadyFails(t) \/ Return(t)
  \/ ReadProcess(t) \/ ClearProcess(t) \/ ClearUrl(t) \/ TerminateProcess(t)
  \/ Waited(t) \/ WaitExpires(t) \/ KillExpires(t) \/ Stopped(t)

Next ==
  \/ \E t \in Threads : Query(t) \/ Close(t) \/ Acquire(t) \/ Step(t)
  \/ Exit \/ HostCrashes \/ Interrupt
  \/ \E p \in Pids : Runs(p)

Spec == Init /\ [][Next]_vars

\* Threads are scheduled, timers expire, a request ends, and a lock that keeps
\* being released is given to every waiter; the engines may hang.
Fairness == \A t \in Threads : SF_vars(Acquire(t)) /\ WF_vars(Step(t))

FairSpec == Spec /\ Fairness
-----------------------------------------------------------------------------
\* An engine that nothing stops before the host ends, or that the next query
\* replaces though it runs: no thread has it in hand, nor the fields.
Lost(p) ==
  /\ host /\ Live(p) /\ signals[p] = {}
  /\ process # p \/ url # p
  /\ \A t \in Threads : mine[t] # p /\ ~Clearing(t)

\* "Spawns and owns one jevql serve process" (engine.py:61): concurrent queries
\* share an engine, and a dead or failed one is replaced; an engine is only lost
\* track of where an exception interrupts a start() or a stop(), or where it was
\* spawned while another thread's stop(), which takes no lock, was between its
\* look at process and its reset of url.
OnlyRacesLose ==
  Cardinality({p \in Pids \ crossed : Lost(p)}) <= interrupts

\* start() never returns the URL of an engine that had ended before the query:
\* a crashed engine is replaced by the next call.  An interrupted restart breaks
\* this, as the URL of the old engine stays.
NoDeadUrl ==
  interrupts = 0 =>
    \A t \in Threads : pc[t] = "return" => url \notin gone[t]

\* "stops it when you close()" (sdk/python/README.md:17): the engine a stop()
\* has returned for is gone or killed, and one whose start raised an error is at
\* least told to end, whoever else is starting or stopping.
StoppedEngines ==
  \A t \in Threads : pc[t] = "stopped" /\ mine[t] # NoPid =>
    IF after[t] = "failed" THEN Live(mine[t]) => signals[mine[t]] # {} ELSE ~Stays(mine[t])

\* Every query and every close() returns, also behind another thread's start,
\* and with an engine that hangs.
CallsReturn == \A t \in Threads : pc[t] # "idle" ~> (pc[t] = "idle" \/ ~host)
=============================================================================
