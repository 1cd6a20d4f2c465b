--------------------------- MODULE PyEngineProofs ---------------------------
(* Theorems about PyEngine, for any number of threads, engines, calls of    *)
(* close() and interrupts.                                                  *)
EXTENDS PyEngine, FiniteSetTheorems, TLAPS

ProcessType ==
  /\ proc \in [Pids -> {"none", "booting", "serving", "draining", "dead"}]
  /\ signals \in [Pids -> SUBSET {"TERM", "KILL"}]
  /\ line \in [Pids -> {"none", "written", "read"}]
  /\ host \in BOOLEAN

Starting == {"poll", "url", "spawn", "ready", "return"}
Stopping == {"stop", "clear process", "clear url", "terminate", "wait", "wait again", "stopped"}

LocalType ==
  /\ pc \in [Threads -> {"idle", "lock"} \cup Starting \cup Stopping]
  /\ mine \in [Threads -> MaybePid]
  /\ after \in [Threads -> {"none", "failed", "close", "exit"}]
  /\ gone \in [Threads -> SUBSET Pids]

TypeOK ==
  /\ ProcessType /\ LocalType
  /\ process \in MaybePid /\ url \in MaybePid
  /\ lock \in Threads \cup {NoThread}
  /\ closes \in 0 .. MaxCloses /\ interrupts \in 0 .. MaxInterrupts
  /\ crossed \in SUBSET Pids

LEMMA NoPidUnused == NoPid \notin Pids
BY SpawnBound DEF NoPid, Pids

LEMMA ProcessSteps ==
  ASSUME ProcessType, NEW p \in Pids, ProcessStep(p)
  PROVE  /\ ProcessType' /\ host' = host
         /\ \A q \in Pids : proc[q] = "none" <=> proc'[q] = "none"
         /\ \A q \in Pids : proc[q] = "dead" => proc'[q] = "dead"
         /\ \A q \in Pids : Live(q)' => Live(q) /\ signals'[q] = signals[q]
BY DEF ProcessType, ProcessStep, BootFails, Listen, Drain, Ends, Dies, Dead, Live

LEMMA TransType ==
  ASSUME LocalType, NEW t \in Threads, NEW from,
         NEW to \in {"idle", "lock"} \cup Starting \cup Stopping, Trans(t, from, to)
  PROVE  /\ pc' \in [Threads -> {"idle", "lock"} \cup Starting \cup Stopping]
         /\ host /\ pc[t] = from /\ pc'[t] = to
         /\ \A u \in Threads \ {t} : pc'[u] = pc[u]
BY DEF LocalType, Trans

LEMMA LeaveType ==
  ASSUME LocalType, NEW t \in Threads, Leave(t), lock \in Threads \cup {NoThread}
  PROVE  /\ LocalType' /\ lock' \in Threads \cup {NoThread}
         /\ pc'[t] = "idle" /\ mine'[t] = NoPid /\ after'[t] = "none" /\ gone'[t] = {}
         /\ lock' = IF lock = t THEN NoThread ELSE lock
         /\ \A u \in Threads \ {t} : /\ pc'[u] = pc[u] /\ mine'[u] = mine[u]
                                     /\ after'[u] = after[u] /\ gone'[u] = gone[u]
BY DEF LocalType, Leave, MaybePid

LEMMA TerminateType ==
  ASSUME ProcessType, NEW p, Terminate(p)
  PROVE  signals' \in [Pids -> SUBSET {"TERM", "KILL"}]
BY DEF ProcessType, Terminate

LEMMA GoneType == HostGone => LocalType' /\ process' = NoPid /\ url' = NoPid /\ lock' = NoThread /\ ~host'
BY DEF HostGone, LocalType, MaybePid

LEMMA TypeThread ==
  ASSUME TypeOK, NEW t \in Threads, Query(t) \/ Close(t) \/ Acquire(t) \/ Step(t)
  PROVE  TypeOK'
<1> USE DEF TypeOK
<1>1. CASE Query(t)
  <2>1. Trans(t, "idle", "lock")  BY <1>1 DEF Query
  <2>2. gone' \in [Threads -> SUBSET Pids]  BY <1>1 DEF Query, LocalType
  <2>3. LocalType'  BY <1>1, <2>1, <2>2, TransType DEF Query, LocalType
  <2>4. QED  BY <1>1, <2>3 DEF Query, ProcessType, engines, fields, bounds
<1>2. CASE Close(t)
  <2>1. Trans(t, "idle", "stop") /\ "stop" \in Stopping  BY <1>2 DEF Close, Stopping
  <2>2. after' \in [Threads -> {"none", "failed", "close", "exit"}]
    BY <1>2 DEF Close, LocalType
  <2>3. LocalType'  BY <1>2, <2>1, <2>2, TransType DEF Close, LocalType
  <2>4. closes' \in 0 .. MaxCloses  BY <1>2, CallBounds DEF Close
  <2>5. QED  BY <1>2, <2>3, <2>4 DEF Close, ProcessType, engines, fields
<1>3. CASE Acquire(t)
  <2>1. PICK to \in {"spawn", "poll"} : Trans(t, "lock", to)  BY <1>3 DEF Acquire
  <2>2. to \in Starting  BY DEF Starting
  <2>3. LocalType'  BY <1>3, <2>1, <2>2, TransType DEF Acquire, LocalType, locals
  <2>4. QED  BY <1>3, <2>3 DEF Acquire, ProcessType, engines, bounds
<1>4. CASE PollProcess(t)
  <2>1. CASE process = NoPid
    BY <1>4, <2>1, LeaveType DEF PollProcess, ProcessType, engines, bounds
  <2>2. CASE process # NoPid
    <3>1. PICK to \in {"url", "spawn"} : Trans(t, "poll", to)  BY <1>4, <2>2 DEF PollProcess
    <3>2. to \in Starting  BY DEF Starting
    <3>3. LocalType'  BY <1>4, <2>2, <3>1, <3>2, TransType DEF PollProcess, LocalType, locals
    <3>4. QED  BY <1>4, <2>2, <3>3 DEF PollProcess, ProcessType, engines, bounds
  <2>3. QED  BY <2>1, <2>2
<1>5. CASE LookAtUrl(t)
  <2>1. PICK to \in {"spawn", "return"} : Trans(t, "url", to)  BY <1>5 DEF LookAtUrl
  <2>2. to \in Starting  BY DEF Starting
  <2>3. LocalType'  BY <1>5, <2>1, <2>2, TransType DEF LookAtUrl, LocalType, locals
  <2>4. QED  BY <1>5, <2>3 DEF LookAtUrl, ProcessType, engines, bounds, fields
<1>6. ASSUME NEW p \in Pids, Spawn(t, p)  PROVE TypeOK'
  <2>1. Trans(t, "spawn", "ready") /\ "ready" \in Starting  BY <1>6 DEF Spawn, Starting
  <2>2. mine' \in [Threads -> MaybePid]  BY <1>6 DEF Spawn, LocalType, MaybePid
  <2>3. LocalType'  BY <1>6, <2>1, <2>2, TransType DEF Spawn, LocalType
  <2>4. proc' \in [Pids -> {"none", "booting", "serving", "draining", "dead"}]
    BY <1>6 DEF Spawn, Fork, ProcessType
  <2>5. crossed' \in SUBSET Pids  BY <1>6 DEF Spawn
  <2>6. QED  BY <1>6, <2>3, <2>4, <2>5 DEF Spawn, ProcessType, bounds, MaybePid
<1>7. CASE SpawnFails(t)
  BY <1>7, LeaveType DEF SpawnFails, ProcessType, engines, bounds
<1>8. CASE ReadReady(t)
  <2>1. Trans(t, "ready", "return") /\ "return" \in Starting  BY <1>8 DEF ReadReady, Starting
  <2>2. LocalType'  BY <1>8, <2>1, TransType DEF ReadReady, LocalType, locals
  <2>3. line' \in [Pids -> {"none", "written", "read"}]  BY <1>8 DEF ReadReady, ProcessType
  <2>4. url' \in MaybePid  BY <1>8 DEF ReadReady, LocalType
  <2>5. QED  BY <1>8, <2>2, <2>3, <2>4 DEF ReadReady, ProcessType, bounds
<1>9. CASE Return(t)  BY <1>9, LeaveType DEF Return, ProcessType, engines, bounds
<1>10. CASE ReadyFails(t)
  <2>1. Trans(t, "ready", "stop") /\ "stop" \in Stopping  BY <1>10 DEF ReadyFails, Stopping
  <2>2. after' \in [Threads -> {"none", "failed", "close", "exit"}]
    BY <1>10 DEF ReadyFails, LocalType
  <2>3. LocalType'  BY <1>10, <2>1, <2>2, TransType DEF ReadyFails, LocalType
  <2>4. signals' \in [Pids -> SUBSET {"TERM", "KILL"}]  BY <1>10, TerminateType DEF ReadyFails
  <2>5. QED  BY <1>10, <2>3, <2>4 DEF ReadyFails, ProcessType, fields, bounds
<1>11. CASE ReadProcess(t)
  <2>1. PICK to \in {"stopped", "clear process"} : Trans(t, "stop", to)  BY <1>11 DEF ReadProcess
  <2>2. to \in Stopping  BY DEF Stopping
  <2>3. mine' \in [Threads -> MaybePid]  BY <1>11 DEF ReadProcess, LocalType
  <2>4. LocalType'  BY <1>11, <2>1, <2>2, <2>3, TransType DEF ReadProcess, LocalType
  <2>5. QED  BY <1>11, <2>4 DEF ReadProcess, ProcessType, engines, fields, bounds
<1>12. CASE ClearProcess(t)
  <2>1. Trans(t, "clear process", "clear url") /\ "clear url" \in Stopping
    BY <1>12 DEF ClearProcess, Stopping
  <2>2. LocalType'  BY <1>12, <2>1, TransType DEF ClearProcess, LocalType, locals
  <2>3. QED  BY <1>12, <2>2 DEF ClearProcess, ProcessType, engines, bounds, MaybePid
<1>13. CASE ClearUrl(t)
  <2>1. Trans(t, "clear url", "terminate") /\ "terminate" \in Stopping
    BY <1>13 DEF ClearUrl, Stopping
  <2>2. LocalType'  BY <1>13, <2>1, TransType DEF ClearUrl, LocalType, locals
  <2>3. QED  BY <1>13, <2>2 DEF ClearUrl, ProcessType, engines, bounds, MaybePid
<1>14. CASE TerminateProcess(t)
  <2>1. Trans(t, "terminate", "wait") /\ "wait" \in Stopping
    BY <1>14 DEF TerminateProcess, Stopping
  <2>2. LocalType'  BY <1>14, <2>1, TransType DEF TerminateProcess, LocalType, locals
  <2>3. signals' \in [Pids -> SUBSET {"TERM", "KILL"}]  BY <1>14, TerminateType DEF TerminateProcess
  <2>4. QED  BY <1>14, <2>2, <2>3 DEF TerminateProcess, ProcessType, fields, bounds
<1>15. CASE Waited(t)
  <2>1. PICK from : Trans(t, from, "stopped")  BY <1>15 DEF Waited
  <2>2. "stopped" \in Stopping  BY DEF Stopping
  <2>3. LocalType'  BY <1>15, <2>1, <2>2, TransType DEF Waited, LocalType, locals
  <2>4. QED  BY <1>15, <2>3 DEF Waited, ProcessType, engines, fields, bounds
<1>16. CASE WaitExpires(t)
  <2>1. Trans(t, "wait", "wait again") /\ "wait again" \in Stopping
    BY <1>16 DEF WaitExpires, Stopping
  <2>2. LocalType'  BY <1>16, <2>1, TransType DEF WaitExpires, LocalType, locals
  <2>3. signals' \in [Pids -> SUBSET {"TERM", "KILL"}]  BY <1>16 DEF WaitExpires, ProcessType
  <2>4. QED  BY <1>16, <2>2, <2>3 DEF WaitExpires, ProcessType, fields, bounds
<1>17. CASE KillExpires(t) \/ Stopped(t)
  <2>1. UNCHANGED <<engines, bounds, crossed>>  BY <1>17 DEF KillExpires, Stopped
  <2>2. CASE HostGone  BY <2>1, <2>2, GoneType DEF ProcessType, engines, bounds, MaybePid, HostGone
  <2>3. CASE Leave(t) /\ UNCHANGED <<host, process, url>>
    BY <2>1, <2>3, LeaveType DEF ProcessType, engines, bounds
  <2>4. QED  BY <1>17, <2>2, <2>3 DEF KillExpires, Stopped
<1>18. QED
  BY <1>1, <1>2, <1>3, <1>4, <1>5, <1>6, <1>7, <1>8, <1>9, <1>10, <1>11, <1>12, <1>13, <1>14,
     <1>15, <1>16, <1>17 DEF Step

LEMMA TypeStep ==
  ASSUME TypeOK, [Next]_vars
  PROVE  TypeOK'
<1> USE DEF TypeOK
<1>1. ASSUME NEW t \in Threads, Query(t) \/ Close(t) \/ Acquire(t) \/ Step(t)  PROVE TypeOK'
  BY <1>1, TypeThread
<1>2. CASE Exit
  <2>1. PICK to \in {"stopped", "stop"} : Trans(Main, "idle", to)  BY <1>2 DEF Exit
  <2>2. to \in Stopping /\ Main \in Threads  BY ThreadsOfHost DEF Stopping
  <2>3. after' \in [Threads -> {"none", "failed", "close", "exit"}]  BY <1>2 DEF Exit, LocalType
  <2>4. LocalType'  BY <1>2, <2>1, <2>2, <2>3, TransType DEF Exit, LocalType
  <2>5. QED  BY <1>2, <2>4 DEF Exit, ProcessType, engines, fields, bounds
<1>3. CASE HostCrashes
  BY <1>3, GoneType DEF HostCrashes, ProcessType, engines, bounds, MaybePid, HostGone
<1>4. CASE Interrupt
  <2>1. Leave(Main) /\ Main \in Threads  BY <1>4, ThreadsOfHost DEF Interrupt
  <2>2. LocalType' /\ lock' \in Threads \cup {NoThread}  BY <2>1, LeaveType
  <2>3. signals' \in [Pids -> SUBSET {"TERM", "KILL"}]  BY <1>4 DEF Interrupt, ProcessType
  <2>4. interrupts' \in 0 .. MaxInterrupts  BY <1>4, CallBounds DEF Interrupt
  <2>5. QED  BY <1>4, <2>2, <2>3, <2>4 DEF Interrupt, ProcessType
<1>5. ASSUME NEW p \in Pids, Runs(p)  PROVE TypeOK'
  <2>1. ProcessType'  BY <1>5, ProcessSteps DEF Runs
  <2>2. QED  BY <1>5, <2>1 DEF Runs, LocalType, fields, locals, bounds
<1>6. CASE UNCHANGED vars
  BY <1>6 DEF vars, ProcessType, LocalType, engines, fields, locals, bounds
<1>7. QED  BY <1>1, <1>2, <1>3, <1>4, <1>5, <1>6 DEF Next
-----------------------------------------------------------------------------
(* What each thread knows, whatever the others do.                          *)

Handling == {"ready", "clear process", "clear url", "terminate", "wait", "wait again"}

\* Who is in start(), its failed end included, has the lock.
Locked(t) == pc[t] \in Starting \/ after[t] = "failed" => lock = t

\* Where a thread has an engine in hand, and where it has none.
Hands(t) ==
  /\ pc[t] \in {"idle", "lock", "poll", "url", "spawn"} => mine[t] = NoPid
  /\ pc[t] = "stop" /\ after[t] # "failed" => mine[t] = NoPid
  /\ pc[t] \in Handling => mine[t] # NoPid
  /\ mine[t] # NoPid => proc[mine[t]] # "none"

\* Nobody else assigns process while a thread waits for its ready line.
Own(t) == pc[t] = "ready" => process \in {mine[t], NoPid}

\* A new engine never replaces one that is up and whose URL is known.
Needed(t) == pc[t] = "spawn" => process = NoPid \/ ~Live(process) \/ url = NoPid

\* A process that came across a stop() under way was counted as such.
Crossing(t) == Clearing(t) => process \in {NoPid, mine[t]} \cup crossed

Told(t) == pc[t] = "stop" /\ after[t] = "failed" =>
             mine[t] # NoPid /\ (Live(mine[t]) => signals[mine[t]] # {})

StoppedAt(t) == pc[t] = "stopped" /\ mine[t] # NoPid =>
  IF after[t] = "failed" THEN Live(mine[t]) => signals[mine[t]] # {} ELSE ~Stays(mine[t])

GoneIsDead(t) == \A p \in gone[t] : proc[p] = "dead"

UrlAlive(t) == interrupts = 0 =>
  /\ pc[t] \in {"url", "return"} => url \notin gone[t]
  /\ pc[t] = "ready" => mine[t] \notin gone[t]

Local(t) == /\ Locked(t) /\ Hands(t) /\ Own(t) /\ Needed(t) /\ Crossing(t)
            /\ Told(t) /\ StoppedAt(t) /\ GoneIsDead(t) /\ UrlAlive(t)

ProcessKnown == process # NoPid => proc[process] # "none"

\* What the steps of others may change for a thread.
EnginesGoOn ==
  \A p \in Pids :
    /\ proc[p] # "none" =>
         proc'[p] # "none" /\ (Live(p)' => Live(p) /\ signals[p] \subseteq signals'[p])
    /\ proc[p] = "dead" => proc'[p] = "dead"

Bystands(u) ==
  /\ pc'[u] = pc[u] /\ mine'[u] = mine[u] /\ after'[u] = after[u] /\ gone'[u] = gone[u]
  /\ lock = u => lock' = u
  /\ \/ process' \in {process, NoPid}
     \/ lock # u /\ process' \in Pids /\ (Clearing(u) => process' \in crossed')
  /\ url' \in {url, NoPid} \/ lock # u
  /\ crossed \subseteq crossed'
  /\ interrupts' = 0 => interrupts = 0

LEMMA Bystander ==
  ASSUME TypeOK, TypeOK', ProcessKnown, EnginesGoOn,
         NEW u \in Threads, Local(u), Bystands(u)
  PROVE  Local(u)'
<1>1. /\ pc'[u] = pc[u] /\ mine'[u] = mine[u] /\ after'[u] = after[u] /\ gone'[u] = gone[u]
      /\ lock = u => lock' = u
      /\ \/ process' \in {process, NoPid}
         \/ lock # u /\ process' \in Pids /\ (Clearing(u) => process' \in crossed')
      /\ url' \in {url, NoPid} \/ lock # u
      /\ crossed \subseteq crossed'
      /\ interrupts' = 0 => interrupts = 0
  BY DEF Bystands
<1>2. /\ mine[u] \in Pids \cup {NoPid} /\ gone[u] \in SUBSET Pids
      /\ process \in Pids \cup {NoPid} /\ NoPid \notin Pids
  BY NoPidUnused DEF TypeOK, LocalType, MaybePid
<1>3. Locked(u)'  BY <1>1 DEF Local, Locked
<1>4. Hands(u)'
  <2>1. Hands(u)  BY DEF Local
  <2>2. mine[u] # NoPid => proc'[mine[u]] # "none"  BY <1>2, <2>1 DEF Hands, EnginesGoOn
  <2>3. QED  BY <1>1, <2>1, <2>2 DEF Hands
<1>5. Own(u)'  BY <1>1 DEF Local, Locked, Own, Starting
<1>6. Needed(u)'
  <2>1. SUFFICES ASSUME pc[u] = "spawn"
                 PROVE  process' = NoPid \/ ~Live(process)' \/ url' = NoPid
    BY <1>1 DEF Needed
  <2>2. lock = u  BY <2>1 DEF Local, Locked, Starting
  <2>3. process' = NoPid \/ (process' = process /\ process \in Pids)  BY <1>1, <1>2, <2>2
  <2>4. process = NoPid \/ ~Live(process) \/ url = NoPid  BY <2>1 DEF Local, Needed
  <2>5. process' = process /\ process \in Pids /\ ~Live(process) => ~Live(process)'
    <3>1. PICK p : p = process  OBVIOUS
    <3>2. p \in Pids => proc[p] # "none"  BY <1>2, <3>1 DEF ProcessKnown
    <3>3. p \in Pids /\ ~Live(p) => ~Live(p)'  BY <3>2 DEF EnginesGoOn
    <3>4. process' = p => (Live(process)' <=> Live(p)')  BY DEF Live
    <3>5. QED  BY <3>1, <3>3, <3>4
  <2>6. QED  BY <1>1, <2>2, <2>3, <2>4, <2>5
<1>7. Crossing(u)'
  <2>1. Crossing(u) /\ (Clearing(u)' <=> Clearing(u))  BY <1>1 DEF Local, Clearing
  <2>2. QED  BY <1>1, <2>1 DEF Crossing
<1>8. PICK m : m = mine[u]  OBVIOUS
<1>9. m # NoPid => (Live(m)' => Live(m) /\ signals[m] \subseteq signals'[m])
  <2>1. m # NoPid => m \in Pids /\ proc[m] # "none"  BY <1>2, <1>8 DEF Local, Hands
  <2>2. QED  BY <2>1 DEF EnginesGoOn
<1>10. mine'[u] = m  BY <1>1, <1>8
<1>11. Told(u)'
  <2>1. Told(u)  BY DEF Local
  <2>2. SUFFICES ASSUME pc[u] = "stop", after[u] = "failed"
                 PROVE  m # NoPid /\ (Live(m)' => signals'[m] # {})
    BY <1>1, <1>10 DEF Told, Live
  <2>3. m # NoPid /\ (Live(m) => signals[m] # {})  BY <1>8, <2>1, <2>2 DEF Told
  <2>4. QED  BY <1>9, <2>3
<1>12. StoppedAt(u)'
  <2>1. SUFFICES ASSUME pc[u] = "stopped", m # NoPid
                 PROVE  IF after[u] = "failed" THEN Live(m)' => signals'[m] # {} ELSE ~Stays(m)'
    BY <1>1, <1>10 DEF StoppedAt, Live, Stays
  <2>2. IF after[u] = "failed" THEN Live(m) => signals[m] # {} ELSE ~Stays(m)
    BY <1>8, <2>1 DEF Local, StoppedAt
  <2>3. QED  BY <1>9, <2>1, <2>2 DEF Stays
<1>13. GoneIsDead(u)'
  <2>1. GoneIsDead(u)  BY DEF Local
  <2>2. QED  BY <1>1, <1>2, <2>1 DEF GoneIsDead, EnginesGoOn
<1>14. UrlAlive(u)'
  <2>1. UrlAlive(u) /\ Locked(u)  BY DEF Local
  <2>2. pc[u] \in {"url", "return"} => url' \in {url, NoPid}
    BY <1>1, <2>1 DEF Locked, Starting
  <2>3. NoPid \notin gone[u]  BY <1>2
  <2>4. QED  BY <1>1, <2>1, <2>2, <2>3 DEF UrlAlive
<1>15. QED
  BY <1>3, <1>4, <1>5, <1>6, <1>7, <1>11, <1>12, <1>13, <1>14 DEF Local

-----------------------------------------------------------------------------
(* What the threads keep together.                                          *)

\* In a restart, process and url are of two engines until the ready line is
\* read, or until the stop() of a failed start.
Restarting(t) ==
  /\ lock = t
  /\ pc[t] = "ready" \/ (pc[t] \in {"stop", "clear process"} /\ after[t] = "failed")

UrlOfProcess == interrupts = 0 =>
  \/ url = NoPid \/ process = NoPid \/ url = process
  \/ \E t \in Threads : Restarting(t)

\* An engine is kept by the fields, by the start() that reads its ready line,
\* and by a stop() that has yet to signal it.
Keeps(t, p) == /\ mine[t] = p
               /\ \/ pc[t] = "ready" /\ process = p
                  \/ pc[t] \in {"clear process", "clear url", "terminate"}

Kept(p) == (process = p /\ url = p) \/ \E t \in Threads : Keeps(t, p)

\* The engines nobody keeps, that would go on: more than Lost, which takes an
\* engine in some thread's hand, or a stop() under way, for not lost yet.
Stray == {p \in Pids \ crossed : host /\ Live(p) /\ signals[p] = {} /\ ~Kept(p)}

Base == /\ TypeOK /\ ProcessKnown /\ UrlOfProcess
        /\ \A t \in Threads : Local(t)

\* What a step of thread t has to keep, for the others too.
Good(t) == /\ Local(t)' /\ \A u \in Threads \ {t} : Bystands(u)
           /\ EnginesGoOn /\ ProcessKnown' /\ UrlOfProcess'
           /\ Stray' \subseteq Stray /\ interrupts' = interrupts

LEMMA Moves ==
  ASSUME TypeOK, NEW t \in Threads, NEW from, NEW to, Trans(t, from, to)
  PROVE  /\ host /\ pc[t] = from /\ pc'[t] = to
         /\ \A u \in Threads \ {t} : pc'[u] = pc[u]
BY DEF TypeOK, LocalType, Trans

LEMMA Left ==
  ASSUME TypeOK, NEW t \in Threads, Leave(t)
  PROVE  /\ pc'[t] = "idle" /\ mine'[t] = NoPid /\ after'[t] = "none" /\ gone'[t] = {}
         /\ lock' = IF lock = t THEN NoThread ELSE lock
         /\ \A u \in Threads \ {t} : /\ pc'[u] = pc[u] /\ mine'[u] = mine[u]
                                     /\ after'[u] = after[u] /\ gone'[u] = gone[u]
BY LeaveType DEF TypeOK

LEMMA IdleLocal ==
  ASSUME NEW t \in Threads,
         pc'[t] = "idle", mine'[t] = NoPid, after'[t] = "none", gone'[t] = {}
  PROVE  Local(t)'
BY DEF Local, Locked, Hands, Own, Needed, Crossing, Clearing, Told, StoppedAt, GoneIsDead,
       UrlAlive, Starting, Handling

\* Steps that change nothing but what belongs to the thread, and the lock.
LEMMA Plain ==
  ASSUME Base, TypeOK', NEW t \in Threads, Local(t)',
         UNCHANGED <<proc, signals, host, process, url, crossed, interrupts>>,
         \A u \in Threads \ {t} : /\ pc'[u] = pc[u] /\ mine'[u] = mine[u]
                                  /\ after'[u] = after[u] /\ gone'[u] = gone[u],
         lock' = lock \/ (lock \in {t, NoThread} /\ lock' \in {t, NoThread}),
         pc[t] \notin {"ready", "clear process", "clear url", "terminate"},
         Restarting(t) => Restarting(t)' \/ process = NoPid
  PROVE  Good(t)
<1>1. \A u \in Threads : u # NoThread  BY ThreadsOfHost
<1>2. \A u \in Threads \ {t} : lock = u => lock' = u  BY <1>1
<1>3. \A u \in Threads \ {t} : Bystands(u)  BY <1>2 DEF Bystands
<1>4. EnginesGoOn  BY DEF EnginesGoOn, Live
<1>5. ProcessKnown'  BY DEF Base, ProcessKnown
<1>6. UrlOfProcess'
  <2>1. \A u \in Threads \ {t} : Restarting(u) => Restarting(u)'  BY <1>2 DEF Restarting
  <2>2. \A u \in Threads : Restarting(u) => Restarting(u)' \/ process = NoPid  BY <2>1
  <2>3. QED  BY <2>2 DEF Base, UrlOfProcess
<1>7. Stray' \subseteq Stray
  <2>1. ASSUME NEW p \in Pids  PROVE Kept(p) => Kept(p)'
    <3>1. \A u \in Threads : Keeps(u, p) => Keeps(u, p)'  BY DEF Keeps
    <3>2. QED  BY <3>1 DEF Kept
  <2>2. \A p \in Pids : Live(p)' <=> Live(p)  BY DEF Live
  <2>3. QED  BY <2>1, <2>2 DEF Stray
<1>8. QED  BY <1>3, <1>4, <1>5, <1>6, <1>7 DEF Good

LEMMA LeavesGood ==
  ASSUME Base, TypeOK', NEW t \in Threads, Leave(t),
         UNCHANGED <<engines, host, process, url, bounds, crossed>>,
         pc[t] \in {"poll", "spawn", "return", "wait again", "stopped"}
  PROVE  Good(t)
<1>1. /\ pc'[t] = "idle" /\ mine'[t] = NoPid /\ after'[t] = "none" /\ gone'[t] = {}
      /\ lock' = IF lock = t THEN NoThread ELSE lock
      /\ \A u \in Threads \ {t} : /\ pc'[u] = pc[u] /\ mine'[u] = mine[u]
                                  /\ after'[u] = after[u] /\ gone'[u] = gone[u]
  BY Left DEF Base
<1>2. Local(t)'  BY <1>1, IdleLocal
<1>3. ~Restarting(t)  BY DEF Restarting
<1>4. UNCHANGED <<proc, signals, host, process, url, crossed, interrupts>>  BY DEF engines, bounds
<1>5. QED  BY <1>1, <1>2, <1>3, <1>4, Plain

LEMMA PlainGood ==
  ASSUME Base, TypeOK', NEW t \in Threads,
         \/ Query(t) \/ Close(t) \/ Acquire(t) \/ PollProcess(t) \/ LookAtUrl(t)
         \/ SpawnFails(t) \/ Return(t) \/ ReadProcess(t) \/ Waited(t)
  PROVE  Good(t)
<1> DEFINE Rest == UNCHANGED <<proc, signals, host, process, url, crossed, interrupts>>
<1>1. Local(t) /\ TypeOK /\ ProcessKnown /\ UrlOfProcess  BY DEF Base
<1>2. \A u \in Threads : u # NoThread  BY ThreadsOfHost
<1>3. mine[t] \in Pids \cup {NoPid} /\ gone[t] \in SUBSET Pids /\ NoPid \notin Pids
  BY <1>1, NoPidUnused DEF TypeOK, LocalType, MaybePid
<1>4. CASE Query(t)
  <2>1. /\ pc[t] = "idle" /\ pc'[t] = "lock" /\ \A u \in Threads \ {t} : pc'[u] = pc[u]
    BY <1>1, <1>4, Moves DEF Query
  <2>2. /\ gone'[t] = {p \in Pids : proc[p] = "dead"}
        /\ \A u \in Threads \ {t} : gone'[u] = gone[u]
    BY <1>1, <1>4 DEF Query, TypeOK, LocalType
  <2>3. Rest /\ UNCHANGED <<lock, mine, after>>  BY <1>4 DEF Query, engines, fields, bounds
  <2>4. Local(t)'
    BY <1>1, <2>1, <2>2, <2>3
    DEF Local, Locked, Hands, Own, Needed, Crossing, Clearing, Told, StoppedAt, GoneIsDead,
        UrlAlive, Starting, Handling
  <2>5. ~Restarting(t)  BY <2>1 DEF Restarting
  <2>6. QED  BY <2>1, <2>2, <2>3, <2>4, <2>5, Plain
<1>5. CASE Close(t)
  <2>1. /\ pc[t] = "idle" /\ pc'[t] = "stop" /\ \A u \in Threads \ {t} : pc'[u] = pc[u]
    BY <1>1, <1>5, Moves DEF Close
  <2>2. after'[t] = "close" /\ \A u \in Threads \ {t} : after'[u] = after[u]
    BY <1>1, <1>5 DEF Close, TypeOK, LocalType
  <2>3. Rest /\ UNCHANGED <<lock, mine, gone>>  BY <1>5 DEF Close, engines, fields
  <2>4. Local(t)'
    BY <1>1, <2>1, <2>2, <2>3
    DEF Local, Locked, Hands, Own, Needed, Crossing, Clearing, Told, StoppedAt, GoneIsDead,
        UrlAlive, Starting, Handling
  <2>5. ~Restarting(t)  BY <2>1 DEF Restarting
  <2>6. QED  BY <2>1, <2>2, <2>3, <2>4, <2>5, Plain
<1>6. CASE Acquire(t)
  <2>1. PICK to : to = IF process = NoPid THEN "spawn" ELSE "poll"  OBVIOUS
  <2>2. /\ pc[t] = "lock" /\ pc'[t] = to /\ \A u \in Threads \ {t} : pc'[u] = pc[u]
    BY <1>1, <1>6, <2>1, Moves DEF Acquire
  <2>3. Rest /\ UNCHANGED <<mine, after, gone>> /\ lock = NoThread /\ lock' = t
    BY <1>6 DEF Acquire, engines, locals, bounds
  <2>4. Local(t)'
    BY <1>1, <2>1, <2>2, <2>3
    DEF Local, Locked, Hands, Own, Needed, Crossing, Clearing, Told, StoppedAt, GoneIsDead,
        UrlAlive, Starting, Handling
  <2>5. ~Restarting(t)  BY <2>2 DEF Restarting
  <2>6. QED  BY <2>2, <2>3, <2>4, <2>5, Plain
<1>7. CASE PollProcess(t)
  <2>1. pc[t] = "poll"  BY <1>7 DEF PollProcess
  <2>2. CASE process = NoPid
    BY <1>7, <2>1, <2>2, LeavesGood DEF PollProcess
  <2>3. CASE process # NoPid
    <3>1. PICK to : to = IF Live(process) THEN "url" ELSE "spawn"  OBVIOUS
    <3>2. pc'[t] = to /\ \A u \in Threads \ {t} : pc'[u] = pc[u]
      BY <1>1, <1>7, <2>3, <3>1, Moves DEF PollProcess
    <3>3. Rest /\ UNCHANGED <<lock, mine, after, gone>>
      BY <1>7, <2>3 DEF PollProcess, engines, locals, bounds
    <3>4. lock = t  BY <1>1, <2>1 DEF Local, Locked, Starting
    <3>5. \A u \in Threads : ~Restarting(u)  BY <2>1, <3>4 DEF Restarting
    <3>6. interrupts = 0 => url = NoPid \/ url = process
      BY <1>1, <2>3, <3>5 DEF UrlOfProcess
    <3>7. GoneIsDead(t)  BY <1>1 DEF Local
    <3>8. to = "url" /\ interrupts = 0 => url \notin gone[t]
      BY <1>3, <3>1, <3>6, <3>7 DEF GoneIsDead, Live
    <3>9. UrlAlive(t)' /\ Needed(t)'
      <4>1. Live(process)' <=> Live(process)  BY <3>3 DEF Live
      <4>2. QED  BY <3>1, <3>2, <3>3, <3>8, <4>1 DEF UrlAlive, Needed
    <3>10. Local(t)'
      BY <1>1, <2>1, <3>1, <3>2, <3>3, <3>4, <3>9
      DEF Local, Locked, Hands, Own, Crossing, Clearing, Told, StoppedAt, GoneIsDead,
          Starting, Handling
    <3>11. QED  BY <2>1, <3>2, <3>3, <3>5, <3>10, Plain
  <2>4. QED  BY <2>2, <2>3
<1>8. CASE LookAtUrl(t)
  <2>1. PICK to : to = IF url = NoPid THEN "spawn" ELSE "return"  OBVIOUS
  <2>2. /\ pc[t] = "url" /\ pc'[t] = to /\ \A u \in Threads \ {t} : pc'[u] = pc[u]
    BY <1>1, <1>8, <2>1, Moves DEF LookAtUrl
  <2>3. Rest /\ UNCHANGED <<lock, mine, after, gone>>
    BY <1>8 DEF LookAtUrl, engines, fields, locals, bounds
  <2>4. Local(t)'
    BY <1>1, <2>1, <2>2, <2>3
    DEF Local, Locked, Hands, Own, Needed, Crossing, Clearing, Told, StoppedAt, GoneIsDead,
        UrlAlive, Starting, Handling
  <2>5. ~Restarting(t)  BY <2>2 DEF Restarting
  <2>6. QED  BY <2>2, <2>3, <2>4, <2>5, Plain
<1>9. CASE SpawnFails(t)  BY <1>9, LeavesGood DEF SpawnFails
<1>10. CASE Return(t)  BY <1>10, LeavesGood DEF Return
<1>11. CASE ReadProcess(t)
  <2>1. PICK to : to = IF process = NoPid THEN "stopped" ELSE "clear process"  OBVIOUS
  <2>2. /\ pc[t] = "stop" /\ pc'[t] = to /\ \A u \in Threads \ {t} : pc'[u] = pc[u]
    BY <1>1, <1>11, <2>1, Moves DEF ReadProcess
  <2>3. Rest /\ UNCHANGED <<lock, after, gone>>
    BY <1>11 DEF ReadProcess, engines, fields, bounds
  <2>4. /\ mine'[t] = IF process = NoPid THEN mine[t] ELSE process
        /\ \A u \in Threads \ {t} : mine'[u] = mine[u]
    BY <1>1, <1>11 DEF ReadProcess, TypeOK, LocalType
  <2>5. PICK m : m = mine'[t]  OBVIOUS
  <2>6. m # NoPid => proc[m] # "none"
    BY <1>1, <2>4, <2>5 DEF ProcessKnown, Local, Hands
  <2>7. StoppedAt(t)'
    <3>1. SUFFICES ASSUME to = "stopped", m # NoPid
                   PROVE  IF after[t] = "failed" THEN Live(m) => signals[m] # {} ELSE ~Stays(m)
      BY <2>2, <2>3, <2>5 DEF StoppedAt, Live, Stays
    <3>2. m = mine[t]  BY <2>1, <2>4, <2>5, <3>1
    <3>3. after[t] = "failed"  BY <1>1, <2>2, <3>1, <3>2 DEF Local, Hands
    <3>4. Told(t)  BY <1>1 DEF Local
    <3>5. Live(m) => signals[m] # {}  BY <2>2, <3>2, <3>3, <3>4 DEF Told
    <3>6. QED  BY <3>3, <3>5
  <2>8. Hands(t)'  BY <2>1, <2>2, <2>3, <2>4, <2>5, <2>6 DEF Hands, Handling
  <2>9. Local(t)'
    BY <1>1, <2>1, <2>2, <2>3, <2>4, <2>7, <2>8
    DEF Local, Locked, Own, Needed, Crossing, Clearing, Told, GoneIsDead,
        UrlAlive, Starting
  <2>10. Restarting(t) => Restarting(t)' \/ process = NoPid
    BY <2>1, <2>2, <2>3 DEF Restarting
  <2>11. QED  BY <2>2, <2>3, <2>4, <2>9, <2>10, Plain
<1>12. CASE Waited(t)
  <2>1. /\ pc[t] \in {"wait", "wait again"} /\ pc'[t] = "stopped"
        /\ \A u \in Threads \ {t} : pc'[u] = pc[u]
    BY <1>1, <1>12, Moves DEF Waited
  <2>2. Rest /\ UNCHANGED <<lock, mine, after, gone>>
    BY <1>12 DEF Waited, engines, fields, locals, bounds
  <2>3. ~Live(mine[t])  BY <1>12 DEF Waited
  <2>4. StoppedAt(t)'  BY <2>2, <2>3 DEF StoppedAt, Live, Stays
  <2>5. Local(t)'
    BY <1>1, <2>1, <2>2, <2>4
    DEF Local, Locked, Hands, Own, Needed, Crossing, Clearing, Told, GoneIsDead,
        UrlAlive, Starting, Handling
  <2>6. ~Restarting(t)  BY <2>1 DEF Restarting
  <2>7. QED  BY <2>1, <2>2, <2>5, <2>6, Plain
<1>13. QED
  BY <1>4, <1>5, <1>6, <1>7, <1>8, <1>9, <1>10, <1>11, <1>12

\* Popen in a start(): the new engine is kept by its start(), and the one it
\* replaces is dead, or was nobody's before.
LEMMA SpawnGood ==
  ASSUME Base, TypeOK', NEW t \in Threads, NEW p \in Pids, Spawn(t, p)
  PROVE  Good(t)
<1>1. Local(t) /\ TypeOK /\ ProcessKnown /\ UrlOfProcess  BY DEF Base
<1>2. /\ pc[t] = "spawn" /\ pc'[t] = "ready" /\ \A u \in Threads \ {t} : pc'[u] = pc[u]
      /\ host
  BY <1>1, Moves DEF Spawn
<1>3. /\ proc[p] = "none" /\ proc'[p] = "booting"
      /\ \A q \in Pids \ {p} : proc'[q] = proc[q]
  BY <1>1 DEF Spawn, Fork, TypeOK, ProcessType
<1>4. /\ process' = p /\ mine'[t] = p /\ \A u \in Threads \ {t} : mine'[u] = mine[u]
      /\ crossed \subseteq crossed'
      /\ (\E u \in Threads \ {t} : Clearing(u)) => p \in crossed'
      /\ UNCHANGED <<signals, host, url, lock, after, gone, interrupts>>
  BY <1>1 DEF Spawn, TypeOK, LocalType, bounds
<1>5. p # NoPid  BY NoPidUnused
<1>6. lock = t  BY <1>1, <1>2 DEF Local, Locked, Starting
<1>7. Local(t)'
  <2>1. p \notin gone[t]  BY <1>1, <1>3 DEF Local, GoneIsDead
  <2>2. GoneIsDead(t)'
    <3>1. gone[t] \in SUBSET Pids  BY <1>1 DEF TypeOK, LocalType
    <3>2. QED  BY <1>1, <1>3, <1>4, <2>1, <3>1 DEF Local, GoneIsDead
  <2>3. QED
    BY <1>1, <1>2, <1>3, <1>4, <1>5, <1>6, <2>1, <2>2
    DEF Local, Locked, Hands, Own, Needed, Crossing, Clearing, Told, StoppedAt, UrlAlive,
        Starting, Handling
<1>8. \A u \in Threads \ {t} : Bystands(u)  BY <1>2, <1>4, <1>6 DEF Bystands
<1>9. EnginesGoOn  BY <1>3, <1>4 DEF EnginesGoOn, Live
<1>10. ProcessKnown'  BY <1>3, <1>4 DEF ProcessKnown
<1>11. UrlOfProcess'  BY <1>2, <1>4, <1>6 DEF UrlOfProcess, Restarting
<1>12. Stray' \subseteq Stray
  <2>1. SUFFICES ASSUME NEW q \in Pids, q \notin crossed', Live(q)', signals[q] = {}, ~Kept(q)'
                 PROVE  q \notin crossed /\ Live(q) /\ ~Kept(q)
    BY <1>2, <1>4 DEF Stray
  <2>2. Keeps(t, p)'  BY <1>2, <1>4 DEF Keeps
  <2>3. q # p  BY <2>1, <2>2 DEF Kept
  <2>4. Live(q)  BY <1>3, <2>1, <2>3 DEF Live
  <2>5. ~(process = q /\ url = q)
    <3>1. SUFFICES ASSUME process = q, url = q  PROVE FALSE  OBVIOUS
    <3>2. process = NoPid \/ ~Live(process) \/ url = NoPid  BY <1>1, <1>2 DEF Local, Needed
    <3>3. QED  BY <2>4, <3>1, <3>2, NoPidUnused
  <2>6. ~Keeps(t, q)  BY <1>2 DEF Keeps
  <2>7. ASSUME NEW u \in Threads \ {t}, Keeps(u, q)  PROVE FALSE
    <3>1. pc[u] = "ready" => lock = u  BY DEF Base, Local, Locked, Starting
    <3>2. pc[u] # "ready"  BY <1>6, <3>1
    <3>3. Keeps(u, q)'  BY <1>2, <1>4, <2>7, <3>2 DEF Keeps
    <3>4. QED  BY <2>1, <3>3 DEF Kept
  <2>8. QED  BY <1>4, <2>1, <2>4, <2>5, <2>6, <2>7 DEF Kept
<1>13. QED  BY <1>4, <1>7, <1>8, <1>9, <1>10, <1>11, <1>12 DEF Good

\* The ready line is read: process and url are of one engine, unless a stop()
\* has taken process meanwhile.
LEMMA ReadReadyGood ==
  ASSUME Base, TypeOK', NEW t \in Threads, ReadReady(t)
  PROVE  Good(t)
<1>1. Local(t) /\ TypeOK /\ ProcessKnown /\ UrlOfProcess  BY DEF Base
<1>2. /\ pc[t] = "ready" /\ pc'[t] = "return" /\ \A u \in Threads \ {t} : pc'[u] = pc[u]
  BY <1>1, Moves DEF ReadReady
<1>3. /\ UNCHANGED <<proc, signals, host, process, lock, mine, after, gone, interrupts, crossed>>
      /\ url' = mine[t]
  BY DEF ReadReady, locals, bounds
<1>4. lock = t /\ process \in {mine[t], NoPid} /\ mine[t] # NoPid
  BY <1>1, <1>2 DEF Local, Locked, Own, Hands, Starting, Handling
<1>5. Local(t)'
  BY <1>1, <1>2, <1>3, <1>4
  DEF Local, Locked, Hands, Own, Needed, Crossing, Clearing, Told, StoppedAt, GoneIsDead,
      UrlAlive, Starting, Handling
<1>6. \A u \in Threads \ {t} : Bystands(u)  BY <1>2, <1>3, <1>4 DEF Bystands
<1>7. EnginesGoOn  BY <1>3 DEF EnginesGoOn, Live
<1>8. ProcessKnown' /\ UrlOfProcess'  BY <1>1, <1>3, <1>4 DEF ProcessKnown, UrlOfProcess
<1>9. Stray' \subseteq Stray
  <2>1. ASSUME NEW q \in Pids, Kept(q), q \notin crossed  PROVE Kept(q)'
    <3>1. CASE process = q /\ url = q  BY <1>3, <1>4, <3>1, NoPidUnused DEF Kept
    <3>2. CASE Keeps(t, q)  BY <1>2, <1>3, <3>2 DEF Keeps, Kept
    <3>3. ASSUME NEW u \in Threads \ {t}, Keeps(u, q)  PROVE Kept(q)'
      <4>1. Keeps(u, q)'  BY <1>2, <1>3, <3>3 DEF Keeps
      <4>2. QED  BY <4>1 DEF Kept
    <3>4. QED  BY <2>1, <3>1, <3>2, <3>3 DEF Kept
  <2>2. QED  BY <1>3, <2>1 DEF Stray, Live
<1>10. QED  BY <1>3, <1>5, <1>6, <1>7, <1>8, <1>9 DEF Good

\* A thread signals the engine in its hand, and keeps it no more.
LEMMA SignalGood ==
  ASSUME Base, TypeOK', NEW t \in Threads,
         ReadyFails(t) \/ TerminateProcess(t) \/ WaitExpires(t)
  PROVE  Good(t)
<1>1. Local(t) /\ TypeOK /\ ProcessKnown /\ UrlOfProcess  BY DEF Base
<1>2. PICK from, to : /\ Trans(t, from, to)
                      /\ \/ from = "ready" /\ to = "stop" /\ ReadyFails(t)
                         \/ from = "terminate" /\ to = "wait" /\ TerminateProcess(t)
                         \/ from = "wait" /\ to = "wait again" /\ WaitExpires(t)
  BY DEF ReadyFails, TerminateProcess, WaitExpires
<1>3. pc[t] = from /\ pc'[t] = to /\ \A u \in Threads \ {t} : pc'[u] = pc[u]
  BY <1>1, <1>2, Moves
<1>4. UNCHANGED <<proc, host, process, url, lock, mine, gone, interrupts, crossed>>
  BY DEF ReadyFails, TerminateProcess, WaitExpires, fields, locals, bounds
<1>5. /\ \A u \in Threads \ {t} : after'[u] = after[u]
      /\ after'[t] = IF from = "ready" THEN "failed" ELSE after[t]
  BY <1>1, <1>2 DEF ReadyFails, TerminateProcess, WaitExpires, locals, TypeOK, LocalType
<1>6. PICK m : m = mine[t]  OBVIOUS
<1>7. m \in Pids /\ m # NoPid
  BY <1>1, <1>2, <1>3, <1>6 DEF Local, Hands, Handling, TypeOK, LocalType, MaybePid
<1>8. /\ \A q \in Pids : signals[q] \subseteq signals'[q]
      /\ Live(m) => signals'[m] # {}
  <2>1. signals \in [Pids -> SUBSET {"TERM", "KILL"}]  BY <1>1 DEF TypeOK, ProcessType
  <2>2. CASE Terminate(m)  BY <1>7, <2>1, <2>2 DEF Terminate
  <2>3. CASE signals' = [signals EXCEPT ![m] = @ \cup {"KILL"}]  BY <1>7, <2>1, <2>3
  <2>4. QED  BY <1>6, <2>2, <2>3 DEF ReadyFails, TerminateProcess, WaitExpires
<1>9. Local(t)'
  <2>1. Told(t)'  BY <1>3, <1>4, <1>6, <1>7, <1>8 DEF Told, Live
  <2>2. after'[t] = "failed" => lock' = t
    BY <1>1, <1>2, <1>3, <1>4, <1>5 DEF Local, Locked, Starting
  <2>3. Hands(t)'  BY <1>1, <1>2, <1>3, <1>4, <1>5, <1>6, <1>7 DEF Local, Hands, Handling
  <2>4. QED
    BY <1>1, <1>2, <1>3, <1>4, <1>5, <2>1, <2>2, <2>3
    DEF Local, Locked, Own, Needed, Crossing, Clearing, StoppedAt, GoneIsDead, UrlAlive,
        Starting
<1>10. \A u \in Threads \ {t} : Bystands(u)  BY <1>3, <1>4, <1>5 DEF Bystands
<1>11. EnginesGoOn  BY <1>4, <1>8 DEF EnginesGoOn, Live
<1>12. ProcessKnown'  BY <1>1, <1>4 DEF ProcessKnown
<1>13. UrlOfProcess'
  <2>1. \A u \in Threads \ {t} : Restarting(u) => Restarting(u)'
    BY <1>3, <1>4, <1>5 DEF Restarting
  <2>2. Restarting(t) => Restarting(t)'  BY <1>2, <1>3, <1>4, <1>5 DEF Restarting
  <2>3. QED  BY <1>1, <1>4, <2>1, <2>2 DEF UrlOfProcess
<1>14. Stray' \subseteq Stray
  <2>1. ASSUME NEW q \in Pids, Kept(q), signals'[q] = {}, Live(q)  PROVE Kept(q)'
    <3>1. q # m  BY <1>8, <2>1
    <3>2. \A u \in Threads : Keeps(u, q) => Keeps(u, q)'  BY <1>3, <1>4, <1>6, <3>1 DEF Keeps
    <3>3. QED  BY <1>4, <2>1, <3>2 DEF Kept
  <2>2. ASSUME NEW q \in Pids, signals'[q] = {}  PROVE signals[q] = {}  BY <1>8, <2>2
  <2>3. \A q \in Pids : Live(q)' <=> Live(q)  BY <1>4 DEF Live
  <2>4. QED  BY <1>4, <2>1, <2>2, <2>3 DEF Stray
<1>15. QED  BY <1>4, <1>9, <1>10, <1>11, <1>12, <1>13, <1>14 DEF Good

\* A stop() clears the fields: what they held is in its hand, or came across it.
LEMMA ClearGood ==
  ASSUME Base, TypeOK', NEW t \in Threads, ClearProcess(t) \/ ClearUrl(t)
  PROVE  Good(t)
<1>1. Local(t) /\ TypeOK /\ ProcessKnown /\ UrlOfProcess  BY DEF Base
<1>2. PICK from, to : /\ Trans(t, from, to)
                      /\ \/ from = "clear process" /\ to = "clear url" /\ process' = NoPid /\ url' = url
                         \/ from = "clear url" /\ to = "terminate" /\ process' = process /\ url' = NoPid
  BY DEF ClearProcess, ClearUrl
<1>3. pc[t] = from /\ pc'[t] = to /\ \A u \in Threads \ {t} : pc'[u] = pc[u]
  BY <1>1, <1>2, Moves
<1>4. UNCHANGED <<proc, signals, host, lock, mine, after, gone, interrupts, crossed>>
  BY DEF ClearProcess, ClearUrl, engines, locals, bounds
<1>5. process \in {NoPid, mine[t]} \cup crossed  BY <1>1, <1>2, <1>3 DEF Local, Crossing, Clearing
<1>6. Local(t)'
  BY <1>1, <1>2, <1>3, <1>4
  DEF Local, Locked, Hands, Own, Needed, Crossing, Clearing, Told, StoppedAt, GoneIsDead,
      UrlAlive, Starting, Handling
<1>7. \A u \in Threads \ {t} : Bystands(u)  BY <1>2, <1>3, <1>4 DEF Bystands
<1>8. EnginesGoOn  BY <1>4 DEF EnginesGoOn, Live
<1>9. ProcessKnown'  BY <1>1, <1>2, <1>4 DEF ProcessKnown
<1>10. UrlOfProcess'  BY <1>2 DEF UrlOfProcess
<1>11. Stray' \subseteq Stray
  <2>1. ASSUME NEW q \in Pids, Kept(q), q \notin crossed  PROVE Kept(q)'
    <3>1. CASE mine[t] = q  BY <1>2, <1>3, <1>4, <3>1 DEF Kept, Keeps
    <3>2. CASE mine[t] # q
      <4>1. process # q  BY <1>5, <2>1, <3>2, NoPidUnused
      <4>2. PICK u \in Threads : Keeps(u, q)  BY <2>1, <4>1 DEF Kept
      <4>3. u # t  BY <3>2, <4>2 DEF Keeps
      <4>4. Keeps(u, q)'  BY <1>3, <1>4, <4>1, <4>2, <4>3 DEF Keeps
      <4>5. QED  BY <4>4 DEF Kept
    <3>3. QED  BY <3>1, <3>2
  <2>2. QED  BY <1>4, <2>1 DEF Stray, Live
<1>12. QED  BY <1>4, <1>6, <1>7, <1>8, <1>9, <1>10, <1>11 DEF Good

-----------------------------------------------------------------------------
\* Each stray engine is due to an interrupt.
StrayBound == Cardinality(Stray) <= interrupts

IInv == Base /\ StrayBound

LEMMA StraySize ==
  ASSUME TypeOK
  PROVE  IsFiniteSet(Stray) /\ Cardinality(Stray) \in Nat
<1>1. IsFiniteSet(Pids)  BY SpawnBound, FS_Interval DEF Pids
<1>2. Stray \subseteq Pids  BY DEF Stray
<1>3. IsFiniteSet(Stray)  BY <1>1, <1>2, FS_Subset
<1>4. QED  BY <1>3, FS_CardinalityType

LEMMA StrayShrinks ==
  ASSUME TypeOK, TypeOK', StrayBound, Stray' \subseteq Stray, interrupts' = interrupts
  PROVE  StrayBound'
<1>1. IsFiniteSet(Stray) /\ Cardinality(Stray) \in Nat  BY StraySize
<1>2. Cardinality(Stray') <= Cardinality(Stray) /\ Cardinality(Stray') \in Nat
  BY <1>1, FS_Subset, FS_CardinalityType
<1>3. interrupts \in Nat  BY CallBounds DEF TypeOK
<1>4. QED  BY <1>1, <1>2, <1>3 DEF StrayBound

LEMMA GoodStep ==
  ASSUME IInv, TypeOK', NEW t \in Threads, Good(t)
  PROVE  IInv'
<1>1. TypeOK /\ ProcessKnown /\ StrayBound /\ \A u \in Threads : Local(u)  BY DEF IInv, Base
<1>2. /\ Local(t)' /\ EnginesGoOn /\ ProcessKnown' /\ UrlOfProcess'
      /\ Stray' \subseteq Stray /\ interrupts' = interrupts
      /\ \A u \in Threads \ {t} : Bystands(u)
  BY DEF Good
<1>3. \A u \in Threads \ {t} : Local(u)'  BY <1>1, <1>2, Bystander
<1>4. StrayBound'  BY <1>1, <1>2, StrayShrinks
<1>5. QED  BY <1>2, <1>3, <1>4 DEF IInv, Base

LEMMA HostGoneInv ==
  ASSUME TypeOK', HostGone, interrupts' = interrupts
  PROVE  IInv'
<1>1. ASSUME NEW t \in Threads  PROVE Local(t)'
  <2>1. pc'[t] = "idle" /\ mine'[t] = NoPid /\ after'[t] = "none" /\ gone'[t] = {}
    BY DEF HostGone
  <2>2. QED  BY <2>1, IdleLocal
<1>2. ProcessKnown' /\ UrlOfProcess'  BY DEF HostGone, ProcessKnown, UrlOfProcess
<1>3. Stray' = {}  BY DEF HostGone, Stray
<1>4. Cardinality(Stray)' = 0  BY <1>3, FS_EmptySet
<1>5. interrupts' \in Nat  BY CallBounds DEF TypeOK
<1>6. StrayBound'  BY <1>4, <1>5 DEF StrayBound
<1>7. QED  BY <1>1, <1>2, <1>6 DEF IInv, Base

LEMMA ExitGood ==
  ASSUME Base, TypeOK', Exit
  PROVE  Good(Main)
<1>1. Main \in Threads /\ Local(Main) /\ TypeOK /\ ProcessKnown  BY ThreadsOfHost DEF Base
<1>2. PICK to \in {"stopped", "stop"} : Trans(Main, "idle", to)  BY DEF Exit
<1>3. pc[Main] = "idle" /\ pc'[Main] = to /\ \A u \in Threads \ {Main} : pc'[u] = pc[u]
  BY <1>1, <1>2, Moves
<1>4. after'[Main] = "exit" /\ \A u \in Threads \ {Main} : after'[u] = after[u]
  BY <1>1 DEF Exit, TypeOK, LocalType
<1>5. UNCHANGED <<proc, signals, host, process, url, lock, mine, gone, interrupts, crossed>>
  BY DEF Exit, engines, fields, bounds
<1>6. Local(Main)'
  BY <1>1, <1>3, <1>4, <1>5
  DEF Local, Locked, Hands, Own, Needed, Crossing, Clearing, Told, StoppedAt, GoneIsDead,
      UrlAlive, Starting, Handling
<1>7. ~Restarting(Main)  BY <1>3 DEF Restarting
<1>8. QED  BY <1>1, <1>3, <1>4, <1>5, <1>6, <1>7, Plain

\* An exception in the main thread loses the one engine in its hand.
LEMMA InterruptInv ==
  ASSUME IInv, TypeOK', Interrupt
  PROVE  IInv'
<1>1. /\ Main \in Threads /\ TypeOK /\ ProcessKnown /\ StrayBound
      /\ \A u \in Threads : Local(u) /\ u # NoThread
  BY ThreadsOfHost DEF IInv, Base
<1>2. /\ pc'[Main] = "idle" /\ mine'[Main] = NoPid /\ after'[Main] = "none" /\ gone'[Main] = {}
      /\ lock' = IF lock = Main THEN NoThread ELSE lock
      /\ \A u \in Threads \ {Main} : /\ pc'[u] = pc[u] /\ mine'[u] = mine[u]
                                     /\ after'[u] = after[u] /\ gone'[u] = gone[u]
  BY <1>1, Left DEF Interrupt
<1>3. UNCHANGED <<proc, host, process, url, crossed>> /\ interrupts' = interrupts + 1
  BY DEF Interrupt
<1>4. interrupts \in Nat /\ interrupts' # 0
  <2>1. interrupts \in Nat  BY <1>1, CallBounds DEF TypeOK
  <2>2. QED  BY <1>3, <2>1
<1>5. Local(Main)'  BY <1>1, <1>2, IdleLocal
<1>6. \A q \in Pids : signals[q] \subseteq signals'[q]
  <2>1. \/ signals' = signals
        \/ signals' = [p \in Pids |-> IF Live(p) THEN signals[p] \cup {"TERM"} ELSE signals[p]]
    BY DEF Interrupt
  <2>2. QED  BY <2>1
<1>7. EnginesGoOn  BY <1>3, <1>6 DEF EnginesGoOn, Live
<1>8. \A u \in Threads \ {Main} : Bystands(u)  BY <1>2, <1>3, <1>4 DEF Bystands
<1>9. \A u \in Threads : Local(u)'  BY <1>1, <1>5, <1>7, <1>8, Bystander
<1>10. ProcessKnown' /\ UrlOfProcess'  BY <1>1, <1>3, <1>4 DEF ProcessKnown, UrlOfProcess
<1>11. PICK m : m = mine[Main]  OBVIOUS
<1>12. Stray' \subseteq Stray \cup {m}
  <2>1. ASSUME NEW q \in Pids, q # m, Kept(q)  PROVE Kept(q)'
    <3>1. ASSUME NEW u \in Threads, Keeps(u, q)  PROVE Keeps(u, q)'
      <4>1. u # Main  BY <1>11, <2>1, <3>1 DEF Keeps
      <4>2. QED  BY <1>2, <1>3, <3>1, <4>1 DEF Keeps
    <3>2. QED  BY <1>3, <2>1, <3>1 DEF Kept
  <2>2. ASSUME NEW q \in Pids, signals'[q] = {}  PROVE signals[q] = {}  BY <1>6, <2>2
  <2>3. \A q \in Pids : Live(q)' <=> Live(q)  BY <1>3 DEF Live
  <2>4. QED  BY <1>3, <2>1, <2>2, <2>3 DEF Stray
<1>13. StrayBound'
  <2>1. IsFiniteSet(Stray) /\ Cardinality(Stray) \in Nat  BY <1>1, StraySize
  <2>2. /\ IsFiniteSet(Stray \cup {m})
        /\ \/ Cardinality(Stray \cup {m}) = Cardinality(Stray)
           \/ Cardinality(Stray \cup {m}) = Cardinality(Stray) + 1
    BY <2>1, FS_AddElement
  <2>3. Cardinality(Stray') <= Cardinality(Stray \cup {m}) /\ Cardinality(Stray') \in Nat
    BY <1>12, <2>2, FS_Subset, FS_CardinalityType
  <2>4. Cardinality(Stray) <= interrupts  BY <1>1 DEF StrayBound
  <2>5. Cardinality(Stray') <= interrupts'  BY <1>3, <1>4, <2>1, <2>2, <2>3, <2>4
  <2>6. QED  BY <2>5 DEF StrayBound
<1>14. QED  BY <1>9, <1>10, <1>13 DEF IInv, Base

LEMMA RunsInv ==
  ASSUME IInv, TypeOK', NEW p \in Pids, Runs(p)
  PROVE  IInv'
<1>1. /\ TypeOK /\ ProcessKnown /\ UrlOfProcess /\ StrayBound
      /\ \A u \in Threads : Local(u)
  BY DEF IInv, Base
<1>2. /\ host' = host
      /\ \A q \in Pids : proc[q] = "none" <=> proc'[q] = "none"
      /\ \A q \in Pids : proc[q] = "dead" => proc'[q] = "dead"
      /\ \A q \in Pids : Live(q)' => Live(q) /\ signals'[q] = signals[q]
  BY <1>1, ProcessSteps DEF Runs, TypeOK
<1>3. UNCHANGED <<process, url, lock, pc, mine, after, gone, interrupts, crossed>>
  BY DEF Runs, fields, locals, bounds
<1>4. EnginesGoOn  BY <1>2 DEF EnginesGoOn
<1>5. \A u \in Threads : Bystands(u)  BY <1>3 DEF Bystands
<1>6. \A u \in Threads : Local(u)'  BY <1>1, <1>4, <1>5, Bystander
<1>7. ProcessKnown'  BY <1>1, <1>2, <1>3 DEF ProcessKnown, TypeOK, MaybePid
<1>8. UrlOfProcess'  BY <1>1, <1>3 DEF UrlOfProcess, Restarting
<1>9. Stray' \subseteq Stray
  <2>1. \A q \in Pids : Kept(q)' <=> Kept(q)  BY <1>3 DEF Kept, Keeps
  <2>2. QED  BY <1>2, <1>3, <2>1 DEF Stray
<1>10. StrayBound'  BY <1>1, <1>3, <1>9, StrayShrinks
<1>11. QED  BY <1>6, <1>7, <1>8, <1>10 DEF IInv, Base

LEMMA InvStep ==
  ASSUME IInv, [Next]_vars
  PROVE  IInv'
<1>1. Base /\ TypeOK /\ TypeOK'  BY TypeStep DEF IInv, Base
<1>2. ASSUME NEW t \in Threads, Query(t) \/ Close(t) \/ Acquire(t) \/ Step(t)  PROVE IInv'
  <2>1. CASE \/ Query(t) \/ Close(t) \/ Acquire(t) \/ PollProcess(t) \/ LookAtUrl(t)
             \/ SpawnFails(t) \/ Return(t) \/ ReadProcess(t) \/ Waited(t)
    <3>1. Good(t)  BY <1>1, <2>1, PlainGood
    <3>2. QED  BY <1>1, <3>1, GoodStep
  <2>2. ASSUME NEW p \in Pids, Spawn(t, p)  PROVE IInv'
    <3>1. Good(t)  BY <1>1, <2>2, SpawnGood
    <3>2. QED  BY <1>1, <3>1, GoodStep
  <2>3. CASE \/ ReadReady(t) \/ ReadyFails(t) \/ TerminateProcess(t) \/ WaitExpires(t)
             \/ ClearProcess(t) \/ ClearUrl(t)
    <3>1. Good(t)  BY <1>1, <2>3, ReadReadyGood, SignalGood, ClearGood
    <3>2. QED  BY <1>1, <3>1, GoodStep
  <2>4. CASE KillExpires(t) \/ Stopped(t)
    <3>1. UNCHANGED <<engines, bounds, crossed>> /\ pc[t] \in {"wait again", "stopped"}
      BY <2>4 DEF KillExpires, Stopped
    <3>2. CASE HostGone
      BY <1>1, <3>1, <3>2, HostGoneInv DEF bounds
    <3>3. CASE Leave(t) /\ UNCHANGED <<host, process, url>>
      <4>1. Good(t)  BY <1>1, <3>1, <3>3, LeavesGood
      <4>2. QED  BY <1>1, <4>1, GoodStep
    <3>4. QED  BY <2>4, <3>2, <3>3 DEF KillExpires, Stopped
  <2>5. QED  BY <1>2, <2>1, <2>2, <2>3, <2>4 DEF Step
<1>3. CASE Exit
  <2>1. Good(Main) /\ Main \in Threads  BY <1>1, <1>3, ExitGood, ThreadsOfHost
  <2>2. QED  BY <1>1, <2>1, GoodStep
<1>4. CASE HostCrashes  BY <1>1, <1>4, HostGoneInv DEF HostCrashes, bounds
<1>5. CASE Interrupt  BY <1>1, <1>5, InterruptInv
<1>6. ASSUME NEW p \in Pids, Runs(p)  PROVE IInv'  BY <1>1, <1>6, RunsInv
<1>7. CASE UNCHANGED vars
  <2>1. /\ TypeOK /\ ProcessKnown /\ UrlOfProcess /\ StrayBound
        /\ \A u \in Threads : Local(u)
    BY DEF IInv, Base
  <2>2. UNCHANGED <<proc, signals, host, process, url, lock, pc, mine, after, gone, interrupts, crossed>>
    BY <1>7 DEF vars, engines, fields, locals, bounds
  <2>3. EnginesGoOn  BY <2>2 DEF EnginesGoOn, Live
  <2>4. \A u \in Threads : Bystands(u)  BY <2>2 DEF Bystands
  <2>5. \A u \in Threads : Local(u)'  BY <1>1, <2>1, <2>3, <2>4, Bystander
  <2>6. ProcessKnown' /\ UrlOfProcess'  BY <2>1, <2>2 DEF ProcessKnown, UrlOfProcess, Restarting
  <2>7. Stray' \subseteq Stray  BY <2>2 DEF Stray, Live, Kept, Keeps
  <2>8. StrayBound'  BY <1>1, <2>1, <2>2, <2>7, StrayShrinks
  <2>9. QED  BY <1>1, <2>5, <2>6, <2>8 DEF IInv, Base
<1>8. QED  BY <1>2, <1>3, <1>4, <1>5, <1>6, <1>7 DEF Next

LEMMA InitInv == Init => IInv
<1> SUFFICES ASSUME Init PROVE IInv  OBVIOUS
<1>1. TypeOK
  <2>1. ProcessType  BY DEF Init, InitProcesses, ProcessType
  <2>2. LocalType  BY DEF Init, LocalType, MaybePid
  <2>3. closes \in 0 .. MaxCloses /\ interrupts \in 0 .. MaxInterrupts  BY CallBounds DEF Init
  <2>4. QED  BY <2>1, <2>2, <2>3 DEF Init, TypeOK, MaybePid
<1>2. \A t \in Threads : Local(t)
  BY DEF Init, Local, Locked, Hands, Own, Needed, Crossing, Clearing, Told, StoppedAt,
         GoneIsDead, UrlAlive, Starting, Handling
<1>3. ProcessKnown /\ UrlOfProcess  BY DEF Init, ProcessKnown, UrlOfProcess
<1>4. Stray = {}  BY DEF Init, InitProcesses, Stray, Live
<1>5. Cardinality(Stray) = 0 /\ interrupts = 0  BY <1>4, FS_EmptySet DEF Init
<1>6. QED  BY <1>1, <1>2, <1>3, <1>5 DEF IInv, Base, StrayBound

LEMMA Invariance == Spec => []IInv
<1>1. IInv /\ [Next]_vars => IInv'  BY InvStep
<1>2. QED  BY <1>1, InitInv, PTL DEF Spec

\* The variables keep their types.
THEOREM TypeCorrect == Spec => []TypeOK
<1>1. IInv => TypeOK  BY DEF IInv, Base
<1>2. QED  BY <1>1, Invariance, PTL

\* However many threads start, stop and close at once, and although stop()
\* takes no lock: an engine is only lost track of where it was spawned across
\* another thread's stop(), or to an exception, and each exception loses one
\* engine at most.
THEOREM LostByRaceOnly == Spec => []OnlyRacesLose
<1>1. IInv => OnlyRacesLose
  <2> SUFFICES ASSUME IInv PROVE OnlyRacesLose  OBVIOUS
  <2> DEFINE L == {p \in Pids \ crossed : Lost(p)}
  <2>1. TypeOK /\ StrayBound  BY DEF IInv, Base
  <2>2. L \subseteq Stray  BY DEF Lost, Stray, Kept, Keeps
  <2>3. IsFiniteSet(Stray) /\ Cardinality(Stray) \in Nat  BY <2>1, StraySize
  <2>4. Cardinality(L) <= Cardinality(Stray) /\ Cardinality(L) \in Nat
    BY <2>2, <2>3, FS_Subset, FS_CardinalityType
  <2>5. interrupts \in Nat  BY <2>1, CallBounds DEF TypeOK
  <2>6. QED  BY <2>1, <2>3, <2>4, <2>5 DEF StrayBound, OnlyRacesLose
<1>2. QED  BY <1>1, Invariance, PTL

\* Unless an exception interrupted a restart, start() replaces an engine that
\* had ended before the query, and never returns its URL.
THEOREM DeadUrlReplaced == Spec => []NoDeadUrl
<1>1. IInv => NoDeadUrl  BY DEF IInv, Base, Local, UrlAlive, NoDeadUrl
<1>2. QED  BY <1>1, Invariance, PTL

\* When stop() has returned, its engine is gone or killed, and one whose start
\* failed is told to end, whatever other threads do meanwhile.
THEOREM StopStops == Spec => []StoppedEngines
<1>1. IInv => StoppedEngines  BY DEF IInv, Base, Local, StoppedAt, StoppedEngines
<1>2. QED  BY <1>1, Invariance, PTL
=============================================================================
