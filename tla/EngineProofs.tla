---------------------------- MODULE EngineProofs ----------------------------
(* Theorems about Engine, for any number of engines spawned and of calls of *)
(* close().                                                                 *)
EXTENDS Engine, FiniteSetTheorems, TLAPS

ProcessType ==
  /\ proc \in [Pids -> {"none", "booting", "serving", "draining", "dead"}]
  /\ signals \in [Pids -> SUBSET {"TERM", "KILL"}]
  /\ line \in [Pids -> {"none", "written", "read"}]
  /\ host \in BOOLEAN

TypeOK ==
  /\ ProcessType
  /\ child \in MaybePid /\ starting \in MaybePid
  /\ ready \in MaybePid /\ transport \in MaybePid
  /\ running \in BOOLEAN
  /\ spawned \in [Pids -> {"none", "pending", "resolved", "rejected"}]
  /\ exitSeen \in [Pids -> BOOLEAN]
  /\ closing \in SUBSET Pids /\ owed \in SUBSET Pids
  /\ closes \in 0 .. MaxCloses

Rejected == {p \in Pids : spawned[p] = "rejected"}

\* A pid that was not used has no promise.
Unused == \A p \in Pids : proc[p] = "none" => spawned[p] = "none"

\* With no start under way and none resolved, each engine there was has been
\* paid for by a failed start or a close().  The stale transport of a close()
\* under way does not matter.
Paid ==
  /\ Cardinality(Spawns) <= 1 + Cardinality(Rejected) + closes
  /\ starting = NoPid /\ ready = NoPid =>
       Cardinality(Spawns) <= Cardinality(Rejected) + closes

IInv == TypeOK /\ Unused /\ FailureNotKept /\ Paid

LEMMA NoPidUnused == NoPid \notin Pids
BY SpawnBound DEF NoPid, Pids

LEMMA Sizes ==
  /\ \A S \in SUBSET Pids : IsFiniteSet(S) /\ Cardinality(S) \in Nat
  /\ \A S, T \in SUBSET Pids : S \subseteq T => Cardinality(S) <= Cardinality(T)
  /\ \A S \in SUBSET Pids : \A p \in Pids \ S : Cardinality(S \cup {p}) = Cardinality(S) + 1
<1>1. IsFiniteSet(Pids)  BY SpawnBound, FS_Interval DEF Pids
<1>2. \A S \in SUBSET Pids : IsFiniteSet(S) /\ Cardinality(S) \in Nat
  BY <1>1, FS_Subset, FS_CardinalityType
<1>3. \A S, T \in SUBSET Pids : S \subseteq T => Cardinality(S) <= Cardinality(T)
  BY <1>2, FS_Subset
<1>4. \A S \in SUBSET Pids : \A p \in Pids \ S : Cardinality(S \cup {p}) = Cardinality(S) + 1
  BY <1>2, FS_AddElement
<1>5. QED  BY <1>2, <1>3, <1>4

LEMMA ProcessSteps ==
  ASSUME ProcessType, NEW p \in Pids, ProcessStep(p)
  PROVE  /\ ProcessType'
         /\ \A q \in Pids : proc'[q] = "none" => proc[q] = "none"
BY DEF ProcessType, ProcessStep, BootFails, Listen, Drain, Ends, Dies, Dead, Live

LEMMA TypeStep ==
  ASSUME TypeOK, [Next]_vars
  PROVE  TypeOK'
<1> USE DEF TypeOK, ProcessType, MaybePid
<1>1. CASE StartResolved  BY <1>1 DEF StartResolved, engines
<1>2. CASE Close
  <2>1. UNCHANGED <<proc, line, host, spawned, exitSeen>>  BY <1>2 DEF Close
  <2>2. /\ closes' = closes + 1 /\ closes < MaxCloses
        /\ owed' \in SUBSET Pids
        /\ ready' = NoPid /\ starting' = NoPid /\ running' = FALSE
    BY <1>2 DEF Close
  <2>3. closes' \in 0 .. MaxCloses  BY <2>2, CloseBound
  <2>4. CASE child = NoPid \/ (child # NoPid /\ exitSeen[child])
    <3>1. child' = NoPid /\ transport' = NoPid /\ UNCHANGED <<signals, closing>>
      BY <1>2, <2>4 DEF Close
    <3>2. QED  BY <2>1, <2>2, <2>3, <3>1
  <2>5. CASE ~(child = NoPid \/ (child # NoPid /\ exitSeen[child]))
    <3>1. child \in Pids  BY <2>5
    <3>2. /\ signals' \in {signals, [signals EXCEPT ![child] = @ \cup {"TERM"}]}
          /\ closing' = closing \cup {child} /\ UNCHANGED <<child, transport>>
      BY <1>2, <2>5 DEF Close
    <3>3. signals' \in [Pids -> SUBSET {"TERM", "KILL"}]  BY <3>1, <3>2
    <3>4. QED  BY <2>1, <2>2, <2>3, <3>1, <3>2, <3>3
  <2>6. QED  BY <2>4, <2>5
<1>3. \A c \in MaybePid : KillNow(c) => signals' \in [Pids -> SUBSET {"TERM", "KILL"}]
  BY DEF KillNow
<1>4. CASE HostExits
  <2>1. signals' \in [Pids -> SUBSET {"TERM", "KILL"}]  BY <1>3, <1>4 DEF HostExits
  <2>2. QED  BY <1>4, <2>1 DEF HostExits, object
<1>5. CASE HostCrashes  BY <1>5 DEF HostCrashes, engines, object
<1>6. ASSUME NEW p \in Pids, Start(p)  PROVE TypeOK'  BY <1>6 DEF Start, Fork
<1>7. ASSUME NEW p \in Pids, ReadReady(p)  PROVE TypeOK'  BY <1>7 DEF ReadReady
<1>8. ASSUME NEW p \in Pids, StartFails(p)  PROVE TypeOK'
  <2>1. signals' \in [Pids -> SUBSET {"TERM", "KILL"}]  BY <1>3, <1>8 DEF StartFails
  <2>2. QED  BY <1>8, <2>1 DEF StartFails
<1>9. ASSUME NEW p \in Pids, SpawnError(p)  PROVE TypeOK'  BY <1>9 DEF SpawnError, Fork
<1>10. ASSUME NEW p \in Pids, SeeExit(p)  PROVE TypeOK'  BY <1>10 DEF SeeExit, engines
<1>11. ASSUME NEW p \in Pids, KillTimer(p)  PROVE TypeOK'  BY <1>11 DEF KillTimer, object
<1>12. ASSUME NEW p \in Pids, Runs(p)  PROVE TypeOK'
  <2>1. ProcessType'  BY <1>12, ProcessSteps DEF Runs
  <2>2. QED  BY <1>12, <2>1 DEF Runs, object
<1>13. CASE UNCHANGED vars  BY <1>13 DEF vars, engines, object
<1>14. QED
  BY <1>1, <1>2, <1>4, <1>5, <1>6, <1>7, <1>8, <1>9, <1>10, <1>11, <1>12, <1>13 DEF Next

\* Steps of the account that Paid keeps.
LEMMA StillPaid ==
  ASSUME TypeOK, TypeOK', Paid, Spawns' = Spawns,
         \/ Rejected' = Rejected /\ closes' = closes
            /\ (starting' = NoPid /\ ready' = NoPid => starting = NoPid /\ ready = NoPid)
         \/ closes' = closes + 1 /\ Rejected' = Rejected
         \/ closes' = closes /\ \E p \in Pids \ Rejected : Rejected' = Rejected \cup {p}
  PROVE  Paid'
<1>1. Spawns \in SUBSET Pids /\ Rejected \in SUBSET Pids  BY DEF Spawns, Rejected
<1>2. Cardinality(Spawns) \in Nat /\ Cardinality(Rejected) \in Nat /\ closes \in Nat
  BY <1>1, Sizes DEF TypeOK
<1>3. \A p \in Pids \ Rejected : Cardinality(Rejected \cup {p}) = Cardinality(Rejected) + 1
  BY <1>1, Sizes
<1>4. Cardinality(Spawns)' = Cardinality(Spawns)  OBVIOUS
<1>5. Cardinality(Rejected)' \in {Cardinality(Rejected), Cardinality(Rejected) + 1}
  BY <1>3
<1>6. CASE Rejected' = Rejected /\ closes' = closes
           /\ (starting' = NoPid /\ ready' = NoPid => starting = NoPid /\ ready = NoPid)
  BY <1>4, <1>6 DEF Paid
<1>7. CASE closes' = closes + 1 /\ Rejected' = Rejected  BY <1>2, <1>4, <1>7 DEF Paid
<1>8. CASE closes' = closes /\ \E p \in Pids \ Rejected : Rejected' = Rejected \cup {p}
  <2>1. Cardinality(Rejected)' = Cardinality(Rejected) + 1  BY <1>3, <1>8
  <2>2. QED  BY <1>2, <1>4, <1>8, <2>1 DEF Paid
<1>9. QED  BY <1>6, <1>7, <1>8

\* A further engine, by a start that is under way or one that failed at once.
LEMMA NewPaid ==
  ASSUME TypeOK, TypeOK', Paid, starting = NoPid, ready = NoPid, closes' = closes,
         NEW p \in Pids, spawned[p] = "none",
         \/ spawned' = [spawned EXCEPT ![p] = "pending"] /\ starting' # NoPid
         \/ spawned' = [spawned EXCEPT ![p] = "rejected"]
  PROVE  Paid'
<1>1. Spawns \in SUBSET Pids /\ Rejected \in SUBSET Pids /\ p \notin Spawns /\ p \notin Rejected
  BY DEF Spawns, Rejected
<1>2. Spawns' = Spawns \cup {p}  BY DEF Spawns, TypeOK
<1>3. Cardinality(Spawns)' = Cardinality(Spawns) + 1  BY <1>1, <1>2, Sizes
<1>4. Cardinality(Spawns) \in Nat /\ Cardinality(Rejected) \in Nat /\ closes \in Nat
  BY <1>1, Sizes DEF TypeOK
<1>5. Cardinality(Spawns) <= Cardinality(Rejected) + closes  BY DEF Paid
<1>6. CASE spawned' = [spawned EXCEPT ![p] = "pending"] /\ starting' # NoPid
  <2>1. Rejected' = Rejected  BY <1>1, <1>6 DEF Rejected, TypeOK
  <2>2. Cardinality(Rejected)' = Cardinality(Rejected)  BY <2>1
  <2>3. QED  BY <1>3, <1>4, <1>5, <1>6, <2>2 DEF Paid
<1>7. CASE spawned' = [spawned EXCEPT ![p] = "rejected"]
  <2>1. Rejected' = Rejected \cup {p}  BY <1>7 DEF Rejected, TypeOK
  <2>2. Cardinality(Rejected)' = Cardinality(Rejected) + 1  BY <1>1, <2>1, Sizes
  <2>3. QED  BY <1>3, <1>4, <1>5, <2>2 DEF Paid
<1>8. QED  BY <1>6, <1>7

\* A pending start that fails, and is forgotten.
LEMMA Fails ==
  ASSUME TypeOK, FailureNotKept, NEW p \in Pids, spawned[p] = "pending",
         spawned' = [spawned EXCEPT ![p] = "rejected"], starting' = NoPid,
         UNCHANGED ready, transport' \in {transport, NoPid}
  PROVE  /\ FailureNotKept' /\ Spawns' = Spawns
         /\ \E q \in Pids \ Rejected : Rejected' = Rejected \cup {q}
<1>1. FailureNotKept'
  <2>1. \A q \in {ready, transport} \ {NoPid} : spawned[q] = "resolved"  BY DEF FailureNotKept
  <2>2. \A q \in {ready', transport'} \ {NoPid} : q \in {ready, transport} \ {NoPid}  OBVIOUS
  <2>3. \A q \in {ready', transport'} \ {NoPid} : q # p /\ q \in Pids
    BY <2>1, <2>2 DEF TypeOK, MaybePid
  <2>4. \A q \in {ready', transport'} \ {NoPid} : spawned'[q] = "resolved"
    BY <2>1, <2>2, <2>3 DEF TypeOK
  <2>5. QED  BY <2>4 DEF FailureNotKept
<1>2. Spawns' = Spawns  BY DEF Spawns, TypeOK
<1>3. Rejected' = Rejected \cup {p} /\ p \notin Rejected  BY DEF Rejected, TypeOK
<1>4. QED  BY <1>1, <1>2, <1>3
LEMMA InvStep ==
  ASSUME IInv, [Next]_vars
  PROVE  IInv'
<1>1. TypeOK /\ TypeOK'  BY TypeStep DEF IInv
<1>2. Unused /\ FailureNotKept /\ Paid  BY DEF IInv
<1>3. NoPid \notin Pids  BY NoPidUnused
\* Steps that leave the promises alone, or forget them.
<1>4. ASSUME UNCHANGED spawned, starting' \in {starting, NoPid},
             \A q \in {ready', transport'} \ {NoPid} : q \in {ready, transport}
      PROVE  FailureNotKept'
  BY <1>1, <1>2, <1>3, <1>4 DEF FailureNotKept, TypeOK, MaybePid
<1>5. ASSUME UNCHANGED <<spawned, starting, ready, closes>>
      PROVE  Paid'
  <2>1. Spawns' = Spawns /\ Rejected' = Rejected  BY <1>5 DEF Spawns, Rejected
  <2>2. QED  BY <1>1, <1>2, <1>5, <2>1, StillPaid
<1>6. ASSUME \A q \in Pids : proc'[q] = "none" => proc[q] = "none", UNCHANGED spawned
      PROVE  Unused'
  BY <1>2, <1>6 DEF Unused
<1>7. CASE StartResolved
  <2>1. UNCHANGED <<proc, spawned, starting, ready, closes>> /\ transport' = ready
    BY <1>7 DEF StartResolved, engines
  <2>2. FailureNotKept'  BY <1>4, <2>1
  <2>3. QED  BY <1>1, <1>5, <1>6, <2>1, <2>2 DEF IInv
<1>8. CASE Close
  <2>1. /\ UNCHANGED <<proc, spawned>> /\ closes' = closes + 1
        /\ ready' = NoPid /\ starting' = NoPid /\ transport' \in {transport, NoPid}
    BY <1>8 DEF Close
  <2>2. FailureNotKept'  BY <1>4, <2>1
  <2>3. Spawns' = Spawns /\ Rejected' = Rejected  BY <2>1 DEF Spawns, Rejected
  <2>4. Paid'  BY <1>1, <1>2, <2>1, <2>3, StillPaid
  <2>5. QED  BY <1>1, <1>6, <2>1, <2>2, <2>4 DEF IInv
<1>9. CASE HostExits \/ HostCrashes
  <2>1. UNCHANGED <<proc, spawned, starting, ready, transport, closes>>
    BY <1>9 DEF HostExits, HostCrashes, engines, object
  <2>2. FailureNotKept'  BY <1>4, <2>1
  <2>3. QED  BY <1>1, <1>5, <1>6, <2>1, <2>2 DEF IInv
<1>10. ASSUME NEW p \in Pids, Start(p) \/ SpawnError(p)  PROVE IInv'
  <2>1. /\ transport = NoPid /\ ready = NoPid /\ starting = NoPid
        /\ UNCHANGED <<ready, transport, closes>>
        /\ proc[p] = "none" /\ proc'[p] # "none" /\ \A q \in Pids \ {p} : proc'[q] = proc[q]
    BY <1>1, <1>10 DEF Start, SpawnError, Fork, TypeOK, ProcessType
  <2>2. spawned[p] = "none"  BY <1>2, <2>1 DEF Unused
  <2>3. \/ starting' = p /\ spawned' = [spawned EXCEPT ![p] = "pending"]
        \/ starting' = NoPid /\ spawned' = [spawned EXCEPT ![p] = "rejected"]
    BY <1>10, <2>1 DEF Start, SpawnError
  <2>4. Paid'  BY <1>1, <1>2, <1>3, <2>1, <2>2, <2>3, NewPaid
  <2>5. FailureNotKept'  BY <1>1, <1>3, <2>1, <2>3 DEF FailureNotKept, TypeOK
  <2>6. Unused'  BY <1>1, <1>2, <2>1, <2>3 DEF Unused, TypeOK
  <2>7. QED  BY <1>1, <2>4, <2>5, <2>6 DEF IInv
<1>11. ASSUME NEW p \in Pids, ReadReady(p)  PROVE IInv'
  <2>1. /\ spawned[p] = "pending" /\ spawned' = [spawned EXCEPT ![p] = "resolved"]
        /\ ready' = p /\ transport' = p /\ UNCHANGED <<proc, starting, closes>>
    BY <1>11 DEF ReadReady
  <2>2. FailureNotKept'
    <3>1. starting # NoPid => starting \in Pids  BY <1>1 DEF TypeOK, MaybePid
    <3>2. QED  BY <1>1, <1>2, <2>1, <3>1 DEF FailureNotKept, TypeOK
  <2>3. Spawns' = Spawns /\ Rejected' = Rejected  BY <1>1, <2>1 DEF Spawns, Rejected, TypeOK
  <2>4. Paid'  BY <1>1, <1>2, <1>3, <2>1, <2>3, StillPaid
  <2>5. Unused'  BY <1>1, <1>2, <2>1 DEF Unused, TypeOK
  <2>6. QED  BY <1>1, <2>2, <2>4, <2>5 DEF IInv
<1>12. ASSUME NEW p \in Pids, StartFails(p)  PROVE IInv'
  <2>1. /\ spawned[p] = "pending" /\ spawned' = [spawned EXCEPT ![p] = "rejected"]
        /\ starting' = NoPid /\ UNCHANGED <<proc, ready, transport, closes>>
    BY <1>12 DEF StartFails
  <2>2. /\ FailureNotKept' /\ Spawns' = Spawns
        /\ \E q \in Pids \ Rejected : Rejected' = Rejected \cup {q}
    BY <1>1, <1>2, <2>1, Fails
  <2>3. Paid'  BY <1>1, <1>2, <2>1, <2>2, StillPaid
  <2>4. Unused'  BY <1>1, <1>2, <2>1 DEF Unused, TypeOK
  <2>5. QED  BY <1>1, <2>2, <2>3, <2>4 DEF IInv
<1>13. ASSUME NEW p \in Pids, SeeExit(p)  PROVE IInv'
  <2>1. UNCHANGED <<proc, ready, closes>> /\ transport' \in {transport, NoPid}
    BY <1>13 DEF SeeExit, engines
  <2>2. CASE spawned[p] = "pending"
    <3>1. starting' = NoPid /\ spawned' = [spawned EXCEPT ![p] = "rejected"]
      BY <1>13, <2>2 DEF SeeExit
    <3>2. /\ FailureNotKept' /\ Spawns' = Spawns
          /\ \E q \in Pids \ Rejected : Rejected' = Rejected \cup {q}
      BY <1>1, <1>2, <2>1, <2>2, <3>1, Fails
    <3>3. Paid'  BY <1>1, <1>2, <2>1, <3>2, StillPaid
    <3>4. Unused'  BY <1>1, <1>2, <2>1, <2>2, <3>1 DEF Unused, TypeOK
    <3>5. QED  BY <1>1, <3>2, <3>3, <3>4 DEF IInv
  <2>3. CASE spawned[p] # "pending"
    <3>1. UNCHANGED <<starting, spawned>>  BY <1>13, <2>3 DEF SeeExit
    <3>2. FailureNotKept'  BY <1>4, <2>1, <3>1
    <3>3. QED  BY <1>1, <1>5, <1>6, <2>1, <3>1, <3>2 DEF IInv
  <2>4. QED  BY <2>2, <2>3
<1>14. ASSUME NEW p \in Pids, KillTimer(p) \/ Runs(p)  PROVE IInv'
  <2>1. UNCHANGED <<spawned, starting, ready, transport, closes>>
    BY <1>14 DEF KillTimer, Runs, object
  <2>2. \A q \in Pids : proc'[q] = "none" => proc[q] = "none"
    BY <1>1, <1>14, ProcessSteps DEF KillTimer, Runs, TypeOK
  <2>3. FailureNotKept'  BY <1>4, <2>1
  <2>4. QED  BY <1>1, <1>5, <1>6, <2>1, <2>2, <2>3 DEF IInv
<1>15. CASE UNCHANGED vars
  <2>1. UNCHANGED <<proc, spawned, starting, ready, transport, closes>>
    BY <1>15 DEF vars, engines, object
  <2>2. FailureNotKept'  BY <1>4, <2>1
  <2>3. QED  BY <1>1, <1>5, <1>6, <2>1, <2>2 DEF IInv
<1>16. QED
  BY <1>7, <1>8, <1>9, <1>10, <1>11, <1>12, <1>13, <1>14, <1>15 DEF Next

LEMMA InitInv == Init => IInv
<1> SUFFICES ASSUME Init PROVE IInv  OBVIOUS
<1>1. TypeOK
  <2>1. ProcessType  BY DEF Init, InitProcesses, ProcessType
  <2>2. closes \in 0 .. MaxCloses  BY CloseBound DEF Init
  <2>3. /\ spawned \in [Pids -> {"none", "pending", "resolved", "rejected"}]
        /\ exitSeen \in [Pids -> BOOLEAN]
        /\ closing \in SUBSET Pids /\ owed \in SUBSET Pids
    BY DEF Init
  <2>4. QED  BY <2>1, <2>2, <2>3 DEF Init, TypeOK, MaybePid
<1>2. Unused /\ FailureNotKept  BY DEF Init, Unused, FailureNotKept
<1>3. Spawns = {} /\ Rejected = {}  BY DEF Init, Spawns, Rejected
<1>4. Cardinality(Spawns) = 0 /\ Cardinality(Rejected) = 0 /\ closes = 0
  BY <1>3, FS_EmptySet DEF Init
<1>5. Paid  BY <1>4 DEF Paid
<1>6. QED  BY <1>1, <1>2, <1>5 DEF IInv

LEMMA Invariance == Spec => []IInv
<1>1. IInv /\ [Next]_vars => IInv'  BY InvStep
<1>2. QED  BY <1>1, InitInv, PTL DEF Spec

\* The variables keep their types.
THEOREM TypeCorrect == Spec => []TypeOK
<1>1. IInv => TypeOK  BY DEF IInv
<1>2. QED  BY <1>1, Invariance, PTL

\* Engine.start shares the spawn that is under way and the engine that is up:
\* every further engine is due to a failed start or to a close(), however late
\* the ready lines, exit events and timers of the earlier ones come.
THEOREM OneEngineAtATime == Spec => []SpawnsShared
<1>1. IInv => SpawnsShared  BY DEF IInv, Paid, SpawnsShared, Rejected
<1>2. QED  BY <1>1, Invariance, PTL

\* fail() and the exit handler of spawn() forget a start that failed before
\* another call can be handed its promise or its engine.
THEOREM FailureForgotten == Spec => []FailureNotKept
<1>1. IInv => FailureNotKept  BY DEF IInv
<1>2. QED  BY <1>1, Invariance, PTL
=============================================================================
