---------------------------- MODULE PgConnProofs ----------------------------
(* Theorems about PgConn, for every set of requests, every assignment of    *)
(* mutexes to them and every number of statements and losses.               *)
EXTENDS PgConn, FiniteSetTheorems, TLAPS

\* A request that has sent its statement holds the connection it sent it on.
HasLink(r) == pc[r] \in {"query", "running", "rows"} => using[r] \in DOMAIN links

Owns(r) == pc[r] \in {"running", "rows"} =>
             links[using[r]].user = r /\ links[using[r]].n = stmt[r]

\* What the server did for a statement it has.
JobReal(c) == /\ links[c].job # "none" => links[c].user \in Requests
              /\ links[c].job = "ran" => ran[links[c].user][links[c].n] >= 1

\* Every statement a request has behind it was run.
Behind(r) == \A n \in 1 .. Statements :
               n < stmt[r] \/ (n = stmt[r] /\ pc[r] \in {"rows", "done"}) => ran[r][n] >= 1

AtLast(r) == pc[r] = "done" => stmt[r] = Statements

IInv == /\ TypeOK
        /\ NoLeak
        /\ \A c \in DOMAIN links : JobReal(c)
        /\ \A r \in Requests : HasLink(r) /\ Owns(r) /\ Behind(r) /\ AtLast(r)

LEMMA LinksType ==
  ASSUME NEW ls \in Seq(Link), NEW c \in DOMAIN ls, NEW l \in Link
  PROVE  /\ [ls EXCEPT ![c] = l] \in Seq(Link)
         /\ DOMAIN [ls EXCEPT ![c] = l] = DOMAIN ls
         /\ Len([ls EXCEPT ![c] = l]) = Len(ls)
OBVIOUS

LEMMA AppendLink ==
  ASSUME NEW ls \in Seq(Link), NEW l \in Link
  PROVE  /\ Append(ls, l) \in Seq(Link)
         /\ Len(Append(ls, l)) = Len(ls) + 1
         /\ \A d \in DOMAIN ls : Append(ls, l)[d] = ls[d]
         /\ Append(ls, l)[Len(ls) + 1] = l
         /\ DOMAIN Append(ls, l) = DOMAIN ls \cup {Len(ls) + 1}
OBVIOUS

\* Closing a connection changes nothing but its state.
LEMMA ClosedLinks ==
  ASSUME NEW ls \in Seq(Link), NEW c \in 0 .. Len(ls)
  PROVE  /\ Closed(ls, c) \in Seq(Link)
         /\ Len(Closed(ls, c)) = Len(ls)
         /\ DOMAIN Closed(ls, c) = DOMAIN ls
         /\ c # 0 => Closed(ls, c)[c].state = "closed"
         /\ \A d \in DOMAIN ls :
              /\ Closed(ls, c)[d].user = ls[d].user
              /\ Closed(ls, c)[d].n = ls[d].n
              /\ Closed(ls, c)[d].job = ls[d].job
              /\ d # c => Closed(ls, c)[d].state = ls[d].state
<1>1. CASE c = 0  BY <1>1 DEF Closed
<1>2. CASE c # 0
  <2>1. c \in DOMAIN ls /\ ls[c] \in Link  BY <1>2
  <2> DEFINE l == [ls[c] EXCEPT !.state = "closed"]
  <2>2. l \in Link /\ l.state = "closed" /\ l.user = ls[c].user /\ l.n = ls[c].n /\ l.job = ls[c].job
    BY <2>1 DEF Link
  <2>3. Closed(ls, c) = [ls EXCEPT ![c] = l]  BY <1>2 DEF Closed
  <2> HIDE DEF l
  <2>4. QED  BY <2>1, <2>2, <2>3, LinksType
<1>3. QED  BY <1>1, <1>2

LEMMA InitInv == Init => IInv
<1> SUFFICES ASSUME Init PROVE IInv  OBVIOUS
<1>1. NewLink \in Link  BY StatementsAssumption DEF NewLink, Link
<1>2. TypeOK
  <2>1. links \in Seq(Link) /\ conn \in 0 .. Len(links) /\ 0 \in 0 .. Len(links)
    BY <1>1 DEF Init
  <2>2. 1 \in 1 .. Statements /\ 0 \in 0 .. MaxLosses
    BY StatementsAssumption, MaxLossesAssumption
  <2> DEFINE zero == [n \in 1 .. Statements |-> 0]
  <2>3. zero \in [1 .. Statements -> Nat]  OBVIOUS
  <2>4. ran = [r \in Requests |-> zero]  BY DEF Init
  <2> HIDE DEF zero
  <2>5. ran \in [Requests -> [1 .. Statements -> Nat]]  BY <2>3, <2>4
  <2>6. /\ mutex \in [Locks -> Requests \cup {Free}] /\ pc \in [Requests -> PCs]
        /\ stmt \in [Requests -> 1 .. Statements] /\ using \in [Requests -> 0 .. Len(links)]
        /\ cause \in [Requests -> Causes] /\ losses \in 0 .. MaxLosses
    BY <2>1, <2>2 DEF Init, PCs, Causes
  <2>7. /\ tried \in [Requests -> BOOLEAN] /\ cancelled \in [Requests -> BOOLEAN]
        /\ disturbed \in [Requests -> BOOLEAN] /\ pinged \in [Requests -> BOOLEAN]
        /\ closed \in BOOLEAN
    BY DEF Init
  <2>8. QED  BY <2>1, <2>5, <2>6, <2>7 DEF TypeOK
<1>3. NoLeak /\ \A c \in DOMAIN links : JobReal(c)
  BY DEF Init, NoLeak, JobReal, NewLink
<1>4. \A r \in Requests : HasLink(r) /\ Owns(r) /\ Behind(r) /\ AtLast(r)
  BY DEF Init, HasLink, Owns, Behind, AtLast
<1>5. QED  BY <1>2, <1>3, <1>4 DEF IInv

\* Steps that touch neither a connection's owner nor what the server ran.
LEMMA Quiet ==
  ASSUME IInv, TypeOK', NoLeak', UNCHANGED <<stmt, ran>>,
         DOMAIN links \subseteq DOMAIN links',
         \A c \in DOMAIN links : /\ links'[c].user = links[c].user
                                 /\ links'[c].n = links[c].n
                                 /\ links'[c].job \in {links[c].job, "none"},
         \A c \in DOMAIN links' \ DOMAIN links : links'[c].job = "none",
         \A r \in Requests :
           \/ pc'[r] = pc[r] /\ using'[r] = using[r]
           \/ pc'[r] = "rows" /\ using'[r] = using[r] /\ Behind(r)' /\ pc[r] = "running"
           \/ pc'[r] = "query" /\ using'[r] \in DOMAIN links'
           \/ pc'[r] \in {"start", "get", "drop", "failed"}
  PROVE  IInv'
<1>1. \A c \in DOMAIN links' : JobReal(c)'
  BY DEF IInv, JobReal
<1>2. ASSUME NEW r \in Requests  PROVE (HasLink(r) /\ Owns(r) /\ Behind(r) /\ AtLast(r))'
  BY DEF IInv, HasLink, Owns, Behind, AtLast
<1>3. QED  BY <1>1, <1>2 DEF IInv

LEMMA LockInv ==
  ASSUME IInv, NEW r \in Requests, Lock(r)
  PROVE  IInv'
<1>1. TypeOK'  BY DEF IInv, TypeOK, Lock, Goto, PCs, Locks
<1>2. NoLeak'  BY DEF IInv, NoLeak, Lock
<1>3. QED  BY <1>1, <1>2, Quiet DEF Lock, Goto, IInv, TypeOK

LEMMA GetInv ==
  ASSUME IInv, NEW r \in Requests, GetTrusted(r) \/ GetPinged(r)
  PROVE  IInv'
<1>1. conn \in DOMAIN links  BY DEF IInv, TypeOK, GetTrusted, GetPinged
<1>2. /\ using' = [using EXCEPT ![r] = conn]
      /\ pc' = [pc EXCEPT ![r] = "query"]
      /\ UNCHANGED <<mutex, conn, links, stmt, tried, cause, cancelled, closed, losses,
                     ran, disturbed>>
  BY DEF GetTrusted, GetPinged, Goto
<1>3. pinged' \in [Requests -> BOOLEAN]  BY DEF GetTrusted, GetPinged, IInv, TypeOK
<1>4. TypeOK'
  <2>1. pc' \in [Requests -> PCs]  BY <1>2 DEF IInv, TypeOK, PCs
  <2>2. using' \in [Requests -> 0 .. Len(links)]  BY <1>1, <1>2 DEF IInv, TypeOK
  <2>3. QED  BY <1>2, <1>3, <2>1, <2>2 DEF IInv, TypeOK
<1>5. NoLeak'  BY <1>2 DEF IInv, NoLeak
<1>6. QED  BY <1>1, <1>2, <1>4, <1>5, Quiet DEF IInv, TypeOK

LEMMA FailType ==
  ASSUME TypeOK, NEW r \in Requests, NEW why \in Causes, Fail(r, why)
  PROVE  /\ mutex' \in [Locks -> Requests \cup {Free}]
         /\ pc' \in [Requests -> PCs]
         /\ cause' \in [Requests -> Causes]
         /\ \A q \in Requests : pc'[q] = pc[q] \/ pc'[q] = "failed"
BY DEF TypeOK, Fail, Goto, PCs, Ended

LEMMA GetDialsInv ==
  ASSUME IInv, NEW r \in Requests, GetDials(r)
  PROVE  IInv'
<1> DEFINE ls == Closed(links, conn)
<1>1. /\ ls \in Seq(Link) /\ Len(ls) = Len(links) /\ DOMAIN ls = DOMAIN links
      /\ \A d \in DOMAIN ls : /\ ls[d].user = links[d].user /\ ls[d].n = links[d].n
                              /\ ls[d].job = links[d].job /\ ls[d].state = "closed"
  <2>1. links \in Seq(Link) /\ conn \in 0 .. Len(links)  BY DEF IInv, TypeOK
  <2>2. conn # 0 => ls[conn].state = "closed"  BY <2>1, ClosedLinks
  <2>3. \A d \in DOMAIN links : d # conn => ls[d].state = "closed"
    BY <2>1, ClosedLinks DEF IInv, NoLeak
  <2>4. 0 \notin DOMAIN links  BY <2>1
  <2> HIDE DEF ls
  <2>5. \A d \in DOMAIN links : ls[d].state = "closed"  BY <2>2, <2>3, <2>4
  <2> USE DEF ls
  <2>6. QED  BY <2>1, <2>5, ClosedLinks
<1>2. UNCHANGED <<stmt, tried, cancelled, closed, losses, ran, disturbed>>
  BY DEF GetDials
<1>3. CASE links' = Append(ls, NewLink) /\ conn' = Len(links) + 1
           /\ using' = [using EXCEPT ![r] = conn'] /\ pinged' = [pinged EXCEPT ![r] = TRUE]
           /\ Goto(r, "query") /\ UNCHANGED <<mutex, cause>>
  <2>1. NewLink \in Link  BY StatementsAssumption DEF NewLink, Link
  <2> HIDE DEF ls
  <2>2. /\ links' \in Seq(Link) /\ Len(links') = Len(links) + 1
        /\ \A d \in DOMAIN links : links'[d] = ls[d]
        /\ links'[conn'] = NewLink
        /\ DOMAIN links' = DOMAIN links \cup {conn'}
    BY <1>1, <1>3, <2>1, AppendLink
  <2>3. TypeOK'  BY <1>2, <1>3, <2>2 DEF IInv, TypeOK, Goto, PCs
  <2>4. NoLeak'  BY <1>1, <1>3, <2>2 DEF NoLeak
  <2>5. \A q \in Requests : \/ pc'[q] = pc[q] /\ using'[q] = using[q]
                            \/ pc'[q] = "query" /\ using'[q] \in DOMAIN links'
    BY <1>3, <2>2 DEF Goto, IInv, TypeOK
  <2>6. QED  BY <1>1, <1>2, <2>2, <2>3, <2>4, <2>5, Quiet DEF NewLink
<1>4. CASE /\ links' = ls /\ conn' = 0
           /\ Fail(r, IF cancelled[r] THEN "ctx" ELSE "dial")
           /\ UNCHANGED <<using, pinged>>
  <2> HIDE DEF ls
  <2>1. (IF cancelled[r] THEN "ctx" ELSE "dial") \in Causes  BY DEF Causes
  <2>2. TypeOK'
    <3>1. /\ pc' \in [Requests -> PCs] /\ mutex' \in [Locks -> Requests \cup {Free}]
          /\ cause' \in [Requests -> Causes]
      BY <1>4, <2>1, FailType DEF IInv
    <3>2. links' \in Seq(Link) /\ conn' = 0 /\ Len(links') = Len(links)  BY <1>1, <1>4
    <3>3. UNCHANGED <<using, pinged>>  BY <1>4
    <3>4. QED  BY <1>2, <3>1, <3>2, <3>3 DEF IInv, TypeOK
  <2>3. NoLeak'  BY <1>1, <1>4 DEF NoLeak
  <2>4. \A q \in Requests : pc'[q] = pc[q] \/ pc'[q] = "failed"
    BY <1>4, <2>1, FailType DEF IInv
  <2>5. QED  BY <1>1, <1>2, <1>4, <2>2, <2>3, <2>4, Quiet
<1>5. QED  BY <1>3, <1>4 DEF GetDials

\* A request that holds a connection is in pgx's books as its user, so nobody
\* else holds it.
LEMMA SendInv ==
  ASSUME IInv, NEW r \in Requests, Send(r)
  PROVE  IInv'
<1> DEFINE c == using[r]
           l == [links[c] EXCEPT !.user = r, !.n = stmt[r],
                                 !.job = IF links[c].state = "open" THEN "sent" ELSE "none"]
<1>1. c \in DOMAIN links /\ links[c].user = Free  BY DEF IInv, HasLink, Send
<1>2. links[c] \in Link  BY <1>1 DEF IInv, TypeOK
<1>3. /\ l \in Link /\ l.user = r /\ l.n = stmt[r] /\ l.job # "ran"
      /\ l.state = links[c].state
  BY <1>2 DEF Link, IInv, TypeOK
<1>4. /\ links' = [links EXCEPT ![c] = l]
      /\ pc' = [pc EXCEPT ![r] = "running"]
      /\ UNCHANGED <<mutex, conn, stmt, using, tried, cause, cancelled, closed, losses, ran,
                     disturbed, pinged>>
  BY <1>2 DEF Send, Goto, Link
<1> HIDE DEF l
<1>5. /\ links' \in Seq(Link) /\ DOMAIN links' = DOMAIN links /\ Len(links') = Len(links)
      /\ links'[c] = l /\ \A d \in DOMAIN links : d # c => links'[d] = links[d]
  BY <1>1, <1>3, <1>4, LinksType DEF IInv, TypeOK
<1>6. TypeOK'
  <2>1. pc' \in [Requests -> PCs]  BY <1>4 DEF IInv, TypeOK, PCs
  <2>2. QED  BY <1>4, <1>5, <2>1 DEF IInv, TypeOK
<1>7. NoLeak'  BY <1>3, <1>4, <1>5 DEF IInv, NoLeak
<1>8. \A d \in DOMAIN links' : JobReal(d)'
  BY <1>3, <1>4, <1>5 DEF IInv, JobReal
<1>9. ASSUME NEW q \in Requests  PROVE (HasLink(q) /\ Owns(q) /\ Behind(q) /\ AtLast(q))'
  <2>1. HasLink(q)'  BY <1>1, <1>4, <1>5 DEF IInv, TypeOK, HasLink
  <2>2. Owns(q)'
    <3>1. CASE q = r  BY <1>3, <1>4, <1>5, <3>1 DEF Owns
    <3>2. CASE q # r
      <4>1. pc'[q] \in {"running", "rows"} => using[q] # c
        BY <1>1, <1>4, <3>2, FreeAssumption DEF IInv, TypeOK, Owns
      <4>2. QED  BY <1>4, <1>5, <3>2, <4>1 DEF IInv, TypeOK, Owns, HasLink
    <3>3. QED  BY <3>1, <3>2
  <2>3. Behind(q)' /\ AtLast(q)'  BY <1>4 DEF IInv, TypeOK, Behind, AtLast
  <2>4. QED  BY <2>1, <2>2, <2>3
<1>10. QED  BY <1>6, <1>7, <1>8, <1>9 DEF IInv

LEMMA DeadType ==
  ASSUME TypeOK, NEW r \in Requests, NEW why \in Causes, Dead(r, why)
  PROVE  /\ mutex' \in [Locks -> Requests \cup {Free}]
         /\ pc' \in [Requests -> PCs]
         /\ cause' \in [Requests -> Causes]
         /\ \A q \in Requests : pc'[q] = pc[q] \/ pc'[q] \in {"drop", "failed"}
<1>1. CASE Fail(r, why)  BY <1>1, FailType
<1>2. CASE Goto(r, "drop") /\ UNCHANGED <<mutex, cause>>
  BY <1>2 DEF TypeOK, Goto, PCs
<1>3. QED  BY <1>1, <1>2 DEF Dead

LEMMA RejectedInv ==
  ASSUME IInv, NEW r \in Requests, Rejected(r)
  PROVE  IInv'
<1>1. PICK why \in Causes : Dead(r, why)  BY DEF Rejected, Causes
<1>2. UNCHANGED <<conn, links, stmt, using, tried, cancelled, closed, losses, ran,
                  disturbed, pinged>>
  BY DEF Rejected
<1>3. TypeOK'  BY <1>1, <1>2, DeadType DEF IInv, TypeOK
<1>4. NoLeak'  BY <1>2 DEF IInv, NoLeak
<1>5. \A q \in Requests : pc'[q] = pc[q] \/ pc'[q] \in {"drop", "failed"}
  BY <1>1, DeadType DEF IInv
<1>6. QED  BY <1>2, <1>3, <1>4, <1>5, Quiet

\* Steps that close the current connection and forget it.
LEMMA CloseCurrent ==
  ASSUME IInv, links' = Closed(links, conn), conn' = 0
  PROVE  /\ links' \in Seq(Link) /\ Len(links') = Len(links)
         /\ DOMAIN links' = DOMAIN links
         /\ \A c \in DOMAIN links : /\ links'[c].user = links[c].user
                                    /\ links'[c].n = links[c].n
                                    /\ links'[c].job = links[c].job
         /\ NoLeak'
<1>1. links \in Seq(Link) /\ conn \in 0 .. Len(links)  BY DEF IInv, TypeOK
<1>2. conn # 0 => links'[conn].state = "closed"  BY <1>1, ClosedLinks
<1>3. \A d \in DOMAIN links : d # conn => links'[d].state = "closed"
  BY <1>1, ClosedLinks DEF IInv, NoLeak
<1>4. 0 \notin DOMAIN links  BY <1>1
<1>5. DOMAIN links' = DOMAIN links  BY <1>1, ClosedLinks
<1>6. NoLeak'  BY <1>2, <1>3, <1>4, <1>5 DEF NoLeak
<1>7. QED  BY <1>1, <1>6, ClosedLinks

LEMMA DropInv ==
  ASSUME IInv, NEW r \in Requests, Drop(r)
  PROVE  IInv'
<1>1. /\ links' = Closed(links, conn) /\ conn' = 0
      /\ tried' = [tried EXCEPT ![r] = TRUE]
      /\ pc' = [pc EXCEPT ![r] = "get"]
      /\ UNCHANGED <<mutex, stmt, using, cause, cancelled, closed, losses, ran, disturbed, pinged>>
  BY DEF Drop, Goto
<1>2. TypeOK'
  <2>1. pc' \in [Requests -> PCs] /\ tried' \in [Requests -> BOOLEAN]
    BY <1>1 DEF IInv, TypeOK, PCs
  <2>2. QED  BY <1>1, <2>1, CloseCurrent DEF IInv, TypeOK
<1>3. \A q \in Requests : pc'[q] = pc[q] \/ pc'[q] = "get"  BY <1>1 DEF IInv, TypeOK
<1>4. QED  BY <1>1, <1>2, <1>3, CloseCurrent, Quiet

LEMMA CloseInv ==
  ASSUME IInv, Close
  PROVE  IInv'
<1>1. /\ links' = Closed(links, conn) /\ conn' = 0 /\ closed' = TRUE
      /\ disturbed' = [r \in Requests |-> TRUE]
      /\ UNCHANGED <<mutex, pc, stmt, using, tried, cause, cancelled, losses, ran, pinged>>
  BY DEF Close
<1>2. TypeOK'
  <2>1. disturbed' \in [Requests -> BOOLEAN]  BY <1>1
  <2>2. QED  BY <1>1, <2>1, CloseCurrent DEF IInv, TypeOK
<1>3. QED  BY <1>1, <1>2, CloseCurrent, Quiet

LEMMA ReplyInv ==
  ASSUME IInv, NEW r \in Requests, Reply(r)
  PROVE  IInv'
<1>1. /\ pc' = [pc EXCEPT ![r] = "rows"] /\ pc[r] = "running"
      /\ UNCHANGED <<mutex, conn, links, stmt, using, tried, cause, cancelled, closed, losses,
                     ran, disturbed, pinged>>
  BY DEF Reply, Goto
<1>2. TypeOK'  BY <1>1 DEF IInv, TypeOK, PCs
<1>3. NoLeak'  BY <1>1 DEF IInv, NoLeak
<1>4. Behind(r)'
  <2>1. links[using[r]].job = "ran" /\ using[r] \in DOMAIN links
    BY <1>1 DEF Reply, IInv, HasLink
  <2>2. ran[r][stmt[r]] >= 1  BY <1>1, <2>1 DEF IInv, JobReal, Owns
  <2>3. QED  BY <1>1, <2>2 DEF IInv, Behind
<1>5. \A q \in Requests : q # r => pc'[q] = pc[q]  BY <1>1 DEF IInv, TypeOK
<1>6. pc'[r] = "rows"  BY <1>1 DEF IInv, TypeOK
<1>7. QED  BY <1>1, <1>2, <1>3, <1>4, <1>5, <1>6, Quiet

\* A connection whose statement is over is free again.
LEMMA FreedLinks ==
  ASSUME TypeOK, NEW c \in DOMAIN links,
         links' = [links EXCEPT ![c].user = Free, ![c].job = "none"]
  PROVE  /\ links' \in Seq(Link) /\ DOMAIN links' = DOMAIN links /\ Len(links') = Len(links)
         /\ \A d \in DOMAIN links : d # c => links'[d] = links[d]
         /\ links'[c].job = "none" /\ links'[c].state = links[c].state
<1> DEFINE l == [links[c] EXCEPT !.user = Free, !.job = "none"]
<1>1. links[c] \in Link  BY DEF TypeOK
<1>2. l \in Link /\ l.job = "none" /\ l.state = links[c].state  BY <1>1 DEF Link
<1>3. links' = [links EXCEPT ![c] = l]  OBVIOUS
<1> HIDE DEF l
<1>4. links \in Seq(Link)  BY DEF TypeOK
<1>5. /\ [links EXCEPT ![c] = l] \in Seq(Link)
      /\ DOMAIN [links EXCEPT ![c] = l] = DOMAIN links
      /\ Len([links EXCEPT ![c] = l]) = Len(links)
  BY <1>2, <1>4, LinksType
<1>6. links'[c] = l /\ \A d \in DOMAIN links : d # c => links'[d] = links[d]
  BY <1>3, <1>4
<1>7. QED  BY <1>2, <1>3, <1>5, <1>6

\* The end of a statement: r lets go of its connection, and goes on or ends.
LEMMA Freed ==
  ASSUME IInv, TypeOK', NEW r \in Requests, pc[r] \in {"running", "rows"},
         links' = [links EXCEPT ![using[r]].user = Free, ![using[r]].job = "none"],
         pc'[r] \in {"get", "done", "failed"},
         \A q \in Requests : q # r => pc'[q] = pc[q] /\ stmt'[q] = stmt[q],
         UNCHANGED <<using, ran, conn>>, Behind(r)', AtLast(r)'
  PROVE  IInv'
<1> DEFINE c == using[r]
<1>1. c \in DOMAIN links /\ links[c].user = r  BY DEF IInv, HasLink, Owns
<1>2. /\ DOMAIN links' = DOMAIN links
      /\ \A d \in DOMAIN links : d # c => links'[d] = links[d]
      /\ links'[c].job = "none" /\ links'[c].state = links[c].state
  BY <1>1, FreedLinks DEF IInv
<1>3. NoLeak'  BY <1>1, <1>2 DEF IInv, NoLeak
<1>4. \A d \in DOMAIN links' : JobReal(d)'  BY <1>1, <1>2 DEF IInv, JobReal
<1>5. ASSUME NEW q \in Requests, q # r
      PROVE  (HasLink(q) /\ Owns(q) /\ Behind(q) /\ AtLast(q))'
  <2>1. HasLink(q)'  BY <1>2, <1>5 DEF IInv, HasLink
  <2>2. pc'[q] \in {"running", "rows"} => using[q] # c /\ using[q] \in DOMAIN links
    BY <1>1, <1>5 DEF IInv, Owns, HasLink
  <2>3. Owns(q)'  BY <1>2, <1>5, <2>2 DEF IInv, Owns
  <2>4. Behind(q)' /\ AtLast(q)'  BY <1>5 DEF IInv, Behind, AtLast
  <2>5. QED  BY <2>1, <2>3, <2>4
<1>6. HasLink(r)' /\ Owns(r)'  BY DEF HasLink, Owns
<1>7. QED  BY <1>3, <1>4, <1>5, <1>6 DEF IInv

LEMMA StatementFailsInv ==
  ASSUME IInv, NEW r \in Requests, StatementFails(r)
  PROVE  IInv'
<1>1. /\ pc[r] \in {"running", "rows"} /\ Fail(r, "sql")
      /\ links' = [links EXCEPT ![using[r]].user = Free, ![using[r]].job = "none"]
      /\ UNCHANGED <<conn, stmt, using, tried, cancelled, closed, losses, ran, disturbed, pinged>>
  BY DEF StatementFails
<1>2. "sql" \in Causes /\ using[r] \in DOMAIN links  BY <1>1 DEF Causes, IInv, HasLink
<1>3. TypeOK'  BY <1>1, <1>2, FailType, FreedLinks DEF IInv, TypeOK
<1>4. pc' = [pc EXCEPT ![r] = "failed"]  BY <1>1 DEF Fail, Goto
<1>5. pc'[r] = "failed" /\ \A q \in Requests : q # r => pc'[q] = pc[q]
  BY <1>4 DEF IInv, TypeOK
<1>6. Behind(r)' /\ AtLast(r)'  BY <1>1, <1>5 DEF IInv, Behind, AtLast
<1>7. QED  BY <1>1, <1>3, <1>5, <1>6, Freed

LEMMA RowsEndInv ==
  ASSUME IInv, NEW r \in Requests, RowsEnd(r)
  PROVE  IInv'
<1>1. /\ pc[r] = "rows"
      /\ links' = [links EXCEPT ![using[r]].user = Free, ![using[r]].job = "none"]
      /\ UNCHANGED <<conn, using, cause, cancelled, closed, losses, ran, disturbed, pinged>>
  BY DEF RowsEnd
<1>2. using[r] \in DOMAIN links  BY <1>1 DEF IInv, HasLink
<1>3. /\ links' \in Seq(Link) /\ Len(links') = Len(links)  BY <1>1, <1>2, FreedLinks DEF IInv
<1>4. stmt[r] \in 1 .. Statements  BY DEF IInv, TypeOK
<1>5. \A n \in 1 .. Statements : n <= stmt[r] => ran[r][n] >= 1
  BY <1>1, <1>4 DEF IInv, Behind
<1>6. CASE stmt[r] < Statements /\ Goto(r, "get")
           /\ stmt' = [stmt EXCEPT ![r] = @ + 1] /\ tried' = [tried EXCEPT ![r] = FALSE]
           /\ UNCHANGED mutex
  <2>1. stmt[r] + 1 \in 1 .. Statements  BY <1>4, <1>6, StatementsAssumption
  <2>2. TypeOK'
    <3>1. stmt' \in [Requests -> 1 .. Statements]  BY <1>6, <2>1 DEF IInv, TypeOK
    <3>2. tried' \in [Requests -> BOOLEAN] /\ pc' \in [Requests -> PCs]
      BY <1>6 DEF IInv, TypeOK, Goto, PCs
    <3>3. QED  BY <1>1, <1>3, <1>6, <3>1, <3>2 DEF IInv, TypeOK
  <2>3. /\ pc'[r] = "get" /\ stmt'[r] = stmt[r] + 1
        /\ \A q \in Requests : q # r => pc'[q] = pc[q] /\ stmt'[q] = stmt[q]
    BY <1>6 DEF IInv, TypeOK, Goto
  <2>4. Behind(r)' /\ AtLast(r)'  BY <1>1, <1>4, <1>5, <2>3 DEF Behind, AtLast
  <2>5. QED  BY <1>1, <2>2, <2>3, <2>4, Freed
<1>7. CASE ~(stmt[r] < Statements) /\ Goto(r, "done")
           /\ mutex' = [mutex EXCEPT ![LockOf[r]] = Free] /\ UNCHANGED <<stmt, tried>>
  <2>1. TypeOK'
    <3>1. pc' \in [Requests -> PCs]  BY <1>7 DEF IInv, TypeOK, Goto, PCs, Ended
    <3>2. mutex' \in [Locks -> Requests \cup {Free}]  BY <1>7 DEF IInv, TypeOK
    <3>3. QED  BY <1>1, <1>3, <1>7, <3>1, <3>2 DEF IInv, TypeOK
  <2>2. /\ pc'[r] = "done"
        /\ \A q \in Requests : q # r => pc'[q] = pc[q] /\ stmt'[q] = stmt[q]
    BY <1>7 DEF IInv, TypeOK, Goto
  <2>3. Behind(r)' /\ AtLast(r)'
    BY <1>1, <1>4, <1>5, <1>7, StatementsAssumption DEF Behind, AtLast
  <2>4. QED  BY <1>1, <2>1, <2>2, <2>3, Freed
<1>8. QED  BY <1>6, <1>7 DEF RowsEnd

LEMMA ReplyLostInv ==
  ASSUME IInv, NEW r \in Requests, ReplyLost(r)
  PROVE  IInv'
<1> DEFINE why == IF links[using[r]].state = "silent" THEN "timeout" ELSE "link"
<1>1. /\ pc[r] = "running" /\ links' = Closed(links, using[r])
      /\ UNCHANGED <<conn, stmt, using, tried, cancelled, closed, losses, ran, disturbed, pinged>>
      /\ Fail(r, why) \/ Dead(r, why)
  BY DEF ReplyLost
<1>2. why \in Causes  BY DEF Causes
<1> HIDE DEF why
<1>3. /\ mutex' \in [Locks -> Requests \cup {Free}] /\ pc' \in [Requests -> PCs]
      /\ cause' \in [Requests -> Causes]
      /\ \A q \in Requests : pc'[q] = pc[q] \/ pc'[q] \in {"drop", "failed"}
  BY <1>1, <1>2, FailType, DeadType DEF IInv
<1>4. links \in Seq(Link) /\ using[r] \in 0 .. Len(links)  BY DEF IInv, TypeOK
<1>5. /\ links' \in Seq(Link) /\ Len(links') = Len(links) /\ DOMAIN links' = DOMAIN links
      /\ \A d \in DOMAIN links : /\ links'[d].user = links[d].user
                                 /\ links'[d].n = links[d].n
                                 /\ links'[d].job = links[d].job
      /\ \A d \in DOMAIN links : links[d].state = "closed" => links'[d].state = "closed"
  <2>1. 0 \notin DOMAIN links  BY <1>4
  <2>2. QED  BY <1>1, <1>4, <2>1, ClosedLinks
<1>6. TypeOK'  BY <1>1, <1>3, <1>5 DEF IInv, TypeOK
<1>7. NoLeak'  BY <1>1, <1>5 DEF IInv, NoLeak
<1>8. QED  BY <1>1, <1>3, <1>5, <1>6, <1>7, Quiet

LEMMA InterruptedInv ==
  ASSUME IInv, NEW r \in Requests, Interrupted(r)
  PROVE  IInv'
<1>1. /\ links' = Closed(links, using[r]) /\ Fail(r, "ctx")
      /\ UNCHANGED <<conn, stmt, using, tried, cancelled, closed, losses, ran, disturbed, pinged>>
  BY DEF Interrupted
<1>2. "ctx" \in Causes  BY DEF Causes
<1>3. /\ mutex' \in [Locks -> Requests \cup {Free}] /\ pc' \in [Requests -> PCs]
      /\ cause' \in [Requests -> Causes]
      /\ \A q \in Requests : pc'[q] = pc[q] \/ pc'[q] = "failed"
  BY <1>1, <1>2, FailType DEF IInv
<1>4. links \in Seq(Link) /\ using[r] \in 0 .. Len(links)  BY DEF IInv, TypeOK
<1>5. /\ links' \in Seq(Link) /\ Len(links') = Len(links) /\ DOMAIN links' = DOMAIN links
      /\ \A d \in DOMAIN links : /\ links'[d].user = links[d].user
                                 /\ links'[d].n = links[d].n
                                 /\ links'[d].job = links[d].job
      /\ \A d \in DOMAIN links : links[d].state = "closed" => links'[d].state = "closed"
  <2>1. 0 \notin DOMAIN links  BY <1>4
  <2>2. QED  BY <1>1, <1>4, <2>1, ClosedLinks
<1>6. TypeOK'  BY <1>1, <1>3, <1>5 DEF IInv, TypeOK
<1>7. NoLeak'  BY <1>1, <1>5 DEF IInv, NoLeak
<1>8. QED  BY <1>1, <1>3, <1>5, <1>6, <1>7, Quiet

LEMMA RowsLostInv ==
  ASSUME IInv, NEW r \in Requests, RowsLost(r)
  PROVE  IInv'
<1> DEFINE why == IF links[using[r]].state = "silent" THEN "timeout" ELSE "link"
           ls == Closed(links, using[r])
<1>1. /\ Fail(r, why)
      /\ \/ links' = ls /\ conn' = conn
         \/ links' = Closed(ls, conn) /\ conn' = 0
      /\ UNCHANGED <<stmt, using, tried, cancelled, closed, losses, ran, disturbed, pinged>>
  BY DEF RowsLost
<1>2. why \in Causes  BY DEF Causes
<1> HIDE DEF why
<1>3. /\ mutex' \in [Locks -> Requests \cup {Free}] /\ pc' \in [Requests -> PCs]
      /\ cause' \in [Requests -> Causes]
      /\ \A q \in Requests : pc'[q] = pc[q] \/ pc'[q] = "failed"
  BY <1>1, <1>2, FailType DEF IInv
<1>4. /\ links \in Seq(Link) /\ using[r] \in 0 .. Len(links) /\ conn \in 0 .. Len(links)
      /\ 0 \notin DOMAIN links
  BY DEF IInv, TypeOK
<1>5. /\ ls \in Seq(Link) /\ Len(ls) = Len(links) /\ DOMAIN ls = DOMAIN links
      /\ \A d \in DOMAIN links : /\ ls[d].user = links[d].user
                                 /\ ls[d].n = links[d].n
                                 /\ ls[d].job = links[d].job
      /\ \A d \in DOMAIN links : links[d].state = "closed" => ls[d].state = "closed"
  <2>1. /\ Len(ls) = Len(links) /\ DOMAIN ls = DOMAIN links /\ ls \in Seq(Link)
        /\ using[r] # 0 => ls[using[r]].state = "closed"
        /\ \A d \in DOMAIN links :
             /\ ls[d].user = links[d].user
             /\ ls[d].n = links[d].n
             /\ ls[d].job = links[d].job
             /\ d # using[r] => ls[d].state = links[d].state
    BY <1>4, ClosedLinks
  <2> HIDE DEF ls
  <2>2. QED  BY <1>4, <2>1
<1> HIDE DEF ls
<1>6. /\ links' \in Seq(Link) /\ Len(links') = Len(links) /\ DOMAIN links' = DOMAIN links
      /\ \A d \in DOMAIN links : /\ links'[d].user = links[d].user
                                 /\ links'[d].n = links[d].n
                                 /\ links'[d].job = links[d].job
      /\ NoLeak'
  <2>1. CASE links' = ls /\ conn' = conn  BY <1>5, <2>1 DEF IInv, NoLeak
  <2>2. CASE links' = Closed(ls, conn) /\ conn' = 0
    <3>1. \A d \in DOMAIN links : d # conn => links'[d].state = "closed"
      BY <1>4, <1>5, <2>2, ClosedLinks DEF IInv, NoLeak
    <3>2. conn # 0 => links'[conn].state = "closed"  BY <1>4, <1>5, <2>2, ClosedLinks
    <3>3. DOMAIN links' = DOMAIN links  BY <1>4, <1>5, <2>2, ClosedLinks
    <3>4. NoLeak'  BY <1>4, <3>1, <3>2, <3>3 DEF NoLeak
    <3>5. QED  BY <1>4, <1>5, <2>2, <3>4, ClosedLinks
  <2>3. QED  BY <1>1, <2>1, <2>2
<1>7. TypeOK'
  <2>1. conn' \in 0 .. Len(links')  BY <1>1, <1>4, <1>6
  <2>2. QED  BY <1>1, <1>3, <1>6, <2>1 DEF IInv, TypeOK
<1>8. QED  BY <1>1, <1>3, <1>6, <1>7, Quiet

LEMMA CancelInv ==
  ASSUME IInv, NEW r \in Requests, Cancel(r)
  PROVE  IInv'
<1>1. TypeOK'  BY DEF IInv, TypeOK, Cancel
<1>2. NoLeak'  BY DEF IInv, NoLeak, Cancel
<1>3. QED  BY <1>1, <1>2, Quiet DEF Cancel

LEMMA LoseInv ==
  ASSUME IInv, NEW c \in DOMAIN links, Lose(c)
  PROVE  IInv'
<1>1. PICK s \in {"reset", "silent"}, keep \in BOOLEAN :
        links' = [links EXCEPT ![c].state = s,
                               ![c].job = IF @ = "sent" /\ ~keep THEN "none" ELSE @]
  BY DEF Lose
<1> DEFINE l == [links[c] EXCEPT !.state = s,
                                 !.job = IF @ = "sent" /\ ~keep THEN "none" ELSE @]
<1>2. links[c] \in Link /\ links \in Seq(Link)  BY DEF IInv, TypeOK
<1>3. /\ l \in Link /\ l.user = links[c].user /\ l.n = links[c].n
      /\ l.job \in {links[c].job, "none"}
  BY <1>2 DEF Link
<1>4. links' = [links EXCEPT ![c] = l]  BY <1>1, <1>2 DEF Link
<1> HIDE DEF l
<1>5. /\ [links EXCEPT ![c] = l] \in Seq(Link)
      /\ DOMAIN [links EXCEPT ![c] = l] = DOMAIN links
      /\ Len([links EXCEPT ![c] = l]) = Len(links)
  BY <1>2, <1>3, LinksType
<1>6. links'[c] = l /\ \A d \in DOMAIN links : d # c => links'[d] = links[d]
  BY <1>2, <1>4
<1>7. /\ links[c].state = "open" /\ losses < MaxLosses /\ losses' = losses + 1
      /\ disturbed' = [r \in Requests |-> TRUE]
      /\ UNCHANGED <<mutex, conn, pc, stmt, using, tried, cause, cancelled, closed, ran, pinged>>
  BY DEF Lose
<1>8. TypeOK'
  <2>1. losses' \in 0 .. MaxLosses  BY <1>7, MaxLossesAssumption DEF IInv, TypeOK
  <2>2. disturbed' \in [Requests -> BOOLEAN]  BY <1>7
  <2>3. links' \in Seq(Link) /\ Len(links') = Len(links)  BY <1>4, <1>5
  <2>4. QED  BY <1>7, <2>1, <2>2, <2>3 DEF IInv, TypeOK
<1>9. NoLeak'  BY <1>4, <1>5, <1>6, <1>7 DEF IInv, NoLeak
<1>10. QED  BY <1>3, <1>4, <1>5, <1>6, <1>7, <1>8, <1>9, Quiet

\* One more execution of statement m of u.
OneMore(rn, u, m) == [rn EXCEPT ![u][m] = @ + 1]

LEMMA RanGrows ==
  ASSUME NEW rn \in [Requests -> [1 .. Statements -> Nat]],
         NEW u \in Requests, NEW m \in 1 .. Statements
  PROVE  /\ OneMore(rn, u, m) \in [Requests -> [1 .. Statements -> Nat]]
         /\ OneMore(rn, u, m)[u][m] >= 1
         /\ \A q \in Requests : \A n \in 1 .. Statements :
              rn[q][n] >= 1 => OneMore(rn, u, m)[q][n] >= 1
<1> DEFINE rm == OneMore(rn, u, m)
<1>1. rn[u] \in [1 .. Statements -> Nat]  OBVIOUS
<1>2. rn[u][m] \in Nat  BY <1>1
<1> DEFINE k == rn[u][m] + 1
           g == [rn[u] EXCEPT ![m] = k]
<1>3. k \in Nat /\ k >= 1  BY <1>2
<1>4. rm = [rn EXCEPT ![u] = g]  BY DEF OneMore
<1> HIDE DEF k, rm
<1>5. g \in [1 .. Statements -> Nat] /\ g[m] = k /\ \A n \in 1 .. Statements : n # m => g[n] = rn[u][n]
  BY <1>1, <1>3
<1> HIDE DEF g
<1>6. rm[u] = g /\ \A q \in Requests : q # u => rm[q] = rn[q]  BY <1>4
<1>7. rm \in [Requests -> [1 .. Statements -> Nat]]  BY <1>4, <1>5
<1>8. rm[u][m] >= 1  BY <1>3, <1>5, <1>6
<1>9. ASSUME NEW q \in Requests, NEW n \in 1 .. Statements, rn[q][n] >= 1
      PROVE  rm[q][n] >= 1
  <2>1. CASE q = u /\ n = m  BY <1>8, <2>1
  <2>2. CASE q = u /\ n # m  BY <1>5, <1>6, <1>9, <2>2
  <2>3. CASE q # u  BY <1>6, <1>9, <2>3
  <2>4. QED  BY <2>1, <2>2, <2>3
<1>10. QED  BY <1>7, <1>8, <1>9 DEF rm

LEMMA ServerRunsInv ==
  ASSUME IInv, NEW c \in DOMAIN links, ServerRuns(c)
  PROVE  IInv'
<1> DEFINE l == [links[c] EXCEPT !.job = "ran"]
           u == links[c].user
           m == links[c].n
<1>1. links[c] \in Link /\ links \in Seq(Link)  BY DEF IInv, TypeOK
<1>2. /\ l \in Link /\ l.job = "ran" /\ l.user = u /\ l.n = m /\ l.state = links[c].state
      /\ m \in 1 .. Statements
  BY <1>1 DEF Link
<1>3. u \in Requests  BY DEF IInv, JobReal, ServerRuns
<1>4. /\ links' = [links EXCEPT ![c] = l]
      /\ ran' = [ran EXCEPT ![u][m] = @ + 1]
      /\ UNCHANGED <<mutex, conn, pc, stmt, using, tried, cause, cancelled, closed, losses,
                     disturbed, pinged>>
  BY DEF ServerRuns
<1> HIDE DEF l
<1>5. /\ [links EXCEPT ![c] = l] \in Seq(Link)
      /\ DOMAIN [links EXCEPT ![c] = l] = DOMAIN links
      /\ Len([links EXCEPT ![c] = l]) = Len(links)
  BY <1>1, <1>2, LinksType
<1>6. links'[c] = l /\ \A d \in DOMAIN links : d # c => links'[d] = links[d]
  BY <1>1, <1>4
<1>7. /\ ran' \in [Requests -> [1 .. Statements -> Nat]]
      /\ ran'[u][m] >= 1
      /\ \A q \in Requests : \A n \in 1 .. Statements : ran[q][n] >= 1 => ran'[q][n] >= 1
  <2> HIDE DEF u, m
  <2>1. ran \in [Requests -> [1 .. Statements -> Nat]]  BY DEF IInv, TypeOK
  <2>2. ran' = OneMore(ran, u, m)  BY <1>4 DEF OneMore
  <2>3. m \in 1 .. Statements /\ u \in Requests  BY <1>2, <1>3
  <2>4. QED  BY <2>1, <2>2, <2>3, RanGrows
<1>8. TypeOK'  BY <1>4, <1>5, <1>7 DEF IInv, TypeOK
<1>9. NoLeak'  BY <1>2, <1>4, <1>5, <1>6 DEF IInv, NoLeak
<1>10. ASSUME NEW d \in DOMAIN links'  PROVE JobReal(d)'
  <2>1. CASE d = c  BY <1>2, <1>3, <1>6, <1>7, <2>1 DEF JobReal
  <2>2. CASE d # c
    <3>1. d \in DOMAIN links /\ links'[d] = links[d] /\ links[d] \in Link
      BY <1>1, <1>4, <1>5, <1>6, <2>2
    <3>2. links[d].n \in 1 .. Statements  BY <3>1 DEF Link
    <3>3. links[d].job # "none" => links[d].user \in Requests
      BY <3>1 DEF IInv, JobReal
    <3>4. ASSUME links[d].job = "ran"
          PROVE  ran'[links[d].user][links[d].n] >= 1
      <4>1. ran[links[d].user][links[d].n] >= 1  BY <3>1, <3>4 DEF IInv, JobReal
      <4>2. links[d].user \in Requests  BY <3>3, <3>4
      <4>3. QED  BY <1>7, <3>2, <4>1, <4>2
    <3>5. QED  BY <3>1, <3>3, <3>4 DEF JobReal
  <2>3. QED  BY <2>1, <2>2
<1>11. ASSUME NEW q \in Requests  PROVE (HasLink(q) /\ Owns(q) /\ Behind(q) /\ AtLast(q))'
  <2>1. HasLink(q)'  BY <1>4, <1>5 DEF IInv, HasLink
  <2>2. Owns(q)'  BY <1>2, <1>4, <1>6 DEF IInv, Owns, HasLink
  <2>3. Behind(q)'  BY <1>4, <1>7 DEF IInv, Behind
  <2>4. AtLast(q)'  BY <1>4 DEF IInv, AtLast
  <2>5. QED  BY <2>1, <2>2, <2>3, <2>4
<1>12. QED  BY <1>8, <1>9, <1>10, <1>11 DEF IInv

LEMMA NextInv == IInv /\ [Next]_vars => IInv'
<1> SUFFICES ASSUME IInv, [Next]_vars PROVE IInv'  OBVIOUS
<1>1. ASSUME NEW r \in Requests, Handle(r)  PROVE IInv'
  <2>1. CASE Query(r)
    BY <2>1, GetInv, GetDialsInv, SendInv, RejectedInv, DropInv, ReplyInv, ReplyLostInv DEF Query
  <2>2. QED
    BY <1>1, <2>1, LockInv, StatementFailsInv, RowsEndInv, RowsLostInv, InterruptedInv DEF Handle
<1>2. ASSUME UNCHANGED vars  PROVE IInv'
  BY <1>2 DEF vars, IInv, TypeOK, NoLeak, JobReal, HasLink, Owns, Behind, AtLast
<1>3. QED
  BY <1>1, <1>2, CancelInv, ServerRunsInv, LoseInv, CloseInv DEF Next, AllEnded

LEMMA Invariance == Spec => []IInv
<1>1. QED  BY InitInv, NextInv, PTL DEF Spec

\* The variables keep their types: in particular a request never runs past
\* its last statement (RowsEnd).
THEOREM TypeCorrect == Spec => []TypeOK
<1>1. IInv => TypeOK  BY DEF IInv
<1>2. QED  BY <1>1, Invariance, PTL

\* Whatever get, drop and watchRows do, every connection but the current one
\* has been closed.
THEOREM ConnectionsClosed == Spec => []NoLeak
<1>1. IInv => NoLeak  BY DEF IInv
<1>2. QED  BY <1>1, Invariance, PTL

\* A request that reports success had each of its statements run by the
\* server, for any number of requests, mutexes, statements and losses.
THEOREM SuccessMeansRun == Spec => []SuccessIsReal
<1>1. IInv => SuccessIsReal
  <2>1. SUFFICES ASSUME IInv, NEW r \in Requests, pc[r] = "done", NEW n \in 1 .. Statements
                 PROVE  ran[r][n] >= 1
    BY DEF SuccessIsReal
  <2>2. stmt[r] = Statements /\ (n < Statements \/ n = Statements)
    BY <2>1, StatementsAssumption DEF IInv, AtLast
  <2>3. QED  BY <2>1, <2>2 DEF IInv, Behind
<1>2. QED  BY <1>1, Invariance, PTL
-----------------------------------------------------------------------------
(* How often a statement runs.  Counting only what ran is not inductive: a  *)
(* statement whose reply was lost is still on its way, on a connection that *)
(* is closed by now, and may run at any time.                               *)

Early == {"start", "get", "query"}

\* Copies of statement n of r that a server has and has not run yet.
Pending(r, n) == {c \in DOMAIN links : /\ links[c].user = r /\ links[c].n = n
                                       /\ links[c].job = "sent"}

\* How often r can have sent statement n so far.
Tries(r, n) == IF n < stmt[r] THEN 2
               ELSE IF n > stmt[r] THEN 0
               ELSE (IF tried[r] THEN 1 ELSE 0) + (IF pc[r] \in Early THEN 0 ELSE 1)

DropsOnce(r) == pc[r] = "drop" => ~tried[r]

Counted(r, n) == ran[r][n] + Cardinality(Pending(r, n)) <= Tries(r, n)

TwiceInv == \A r \in Requests : /\ DropsOnce(r)
                                /\ \A n \in 1 .. Statements : Counted(r, n)

LEMMA PendingFinite ==
  ASSUME TypeOK, NEW r, NEW n
  PROVE  IsFiniteSet(Pending(r, n)) /\ Cardinality(Pending(r, n)) \in Nat
<1>1. links \in Seq(Link)  BY DEF TypeOK
<1>2. Len(links) \in Nat /\ DOMAIN links = 1 .. Len(links)  BY <1>1
<1>3. IsFiniteSet(1 .. Len(links))  BY <1>2, FS_Interval
<1>4. Pending(r, n) \subseteq 1 .. Len(links)  BY <1>2 DEF Pending
<1>5. IsFiniteSet(Pending(r, n))  BY <1>3, <1>4, FS_Subset
<1>6. QED  BY <1>5, FS_CardinalityType

\* What a step that sends nothing does to the statement of a request.
Onward(r) ==
  \/ /\ stmt'[r] = stmt[r] /\ tried'[r] = tried[r]
     /\ pc'[r] \in Early => pc[r] \in Early
     /\ pc'[r] = "drop" => ~tried[r]
  \/ stmt'[r] = stmt[r] /\ pc[r] = "drop" /\ pc'[r] = "get" /\ tried'[r]
  \/ stmt'[r] = stmt[r] + 1 /\ ~tried'[r] /\ pc'[r] = "get"

LEMMA TriesGrow ==
  ASSUME TypeOK, TypeOK', NEW r \in Requests, NEW n \in 1 .. Statements,
         DropsOnce(r), Onward(r)
  PROVE  /\ DropsOnce(r)'
         /\ Tries(r, n) <= Tries(r, n)'
         /\ Tries(r, n) \in Nat /\ Tries(r, n)' \in Nat
<1>1. /\ stmt[r] \in 1 .. Statements /\ stmt'[r] \in 1 .. Statements
      /\ tried[r] \in BOOLEAN /\ tried'[r] \in BOOLEAN
  BY DEF TypeOK
<1>2. Tries(r, n) \in Nat /\ Tries(r, n)' \in Nat  BY DEF Tries
<1>3. CASE /\ stmt'[r] = stmt[r] /\ tried'[r] = tried[r]
           /\ pc'[r] \in Early => pc[r] \in Early
           /\ pc'[r] = "drop" => ~tried[r]
  BY <1>1, <1>2, <1>3 DEF Tries, DropsOnce
<1>4. CASE stmt'[r] = stmt[r] /\ pc[r] = "drop" /\ pc'[r] = "get" /\ tried'[r]
  BY <1>1, <1>2, <1>4 DEF Tries, DropsOnce, Early
<1>5. CASE stmt'[r] = stmt[r] + 1 /\ ~tried'[r] /\ pc'[r] = "get"
  BY <1>1, <1>2, <1>5 DEF Tries, DropsOnce, Early
<1>6. QED  BY <1>3, <1>4, <1>5 DEF Onward

\* Every step but Send and ServerRuns: nothing runs, nothing new is on its way.
LEMMA TwiceQuiet ==
  ASSUME TypeOK, TypeOK', TwiceInv, UNCHANGED ran,
         \A c \in DOMAIN links' : links'[c].job = "sent" =>
           /\ c \in DOMAIN links /\ links[c].job = "sent"
           /\ links[c].user = links'[c].user /\ links[c].n = links'[c].n,
         \A r \in Requests : Onward(r)
  PROVE  TwiceInv'
<1> SUFFICES ASSUME NEW r \in Requests, NEW n \in 1 .. Statements
             PROVE  DropsOnce(r)' /\ Counted(r, n)'
  BY StatementsAssumption DEF TwiceInv
<1>1. /\ DropsOnce(r)' /\ Tries(r, n) <= Tries(r, n)'
      /\ Tries(r, n) \in Nat /\ Tries(r, n)' \in Nat
  BY TriesGrow DEF TwiceInv
<1>2. Pending(r, n)' \subseteq Pending(r, n)  BY DEF Pending
<1>3. IsFiniteSet(Pending(r, n)) /\ Cardinality(Pending(r, n)) \in Nat  BY PendingFinite
<1>4. Cardinality(Pending(r, n)') <= Cardinality(Pending(r, n)) /\ Cardinality(Pending(r, n)') \in Nat
  BY <1>2, <1>3, FS_Subset, FS_CardinalityType
<1>5. ran[r][n] \in Nat /\ ran'[r][n] = ran[r][n]
  <2>1. ran[r] \in [1 .. Statements -> Nat]  BY DEF TypeOK
  <2>2. QED  BY <2>1
<1>6. ran[r][n] + Cardinality(Pending(r, n)) <= Tries(r, n)  BY DEF TwiceInv, Counted
<1>7. ran'[r][n] + Cardinality(Pending(r, n)') <= Tries(r, n)'  BY <1>1, <1>3, <1>4, <1>5, <1>6
<1>8. QED  BY <1>1, <1>7 DEF Counted

\* Send puts one more copy on its way, and is one more try.
LEMMA TwiceSend ==
  ASSUME IInv, IInv', TwiceInv, NEW r \in Requests, Send(r)
  PROVE  TwiceInv'
<1> DEFINE c == using[r]
<1>1. c \in DOMAIN links /\ links[c] \in Link  BY DEF IInv, TypeOK, HasLink, Send
<1>2. /\ pc[r] = "query" /\ links[c].user = Free
      /\ \A d \in DOMAIN links : d # c => links'[d] = links[d]
      /\ links'[c].user = r /\ links'[c].n = stmt[r]
      /\ DOMAIN links' = DOMAIN links
      /\ UNCHANGED <<stmt, tried, ran>>
      /\ pc' = [pc EXCEPT ![r] = "running"]
  BY <1>1 DEF Send, Goto, Link
<1>3. pc'[r] = "running" /\ \A q \in Requests : q # r => pc'[q] = pc[q]
  BY <1>2 DEF IInv, TypeOK
<1> SUFFICES ASSUME NEW q \in Requests, NEW n \in 1 .. Statements
             PROVE  DropsOnce(q)' /\ Counted(q, n)'
  BY StatementsAssumption DEF TwiceInv
<1>4. DropsOnce(q)'  BY <1>2, <1>3 DEF TwiceInv, DropsOnce
<1> DEFINE old == Pending(q, n)
           new == Pending(q, n)'
<1>5. IsFiniteSet(old) /\ Cardinality(old) \in Nat  BY PendingFinite DEF IInv
<1>6. /\ ran[q][n] \in Nat /\ ran'[q][n] = ran[q][n]
      /\ ran[q][n] + Cardinality(old) <= Tries(q, n)
  <2>1. ran[q] \in [1 .. Statements -> Nat]  BY DEF IInv, TypeOK
  <2>2. QED  BY <1>2, <2>1 DEF TwiceInv, Counted
<1>7. stmt[q] \in 1 .. Statements /\ tried[q] \in BOOLEAN  BY DEF IInv, TypeOK
<1>8. CASE q = r /\ n = stmt[r]
  <2>1. new \subseteq old \cup {c}  BY <1>2 DEF Pending
  <2>2. IsFiniteSet(old \cup {c}) /\ Cardinality(old \cup {c}) <= Cardinality(old) + 1
        /\ Cardinality(old \cup {c}) \in Nat
    <3> HIDE DEF old
    <3>1. /\ IsFiniteSet(old \cup {c})
          /\ \/ Cardinality(old \cup {c}) = Cardinality(old)
             \/ Cardinality(old \cup {c}) = Cardinality(old) + 1
      BY <1>5, FS_AddElement
    <3>2. QED  BY <1>5, <3>1
  <2>3. Cardinality(new) \in Nat /\ Cardinality(new) <= Cardinality(old \cup {c})
    BY <2>1, <2>2, FS_Subset, FS_CardinalityType
  <2>4. Tries(q, n)' = Tries(q, n) + 1 /\ Tries(q, n) \in Nat
    BY <1>2, <1>3, <1>7, <1>8 DEF Tries, Early
  <2> HIDE DEF old, new
  <2>5. ran'[q][n] + Cardinality(new) <= Tries(q, n)'  BY <1>5, <1>6, <2>2, <2>3, <2>4
  <2>6. QED  BY <1>4, <2>5 DEF Counted, new
<1>9. CASE ~(q = r /\ n = stmt[r])
  <2>1. new \subseteq old  BY <1>2, <1>9 DEF Pending
  <2>2. Cardinality(new) \in Nat /\ Cardinality(new) <= Cardinality(old)
    BY <1>5, <2>1, FS_Subset, FS_CardinalityType
  <2>3. Tries(q, n)' = Tries(q, n) /\ Tries(q, n) \in Nat
    BY <1>2, <1>3, <1>7, <1>9 DEF Tries, Early
  <2> HIDE DEF old, new
  <2>4. ran'[q][n] + Cardinality(new) <= Tries(q, n)'  BY <1>5, <1>6, <2>2, <2>3
  <2>5. QED  BY <1>4, <2>4 DEF Counted, new
<1>10. QED  BY <1>8, <1>9

\* The server runs one of the copies on their way.
LEMMA TwiceRuns ==
  ASSUME IInv, IInv', TwiceInv, NEW c \in DOMAIN links, ServerRuns(c)
  PROVE  TwiceInv'
<1> DEFINE u == links[c].user
           m == links[c].n
<1>1. links[c] \in Link /\ links \in Seq(Link)  BY DEF IInv, TypeOK
<1>2. /\ links[c].job = "sent" /\ u \in Requests /\ m \in 1 .. Statements
      /\ ran' = [ran EXCEPT ![u][m] = @ + 1]
      /\ UNCHANGED <<stmt, tried, pc>>
      /\ DOMAIN links' = DOMAIN links
      /\ links'[c].job = "ran"
      /\ \A d \in DOMAIN links : d # c => links'[d] = links[d]
  BY <1>1 DEF ServerRuns, IInv, JobReal, Link
<1> HIDE DEF u, m
<1> SUFFICES ASSUME NEW q \in Requests, NEW n \in 1 .. Statements
             PROVE  DropsOnce(q)' /\ Counted(q, n)'
  BY StatementsAssumption DEF TwiceInv
<1>3. DropsOnce(q)'  BY <1>2 DEF TwiceInv, DropsOnce
<1> DEFINE old == Pending(q, n)
           new == Pending(q, n)'
<1>4. IsFiniteSet(old) /\ Cardinality(old) \in Nat  BY PendingFinite DEF IInv
<1>5. stmt[q] \in 1 .. Statements /\ tried[q] \in BOOLEAN  BY DEF IInv, TypeOK
<1>6. Tries(q, n)' = Tries(q, n) /\ Tries(q, n) \in Nat  BY <1>2, <1>5 DEF Tries
<1>7. ran[q] \in [1 .. Statements -> Nat] /\ ran \in [Requests -> [1 .. Statements -> Nat]]
  BY DEF IInv, TypeOK
<1>8. ran[q][n] \in Nat /\ ran[q][n] + Cardinality(old) <= Tries(q, n)
  BY <1>7 DEF TwiceInv, Counted
<1>9. CASE q = u /\ n = m
  <2>1. ran'[q][n] = ran[q][n] + 1  BY <1>2, <1>7, <1>9
  <2>2. new = old \ {c} /\ c \in old
    BY <1>2, <1>9 DEF Pending, u, m
  <2>3. Cardinality(new) = Cardinality(old) - 1 /\ Cardinality(new) \in Nat
    BY <1>4, <2>2, FS_RemoveElement, FS_CardinalityType
  <2> HIDE DEF old, new
  <2>4. ran'[q][n] + Cardinality(new) <= Tries(q, n)'  BY <1>4, <1>6, <1>8, <2>1, <2>3
  <2>5. QED  BY <1>3, <2>4 DEF Counted, new
<1>10. CASE ~(q = u /\ n = m)
  <2>1. ran'[q][n] = ran[q][n]  BY <1>2, <1>7, <1>10
  <2>2. new = old  BY <1>2, <1>10 DEF Pending, u, m
  <2>3. ran'[q][n] + Cardinality(new) <= Tries(q, n)'  BY <1>6, <1>8, <2>1, <2>2
  <2>4. QED  BY <1>3, <2>3 DEF Counted
<1>11. QED  BY <1>9, <1>10

LEMMA TwiceNext == IInv /\ TwiceInv /\ [Next]_vars => TwiceInv'
<1> SUFFICES ASSUME IInv, TwiceInv, [Next]_vars PROVE TwiceInv'  OBVIOUS
<1>1. IInv'  BY NextInv
<1>2. TypeOK /\ TypeOK'  BY <1>1 DEF IInv
<1>3. \A r \in Requests : DropsOnce(r)  BY DEF TwiceInv
<1>4. links \in Seq(Link) /\ conn \in 0 .. Len(links) /\ \A q \in Requests : using[q] \in 0 .. Len(links)
  BY <1>2 DEF TypeOK
\* Nothing is sent, whatever connections are closed.
<1>5. ASSUME NEW c \in 0 .. Len(links), links' = Closed(links, c)
      PROVE  \A d \in DOMAIN links' : links'[d].job = "sent" =>
               /\ d \in DOMAIN links /\ links[d].job = "sent"
               /\ links[d].user = links'[d].user /\ links[d].n = links'[d].n
  BY <1>4, <1>5, ClosedLinks
\* A request that fails or drops its connection tries the statement no more,
\* or once more if it was not on its second connection.
<1>6. ASSUME NEW r \in Requests, NEW why, Fail(r, why) \/ Dead(r, why), UNCHANGED <<stmt, tried>>
      PROVE  \A q \in Requests : Onward(q)
  <2>1. PICK p : pc' = [pc EXCEPT ![r] = p] /\ (p = "failed" \/ (p = "drop" /\ ~tried[r]))
    BY <1>6 DEF Fail, Dead, Goto
  <2>2. p \notin Early  BY <2>1 DEF Early
  <2>3. \A q \in Requests : q # r => pc'[q] = pc[q]  BY <1>2, <2>1 DEF TypeOK
  <2>4. pc'[r] = p  BY <1>2, <2>1 DEF TypeOK
  <2>5. \A q \in Requests : stmt'[q] = stmt[q] /\ tried'[q] = tried[q]  BY <1>6
  <2>6. QED  BY <1>3, <2>1, <2>2, <2>3, <2>4, <2>5 DEF Onward, DropsOnce
<1>7. ASSUME NEW r \in Requests, Handle(r)  PROVE TwiceInv'
  <2>1. CASE Lock(r) \/ GetTrusted(r) \/ GetPinged(r)
    <3>1. UNCHANGED <<links, stmt, tried, ran>>  BY <2>1 DEF Lock, GetTrusted, GetPinged
    <3>2. \A q \in Requests : Onward(q)
      BY <1>2, <1>3, <2>1 DEF Lock, GetTrusted, GetPinged, Goto, Onward, DropsOnce, Early, TypeOK
    <3>3. QED  BY <1>2, <3>1, <3>2, TwiceQuiet
  <2>2. CASE GetDials(r)
    <3>1. UNCHANGED <<stmt, tried, ran>> /\ pc[r] = "get"  BY <2>2 DEF GetDials
    <3>2. CASE links' = Append(Closed(links, conn), NewLink) /\ Goto(r, "query")
      <4> DEFINE ls == Closed(links, conn)
      <4>1. /\ ls \in Seq(Link) /\ DOMAIN ls = DOMAIN links
            /\ \A d \in DOMAIN links : /\ ls[d].user = links[d].user
                                       /\ ls[d].n = links[d].n /\ ls[d].job = links[d].job
        BY <1>4, ClosedLinks
      <4>2. NewLink \in Link /\ NewLink.job # "sent"  BY StatementsAssumption DEF NewLink, Link
      <4> HIDE DEF ls
      <4>3. \A d \in DOMAIN Append(ls, NewLink) :
              \/ d \in DOMAIN ls /\ Append(ls, NewLink)[d] = ls[d]
              \/ Append(ls, NewLink)[d] = NewLink
        BY <4>1, <4>2, AppendLink
      <4>4. links' = Append(ls, NewLink)  BY <3>2 DEF ls
      <4>5. \A q \in Requests : Onward(q)
        BY <1>2, <1>3, <3>1, <3>2 DEF Goto, Onward, DropsOnce, Early, TypeOK
      <4>6. QED  BY <1>2, <3>1, <4>1, <4>2, <4>3, <4>4, <4>5, TwiceQuiet
    <3>3. CASE links' = Closed(links, conn) /\ Fail(r, IF cancelled[r] THEN "ctx" ELSE "dial")
      <4>1. \A q \in Requests : Onward(q)  BY <1>6, <3>1, <3>3
      <4>2. QED  BY <1>2, <1>4, <1>5, <3>1, <3>3, <4>1, TwiceQuiet
    <3>4. QED  BY <2>2, <3>2, <3>3 DEF GetDials
  <2>3. CASE Send(r)  BY <1>1, <2>3, TwiceSend
  <2>4. CASE Rejected(r)
    <3>1. PICK why : Dead(r, why)  BY <2>4 DEF Rejected
    <3>2. UNCHANGED <<links, stmt, tried, ran>>  BY <2>4 DEF Rejected
    <3>3. \A q \in Requests : Onward(q)  BY <1>6, <3>1, <3>2
    <3>4. QED  BY <1>2, <3>2, <3>3, TwiceQuiet
  <2>5. CASE Drop(r)
    <3>1. UNCHANGED <<stmt, ran>> /\ links' = Closed(links, conn)  BY <2>5 DEF Drop
    <3>2. \A q \in Requests : Onward(q)
      BY <1>2, <1>3, <2>5 DEF Drop, Goto, Onward, DropsOnce, Early, TypeOK
    <3>3. QED  BY <1>2, <1>4, <1>5, <3>1, <3>2, TwiceQuiet
  <2>6. CASE Reply(r)
    <3>1. UNCHANGED <<links, stmt, tried, ran>>  BY <2>6 DEF Reply
    <3>2. \A q \in Requests : Onward(q)
      BY <1>2, <1>3, <2>6 DEF Reply, Goto, Onward, DropsOnce, Early, TypeOK
    <3>3. QED  BY <1>2, <3>1, <3>2, TwiceQuiet
  <2>7. CASE ReplyLost(r) \/ Interrupted(r)
    <3>1. links' = Closed(links, using[r]) /\ UNCHANGED <<stmt, tried, ran>>
      BY <2>7 DEF ReplyLost, Interrupted
    <3>2. PICK why : Fail(r, why) \/ Dead(r, why)  BY <2>7 DEF ReplyLost, Interrupted
    <3>3. \A q \in Requests : Onward(q)  BY <1>6, <3>1, <3>2
    <3>4. QED  BY <1>2, <1>4, <1>5, <3>1, <3>3, TwiceQuiet
  <2>8. CASE StatementFails(r) \/ RowsEnd(r)
    <3>1. /\ pc[r] \in {"running", "rows"} /\ UNCHANGED ran
          /\ links' = [links EXCEPT ![using[r]].user = Free, ![using[r]].job = "none"]
      BY <2>8 DEF StatementFails, RowsEnd
    <3>2. using[r] \in DOMAIN links  BY <3>1 DEF IInv, HasLink
    <3>3. /\ DOMAIN links' = DOMAIN links /\ links'[using[r]].job = "none"
          /\ \A d \in DOMAIN links : d # using[r] => links'[d] = links[d]
      BY <1>2, <3>1, <3>2, FreedLinks
    <3>4. \A q \in Requests : Onward(q)
      <4>1. CASE StatementFails(r)  BY <1>6, <4>1 DEF StatementFails
      <4>2. CASE RowsEnd(r)
        <5>1. ASSUME NEW q \in Requests, q # r  PROVE Onward(q)
          BY SMTT(30), <1>2, <1>3, <4>2, <5>1 DEF RowsEnd, Goto, Onward, DropsOnce, TypeOK
        <5>2. CASE stmt[r] < Statements
          <6>1. /\ pc' = [pc EXCEPT ![r] = "get"] /\ stmt' = [stmt EXCEPT ![r] = @ + 1]
                /\ tried' = [tried EXCEPT ![r] = FALSE]
            BY <4>2, <5>2 DEF RowsEnd, Goto
          <6>2. stmt'[r] = stmt[r] + 1 /\ ~tried'[r] /\ pc'[r] = "get"  BY <1>2, <6>1 DEF TypeOK
          <6>3. QED  BY <5>1, <6>2 DEF Onward
        <5>3. CASE ~(stmt[r] < Statements)
          BY <1>2, <4>2, <5>1, <5>3 DEF RowsEnd, Goto, Onward, Early, TypeOK
        <5>4. QED  BY <5>2, <5>3
      <4>3. QED  BY <2>8, <4>1, <4>2
    <3>5. QED  BY <1>2, <3>1, <3>3, <3>4, TwiceQuiet
  <2>9. CASE RowsLost(r)
    <3>1. UNCHANGED <<stmt, tried, ran>>  BY <2>9 DEF RowsLost
    <3>2. PICK why : Fail(r, why)  BY <2>9 DEF RowsLost
    <3>3. \A q \in Requests : Onward(q)  BY <1>6, <3>1, <3>2
    <3> DEFINE ls == Closed(links, using[r])
    <3>4. /\ ls \in Seq(Link) /\ DOMAIN ls = DOMAIN links /\ Len(ls) = Len(links)
          /\ \A d \in DOMAIN links : /\ ls[d].user = links[d].user
                                     /\ ls[d].n = links[d].n /\ ls[d].job = links[d].job
      BY <1>4, ClosedLinks
    <3>5. links' = ls \/ links' = Closed(ls, conn)  BY <2>9 DEF RowsLost
    <3> HIDE DEF ls
    <3>6. /\ DOMAIN links' = DOMAIN links
          /\ \A d \in DOMAIN links : /\ links'[d].user = links[d].user
                                     /\ links'[d].n = links[d].n /\ links'[d].job = links[d].job
      BY <1>4, <3>4, <3>5, ClosedLinks
    <3>7. QED  BY <1>2, <3>1, <3>3, <3>6, TwiceQuiet
  <2>10. QED
    BY <1>7, <2>1, <2>2, <2>3, <2>4, <2>5, <2>6, <2>7, <2>8, <2>9 DEF Handle, Query
<1>8. ASSUME NEW c \in DOMAIN links, Lose(c)  PROVE TwiceInv'
  <2>1. links[c] \in Link  BY <1>4
  <2>2. /\ DOMAIN links' = DOMAIN links
        /\ links'[c].user = links[c].user /\ links'[c].n = links[c].n
        /\ links'[c].job \in {links[c].job, "none"}
        /\ \A d \in DOMAIN links : d # c => links'[d] = links[d]
    BY <1>4, <1>8, <2>1 DEF Lose, Link
  <2>3. UNCHANGED <<pc, stmt, tried, ran>>  BY <1>8 DEF Lose
  <2>4. \A q \in Requests : Onward(q)  BY <1>3, <2>3 DEF Onward, DropsOnce
  <2>5. QED  BY <1>2, <2>2, <2>3, <2>4, TwiceQuiet
<1>9. ASSUME UNCHANGED <<links, pc, stmt, tried, ran>>  PROVE TwiceInv'
  BY <1>9 DEF TwiceInv, DropsOnce, Counted, Pending, Tries
<1>10. CASE Close
  <2>1. UNCHANGED <<pc, stmt, tried, ran>> /\ links' = Closed(links, conn)  BY <1>10 DEF Close
  <2>2. \A q \in Requests : Onward(q)  BY <1>3, <2>1 DEF Onward, DropsOnce
  <2>3. QED  BY <1>2, <1>4, <1>5, <2>1, <2>2, TwiceQuiet
<1>11. ASSUME NEW r \in Requests, Cancel(r)  PROVE TwiceInv'  BY <1>9, <1>11 DEF Cancel
<1>12. ASSUME NEW c \in DOMAIN links, ServerRuns(c)  PROVE TwiceInv'  BY <1>1, <1>12, TwiceRuns
<1>13. CASE UNCHANGED vars  BY <1>9, <1>13 DEF vars
<1>14. QED
  BY <1>7, <1>8, <1>10, <1>11, <1>12, <1>13 DEF Next, AllEnded

LEMMA TwiceInit == Init => TwiceInv
<1> SUFFICES ASSUME Init, NEW r \in Requests, NEW n \in 1 .. Statements
             PROVE  DropsOnce(r) /\ Counted(r, n)
  BY StatementsAssumption DEF TwiceInv
<1>1. DropsOnce(r)  BY DEF Init, DropsOnce
<1>2. Pending(r, n) = {}  BY DEF Init, Pending, NewLink
<1>3. Cardinality(Pending(r, n)) = 0  BY <1>2, FS_EmptySet
<1>4. ran[r][n] = 0  BY DEF Init
<1>5. Tries(r, n) \in Nat  BY DEF Init, Tries, Early
<1>6. QED  BY <1>1, <1>3, <1>4, <1>5 DEF Counted

\* Query tries once more at most (pgdb.go): however links are lost and
\* requests are mixed, also those of two handlers on one connection, and
\* although a statement that was given up may still run later, no statement
\* of a request ever runs three times.
THEOREM OneRetry == Spec => []RunAtMostTwice
<1>1. IInv /\ TwiceInv => RunAtMostTwice
  <2> SUFFICES ASSUME IInv, TwiceInv, NEW r \in Requests, NEW n \in 1 .. Statements
               PROVE  ran[r][n] <= 2
    BY DEF RunAtMostTwice
  <2>1. Cardinality(Pending(r, n)) \in Nat  BY PendingFinite DEF IInv
  <2>2. ran[r] \in [1 .. Statements -> Nat]  BY DEF IInv, TypeOK
  <2>3. ran[r][n] \in Nat  BY <2>2
  <2>4. ran[r][n] + Cardinality(Pending(r, n)) <= Tries(r, n)  BY DEF TwiceInv, Counted
  <2>5. Tries(r, n) \in 0 .. 2  BY DEF Tries
  <2>6. QED  BY <2>1, <2>3, <2>4, <2>5
<1>2. QED  BY <1>1, InitInv, NextInv, TwiceInit, TwiceNext, PTL DEF Spec
-----------------------------------------------------------------------------
(* What a lost link does to a request.  First, for any number of mutexes:   *)
(* who holds a mutex and who is in pgx's books.                             *)

Active(r) == pc[r] \notin {"start"} \cup Ended

Holds(r) == Active(r) => mutex[LockOf[r]] = r

Busy == {"running", "rows"}

\* A connection that is not closed is only busy with a statement that runs.
Taken(c) == links[c].state # "closed" /\ links[c].user # Free =>
              pc[links[c].user] \in Busy /\ using[links[c].user] = c

HeldInv == /\ \A r \in Requests : Holds(r)
           /\ \A c \in DOMAIN links : Taken(c)

LEMMA HoldsStep ==
  ASSUME TypeOK, HeldInv, NEW r \in Requests,
         \A q \in Requests : q # r => pc'[q] = pc[q],
         \/ mutex' = mutex /\ (Active(r)' => Active(r))
         \/ mutex[LockOf[r]] = Free /\ mutex' = [mutex EXCEPT ![LockOf[r]] = r]
         \/ Active(r) /\ ~Active(r)' /\ mutex' = [mutex EXCEPT ![LockOf[r]] = Free]
  PROVE  \A q \in Requests : Holds(q)'
<1>1. \A q \in Requests : LockOf[q] \in Locks  BY DEF Locks
<1>2. SUFFICES ASSUME NEW q \in Requests, Active(q)'  PROVE mutex'[LockOf[q]] = q
  BY DEF Holds
<1>3. Active(q) \/ q = r  BY <1>2 DEF Active
<1>4. Active(q) => mutex[LockOf[q]] = q  BY DEF HeldInv, Holds
<1>5. q # Free /\ r # Free  BY FreeAssumption
<1>6. CASE mutex' = mutex /\ (Active(r)' => Active(r))  BY <1>2, <1>3, <1>4, <1>6
<1>7. CASE mutex[LockOf[r]] = Free /\ mutex' = [mutex EXCEPT ![LockOf[r]] = r]
  BY <1>1, <1>3, <1>4, <1>5, <1>7 DEF TypeOK
<1>8. CASE Active(r) /\ ~Active(r)' /\ mutex' = [mutex EXCEPT ![LockOf[r]] = Free]
  <2>1. q # r  BY <1>2, <1>8
  <2>2. mutex[LockOf[r]] = r  BY <1>8 DEF HeldInv, Holds
  <2>3. LockOf[q] # LockOf[r]  BY <1>3, <1>4, <2>1, <2>2
  <2>4. QED  BY <1>1, <1>3, <1>4, <1>8, <2>1, <2>3 DEF TypeOK
<1>9. QED  BY <1>6, <1>7, <1>8

\* Nobody takes a connection, and who lets go of one frees or closes it.
LEMMA TakenStep ==
  ASSUME TypeOK, TypeOK', HeldInv,
         \A c \in DOMAIN links' :
           \/ links'[c].user = Free \/ links'[c].state = "closed"
           \/ c \in DOMAIN links /\ links'[c].user = links[c].user /\ links[c].state # "closed",
         \A q \in Requests : pc[q] \in Busy =>
           \/ pc'[q] \in Busy /\ using'[q] = using[q]
           \/ links'[using[q]].user = Free \/ links'[using[q]].state = "closed"
  PROVE  \A c \in DOMAIN links' : Taken(c)'
<1> SUFFICES ASSUME NEW c \in DOMAIN links', links'[c].state # "closed", links'[c].user # Free
             PROVE  pc'[links'[c].user] \in Busy /\ using'[links'[c].user] = c
  BY DEF Taken
<1>1. c \in DOMAIN links /\ links'[c].user = links[c].user /\ links[c].state # "closed"
  OBVIOUS
<1>2. links[c] \in Link  BY <1>1 DEF TypeOK
<1>3. links[c].user \in Requests  BY <1>1, <1>2 DEF Link
<1>4. pc[links[c].user] \in Busy /\ using[links[c].user] = c  BY <1>1 DEF HeldInv, Taken
<1>5. QED  BY <1>1, <1>3, <1>4

LEMMA HeldHandle ==
  ASSUME IInv, IInv', HeldInv, NEW r \in Requests, Handle(r)
  PROVE  HeldInv'
<1>1. TypeOK /\ TypeOK'  BY DEF IInv
<1>2. links \in Seq(Link) /\ conn \in 0 .. Len(links) /\ using[r] \in 0 .. Len(links)
  BY <1>1 DEF TypeOK
<1>3. \A q \in Requests : q # r => pc'[q] = pc[q] /\ using'[q] = using[q]
  <2>1. CASE Lock(r) \/ GetTrusted(r) \/ GetPinged(r) \/ GetDials(r)
    BY <1>1, <2>1 DEF Lock, GetTrusted, GetPinged, GetDials, Fail, Goto, TypeOK
  <2>2. CASE Send(r) \/ Drop(r) \/ Reply(r) \/ RowsEnd(r)
    BY <1>1, <2>2 DEF Send, Drop, Reply, RowsEnd, Goto, TypeOK
  <2>3. CASE Rejected(r) \/ ReplyLost(r) \/ StatementFails(r) \/ RowsLost(r) \/ Interrupted(r)
    BY <1>1, <2>3 DEF Rejected, ReplyLost, StatementFails, RowsLost, Interrupted, Dead, Fail,
                      Goto, TypeOK
  <2>4. QED  BY <2>1, <2>2, <2>3 DEF Handle, Query
<1>4. \A q \in Requests : Holds(q)'
  <2>1. CASE Lock(r)
    BY <1>1, <1>3, <2>1, HoldsStep DEF Lock
  <2>2. CASE ~Lock(r)
    <3>1. Active(r)
      BY <2>2 DEF Handle, Query, GetTrusted, GetPinged, GetDials, Send, Rejected, Drop,
                  Reply, ReplyLost, StatementFails, RowsEnd, RowsLost, Interrupted, Active, Ended
    <3>2. \/ UNCHANGED mutex
          \/ \E why : Fail(r, why)
          \/ Goto(r, "done") /\ mutex' = [mutex EXCEPT ![LockOf[r]] = Free]
      BY <2>2 DEF Handle, Query, GetTrusted, GetPinged, GetDials, Send, Rejected, Drop,
                  Reply, ReplyLost, StatementFails, RowsEnd, RowsLost, Interrupted, Dead
    <3>3. CASE UNCHANGED mutex  BY <1>1, <1>3, <3>1, <3>3, HoldsStep
    <3>4. CASE pc' = [pc EXCEPT ![r] = "failed"] /\ mutex' = [mutex EXCEPT ![LockOf[r]] = Free]
      <4>1. ~Active(r)'  BY <1>1, <3>4 DEF Active, Ended, TypeOK
      <4>2. QED  BY <1>1, <1>3, <3>1, <3>4, <4>1, HoldsStep
    <3>5. CASE pc' = [pc EXCEPT ![r] = "done"] /\ mutex' = [mutex EXCEPT ![LockOf[r]] = Free]
      <4>1. ~Active(r)'  BY <1>1, <3>5 DEF Active, Ended, TypeOK
      <4>2. QED  BY <1>1, <1>3, <3>1, <3>5, <4>1, HoldsStep
    <3>6. QED  BY <3>2, <3>3, <3>4, <3>5 DEF Fail, Goto
  <2>3. QED  BY <2>1, <2>2
<1>5. \A c \in DOMAIN links' : Taken(c)'
  <2>1. CASE Lock(r) \/ GetTrusted(r) \/ GetPinged(r) \/ Rejected(r) \/ Reply(r)
    <3>1. UNCHANGED links  BY <2>1 DEF Lock, GetTrusted, GetPinged, Rejected, Reply
    <3>2. pc[r] \in Busy => pc'[r] \in Busy /\ using'[r] = using[r]
      BY <1>1, <2>1 DEF Lock, GetTrusted, GetPinged, Rejected, Reply, Goto, Busy, TypeOK
    <3>3. QED  BY <1>1, <1>3, <3>1, <3>2, TakenStep
  <2>2. CASE GetDials(r) \/ Drop(r)
    <3> DEFINE ls == Closed(links, conn)
    <3>1. pc[r] \notin Busy  BY <2>2 DEF GetDials, Drop, Busy
    <3>2. /\ ls \in Seq(Link) /\ DOMAIN ls = DOMAIN links
          /\ \A d \in DOMAIN links : /\ ls[d].user = links[d].user
                                     /\ links[d].state = "closed" => ls[d].state = "closed"
      BY <1>2, ClosedLinks
    <3>3. NewLink \in Link /\ NewLink.user = Free  BY StatementsAssumption DEF NewLink, Link
    <3> HIDE DEF ls
    <3>4. \A d \in DOMAIN Append(ls, NewLink) :
            \/ d \in DOMAIN ls /\ Append(ls, NewLink)[d] = ls[d]
            \/ Append(ls, NewLink)[d] = NewLink
      BY <3>2, <3>3, AppendLink
    <3>5. links' = ls \/ links' = Append(ls, NewLink)  BY <2>2 DEF GetDials, Drop, ls
    <3>6. QED  BY <1>1, <1>3, <3>1, <3>2, <3>3, <3>4, <3>5, TakenStep
  <2>3. CASE Send(r)
    <3>0. PICK c : c = using[r]  OBVIOUS
    <3>1. c \in DOMAIN links /\ links[c] \in Link  BY <1>2, <2>3, <3>0 DEF IInv, HasLink, Send
    <3>2. /\ pc[r] = "query" /\ links'[c].user = r /\ DOMAIN links' = DOMAIN links
          /\ \A d \in DOMAIN links : d # c => links'[d] = links[d]
      BY <2>3, <3>0, <3>1 DEF Send, Link
    <3>3. pc'[r] = "running" /\ UNCHANGED using  BY <1>1, <2>3 DEF Send, Goto, TypeOK
    <3>4. Taken(c)'  BY <3>0, <3>2, <3>3 DEF Taken, Busy
    <3>5. ASSUME NEW d \in DOMAIN links, d # c  PROVE Taken(d)'
      <4>1. Taken(d)  BY DEF HeldInv
      <4>2. links[d] \in Link  BY <1>2
      <4>3. QED  BY <1>3, <3>2, <3>3, <3>5, <4>1, <4>2 DEF Taken, Busy, Link
    <3>6. QED  BY <3>2, <3>4, <3>5
  <2>4. CASE StatementFails(r) \/ RowsEnd(r)
    <3>1. /\ pc[r] \in Busy
          /\ links' = [links EXCEPT ![using[r]].user = Free, ![using[r]].job = "none"]
      BY <2>4 DEF StatementFails, RowsEnd, Busy
    <3>2. using[r] \in DOMAIN links  BY <3>1 DEF IInv, HasLink, Busy
    <3>3. links[using[r]] \in Link  BY <1>2, <3>2
    <3>4. /\ DOMAIN links' = DOMAIN links /\ links'[using[r]].user = Free
          /\ \A d \in DOMAIN links : d # using[r] => links'[d] = links[d]
      BY <3>1, <3>2, <3>3 DEF Link
    <3>5. QED  BY <1>1, <1>3, <3>4, TakenStep
  <2>5. CASE ReplyLost(r) \/ RowsLost(r) \/ Interrupted(r)
    <3> DEFINE ls == Closed(links, using[r])
    <3>1. pc[r] \in Busy  BY <2>5 DEF ReplyLost, RowsLost, Interrupted, Busy
    <3>2. using[r] \in DOMAIN links /\ using[r] # 0  BY <1>2, <3>1 DEF IInv, HasLink, Busy
    <3>3. /\ ls \in Seq(Link) /\ DOMAIN ls = DOMAIN links /\ Len(ls) = Len(links)
          /\ ls[using[r]].state = "closed"
          /\ \A d \in DOMAIN links : /\ ls[d].user = links[d].user
                                     /\ links[d].state = "closed" => ls[d].state = "closed"
      BY <1>2, <3>2, ClosedLinks
    <3>4. links' = ls \/ links' = Closed(ls, conn)
      BY <2>5 DEF ReplyLost, RowsLost, Interrupted
    <3> HIDE DEF ls
    <3>5. /\ DOMAIN links' = DOMAIN links /\ links'[using[r]].state = "closed"
          /\ \A d \in DOMAIN links : /\ links'[d].user = links[d].user
                                     /\ links[d].state = "closed" => links'[d].state = "closed"
      <4>1. CASE links' = ls  BY <3>2, <3>3, <4>1
      <4>2. CASE links' = Closed(ls, conn)
        <5>1. /\ DOMAIN links' = DOMAIN ls
              /\ conn # 0 => links'[conn].state = "closed"
              /\ \A d \in DOMAIN ls : /\ links'[d].user = ls[d].user
                                      /\ d # conn => links'[d].state = ls[d].state
          BY SMTT(30), <1>2, <3>3, <4>2, ClosedLinks
        <5>2. \A d \in DOMAIN ls : ls[d].state = "closed" => links'[d].state = "closed"
          <6>1. 0 \notin DOMAIN ls  BY <3>3
          <6>2. QED  BY <5>1, <6>1
        <5>3. QED  BY <3>2, <3>3, <5>1, <5>2
      <4>3. QED  BY <3>4, <4>1, <4>2
    <3>6. QED  BY <1>1, <1>3, <3>5, TakenStep
  <2>6. QED  BY <2>1, <2>2, <2>3, <2>4, <2>5 DEF Handle, Query
<1>6. QED  BY <1>4, <1>5 DEF HeldInv

LEMMA HeldNext == IInv /\ HeldInv /\ [Next]_vars => HeldInv'
<1> SUFFICES ASSUME IInv, HeldInv, [Next]_vars PROVE HeldInv'  OBVIOUS
<1>1. IInv'  BY NextInv
<1>2. TypeOK /\ TypeOK'  BY <1>1 DEF IInv
<1>3. links \in Seq(Link) /\ conn \in 0 .. Len(links)  BY <1>2 DEF TypeOK
<1>4. ASSUME NEW r \in Requests, Handle(r)  PROVE HeldInv'  BY <1>1, <1>4, HeldHandle
<1>5. ASSUME UNCHANGED <<mutex, pc, using>>, DOMAIN links' = DOMAIN links,
             \A c \in DOMAIN links : /\ links'[c].user = links[c].user
                                     /\ links[c].state = "closed" => links'[c].state = "closed"
      PROVE  HeldInv'
  <2>1. \A r \in Requests : Holds(r)'  BY <1>5 DEF HeldInv, Holds, Active
  <2>2. \A c \in DOMAIN links' : Taken(c)'  BY <1>2, <1>5, TakenStep
  <2>3. QED  BY <2>1, <2>2 DEF HeldInv
<1>6. ASSUME NEW r \in Requests, Cancel(r)  PROVE HeldInv'  BY <1>5, <1>6 DEF Cancel
<1>7. ASSUME NEW c \in DOMAIN links, ServerRuns(c) \/ Lose(c)  PROVE HeldInv'
  <2>1. links[c] \in Link  BY <1>3
  <2>2. /\ DOMAIN links' = DOMAIN links
        /\ links'[c].user = links[c].user
        /\ links[c].state = "closed" => links'[c].state = "closed"
        /\ \A d \in DOMAIN links : d # c => links'[d] = links[d]
    BY <1>3, <1>7, <2>1 DEF ServerRuns, Lose, Link
  <2>3. UNCHANGED <<mutex, pc, using>>  BY <1>7 DEF ServerRuns, Lose
  <2>4. QED  BY <1>5, <2>2, <2>3
<1>8. CASE Close
  <2>1. UNCHANGED <<mutex, pc, using>> /\ links' = Closed(links, conn)  BY <1>8 DEF Close
  <2>2. /\ DOMAIN links' = DOMAIN links
        /\ \A d \in DOMAIN links : /\ links'[d].user = links[d].user
                                   /\ links[d].state = "closed" => links'[d].state = "closed"
    BY <1>3, <2>1, ClosedLinks
  <2>3. QED  BY <1>5, <2>1, <2>2
<1>9. CASE UNCHANGED vars  BY <1>5, <1>9 DEF vars
<1>10. QED  BY <1>4, <1>6, <1>7, <1>8, <1>9 DEF Next, AllEnded

LEMMA HeldInit == Init => HeldInv
BY DEF Init, HeldInv, Holds, Active, Taken, NewLink

\* Where a request stands whose link was not lost since it took its mutex:
\* its second connection, and one it pinged, are open, and so is one that
\* has replied.
Fresh(r) ==
  Active(r) /\ ~disturbed[r] =>
    /\ pc[r] = "get" /\ tried[r] => conn = 0
    /\ pc[r] \in {"query", "running", "rows"} =>
         /\ conn # 0 /\ using[r] = conn
         /\ tried[r] \/ pinged[r] \/ pc[r] = "rows" => links[conn].state = "open"

NotYet(r) == pc[r] = "start" => ~tried[r]

Healed(r) == pc[r] = "failed" =>
  \/ cause[r] \in {"sql", "dial"}
  \/ cause[r] = "ctx" /\ cancelled[r]
  \/ disturbed[r]
  \/ cause[r] = "timeout" /\ ~pinged[r]

FreshInv == \A r \in Requests : NotYet(r) /\ Fresh(r) /\ Healed(r)

OneMutex == \A r, q \in Requests : LockOf[r] = LockOf[q]

\* The request that moves is the only active one.
LEMMA FreshHandle ==
  ASSUME OneMutex, IInv, IInv', HeldInv, FreshInv, NEW r \in Requests, Handle(r)
  PROVE  FreshInv'
<1>1. TypeOK /\ TypeOK'  BY DEF IInv
<1>2. links \in Seq(Link) /\ conn \in 0 .. Len(links) /\ using[r] \in 0 .. Len(links)
  BY <1>1 DEF TypeOK
<1>3. \A q \in Requests : q # r => /\ pc'[q] = pc[q] /\ tried'[q] = tried[q]
                                   /\ cause'[q] = cause[q] /\ pinged'[q] = pinged[q]
                                   /\ disturbed'[q] = disturbed[q]
  <2>1. CASE Lock(r) \/ GetTrusted(r)
    BY <1>1, <2>1 DEF Lock, GetTrusted, Goto, TypeOK
  <2>2. CASE GetPinged(r)
    BY <1>1, <2>2 DEF GetPinged, Fail, Goto, TypeOK
  <2>3. CASE GetDials(r)
    BY <1>1, <2>3 DEF GetDials, Fail, Goto, TypeOK
  <2>4. CASE Send(r)
    BY <1>1, <2>4 DEF Send, Goto, TypeOK
  <2>5. CASE Drop(r)
    BY <1>1, <2>5 DEF Drop, Goto, TypeOK
  <2>6. CASE Reply(r)
    BY <1>1, <2>6 DEF Reply, Goto, TypeOK
  <2>7. CASE Rejected(r) \/ ReplyLost(r) \/ StatementFails(r) \/ RowsLost(r) \/ Interrupted(r)
    BY <1>1, <2>7 DEF Rejected, ReplyLost, StatementFails, RowsLost, Interrupted, Dead, Fail,
                      Goto, TypeOK
  <2>8. CASE RowsEnd(r)
    <3>1. PICK to : pc' = [pc EXCEPT ![r] = to]  BY <2>8 DEF RowsEnd, Goto
    <3>2. tried' = [tried EXCEPT ![r] = FALSE] \/ UNCHANGED tried  BY <2>8 DEF RowsEnd
    <3>3. UNCHANGED <<cause, pinged, disturbed>>  BY <2>8 DEF RowsEnd
    <3>4. QED  BY <1>1, <3>1, <3>2, <3>3 DEF TypeOK
  <2>9. QED  BY <2>1, <2>2, <2>3, <2>4, <2>5, <2>6, <2>7, <2>8 DEF Handle, Query
<1>4. UNCHANGED cancelled
  BY DEF Handle, Query, Lock, GetTrusted, GetPinged, GetDials, Send, Rejected, Drop,
         Reply, ReplyLost, StatementFails, RowsEnd, RowsLost, Interrupted
<1>5. \A q \in Requests : Active(q) => mutex[LockOf[q]] = q /\ LockOf[q] = LockOf[r]
  BY DEF HeldInv, Holds, OneMutex
<1>6. mutex[LockOf[r]] = Free \/ Active(r)
  BY DEF Handle, Query, Lock, GetTrusted, GetPinged, GetDials, Send, Rejected, Drop,
         Reply, ReplyLost, StatementFails, RowsEnd, RowsLost, Interrupted, Active, Ended
<1>7. \A q \in Requests : q # r => ~Active(q)  BY <1>5, <1>6, FreeAssumption
<1>8. ASSUME NEW q \in Requests, q # r  PROVE (NotYet(q) /\ Fresh(q) /\ Healed(q))'
  <2>1. NotYet(q) /\ Healed(q)  BY DEF FreshInv
  <2>2. ~Active(q)'  BY <1>3, <1>7, <1>8 DEF Active
  <2>3. QED  BY <1>3, <1>4, <1>8, <2>1, <2>2 DEF NotYet, Fresh, Healed
<1>9. NotYet(r) /\ Fresh(r) /\ Healed(r)  BY DEF FreshInv
<1>10. ASSUME NEW why, Fail(r, why), UNCHANGED <<disturbed, pinged>>,
              \/ why = "sql" \/ why = "dial"
              \/ why = "ctx" /\ cancelled[r]
              \/ disturbed[r]
              \/ why = "timeout" /\ ~pinged[r]
       PROVE  (NotYet(r) /\ Fresh(r) /\ Healed(r))'
  <2>1. pc'[r] = "failed" /\ cause'[r] = why  BY <1>1, <1>10 DEF Fail, Goto, TypeOK
  <2>2. QED  BY <1>4, <1>10, <2>1 DEF NotYet, Fresh, Healed, Active, Ended
<1>11. ASSUME Goto(r, "drop")  PROVE (NotYet(r) /\ Fresh(r) /\ Healed(r))'
  <2>1. pc'[r] = "drop"  BY <1>1, <1>11 DEF Goto, TypeOK
  <2>2. QED  BY <2>1 DEF NotYet, Fresh, Healed
\* A statement is never refused, nor its reply lost, on a second connection.
<1>12. pc[r] \in {"query", "running", "rows"} /\ ~disturbed[r] =>
         /\ conn # 0 /\ using[r] = conn
         /\ tried[r] \/ pinged[r] \/ pc[r] = "rows" => links[conn].state = "open"
  BY <1>9 DEF Fresh, Active, Ended
<1>13. CASE Lock(r)
  <2>1. pc'[r] = "get" /\ tried'[r] = tried[r] /\ pc[r] = "start"
    BY <1>1, <1>13 DEF Lock, Goto, TypeOK
  <2>2. ~tried'[r]  BY <1>9, <2>1 DEF NotYet
  <2>3. (NotYet(r) /\ Fresh(r) /\ Healed(r))'  BY <2>1, <2>2 DEF NotYet, Fresh, Healed
  <2>4. QED  BY <1>8, <2>3 DEF FreshInv
<1>14. CASE GetTrusted(r)
  <2>1. /\ pc[r] = "get" /\ pc'[r] = "query" /\ conn # 0 /\ conn' = conn /\ using'[r] = conn
        /\ ~pinged'[r] /\ tried'[r] = tried[r] /\ disturbed' = disturbed
    BY <1>1, <1>14 DEF GetTrusted, Goto, TypeOK
  <2>2. ~disturbed[r] => ~tried[r]  BY <1>9, <2>1 DEF Fresh, Active, Ended
  <2>3. (NotYet(r) /\ Fresh(r) /\ Healed(r))'  BY <2>1, <2>2 DEF NotYet, Fresh, Healed
  <2>4. QED  BY <1>8, <2>3 DEF FreshInv
<1>15. CASE GetPinged(r)
  <2>1. /\ pc'[r] = "query" /\ conn # 0 /\ conn' = conn /\ using'[r] = conn
        /\ links[conn].state = "open" /\ links' = links
    BY <1>1, <1>15 DEF GetPinged, Pingable, Goto, TypeOK
  <2>2. (NotYet(r) /\ Fresh(r) /\ Healed(r))'  BY <2>1 DEF NotYet, Fresh, Healed
  <2>3. QED  BY <1>8, <2>2 DEF FreshInv
<1>16. CASE GetDials(r)
  <2>1. CASE /\ links' = Append(Closed(links, conn), NewLink) /\ conn' = Len(links) + 1
             /\ using' = [using EXCEPT ![r] = conn'] /\ Goto(r, "query")
    <3> DEFINE ls == Closed(links, conn)
    <3>1. ls \in Seq(Link) /\ Len(ls) = Len(links)  BY <1>2, ClosedLinks
    <3>2. NewLink \in Link /\ NewLink.state = "open"  BY StatementsAssumption DEF NewLink, Link
    <3> HIDE DEF ls
    <3>3. Append(ls, NewLink)[Len(links) + 1] = NewLink  BY <3>1, <3>2, AppendLink
    <3>4. links'[conn'].state = "open" /\ conn' # 0  BY <1>2, <2>1, <3>2, <3>3 DEF ls
    <3>5. pc'[r] = "query" /\ using'[r] = conn'  BY <1>1, <2>1 DEF Goto, TypeOK
    <3>6. (NotYet(r) /\ Fresh(r) /\ Healed(r))'  BY <3>4, <3>5 DEF NotYet, Fresh, Healed
    <3>7. QED  BY <1>8, <3>6 DEF FreshInv
  <2>2. CASE Fail(r, IF cancelled[r] THEN "ctx" ELSE "dial") /\ UNCHANGED <<using, pinged>>
    <3>1. UNCHANGED <<disturbed, pinged>>  BY <1>16, <2>2 DEF GetDials
    <3>2. PICK why : why = IF cancelled[r] THEN "ctx" ELSE "dial"  OBVIOUS
    <3>3. Fail(r, why)  BY <2>2, <3>2
    <3>4. (NotYet(r) /\ Fresh(r) /\ Healed(r))'  BY <1>10, <3>1, <3>2, <3>3
    <3>5. QED  BY <1>8, <3>4 DEF FreshInv
  <2>3. QED  BY <1>16, <2>1, <2>2 DEF GetDials
<1>17. CASE Send(r)
  <2>1. using[r] \in DOMAIN links /\ links[using[r]] \in Link
    BY <1>2, <1>17 DEF IInv, HasLink, Send
  <2>2. /\ pc[r] = "query" /\ pc'[r] = "running"
        /\ UNCHANGED <<conn, using, tried, pinged, disturbed>>
        /\ links'[using[r]].state = links[using[r]].state
    BY <1>1, <1>17, <2>1 DEF Send, Goto, TypeOK, Link
  <2>3. (NotYet(r) /\ Fresh(r) /\ Healed(r))'
    BY <1>12, <2>2 DEF NotYet, Fresh, Healed
  <2>4. QED  BY <1>8, <2>3 DEF FreshInv
<1>18. CASE Rejected(r)
  <2>1. pc[r] = "query" /\ UNCHANGED <<disturbed, pinged>>  BY <1>18 DEF Rejected
  <2>2. using[r] \in DOMAIN links /\ links[using[r]] \in Link
    BY <1>2, <2>1 DEF IInv, HasLink
  <2>3. ~(links[using[r]].state # "closed" /\ links[using[r]].user # Free)
    <3>1. SUFFICES ASSUME links[using[r]].state # "closed", links[using[r]].user # Free
                   PROVE  FALSE
      OBVIOUS
    <3>2. links[using[r]].user \in Requests  BY <2>2, <3>1 DEF Link
    <3>3. pc[links[using[r]].user] \in Busy  BY <2>2, <3>1 DEF HeldInv, Taken
    <3>4. links[using[r]].user = r  BY <1>7, <3>2, <3>3 DEF Busy, Active, Ended
    <3>5. QED  BY <2>1, <3>3, <3>4 DEF Busy
  <2>4. PICK why : Dead(r, why) /\ (links[using[r]].state = "closed" \/ (why = "ctx" /\ cancelled[r]))
    BY <1>18, <2>3 DEF Rejected
  <2>5. CASE ~tried[r]
    <3>1. (NotYet(r) /\ Fresh(r) /\ Healed(r))'  BY <1>11, <2>4, <2>5 DEF Dead
    <3>2. QED  BY <1>8, <3>1 DEF FreshInv
  <2>6. CASE tried[r]
    <3>1. disturbed[r] \/ (why = "ctx" /\ cancelled[r])  BY <1>12, <2>1, <2>4, <2>6
    <3>2. (NotYet(r) /\ Fresh(r) /\ Healed(r))'  BY <1>10, <2>1, <2>4, <2>6, <3>1 DEF Dead
    <3>3. QED  BY <1>8, <3>2 DEF FreshInv
  <2>7. QED  BY <2>5, <2>6
<1>19. CASE Drop(r)
  <2>1. pc'[r] = "get" /\ conn' = 0  BY <1>1, <1>19 DEF Drop, Goto, TypeOK
  <2>2. (NotYet(r) /\ Fresh(r) /\ Healed(r))'  BY <2>1 DEF NotYet, Fresh, Healed
  <2>3. QED  BY <1>8, <2>2 DEF FreshInv
<1>20. CASE Reply(r)
  <2>1. /\ pc[r] = "running" /\ pc'[r] = "rows" /\ links[using[r]].state = "open"
        /\ UNCHANGED <<links, conn, using, disturbed>>
    BY <1>1, <1>20 DEF Reply, Goto, TypeOK
  <2>2. (NotYet(r) /\ Fresh(r) /\ Healed(r))'  BY <1>12, <2>1 DEF NotYet, Fresh, Healed
  <2>3. QED  BY <1>8, <2>2 DEF FreshInv
<1>21. CASE StatementFails(r)
  <2>1. Fail(r, "sql") /\ UNCHANGED <<disturbed, pinged>>  BY <1>21 DEF StatementFails
  <2>2. (NotYet(r) /\ Fresh(r) /\ Healed(r))'  BY <1>10, <2>1
  <2>3. QED  BY <1>8, <2>2 DEF FreshInv
<1>22. CASE RowsEnd(r)
  <2>1. \/ pc'[r] = "get" /\ ~tried'[r]
        \/ pc'[r] = "done"
    BY <1>1, <1>22 DEF RowsEnd, Goto, TypeOK
  <2>2. (NotYet(r) /\ Fresh(r) /\ Healed(r))'
    BY <2>1 DEF NotYet, Fresh, Healed, Active, Ended
  <2>3. QED  BY <1>8, <2>2 DEF FreshInv
<1>23. CASE ReplyLost(r)
  <2>1. /\ pc[r] = "running" /\ links[using[r]].state # "open"
        /\ UNCHANGED <<disturbed, pinged>>
    BY <1>23 DEF ReplyLost
  <2>2. disturbed[r] \/ (~tried[r] /\ ~pinged[r])  BY <1>12, <2>1
  <2>3. CASE links[using[r]].state = "silent" /\ Fail(r, "timeout")
    <3>1. (NotYet(r) /\ Fresh(r) /\ Healed(r))'  BY <1>10, <2>1, <2>2, <2>3
    <3>2. QED  BY <1>8, <3>1 DEF FreshInv
  <2>4. CASE Dead(r, "link") /\ tried[r]
    <3>1. (NotYet(r) /\ Fresh(r) /\ Healed(r))'  BY <1>10, <2>1, <2>2, <2>4 DEF Dead
    <3>2. QED  BY <1>8, <3>1 DEF FreshInv
  <2>5. CASE Dead(r, "link") /\ ~tried[r]
    <3>1. (NotYet(r) /\ Fresh(r) /\ Healed(r))'  BY <1>11, <2>5 DEF Dead
    <3>2. QED  BY <1>8, <3>1 DEF FreshInv
  <2>6. QED  BY <1>23, <2>3, <2>4, <2>5 DEF ReplyLost
<1>24. CASE RowsLost(r)
  <2>1. pc[r] = "rows" /\ links[using[r]].state # "open" /\ UNCHANGED <<disturbed, pinged>>
    BY <1>24 DEF RowsLost
  <2>2. disturbed[r]  BY <1>12, <2>1
  <2>3. PICK why : Fail(r, why)  BY <1>24 DEF RowsLost
  <2>4. (NotYet(r) /\ Fresh(r) /\ Healed(r))'  BY <1>10, <2>1, <2>2, <2>3
  <2>5. QED  BY <1>8, <2>4 DEF FreshInv
<1>25. CASE Interrupted(r)
  <2>1. Fail(r, "ctx") /\ cancelled[r] /\ UNCHANGED <<disturbed, pinged>>
    BY <1>25 DEF Interrupted
  <2>2. (NotYet(r) /\ Fresh(r) /\ Healed(r))'  BY <1>10, <2>1
  <2>3. QED  BY <1>8, <2>2 DEF FreshInv
<1>26. QED
  BY <1>13, <1>14, <1>15, <1>16, <1>17, <1>18, <1>19, <1>20, <1>21, <1>22, <1>23, <1>24, <1>25
  DEF Handle, Query

LEMMA FreshNext ==
  ASSUME OneMutex
  PROVE  IInv /\ HeldInv /\ FreshInv /\ [Next]_vars => FreshInv'
<1> SUFFICES ASSUME IInv, HeldInv, FreshInv, [Next]_vars PROVE FreshInv'  OBVIOUS
<1>1. IInv'  BY NextInv
<1>2. TypeOK /\ links \in Seq(Link)  BY DEF IInv, TypeOK
<1>3. ASSUME NEW r \in Requests, Handle(r)  PROVE FreshInv'  BY <1>1, <1>3, FreshHandle
<1>4. ASSUME UNCHANGED <<pc, tried, conn, using, pinged, cause>>,
             \A q \in Requests : cancelled[q] => cancelled'[q],
             \A q \in Requests :
               \/ disturbed'[q]
               \/ /\ disturbed'[q] = disturbed[q]
                  /\ conn # 0 => links'[conn].state = links[conn].state
      PROVE  FreshInv'
  <2>1. SUFFICES ASSUME NEW q \in Requests  PROVE (NotYet(q) /\ Fresh(q) /\ Healed(q))'
    BY DEF FreshInv
  <2>2. NotYet(q) /\ Fresh(q) /\ Healed(q)  BY DEF FreshInv
  <2>3. NotYet(q)'  BY <1>4, <2>2 DEF NotYet
  <2>4. Fresh(q)'  BY <1>4, <2>2 DEF Fresh, Active
  <2>5. Healed(q)'  BY <1>4, <2>2 DEF Healed
  <2>6. QED  BY <2>3, <2>4, <2>5
<1>5. ASSUME NEW r \in Requests, Cancel(r)  PROVE FreshInv'
  <2>1. \A q \in Requests : cancelled[q] => cancelled'[q]  BY <1>2, <1>5 DEF Cancel, TypeOK
  <2>2. UNCHANGED <<pc, tried, conn, using, pinged, cause, links, disturbed>>
    BY <1>5 DEF Cancel
  <2>3. QED  BY <1>4, <2>1, <2>2
<1>6. ASSUME NEW c \in DOMAIN links, ServerRuns(c)  PROVE FreshInv'
  <2>1. links[c] \in Link  BY <1>2
  <2>2. \A d \in DOMAIN links : links'[d].state = links[d].state
    BY <1>2, <1>6, <2>1 DEF ServerRuns, Link
  <2>3. conn # 0 => conn \in DOMAIN links  BY <1>2 DEF TypeOK
  <2>4. UNCHANGED <<pc, tried, conn, using, pinged, cause, cancelled, disturbed>>
    BY <1>6 DEF ServerRuns
  <2>5. QED  BY <1>4, <2>2, <2>3, <2>4
<1>7. ASSUME NEW c \in DOMAIN links, Lose(c)  PROVE FreshInv'
  <2>1. UNCHANGED <<pc, tried, using, pinged, cause, cancelled>> /\ \A q \in Requests : disturbed'[q]
    BY <1>7 DEF Lose
  <2>2. QED  BY <2>1 DEF FreshInv, NotYet, Fresh, Healed
<1>8. CASE Close
  <2>1. UNCHANGED <<pc, tried, using, pinged, cause, cancelled>> /\ \A q \in Requests : disturbed'[q]
    BY <1>8 DEF Close
  <2>2. QED  BY <2>1 DEF FreshInv, NotYet, Fresh, Healed
<1>9. CASE UNCHANGED vars  BY <1>9 DEF vars, FreshInv, NotYet, Fresh, Healed, Active
<1>10. QED  BY <1>3, <1>5, <1>6, <1>7, <1>8, <1>9 DEF Next, AllEnded

\* What pgdb promises, for the requests of one handler (with two, a request
\* can fail because the other handler closed its connection: see OneUser): a
\* link lost before the request took the mutex never fails it, and no request
\* fails for what another one did.
THEOREM LossHealed ==
  ASSUME OneMutex
  PROVE  Spec => []OldLossHealed
<1>1. Init => FreshInv
  BY DEF Init, FreshInv, NotYet, Fresh, Healed, Active
<1>2. IInv /\ HeldInv /\ FreshInv /\ [Next]_vars => FreshInv'  BY FreshNext
<1>3. FreshInv => OldLossHealed  BY DEF FreshInv, Healed, OldLossHealed
<1>4. QED  BY <1>1, <1>2, <1>3, InitInv, NextInv, HeldInit, HeldNext, PTL DEF Spec
=============================================================================
