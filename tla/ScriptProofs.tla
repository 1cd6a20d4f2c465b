---------------------------- MODULE ScriptProofs ----------------------------
(* Theorems about Script, for every text and every set of files: what       *)
(* \explain leaves behind, what the exit code tells, and that a block is    *)
(* all or nothing.  What a text is cut into does not matter for the first   *)
(* two; for the third, ScriptBlocks says where a block's writes stand.      *)
EXTENDS ScriptBlocks, FiniteSetTheorems, WellFoundedInduction, TLAPS

Over == {"next", "closing", "exited"}

Kinds == {"begin", "jev", "commit", "write", "create", "refused", "bad"}
NotSent == {"refused", "bad"}

\* Between statements Opts.Explain is what the command line says; during one,
\* \explain has kept that for when it ends.
ExplainInv ==
  /\ cfg \in BOOLEAN
  /\ DOMAIN current = DOMAIN NoStatement
  /\ pc \notin Over => current.kind \in Kinds
  /\ pc \notin Over \cup {"key", "parse"} => current.kind \notin NotSent
  /\ IF pc \in Over THEN explain = cfg
     ELSE IF current.explained THEN current.prev = cfg
     ELSE explain = cfg

\* The pile of scripts.
IsFrame(f) == DOMAIN f = {"items", "code"} /\ f.code \in {ExitOK, ExitSQL}
IsPile(s) ==
  /\ s \in Seq(ToSet(s)) /\ Len(s) >= 1
  /\ \A d \in 1 .. Len(s) : IsFrame(s[d])

\* The outermost script has met no error at TypeSafe, or it would have ended
\* there; its code so far is about the others.
SoFar == "api" \notin failed /\ (frames[1].code = ExitOK => failed = {})

ExitInv ==
  /\ IsPile(frames)
  /\ exit = -1 <=> pc \notin {"closing", "exited"}
  /\ exit = -1 /\ ~prompt => SoFar
  /\ ExitTells
-----------------------------------------------------------------------------
\* Where a return leads: to the next item of a script, or to Main.
LEMMA LeaveLeads == ASSUME NEW code, Leave(code) PROVE pc' \in Over
BY DEF Leave, Over

LEMMA GoOnLeads == ASSUME NEW how, GoOn(how) PROVE pc' \in Over
BY DEF GoOn, Over

\* A statement that ends restores Opts.Explain, whatever happened to it.
LEMMA EndRestores ==
  ASSUME ExplainInv, pc \notin Over, cfg' = cfg, NEW how, StatementEnds(how)
  PROVE  ExplainInv'
<1>1. current' = NoStatement
  BY DEF StatementEnds
<1>2. pc' \in Over
  BY LeaveLeads, GoOnLeads DEF StatementEnds
<1>3. explain' = cfg
  BY DEF StatementEnds, ExplainInv
<1> QED BY <1>1, <1>2, <1>3 DEF ExplainInv

LEMMA KindOf == ASSUME NEW text PROVE Kind(text) \in Kinds
BY DEF Kind, Kinds

\* A statement that starts asks for the key or is parsed.
LEMMA StartWhere ==
  ASSUME NEW text, NEW explained, Start(text, explained)
  PROVE  (pc' = "key" /\ Kind(text) \in {"jev", "refused"}) \/ pc' = "parse"
BY DEF Start

\* A statement that starts notes what it will restore.
LEMMA StartNotes ==
  ASSUME ExplainInv, pc \in Over, NEW text, NEW explained \in BOOLEAN, Start(text, explained)
  PROVE  ExplainInv'
<1>1. /\ DOMAIN current' = DOMAIN NoStatement /\ current'.kind \in Kinds
      /\ current'.explained = explained /\ current'.prev = explain
      /\ explain' = (explain \/ explained) /\ cfg' = cfg
  BY KindOf DEF Start, NoStatement
<1>2. pc' \in {"key", "parse"}
  BY StartWhere
<1>3. explain = cfg
  BY DEF ExplainInv
<1> QED BY <1>1, <1>2, <1>3 DEF ExplainInv, Over

LEMMA ExplainStep ==
  ASSUME ExplainInv, Next
  PROVE  ExplainInv'
<1>1. CASE UNCHANGED <<pc, current, explain, cfg>>
  BY <1>1 DEF ExplainInv
<1>2. CASE pc \in Over /\ pc' \in Over /\ UNCHANGED <<current, explain, cfg>>
  BY <1>2 DEF ExplainInv
<1>3. CASE /\ pc \notin Over /\ pc' \notin Over /\ UNCHANGED <<current, explain, cfg>>
           /\ pc \in {"key", "parse"} => pc' \in {"key", "parse"} \/ current.kind \notin NotSent
  BY <1>3 DEF ExplainInv
<1>4. CASE pc \notin Over /\ UNCHANGED cfg /\ \E how : StatementEnds(how)
  BY <1>4, EndRestores
<1>5. CASE ScriptEnds \/ ScriptCancelled \/ Quit
  BY <1>2, <1>5, LeaveLeads DEF ScriptEnds, ScriptCancelled, Quit, ItemReady, Over
<1>6. CASE Include \/ MetaFails \/ SetKey
  BY <1>1, <1>6 DEF Include, MetaFails, SetKey
<1>7. CASE StartStatement \/ StartExplain
  <2>1. pc \in Over
    BY <1>7 DEF StartStatement, StartExplain, ItemReady, Over
  <2>2. CASE StartStatement
    <3>1. Start(Item, FALSE)
      BY <2>2 DEF StartStatement
    <3> QED BY <2>1, <3>1, StartNotes
  <2>3. CASE StartExplain
    <3>1. Start(Tail(Item), TRUE)
      BY <2>3 DEF StartExplain
    <3> QED BY <2>1, <3>1, StartNotes
  <2> QED BY <1>7, <2>2, <2>3
<1>8. CASE AskKey
  BY <1>3, <1>4, <1>8 DEF AskKey, Over
<1>9. CASE Parse
  BY <1>3, <1>4, <1>9 DEF Parse, Over, NotSent
<1>10. CASE Redial
  BY <1>1, <1>4, <1>10 DEF Redial, Over
<1>11. CASE Send
  BY <1>3, <1>11 DEF Send, Over
<1>12. CASE Execute
  <2>1. PICK ok : current' = [current EXCEPT !.ok = ok]
    <3>1. current.kind \in Kinds \ NotSent
      BY <1>12 DEF Execute, ExplainInv, Over
    <3>2. tx = "failed" \/ tx # "failed"
      OBVIOUS
    <3> QED BY <1>12, <3>1, <3>2 DEF Execute, Kinds, NotSent
  <2>2. pc = "running" /\ pc' = "ran" /\ UNCHANGED <<explain, cfg>>
    BY <1>12 DEF Execute, Over
  <2>3. /\ DOMAIN current' = DOMAIN current
        /\ current'.explained = current.explained /\ current'.prev = current.prev
        /\ current'.kind = current.kind
    BY <2>1 DEF ExplainInv, NoStatement
  <2> QED BY <2>2, <2>3 DEF ExplainInv, Over
<1>13. CASE Reply
  BY <1>3, <1>4, <1>13 DEF Reply, Over
<1>14. CASE ReplyLost
  BY <1>3, <1>4, <1>14 DEF ReplyLost, Over
<1>15. CASE Interrupted
  BY <1>4, <1>15 DEF Interrupted, Over
<1>16. CASE Judged
  BY <1>4, <1>16 DEF Judged, Over
<1>17. CASE Close
  BY <1>2, <1>17 DEF Close, Over
<1>18. CASE Signal \/ Lose
  BY <1>1, <1>18 DEF Signal, Lose
<1>19. CASE Exited
  BY <1>1, <1>19 DEF Exited, vars
<1> QED
  BY <1>5, <1>6, <1>7, <1>8, <1>9, <1>10, <1>11, <1>12, <1>13, <1>14, <1>15, <1>16, <1>17,
     <1>18, <1>19
  DEF Next, Loop, RunStatement

\* The invariant holds.
LEMMA ExplainHolds == Spec => []ExplainInv
<1>1. Init => ExplainInv
  BY DEF Init, ExplainInv, NoStatement, Over
<1>2. ExplainInv /\ [Next]_vars => ExplainInv'
  BY ExplainStep DEF vars, ExplainInv
<1> QED BY <1>1, <1>2, PTL DEF Spec

\* \explain is for its own statement, whatever happens to that: refused by the
\* parser, without a key, failed, interrupted, or with its link lost.
THEOREM ExplainPutBack == Spec => []ExplainForOne
<1>1. ExplainInv => ExplainForOne
  BY DEF ExplainInv, ExplainForOne, Over
<1> QED BY <1>1, ExplainHolds, PTL
-----------------------------------------------------------------------------
\* The pile of scripts: one is finished, one goes on, one is included.
LEMMA OwnSet == ASSUME NEW S, NEW t \in Seq(S) PROVE t \in Seq(ToSet(t))
BY DEF ToSet

LEMMA Pop ==
  ASSUME NEW s, IsPile(s), Len(s) > 1
  PROVE  IsPile(Front(s)) /\ Front(s)[1] = s[1]
<1> DEFINE t == Front(s)
<1>1. t \in Seq(ToSet(s)) /\ Len(t) = Len(s) - 1 /\ \A d \in 1 .. Len(t) : t[d] = s[d]
  BY DEF Front, IsPile
<1>2. t \in Seq(ToSet(t))
  BY <1>1, OwnSet
<1> QED BY <1>1, <1>2 DEF IsPile

LEMMA Push ==
  ASSUME NEW s, IsPile(s), NEW f, IsFrame(f)
  PROVE  IsPile(Append(s, f)) /\ Append(s, f)[1] = s[1]
<1> DEFINE t == Append(s, f)
<1>1. s \in Seq(ToSet(s) \cup {f})
  BY DEF IsPile
<1>2. t \in Seq(ToSet(s) \cup {f}) /\ Len(t) = Len(s) + 1 /\ t[Len(t)] = f
      /\ \A d \in 1 .. Len(s) : t[d] = s[d]
  BY <1>1
<1>3. t \in Seq(ToSet(t))
  BY <1>2, OwnSet
<1>4. Len(s) \in Nat /\ Len(s) >= 1
  BY DEF IsPile
<1> QED BY <1>2, <1>3, <1>4 DEF IsPile

Changed(s, f) == [s EXCEPT ![Len(s)] = f]

LEMMA Turn ==
  ASSUME NEW s, IsPile(s), NEW f, IsFrame(f)
  PROVE  /\ IsPile(Changed(s, f)) /\ Len(Changed(s, f)) = Len(s)
         /\ Changed(s, f)[Len(s)] = f
         /\ Len(s) > 1 => Changed(s, f)[1] = s[1]
<1> DEFINE t == Changed(s, f)
<1>1. s \in Seq(ToSet(s) \cup {f}) /\ Len(s) \in Nat /\ Len(s) >= 1
  BY DEF IsPile
<1>2. t \in Seq(ToSet(s) \cup {f}) /\ Len(t) = Len(s) /\ t[Len(t)] = f
      /\ \A d \in 1 .. Len(s) - 1 : t[d] = s[d]
  BY <1>1 DEF Changed
<1> HIDE DEF t
<1>3. t \in Seq(ToSet(t))
  BY <1>2, OwnSet
<1>4. IsPile(t) /\ Len(t) = Len(s) /\ t[Len(s)] = f /\ (Len(s) > 1 => t[1] = s[1])
  BY <1>1, <1>2, <1>3 DEF IsPile
<1> QED BY <1>4 DEF t

Recoded(s, code) == [s EXCEPT ![Len(s)].code = code]

LEMMA TurnCode ==
  ASSUME NEW s, IsPile(s), NEW code \in {ExitOK, ExitSQL}
  PROVE  /\ IsPile(Recoded(s, code)) /\ Len(Recoded(s, code)) = Len(s)
         /\ Recoded(s, code)[Len(s)].code = code
         /\ Len(s) > 1 => Recoded(s, code)[1] = s[1]
<1>1. IsFrame(s[Len(s)])
  BY DEF IsPile
<1>2. PICK f : f = [s[Len(s)] EXCEPT !.code = code]
  OBVIOUS
<1>3. IsFrame(f) /\ f.code = code
  BY <1>1, <1>2 DEF IsFrame
<1>4. Recoded(s, code) = Changed(s, f)
  BY <1>2 DEF Changed, Recoded
<1> QED BY <1>3, <1>4, Turn

\* An item is taken from the script at hand.
LEMMA TakenKeeps ==
  ASSUME IsPile(frames)
  PROVE  /\ IsPile(Taken) /\ Len(Taken) = Depth /\ Taken[Depth].code = Top.code
         /\ Taken[1].code = frames[1].code
<1>1. IsFrame(frames[Depth]) /\ Depth \in Nat /\ Depth >= 1
  BY DEF IsPile, Depth
<1>2. PICK f : f = [frames[Depth] EXCEPT !.items = Tail(frames[Depth].items)]
  OBVIOUS
<1>3. IsFrame(f) /\ f.code = frames[Depth].code
  BY <1>1, <1>2 DEF IsFrame
<1>4. PICK t : t = Changed(frames, f)
  OBVIOUS
<1>5. Taken = t
  BY <1>2, <1>4 DEF Taken, Changed, Depth
<1>6. IsPile(t) /\ Len(t) = Depth /\ t[Len(t)] = f /\ (Depth > 1 => t[1] = frames[1])
  <2>1. Len(frames) = Depth
    BY DEF Depth
  <2> QED BY <1>3, <1>4, <2>1, Turn
<1> QED BY <1>1, <1>3, <1>5, <1>6 DEF Top

\* The errors of a script that is included are not in its own account.
LEMMA LeaveTells ==
  ASSUME ExitInv, exit = -1, NEW code \in {ExitOK, ExitSQL, ExitAPI}, Leave(code),
         prompt' = prompt,
         Depth > 1 => failed' = failed,
         Depth = 1 /\ ~prompt => /\ code = ExitOK => failed' = {}
                                 /\ code = ExitAPI <=> "api" \in failed'
  PROVE  ExitInv'
<1>1. Depth \in Nat /\ Depth >= 1
  BY DEF ExitInv, IsPile, Depth
<1>2. CASE Depth > 1
  <2>1. frames' = Front(frames) /\ pc' = "next" /\ exit' = exit /\ failed' = failed
    BY <1>2 DEF Leave
  <2>2. IsPile(frames)
    BY DEF ExitInv
  <2>3. IsPile(frames') /\ frames'[1] = frames[1]
    BY <1>2, <2>1, <2>2, Pop DEF Depth
  <2>4. ~prompt => SoFar
    BY DEF ExitInv
  <2> QED BY <2>1, <2>3, <2>4 DEF ExitInv, SoFar, ExitTells
<1>3. CASE Depth = 1
  <2>1. /\ frames' = frames /\ pc' = "closing"
        /\ exit' = IF prompt THEN ExitOK ELSE code
    BY <1>3 DEF Leave
  <2> QED BY <1>3, <2>1 DEF ExitInv, ExitTells, ExitOK, ExitSQL, ExitAPI
<1> QED BY <1>1, <1>2, <1>3

LEMMA GoOnTells ==
  ASSUME ExitInv, exit = -1, NEW how, GoOn(how), prompt' = prompt,
         ~prompt => "api" \notin failed',
         ~prompt /\ failed' # failed => Depth = 1 /\ how # "ok"
  PROVE  ExitInv'
<1>1. Depth \in Nat /\ Depth >= 1 /\ IsPile(frames) /\ Top.code \in {ExitOK, ExitSQL}
  BY DEF ExitInv, IsPile, IsFrame, Depth, Top
<1>2. PICK c : c = IF how = "ok" THEN Top.code ELSE ExitSQL
  OBVIOUS
<1>3. Worse(Top.code, ExitSQL) = ExitSQL
  BY <1>1 DEF Worse, ExitOK, ExitSQL
<1>4. frames' = Recoded(frames, c)
  BY <1>2, <1>3 DEF GoOn, Recoded, Depth, Top
<1>5. c \in {ExitOK, ExitSQL}
  BY <1>1, <1>2
<1>6. /\ IsPile(frames') /\ frames'[Depth].code = c
      /\ Depth > 1 => frames'[1] = frames[1]
  BY <1>1, <1>4, <1>5, TurnCode DEF Depth
<1>7. pc' = "next" /\ exit' = -1
  BY DEF GoOn
<1>8. ~prompt => SoFar'
  <2> SUFFICES ASSUME ~prompt, frames'[1].code = ExitOK PROVE failed' = {}
    BY DEF SoFar
  <2>1. SoFar
    BY DEF ExitInv
  <2>2. CASE Depth > 1
    BY <1>6, <2>1, <2>2 DEF SoFar
  <2>3. CASE Depth = 1
    <3>1. c = ExitOK
      BY <1>6, <2>3
    <3>2. how = "ok" /\ Top.code = ExitOK
      BY <1>2, <3>1 DEF ExitOK, ExitSQL
    <3>3. failed' = failed
      BY <3>2
    <3> QED BY <2>1, <2>3, <3>2, <3>3 DEF SoFar, Top
  <2> QED BY <1>1, <2>2, <2>3
<1> QED BY <1>6, <1>7, <1>8 DEF ExitInv, ExitTells

\* A statement that ends, well or not, is in the account or in nobody's.
LEMMA EndTells ==
  ASSUME ExitInv, exit = -1, NEW how \in {"ok", "sql", "api"}, StatementEnds(how),
         prompt' = prompt
  PROVE  ExitInv'
<1>1. ~prompt => "api" \notin failed
  BY DEF ExitInv, SoFar
<1>2. CASE current.explained
  <2>1. GoOn("ok") /\ failed' = failed
    BY <1>2 DEF StatementEnds, history
  <2> QED BY <1>1, <2>1, GoOnTells
<1>3. CASE ~current.explained /\ how = "api" /\ ~InPrompt
  <2>1. Leave(ExitAPI) /\ Note("api")
    BY <1>3 DEF StatementEnds
  <2>2. /\ Depth > 1 => failed' = failed
        /\ Depth = 1 => "api" \in failed'
    BY <2>1 DEF Note
  <2> QED BY <2>1, <2>2, LeaveTells DEF ExitOK, ExitAPI
<1>4. CASE ~current.explained /\ ~(how = "api" /\ ~InPrompt)
  <2>1. GoOn(how) /\ Note(how)
    BY <1>4 DEF StatementEnds
  <2>2. ~prompt => how # "api"
    BY <1>4 DEF InPrompt
  <2>3. Depth >= 1 /\ Depth \in Nat
    BY DEF ExitInv, IsPile, Depth
  <2>4. /\ ~prompt => "api" \notin failed'
        /\ failed' # failed => Depth = 1 /\ how # "ok"
    BY <1>1, <2>1, <2>2, <2>3 DEF Note
  <2> QED BY <2>1, <2>4, GoOnTells
<1> QED BY <1>2, <1>3, <1>4

LEMMA Stays ==
  ASSUME ExitInv, UNCHANGED <<frames, exit, failed, prompt>>,
         pc \in {"closing", "exited"} <=> pc' \in {"closing", "exited"}
  PROVE  ExitInv'
BY DEF ExitInv, ExitTells, SoFar

\* An item is taken, and a script included if it says so.
LEMMA TakenTells ==
  ASSUME ExitInv, exit = -1, UNCHANGED <<exit, failed, prompt>>,
         pc' \notin {"closing", "exited"},
         \/ frames' = Taken
         \/ \E items : frames' = Append(Taken, Frame(items))
  PROVE  ExitInv'
<1>1. PICK t : t = Taken
  OBVIOUS
<1>2. IsPile(t) /\ t[1].code = frames[1].code
  BY <1>1, TakenKeeps DEF ExitInv
<1>3. IsPile(frames') /\ frames'[1].code = t[1].code
  <2>1. CASE frames' = Taken
    BY <1>1, <1>2, <2>1
  <2>2. CASE \E items : frames' = Append(Taken, Frame(items))
    <3>1. PICK items : frames' = Append(t, Frame(items))
      BY <1>1, <2>2
    <3>2. IsFrame(Frame(items))
      BY DEF IsFrame, Frame
    <3> QED BY <1>2, <3>1, <3>2, Push
  <2> QED BY <2>1, <2>2
<1> QED BY <1>2, <1>3 DEF ExitInv, SoFar, ExitTells

\* A meta command that fails counts as an SQL error.
LEMMA MetaFailsTells == ASSUME ExitInv, MetaFails PROVE ExitInv'
<1>1. PICK t : t = Taken
  OBVIOUS
<1>2. IsPile(t) /\ Len(t) = Depth
  BY <1>1, TakenKeeps DEF ExitInv
<1>3. frames' = Recoded(t, ExitSQL)
  BY <1>1, <1>2 DEF MetaFails, Recoded
<1>4. /\ IsPile(frames') /\ frames'[Depth].code = ExitSQL
      /\ Depth > 1 => frames'[1] = t[1]
  BY <1>2, <1>3, TurnCode
<1>5. pc' = pc /\ exit' = exit /\ prompt' = prompt /\ Note("sql") /\ pc = "next"
  BY DEF MetaFails, ItemReady
<1>6. Depth \in Nat /\ Depth >= 1 /\ t[1].code = frames[1].code
  BY <1>1, TakenKeeps DEF ExitInv, IsPile, Depth
<1>7. exit = -1 /\ (~prompt => SoFar)
  BY <1>5 DEF ExitInv
<1>8. ~prompt => SoFar'
  BY <1>4, <1>5, <1>6, <1>7 DEF SoFar, Note, ExitOK, ExitSQL
<1> QED BY <1>4, <1>5, <1>7, <1>8 DEF ExitInv, ExitTells

\* A script returns: at its end, at \q, or because it was cancelled.
LEMMA ReturnTells ==
  ASSUME ExitInv, exit = -1, Leave(Top.code) \/ Leave(ExitSQL), UNCHANGED <<prompt, failed>>
  PROVE  ExitInv'
<1>1. PICK code : code \in {Top.code, ExitSQL} /\ Leave(code)
  OBVIOUS
<1>2. code \in {ExitOK, ExitSQL} /\ Depth >= 1 /\ Depth \in Nat
  BY <1>1 DEF ExitInv, IsPile, IsFrame, Depth, Top
<1>3. Depth = 1 /\ ~prompt => /\ code = ExitOK => failed' = {}
                              /\ code = ExitAPI <=> "api" \in failed'
  BY <1>1, <1>2 DEF ExitInv, SoFar, Top, ExitOK, ExitSQL, ExitAPI
<1>4. code \in {ExitOK, ExitSQL, ExitAPI} /\ Leave(code) /\ prompt' = prompt /\ failed' = failed
  BY <1>1, <1>2
<1>5. Depth > 1 => failed' = failed
  BY <1>4
<1> QED BY <1>3, <1>4, <1>5, LeaveTells

LEMMA ExitStep == ASSUME ExitInv, Next PROVE ExitInv'
<1> DEFINE Open == pc \notin {"closing", "exited"}
<1>0. Open => exit = -1
  BY DEF ExitInv
<1>1. CASE /\ UNCHANGED <<frames, exit, failed, prompt>>
           /\ pc' = pc \/ (Open /\ pc' \notin {"closing", "exited"})
  BY <1>1, Stays
<1>2. CASE Open /\ UNCHANGED prompt /\ \E how \in {"ok", "sql", "api"} : StatementEnds(how)
  BY <1>0, <1>2, EndTells
<1>3. CASE ScriptEnds \/ ScriptCancelled \/ Quit
  BY <1>0, <1>3, ReturnTells DEF ScriptEnds, ScriptCancelled, Quit, ItemReady, history
<1>4. CASE Include
  <2>1. frames' = Append(Taken, Frame(SplitScript(Files[Item[2]])))
    BY <1>4 DEF Include
  <2>2. Open /\ UNCHANGED <<exit, failed, prompt, pc>>
    BY <1>4 DEF Include, ItemReady, history
  <2> QED BY <1>0, <2>1, <2>2, TakenTells
<1>5. CASE MetaFails
  BY <1>5, MetaFailsTells
<1>6. CASE SetKey
  BY <1>0, <1>6, TakenTells DEF SetKey, ItemReady, history
<1>7. CASE StartStatement \/ StartExplain
  <2>1. PICK text : Start(text, FALSE) \/ Start(text, TRUE)
    BY <1>7 DEF StartStatement, StartExplain
  <2>2. Open
    BY <1>7 DEF StartStatement, StartExplain, ItemReady
  <2>3. /\ frames' = Taken /\ UNCHANGED <<exit, failed, prompt>>
        /\ pc' \notin {"closing", "exited"}
    BY <2>1, StartWhere DEF Start, history
  <2> QED BY <1>0, <2>2, <2>3, TakenTells
<1>8. CASE AskKey
  BY <1>1, <1>2, <1>8 DEF AskKey, history
<1>9. CASE Parse
  BY <1>1, <1>2, <1>9 DEF Parse, history
<1>10. CASE Redial
  BY <1>1, <1>2, <1>10 DEF Redial, history
<1>11. CASE Send
  BY <1>1, <1>11 DEF Send, history
<1>12. CASE Execute
  BY <1>1, <1>12 DEF Execute, history
<1>13. CASE Reply
  BY <1>1, <1>2, <1>13 DEF Reply, history
<1>14. CASE ReplyLost
  BY <1>1, <1>2, <1>14 DEF ReplyLost, history
<1>15. CASE Interrupted
  BY <1>2, <1>15 DEF Interrupted, history
<1>16. CASE Judged
  BY <1>2, <1>16 DEF Judged, history
<1>17. CASE Close
  <2>1. /\ UNCHANGED <<frames, exit, failed, prompt>>
        /\ pc \in {"closing", "exited"} /\ pc' \in {"closing", "exited"}
    BY <1>17 DEF Close, history
  <2> QED BY <2>1, Stays
<1>18. CASE Signal \/ Lose
  BY <1>1, <1>18 DEF Signal, Lose, history
<1>19. CASE Exited
  BY <1>1, <1>19 DEF Exited, vars, history
<1> QED
  BY <1>3, <1>4, <1>5, <1>6, <1>7, <1>8, <1>9, <1>10, <1>11, <1>12, <1>13, <1>14, <1>15,
     <1>16, <1>17, <1>18, <1>19
  DEF Next, Loop, RunStatement

\* The invariant holds.
LEMMA ExitHolds == Spec => []ExitInv
<1>1. Init => ExitInv
  <2> SUFFICES ASSUME Init PROVE ExitInv
    OBVIOUS
  <2>1. PICK items : frames = <<Frame(items)>>
    BY DEF Init
  <2>2. frames \in Seq({Frame(items)}) /\ Len(frames) = 1 /\ frames[1] = Frame(items)
    BY <2>1
  <2>3. frames \in Seq(ToSet(frames))
    BY <2>2, OwnSet
  <2>4. IsPile(frames)
    BY <2>2, <2>3 DEF IsPile, IsFrame, Frame
  <2> QED BY <2>4 DEF Init, ExitInv, SoFar, ExitTells
<1>2. ExitInv /\ [Next]_vars => ExitInv'
  BY ExitStep, Stays DEF vars, history
<1> QED BY <1>1, <1>2, PTL DEF Spec


\* What the exit code says of the statements of the script is so, however they
\* end and whatever the scripts it includes do: 0 says that none failed, 2 that
\* one failed at TypeSafe, at a budget or for want of a key.
THEOREM ExitCodeTells == Spec => []ExitTells
<1>1. ExitInv => ExitTells
  BY DEF ExitInv
<1> QED BY <1>1, ExitHolds, PTL
-----------------------------------------------------------------------------
\* The last item of a transaction whose body has begun, and what is left of it.
Inside(items, b, todo) ==
  /\ IsList(items)
  /\ \E j \in 1 .. Len(items) : Body(items, b, todo, 0, j)

NotRun == {"parse", "send", "running"}

\* Where the block is in a pile of scripts: in none of them, ahead in one, or
\* begun in the one at hand.
AllCalm(s, b) == \A d \in 1 .. Len(s) : Calm(s[d].items, b, Quiet(b))
OneComing(s, b) ==
  \E h \in 1 .. Len(s) :
    /\ Ahead(s[h].items, b) \/ Through(s[h].items, b, Holders(b))
    /\ \A d \in 1 .. Len(s) : d # h => Calm(s[d].items, b, Quiet(b))
Amid(s, b, todo) ==
  /\ Inside(s[Len(s)].items, b, todo)
  /\ \A d \in 1 .. Len(s) - 1 : Calm(s[d].items, b, Quiet(b))

CurrentSilent(b) == pc \notin Over => ~(current.kind = "write" /\ current.word \in b)
Even(b) == \A v, w \in b : committed[v] = committed[w] /\ committed[v] <= 1
NoneCommitted(b) == \A w \in b : committed[w] = 0
NonePending(b) == \A w \in b : pending[w] = 0

\* Nothing runs over this connection any more.
Lost(b) == /\ Even(b)
           /\ conn # "up" \/ pc \in {"closing", "exited"} \/ (cancelled /\ pc = "next")

\* The stages of a block: its begin is not reached, is at hand, was run; its
\* commit is at hand; it is behind, or was never there.
Before(b) == OneComing(frames, b) /\ CurrentSilent(b) /\ NoneCommitted(b) /\ NonePending(b)

Opening(b) == /\ Amid(frames, b, b)
              /\ pc \in NotRun /\ current.kind = "begin"
              /\ NoneCommitted(b) /\ NonePending(b)

\* The write at hand, not run yet.
AtHand(w) == pc \in NotRun /\ current.kind = "write" /\ current.word = w

\* The transaction has failed, or holds the writes up to here, once each.
Within(b) ==
  /\ NoneCommitted(b)
  /\ pc \in NotRun => current.kind \notin {"begin", "commit"}
  /\ \E todo \in SUBSET b :
       /\ Amid(frames, b, todo)
       /\ \A w \in b : AtHand(w) => w \notin todo
       /\ \/ tx = "failed"
          \/ tx = "open" /\ \A w \in b : pending[w] = IF w \in todo \/ AtHand(w) THEN 0 ELSE 1

Ending(b) ==
  /\ AllCalm(frames, b)
  /\ pc \in NotRun /\ current.kind = "commit"
  /\ NoneCommitted(b)
  /\ tx = "failed" \/ (tx = "open" /\ \A w \in b : pending[w] = 1)

After(b) == AllCalm(frames, b) /\ CurrentSilent(b) /\ Even(b) /\ NonePending(b)

Stage(b) == Lost(b) \/ Before(b) \/ Opening(b) \/ Within(b) \/ Ending(b) \/ After(b)

\* Types, and what kind of statement may be at two of the places.
Sides == /\ pc \in Over \cup NotRun \cup {"key", "ran", "judging"}
         /\ pc = "key" => current.kind \in {"jev", "refused"}
         /\ pc = "judging" => current.kind = "jev"
         /\ pending \in [Writes -> Nat] /\ committed \in [Writes -> Nat]

\* A reconnect that was printed, or an included script left in a transaction,
\* allows anything.
WholeInv == Sides /\ (~warned /\ ~abandoned => \A b \in Sent : Stage(b))

-----------------------------------------------------------------------------
\* The rest of a list.
LEMMA TailOf ==
  ASSUME NEW s, IsList(s), s # <<>>
  PROVE  /\ IsList(Tail(s)) /\ Len(s) \in Nat /\ Len(s) >= 1 /\ Len(Tail(s)) = Len(s) - 1
         /\ Head(s) = s[1]
         /\ \A n \in 1 .. Len(s) - 1 : Tail(s)[n] = s[n + 1]
<1>1. s \in Seq(ToSet(s)) /\ Len(s) >= 1 /\ Len(s) \in Nat
  BY DEF IsList
<1>2. Tail(s) \in Seq(ToSet(s))
  BY <1>1
<1>3. Tail(s) \in Seq(ToSet(Tail(s)))
  BY <1>2, OwnSet
<1> QED BY <1>1, <1>3 DEF IsList

\* A calm script stays so, item by item.
LEMMA CalmNext ==
  ASSUME NEW s, NEW b, NEW quiet, Calm(s, b, quiet), s # <<>>
  PROVE  Silent(Head(s), b, quiet) /\ Calm(Tail(s), b, quiet)
<1>1. IsList(s)
  BY DEF Calm
<1> QED BY <1>1, TailOf DEF Calm

\* A script with the block in one of its files gets there, or goes on.
LEMMA ThroughNext ==
  ASSUME NEW s, NEW b, NEW files, Through(s, b, files)
  PROVE  /\ s # <<>>
         /\ \/ Includes(Head(s), files) /\ Calm(Tail(s), b, Quiet(b))
            \/ Silent(Head(s), b, Quiet(b)) /\ Through(Tail(s), b, files)
<1>1. IsList(s)
  BY DEF Through
<1>2. PICK i \in 1 .. Len(s) :
        /\ Includes(s[i], files)
        /\ \A n \in 1 .. Len(s) : n # i => Silent(s[n], b, Quiet(b))
  BY DEF Through
<1>3. s # <<>>
  BY <1>2
<1>4. /\ IsList(Tail(s)) /\ Len(s) \in Nat /\ Len(s) >= 1 /\ Len(Tail(s)) = Len(s) - 1
      /\ Head(s) = s[1]
      /\ \A n \in 1 .. Len(s) - 1 : Tail(s)[n] = s[n + 1]
  BY <1>1, <1>3, TailOf
<1>5. CASE i = 1
  BY <1>2, <1>3, <1>4, <1>5 DEF Calm
<1>6. CASE i # 1
  <2>1. i - 1 \in 1 .. Len(Tail(s)) /\ Tail(s)[i - 1] = s[i]
    BY <1>4, <1>6
  <2>2. \A n \in 1 .. Len(Tail(s)) : n # i - 1 => Silent(Tail(s)[n], b, Quiet(b))
    BY <1>2, <1>4
  <2>3. Silent(Head(s), b, Quiet(b))
    BY <1>2, <1>4, <1>6
  <2> QED BY <1>2, <1>3, <1>4, <2>1, <2>2, <2>3 DEF Through
<1> QED BY <1>5, <1>6

\* A body one position further on in the list.
LEMMA BodyNext ==
  ASSUME NEW s, IsList(s), s # <<>>, NEW b, NEW todo,
         NEW i \in Nat, NEW j \in 1 .. Len(s), i >= 1, i < j, Body(s, b, todo, i, j)
  PROVE  j - 1 \in 1 .. Len(Tail(s)) /\ Body(Tail(s), b, todo, i - 1, j - 1)
<1> DEFINE t == Tail(s)
<1>1. /\ Len(s) \in Nat /\ Len(t) = Len(s) - 1
      /\ \A n \in 1 .. Len(s) - 1 : t[n] = s[n + 1]
  BY TailOf
<1> HIDE DEF t
<1>2. j - 1 \in 1 .. Len(t) /\ t[j - 1] = s[j]
  BY <1>1
<1>3. \A n \in (i - 1) + 1 .. (j - 1) - 1 :
        /\ n \in 1 .. Len(s) - 1 /\ n + 1 \in i + 1 .. j - 1
        /\ t[n] = s[n + 1]
  BY <1>1
<1>4. \A n \in 1 .. Len(t) : n \notin (i - 1) + 1 .. (j - 1) - 1 =>
        n + 1 \in 1 .. Len(s) /\ n + 1 \notin i + 1 .. j - 1 /\ t[n] = s[n + 1]
  BY <1>1
<1>5. Statement(t[j - 1]) /\ Kind(t[j - 1]) = "commit"
  BY <1>2 DEF Body
<1>6. \A n \in (i - 1) + 1 .. (j - 1) - 1 :
        Statement(t[n]) /\ Kind(t[n]) \notin {"begin", "commit"}
  BY <1>3 DEF Body
<1>7. \A n \in 1 .. Len(t) : n \notin (i - 1) + 1 .. (j - 1) - 1 => Silent(t[n], b, Quiet(b))
  BY <1>4 DEF Body
<1>8. \A n \in (i - 1) + 1 .. (j - 1) - 1 : Mentions(t[n], b) => Word(t[n]) \in todo
  BY <1>3 DEF Body
<1>9. \A n, m \in (i - 1) + 1 .. (j - 1) - 1 :
        Mentions(t[n], b) /\ Mentions(t[m], b) /\ Word(t[n]) = Word(t[m]) => n = m
  <2> SUFFICES ASSUME NEW n \in (i - 1) + 1 .. (j - 1) - 1, NEW m \in (i - 1) + 1 .. (j - 1) - 1,
                      Mentions(t[n], b), Mentions(t[m], b), Word(t[n]) = Word(t[m])
               PROVE  n = m
    OBVIOUS
  <2>1. n + 1 \in i + 1 .. j - 1 /\ m + 1 \in i + 1 .. j - 1 /\ t[n] = s[n + 1] /\ t[m] = s[m + 1]
    BY <1>3
  <2>2. n + 1 = m + 1
    BY <2>1 DEF Body
  <2> QED BY <2>2
<1>10. \A w \in todo : \E n \in (i - 1) + 1 .. (j - 1) - 1 : Mentions(t[n], b) /\ Word(t[n]) = w
  <2> SUFFICES ASSUME NEW w \in todo
               PROVE  \E n \in (i - 1) + 1 .. (j - 1) - 1 : Mentions(t[n], b) /\ Word(t[n]) = w
    OBVIOUS
  <2>1. PICK m \in i + 1 .. j - 1 : Mentions(s[m], b) /\ Word(s[m]) = w
    BY DEF Body
  <2>2. m - 1 \in (i - 1) + 1 .. (j - 1) - 1 /\ t[m - 1] = s[m]
    BY <1>1, <2>1
  <2> QED BY <2>1, <2>2
<1>11. Body(t, b, todo, i - 1, j - 1)
  BY <1>5, <1>6, <1>7, <1>8, <1>9, <1>10 DEF Body
<1> QED BY <1>2, <1>11 DEF t

\* A script that has the block gets to its begin, or goes on.
LEMMA AheadNext ==
  ASSUME NEW s, NEW b, Ahead(s, b)
  PROVE  /\ s # <<>>
         /\ \/ Statement(Head(s)) /\ Kind(Head(s)) = "begin" /\ Inside(Tail(s), b, b)
            \/ Silent(Head(s), b, Quiet(b)) /\ Ahead(Tail(s), b)
<1>1. IsList(s)
  BY DEF Ahead
<1>2. PICK i, j \in 1 .. Len(s) :
        i < j /\ Statement(s[i]) /\ Kind(s[i]) = "begin" /\ Body(s, b, b, i, j)
  BY DEF Ahead
<1>3. s # <<>>
  BY <1>2
<1>4. /\ IsList(Tail(s)) /\ Len(s) \in Nat /\ Len(s) >= 1 /\ Len(Tail(s)) = Len(s) - 1
      /\ Head(s) = s[1]
      /\ \A n \in 1 .. Len(s) - 1 : Tail(s)[n] = s[n + 1]
  BY <1>1, <1>3, TailOf
<1>5. i \in Nat /\ i >= 1
  BY <1>4
<1>6. j - 1 \in 1 .. Len(Tail(s)) /\ Body(Tail(s), b, b, i - 1, j - 1)
  BY <1>1, <1>2, <1>3, <1>5, BodyNext
<1>7. CASE i = 1
  <2>1. Inside(Tail(s), b, b)
    BY <1>4, <1>6, <1>7 DEF Inside
  <2> QED BY <1>2, <1>3, <1>4, <1>7, <2>1
<1>8. CASE i # 1
  <2>1. Silent(Head(s), b, Quiet(b))
    <3>1. 1 \in 1 .. Len(s) /\ 1 \notin i + 1 .. j - 1
      BY <1>4, <1>5
    <3>2. Silent(s[1], b, Quiet(b))
      BY <1>2, <3>1 DEF Body
    <3> QED BY <1>4, <3>2
  <2>2. i - 1 \in 1 .. Len(Tail(s)) /\ Tail(s)[i - 1] = s[i] /\ i - 1 < j - 1
    BY <1>2, <1>4, <1>5, <1>8
  <2>3. Ahead(Tail(s), b)
    BY <1>2, <1>4, <1>6, <2>2 DEF Ahead
  <2> QED BY <1>3, <2>1, <2>3
<1> QED BY <1>7, <1>8

\* Within the transaction: it commits, or its next statement is run.
LEMMA InsideNext ==
  ASSUME NEW s, NEW b, NEW todo \in SUBSET b, Inside(s, b, todo)
  PROVE  /\ s # <<>> /\ Statement(Head(s))
         /\ \/ Kind(Head(s)) = "commit" /\ todo = {} /\ Calm(Tail(s), b, Quiet(b))
            \/ /\ Kind(Head(s)) \notin {"begin", "commit"}
               /\ Mentions(Head(s), b) => Word(Head(s)) \in todo
               /\ Inside(Tail(s), b, IF Mentions(Head(s), b) THEN todo \ {Word(Head(s))} ELSE todo)
<1>1. IsList(s)
  BY DEF Inside
<1>2. PICK j \in 1 .. Len(s) : Body(s, b, todo, 0, j)
  BY DEF Inside
<1>3. s # <<>>
  BY <1>2
<1>4. /\ IsList(Tail(s)) /\ Len(s) \in Nat /\ Len(s) >= 1 /\ Len(Tail(s)) = Len(s) - 1
      /\ Head(s) = s[1]
      /\ \A n \in 1 .. Len(s) - 1 : Tail(s)[n] = s[n + 1]
  BY <1>1, <1>3, TailOf
<1>5. j \in Nat /\ j >= 1 /\ j <= Len(s)
  BY <1>4
<1>6. CASE j = 1
  <2>1. Statement(Head(s)) /\ Kind(Head(s)) = "commit"
    BY <1>2, <1>4, <1>6 DEF Body
  <2>2. \A n \in 1 .. Len(s) : Silent(s[n], b, Quiet(b))
    BY <1>2, <1>6 DEF Body
  <2>3. Calm(Tail(s), b, Quiet(b))
    BY <1>4, <2>2 DEF Calm
  <2>4. todo = {}
    BY <1>2, <1>6 DEF Body
  <2> QED BY <1>3, <2>1, <2>3, <2>4
<1>7. CASE j # 1
  <2> DEFINE rest == IF Mentions(Head(s), b) THEN todo \ {Word(Head(s))} ELSE todo
             t == Tail(s)
  <2>1. 1 \in 0 + 1 .. j - 1
    BY <1>5, <1>7
  <2>2. /\ Statement(Head(s)) /\ Kind(Head(s)) \notin {"begin", "commit"}
        /\ Mentions(Head(s), b) => Word(Head(s)) \in todo
    BY <1>2, <1>4, <2>1 DEF Body
  <2>3. Mentions(Head(s), b) <=> Mentions(s[1], b)
    BY <1>4
  <2>4. /\ Len(t) = Len(s) - 1 /\ IsList(t)
        /\ \A n \in 1 .. Len(s) - 1 : t[n] = s[n + 1]
    BY <1>4
  <2>5. rest = IF Mentions(s[1], b) THEN todo \ {Word(s[1])} ELSE todo
    BY <1>4
  <2> HIDE DEF rest, t
  <2>6. j - 1 \in 1 .. Len(t) /\ t[j - 1] = s[j]
    BY <1>4, <1>5, <1>7, <2>4
  <2>7. \A n \in 0 + 1 .. (j - 1) - 1 :
          /\ n \in 1 .. Len(s) - 1 /\ n + 1 \in 0 + 1 .. j - 1 /\ n + 1 # 1
          /\ t[n] = s[n + 1]
    BY <1>4, <1>5, <2>4
  <2>8. \A n \in 1 .. Len(t) : n \notin 0 + 1 .. (j - 1) - 1 =>
          n + 1 \in 1 .. Len(s) /\ n + 1 \notin 0 + 1 .. j - 1 /\ t[n] = s[n + 1]
    BY <1>4, <1>5, <2>4
  <2>9. Statement(t[j - 1]) /\ Kind(t[j - 1]) = "commit"
    BY <1>2, <2>6 DEF Body
  <2>10. \A n \in 0 + 1 .. (j - 1) - 1 : Statement(t[n]) /\ Kind(t[n]) \notin {"begin", "commit"}
    BY <1>2, <2>7 DEF Body
  <2>11. \A n \in 1 .. Len(t) : n \notin 0 + 1 .. (j - 1) - 1 => Silent(t[n], b, Quiet(b))
    BY <1>2, <2>8 DEF Body
  <2>12. \A n \in 0 + 1 .. (j - 1) - 1 : Mentions(t[n], b) => Word(t[n]) \in rest
    <3> SUFFICES ASSUME NEW n \in 0 + 1 .. (j - 1) - 1, Mentions(t[n], b) PROVE Word(t[n]) \in rest
      OBVIOUS
    <3>1. Word(t[n]) \in todo
      BY <1>2, <2>7 DEF Body
    <3>2. Mentions(s[1], b) => Word(t[n]) # Word(s[1])
      <4>1. n + 1 \in 0 + 1 .. j - 1 /\ t[n] = s[n + 1] /\ n + 1 # 1
        BY <2>7
      <4> QED BY <1>2, <2>1, <4>1 DEF Body
    <3> QED BY <2>5, <3>1, <3>2
  <2>13. \A n, m \in 0 + 1 .. (j - 1) - 1 :
           Mentions(t[n], b) /\ Mentions(t[m], b) /\ Word(t[n]) = Word(t[m]) => n = m
    <3> SUFFICES ASSUME NEW n \in 0 + 1 .. (j - 1) - 1, NEW m \in 0 + 1 .. (j - 1) - 1,
                        Mentions(t[n], b), Mentions(t[m], b), Word(t[n]) = Word(t[m])
                 PROVE  n = m
      OBVIOUS
    <3>1. n + 1 \in 0 + 1 .. j - 1 /\ m + 1 \in 0 + 1 .. j - 1 /\ t[n] = s[n + 1] /\ t[m] = s[m + 1]
      BY <2>7
    <3>2. n + 1 = m + 1
      BY <1>2, <3>1 DEF Body
    <3> QED BY <3>2
  <2>14. \A w \in rest : \E n \in 0 + 1 .. (j - 1) - 1 : Mentions(t[n], b) /\ Word(t[n]) = w
    <3> SUFFICES ASSUME NEW w \in rest
                 PROVE  \E n \in 0 + 1 .. (j - 1) - 1 : Mentions(t[n], b) /\ Word(t[n]) = w
      OBVIOUS
    <3>1. w \in todo /\ (Mentions(s[1], b) => w # Word(s[1]))
      BY <2>5
    <3>2. PICK m \in 0 + 1 .. j - 1 : Mentions(s[m], b) /\ Word(s[m]) = w
      BY <1>2, <3>1 DEF Body
    <3>3. m # 1
      BY <3>1, <3>2
    <3>4. m - 1 \in 0 + 1 .. (j - 1) - 1 /\ t[m - 1] = s[m]
      BY <1>4, <1>5, <2>4, <3>3
    <3> QED BY <3>2, <3>4
  <2>15. Body(t, b, rest, 0, j - 1)
    BY <2>9, <2>10, <2>11, <2>12, <2>13, <2>14 DEF Body
  <2>16. Inside(t, b, rest)
    BY <2>4, <2>6, <2>15 DEF Inside
  <2> QED BY <1>3, <2>2, <2>16 DEF rest, t
<1> QED BY <1>6, <1>7

\* Files that are quiet include quiet files, and the block is in one place of a
\* file that has it.
LEMMA QuietFile ==
  ASSUME NEW b, NEW f \in Quiet(b)
  PROVE  Calm(SplitScript(Files[f]), b, Quiet(b))
<1>1. PICK quiet \in SUBSET DOMAIN Files :
        f \in quiet /\ \A g \in quiet : Calm(SplitScript(Files[g]), b, quiet)
  BY DEF Quiet
<1>2. quiet \subseteq Quiet(b)
  BY <1>1 DEF Quiet
<1>3. PICK items : items = SplitScript(Files[f])
  OBVIOUS
<1>4. Calm(items, b, quiet)
  BY <1>1, <1>3
<1>5. \A item : Silent(item, b, quiet) => Silent(item, b, Quiet(b))
  BY <1>2 DEF Silent, Includes
<1>6. Calm(items, b, Quiet(b))
  BY <1>4, <1>5 DEF Calm
<1> QED BY <1>3, <1>6

LEMMA HolderFile ==
  ASSUME NEW b, NEW f \in Holders(b)
  PROVE  Ahead(SplitScript(Files[f]), b) \/ Through(SplitScript(Files[f]), b, Holders(b))
<1>1. PICK files \in SUBSET DOMAIN Files :
        /\ f \in files
        /\ \A g \in files : \/ Ahead(SplitScript(Files[g]), b)
                            \/ Through(SplitScript(Files[g]), b, files)
  BY DEF Holders
<1>2. files \subseteq Holders(b)
  BY <1>1 DEF Holders
<1>3. PICK items : items = SplitScript(Files[f])
  OBVIOUS
<1>4. Ahead(items, b) \/ Through(items, b, files)
  BY <1>1, <1>3
<1>5. \A item : Includes(item, files) => Includes(item, Holders(b))
  BY <1>2 DEF Includes
<1>6. Through(items, b, files) => Through(items, b, Holders(b))
  BY <1>5 DEF Through
<1> QED BY <1>3, <1>4, <1>6
-----------------------------------------------------------------------------
\* How a pile changes: a code, the item at hand, a script more.
SameItems(s, t) == Len(t) = Len(s) /\ \A d \in 1 .. Len(s) : t[d].items = s[d].items
Advanced(s, t) ==
  /\ Len(t) = Len(s) /\ t[Len(s)].items = Tail(s[Len(s)].items)
  /\ \A d \in 1 .. Len(s) - 1 : t[d].items = s[d].items
Piled(s, t, items) ==
  /\ Len(t) = Len(s) + 1 /\ t[Len(s) + 1].items = items
  /\ \A d \in 1 .. Len(s) : t[d].items = s[d].items

LEMMA SamePile ==
  ASSUME NEW s, NEW t, IsPile(s), SameItems(s, t), NEW b
  PROVE  /\ AllCalm(s, b) => AllCalm(t, b)
         /\ OneComing(s, b) => OneComing(t, b)
         /\ \A todo : Amid(s, b, todo) => Amid(t, b, todo)
<1>1. /\ Len(s) \in Nat /\ Len(s) >= 1 /\ Len(t) = Len(s)
      /\ \A d \in 1 .. Len(s) : t[d].items = s[d].items
  BY DEF IsPile, SameItems
<1>2. t[Len(s)].items = s[Len(s)].items
  BY <1>1
<1> QED BY <1>1, <1>2 DEF AllCalm, OneComing, Amid

LEMMA FrontPile ==
  ASSUME NEW s, IsPile(s), Len(s) > 1, NEW b, AllCalm(s, b) \/ OneComing(s, b)
  PROVE  /\ AllCalm(s, b) => AllCalm(Front(s), b)
         /\ AllCalm(Front(s), b) \/ OneComing(Front(s), b)
<1>1. PICK t : t = Front(s)
  OBVIOUS
<1>2. Len(s) \in Nat /\ Len(t) = Len(s) - 1 /\ \A d \in 1 .. Len(t) : t[d] = s[d]
  BY <1>1 DEF Front, IsPile
<1>3. AllCalm(s, b) => AllCalm(t, b)
  BY <1>2 DEF AllCalm
<1>4. ASSUME OneComing(s, b) PROVE AllCalm(t, b) \/ OneComing(t, b)
  <2>1. PICK h \in 1 .. Len(s) :
          /\ Ahead(s[h].items, b) \/ Through(s[h].items, b, Holders(b))
          /\ \A d \in 1 .. Len(s) : d # h => Calm(s[d].items, b, Quiet(b))
    BY <1>4 DEF OneComing
  <2>2. CASE h = Len(s)
    BY <1>2, <2>1, <2>2 DEF AllCalm
  <2>3. CASE h # Len(s)
    <3>1. h \in 1 .. Len(t) /\ t[h] = s[h]
      BY <1>2, <2>3
    <3>2. \A d \in 1 .. Len(t) : d # h => Calm(t[d].items, b, Quiet(b))
      BY <1>2, <2>1
    <3> QED BY <2>1, <3>1, <3>2 DEF OneComing
  <2> QED BY <2>2, <2>3
<1> QED BY <1>1, <1>3, <1>4

LEMMA AdvanceCalm ==
  ASSUME NEW s, NEW t, IsPile(s), Advanced(s, t), NEW b, AllCalm(s, b), s[Len(s)].items # <<>>
  PROVE  Silent(Head(s[Len(s)].items), b, Quiet(b)) /\ AllCalm(t, b)
<1>1. Len(s) \in Nat /\ Len(s) >= 1 /\ Len(t) = Len(s)
  BY DEF IsPile, Advanced
<1>2. PICK items : items = s[Len(s)].items
  OBVIOUS
<1>3. Calm(items, b, Quiet(b))
  BY <1>1, <1>2 DEF AllCalm
<1>4. Silent(Head(items), b, Quiet(b)) /\ Calm(Tail(items), b, Quiet(b))
  BY <1>2, <1>3, CalmNext
<1>5. \A d \in 1 .. Len(t) : Calm(t[d].items, b, Quiet(b))
  <2> SUFFICES ASSUME NEW d \in 1 .. Len(s) PROVE Calm(t[d].items, b, Quiet(b))
    BY <1>1
  <2>1. CASE d = Len(s)
    BY <1>2, <1>4, <2>1 DEF Advanced
  <2>2. CASE d # Len(s)
    BY <1>1, <2>2 DEF Advanced, AllCalm
  <2> QED BY <2>1, <2>2
<1> QED BY <1>2, <1>4, <1>5 DEF AllCalm

LEMMA AdvanceComing ==
  ASSUME NEW s, NEW t, IsPile(s), Advanced(s, t), NEW b, OneComing(s, b), s[Len(s)].items # <<>>
  PROVE  \/ Silent(Head(s[Len(s)].items), b, Quiet(b)) /\ OneComing(t, b)
         \/ /\ Statement(Head(s[Len(s)].items)) /\ Kind(Head(s[Len(s)].items)) = "begin"
            /\ Amid(t, b, b)
         \/ Includes(Head(s[Len(s)].items), Holders(b)) /\ AllCalm(t, b)
<1>1. /\ Len(s) \in Nat /\ Len(s) >= 1 /\ Len(t) = Len(s)
      /\ \A d \in 1 .. Len(s) - 1 : t[d].items = s[d].items
  BY DEF IsPile, Advanced
<1>2. PICK items : items = s[Len(s)].items
  OBVIOUS
<1>3. t[Len(s)].items = Tail(items) /\ items # <<>>
  BY <1>2 DEF Advanced
<1>4. PICK h \in 1 .. Len(s) :
        /\ Ahead(s[h].items, b) \/ Through(s[h].items, b, Holders(b))
        /\ \A d \in 1 .. Len(s) : d # h => Calm(s[d].items, b, Quiet(b))
  BY DEF OneComing
<1>5. CASE h # Len(s)
  <2>1. Calm(items, b, Quiet(b))
    BY <1>1, <1>2, <1>4, <1>5
  <2>2. Silent(Head(items), b, Quiet(b)) /\ Calm(Tail(items), b, Quiet(b))
    BY <1>3, <2>1, CalmNext
  <2>3. h \in 1 .. Len(t) /\ t[h].items = s[h].items
    BY <1>1, <1>5
  <2>4. \A d \in 1 .. Len(t) : d # h => Calm(t[d].items, b, Quiet(b))
    <3> SUFFICES ASSUME NEW d \in 1 .. Len(s), d # h PROVE Calm(t[d].items, b, Quiet(b))
      BY <1>1
    <3>1. CASE d = Len(s)
      BY <1>3, <2>2, <3>1
    <3>2. CASE d # Len(s)
      <4>1. t[d].items = s[d].items
        BY <1>1, <3>2
      <4> QED BY <1>4, <4>1
    <3> QED BY <3>1, <3>2
  <2>5. OneComing(t, b)
    BY <1>4, <2>3, <2>4 DEF OneComing
  <2> QED BY <1>2, <2>2, <2>5
<1>6. CASE h = Len(s)
  <2>1. \A d \in 1 .. Len(s) - 1 : Calm(t[d].items, b, Quiet(b))
    <3> SUFFICES ASSUME NEW d \in 1 .. Len(s) - 1 PROVE Calm(t[d].items, b, Quiet(b))
      OBVIOUS
    <3>1. d \in 1 .. Len(s) /\ d # h /\ t[d].items = s[d].items
      BY <1>1, <1>6
    <3> QED BY <1>4, <3>1
  <2>2. ASSUME Calm(Tail(items), b, Quiet(b)) PROVE AllCalm(t, b)
    <3>1. \A d \in 1 .. Len(t) : d \in 1 .. Len(s) - 1 \/ d = Len(s)
      BY <1>1
    <3>2. Calm(t[Len(s)].items, b, Quiet(b))
      BY <1>3, <2>2
    <3> QED BY <2>1, <3>1, <3>2 DEF AllCalm
  <2>3. ASSUME Through(Tail(items), b, Holders(b)) \/ Ahead(Tail(items), b)
        PROVE  OneComing(t, b)
    <3>1. \A d \in 1 .. Len(t) : d # Len(s) => Calm(t[d].items, b, Quiet(b))
      BY <1>1, <2>1
    <3>2. Len(s) \in 1 .. Len(t)
      BY <1>1
    <3> QED BY <1>1, <1>3, <2>3, <3>1, <3>2 DEF OneComing
  <2>4. ASSUME Inside(Tail(items), b, b) PROVE Amid(t, b, b)
    BY <1>1, <1>3, <2>1, <2>4 DEF Amid
  <2>5. CASE Through(items, b, Holders(b))
    BY <1>2, <2>2, <2>3, <2>5, ThroughNext
  <2>6. CASE Ahead(items, b)
    BY <1>2, <2>3, <2>4, <2>6, AheadNext
  <2> QED BY <1>2, <1>4, <1>6, <2>5, <2>6
<1> QED BY <1>5, <1>6

\* The item at hand, and the writes of the block after it.
Drawn(s, item) == item = Head(s[Len(s)].items)
Left(todo, item, b) == IF Mentions(item, b) THEN todo \ {Word(item)} ELSE todo

LEMMA AdvanceAmid ==
  ASSUME NEW s, NEW t, IsPile(s), Advanced(s, t), NEW b, NEW todo \in SUBSET b, Amid(s, b, todo),
         NEW item, Drawn(s, item)
  PROVE  /\ s[Len(s)].items # <<>> /\ Statement(item)
         /\ \/ Kind(item) = "commit" /\ todo = {} /\ AllCalm(t, b)
            \/ /\ Kind(item) \notin {"begin", "commit"}
               /\ Mentions(item, b) => Word(item) \in todo
               /\ Amid(t, b, Left(todo, item, b))
<1>1. /\ Len(s) \in Nat /\ Len(s) >= 1 /\ Len(t) = Len(s)
      /\ \A d \in 1 .. Len(s) - 1 : t[d].items = s[d].items
  BY DEF IsPile, Advanced
<1>2. PICK items : items = s[Len(s)].items
  OBVIOUS
<1>3. t[Len(s)].items = Tail(items) /\ Inside(items, b, todo) /\ item = Head(items)
  BY <1>2 DEF Advanced, Amid, Drawn
<1>4. \A d \in 1 .. Len(s) - 1 : Calm(t[d].items, b, Quiet(b))
  BY <1>1 DEF Amid
<1>5. /\ items # <<>> /\ Statement(item)
      /\ \/ Kind(item) = "commit" /\ todo = {} /\ Calm(Tail(items), b, Quiet(b))
         \/ /\ Kind(item) \notin {"begin", "commit"}
            /\ Mentions(item, b) => Word(item) \in todo
            /\ Inside(Tail(items), b, Left(todo, item, b))
  BY <1>3, InsideNext DEF Left
<1>6. ASSUME Calm(Tail(items), b, Quiet(b)) PROVE AllCalm(t, b)
  <2>1. \A d \in 1 .. Len(t) : d \in 1 .. Len(s) - 1 \/ d = Len(s)
    BY <1>1
  <2>2. Calm(t[Len(s)].items, b, Quiet(b))
    BY <1>3, <1>6
  <2> QED BY <1>4, <2>1, <2>2 DEF AllCalm
<1>7. Inside(Tail(items), b, Left(todo, item, b)) => Amid(t, b, Left(todo, item, b))
  BY <1>1, <1>3, <1>4 DEF Amid
<1> QED BY <1>2, <1>5, <1>6, <1>7

LEMMA PilePile ==
  ASSUME NEW s, NEW t, IsPile(s), NEW items, Piled(s, t, items), NEW b
  PROVE  /\ AllCalm(s, b) /\ Calm(items, b, Quiet(b)) => AllCalm(t, b)
         /\ OneComing(s, b) /\ Calm(items, b, Quiet(b)) => OneComing(t, b)
         /\ AllCalm(s, b) /\ (Ahead(items, b) \/ Through(items, b, Holders(b)))
              => OneComing(t, b)
<1>1. /\ Len(s) \in Nat /\ Len(s) >= 1 /\ Len(t) = Len(s) + 1
      /\ t[Len(s) + 1].items = items
      /\ \A d \in 1 .. Len(s) : t[d].items = s[d].items
  BY DEF IsPile, Piled
<1>2. \A d \in 1 .. Len(t) : d \in 1 .. Len(s) \/ d = Len(s) + 1
  BY <1>1
<1>3. AllCalm(s, b) /\ Calm(items, b, Quiet(b)) => AllCalm(t, b)
  BY <1>1, <1>2 DEF AllCalm
<1>4. ASSUME OneComing(s, b), Calm(items, b, Quiet(b)) PROVE OneComing(t, b)
  <2>1. PICK h \in 1 .. Len(s) :
          /\ Ahead(s[h].items, b) \/ Through(s[h].items, b, Holders(b))
          /\ \A d \in 1 .. Len(s) : d # h => Calm(s[d].items, b, Quiet(b))
    BY <1>4 DEF OneComing
  <2>2. h \in 1 .. Len(t) /\ t[h].items = s[h].items
    BY <1>1
  <2>3. \A d \in 1 .. Len(t) : d # h => Calm(t[d].items, b, Quiet(b))
    BY <1>1, <1>2, <1>4, <2>1
  <2> QED BY <2>1, <2>2, <2>3 DEF OneComing
<1>5. ASSUME AllCalm(s, b), Ahead(items, b) \/ Through(items, b, Holders(b))
      PROVE  OneComing(t, b)
  <2>1. Len(s) + 1 \in 1 .. Len(t)
    BY <1>1
  <2>2. \A d \in 1 .. Len(t) : d # Len(s) + 1 => Calm(t[d].items, b, Quiet(b))
    BY <1>1, <1>2, <1>5 DEF AllCalm
  <2> QED BY <1>1, <1>5, <2>1, <2>2 DEF OneComing
<1> QED BY <1>3, <1>4, <1>5
-----------------------------------------------------------------------------
\* Whatever the stage, the block is all or nothing so far; and once nothing more
\* runs over the connection it was part of, it stays what it is.
LEMMA StageEven == ASSUME NEW b, Stage(b) PROVE Even(b)
<1>1. NoneCommitted(b) => Even(b)
  BY DEF NoneCommitted, Even
<1> QED BY <1>1 DEF Stage, Lost, Before, Opening, Within, Ending, After

LEMMA BecomesLost ==
  ASSUME NEW b, Stage(b), committed' = committed,
         conn' # "up" \/ pc' \in {"closing", "exited"} \/ (cancelled' /\ pc' = "next")
  PROVE  Stage(b)'
<1>1. Even(b)
  BY StageEven
<1>2. Lost(b)'
  BY <1>1 DEF Lost, Even
<1> QED BY <1>2 DEF Stage

LEMMA LostStays ==
  ASSUME NEW b, Lost(b), Next, ~warned'
  PROVE  Stage(b)'
<1>0. Stage(b)
  BY DEF Stage
<1>1. CASE ScriptEnds \/ ScriptCancelled \/ Quit
  <2>1. committed' = committed /\ conn' = conn /\ cancelled' = cancelled /\ pc = "next"
        /\ pc' \in {"next", "closing"}
    BY <1>1 DEF ScriptEnds, ScriptCancelled, Quit, ItemReady, Leave, server
  <2> QED BY <1>0, <2>1, BecomesLost DEF Lost
<1>2. CASE Include \/ MetaFails \/ SetKey \/ StartStatement \/ StartExplain
  <2>1. committed' = committed /\ conn' = conn /\ ~cancelled /\ pc = "next"
    BY <1>2 DEF Include, MetaFails, SetKey, StartStatement, StartExplain, Start, ItemReady, server
  <2> QED BY <1>0, <2>1, BecomesLost DEF Lost
<1>3. CASE AskKey \/ Parse \/ Send \/ Reply \/ Judged
  <2>1. committed' = committed /\ conn' = conn /\ pc \notin {"next", "closing", "exited"}
    BY <1>3 DEF AskKey, Parse, Send, Reply, Judged, server
  <2> QED BY <1>0, <2>1, BecomesLost DEF Lost
<1>4. CASE Redial \/ ReplyLost \/ Interrupted
  <2>1. committed' = committed /\ conn' # "up"
    BY <1>4 DEF Redial, ReplyLost, Interrupted, Hung
  <2> QED BY <1>0, <2>1, BecomesLost
<1>5. CASE Execute
  BY <1>5 DEF Execute, Lost
<1>6. CASE Close \/ Lose
  <2>1. committed' = committed /\ conn' # "up"
    BY <1>6 DEF Close, Lose, Hung
  <2> QED BY <1>0, <2>1, BecomesLost
<1>7. CASE Signal \/ Exited
  <2>1. committed' = committed /\ conn' = conn /\ pc' = pc /\ (cancelled => cancelled')
    BY <1>7 DEF Signal, Exited, server, vars
  <2> QED BY <1>0, <2>1, BecomesLost DEF Lost
<1> QED BY <1>1, <1>2, <1>3, <1>4, <1>5, <1>6, <1>7 DEF Next, Loop, RunStatement
-----------------------------------------------------------------------------
\* The session goes on within a statement.
LEMMA IdleKeeps ==
  ASSUME NEW b, Stage(b), ~Lost(b), UNCHANGED <<frames, current, tx, pending, committed>>,
         pc' \in Over <=> pc \in Over,
         pc' \in NotRun => pc \in NotRun \/ current.kind \in {"jev", "refused"},
         pc \in NotRun => pc' \in NotRun
  PROVE  Stage(b)'
<1>1. CASE Before(b)
  <2>1. Before(b)'
    BY <1>1 DEF Before, CurrentSilent, NoneCommitted, NonePending
  <2> QED BY <2>1 DEF Stage
<1>2. CASE Opening(b)
  <2>1. Opening(b)'
    BY <1>2 DEF Opening, NoneCommitted, NonePending
  <2> QED BY <2>1 DEF Stage
<1>3. CASE Within(b)
  <2>1. \A w \in b : AtHand(w)' <=> AtHand(w)
    BY DEF AtHand
  <2>2. PICK todo \in SUBSET b :
          /\ Amid(frames, b, todo)
          /\ \A w \in b : AtHand(w) => w \notin todo
          /\ \/ tx = "failed"
             \/ tx = "open" /\ \A w \in b : pending[w] = IF w \in todo \/ AtHand(w) THEN 0 ELSE 1
    BY <1>3 DEF Within
  <2>3. /\ NoneCommitted(b)'
        /\ pc' \in NotRun => current'.kind \notin {"begin", "commit"}
    BY <1>3 DEF Within, NoneCommitted
  <2>4. /\ Amid(frames', b, todo)
        /\ \A w \in b : AtHand(w)' => w \notin todo
        /\ \/ tx' = "failed"
           \/ tx' = "open" /\ \A w \in b : pending'[w] = IF w \in todo \/ AtHand(w)' THEN 0 ELSE 1
    BY <2>1, <2>2
  <2>5. Within(b)'
    BY <2>3, <2>4 DEF Within
  <2> QED BY <2>5 DEF Stage
<1>4. CASE Ending(b)
  <2>1. Ending(b)'
    BY <1>4 DEF Ending, NoneCommitted
  <2> QED BY <2>1 DEF Stage
<1>5. CASE After(b)
  <2>1. After(b)'
    BY <1>5 DEF After, CurrentSilent, Even, NonePending
  <2> QED BY <2>1 DEF Stage
<1> QED BY <1>1, <1>2, <1>3, <1>4, <1>5 DEF Stage

\* The code of the script at hand is set, and nothing else.
LEMMA RecodedItems ==
  ASSUME NEW s, IsPile(s), NEW code
  PROVE  SameItems(s, Recoded(s, code))
<1>1. Len(s) \in Nat /\ Len(s) >= 1 /\ DOMAIN s = 1 .. Len(s)
  BY DEF IsPile
<1>2. PICK f : f = [s[Len(s)] EXCEPT !.code = code]
  OBVIOUS
<1>3. f.items = s[Len(s)].items
  BY <1>1, <1>2 DEF IsPile, IsFrame
<1>4. PICK t : t = Changed(s, f)
  OBVIOUS
<1>5. s \in Seq(ToSet(s) \cup {f})
  BY DEF IsPile
<1>6. t \in Seq(ToSet(s) \cup {f}) /\ Len(t) = Len(s) /\ t[Len(s)] = f
      /\ \A d \in 1 .. Len(s) : d # Len(s) => t[d] = s[d]
  BY <1>1, <1>4, <1>5 DEF Changed
<1>7. \A d \in 1 .. Len(s) : t[d].items = s[d].items
  BY <1>3, <1>6
<1>8. Recoded(s, code) = t
  BY <1>2, <1>4 DEF Recoded, Changed
<1> QED BY <1>6, <1>7, <1>8 DEF SameItems

LEMMA GoOnItems ==
  ASSUME IsPile(frames), NEW how, GoOn(how)
  PROVE  SameItems(frames, frames') /\ pc' = "next"
<1>1. PICK c : c = IF how = "ok" THEN Top.code ELSE Worse(Top.code, ExitSQL)
  OBVIOUS
<1>2. frames' = Recoded(frames, c)
  BY <1>1 DEF GoOn, Recoded, Depth, Top
<1>3. SameItems(frames, Recoded(frames, c))
  BY RecodedItems
<1>4. pc' = "next"
  BY DEF GoOn
<1> QED BY <1>2, <1>3, <1>4

\* An API error that leaves an included script in a transaction is noted.
LEMMA ApiAbandons ==
  ASSUME IsPile(frames), StatementEnds("api"), tx # "none", pc' = "next",
         Len(frames) > 1, frames' = Front(frames)
  PROVE  abandoned'
<1>1. Len(frames') # Len(frames)
  BY DEF IsPile, Front
<1>2. CASE \E h : GoOn(h)
  BY <1>1, <1>2, GoOnItems DEF SameItems
<1>3. CASE ~\E h : GoOn(h)
  BY <1>3 DEF StatementEnds, Note, Depth
<1> QED BY <1>2, <1>3

\* What a statement that ends does to the pile.
LEMMA EndPile ==
  ASSUME IsPile(frames), NEW how, StatementEnds(how)
  PROVE  \/ SameItems(frames, frames') /\ pc' = "next"
         \/ Len(frames) > 1 /\ frames' = Front(frames) /\ pc' = "next" /\ how = "api"
         \/ pc' = "closing"
<1>1. CASE \E h : GoOn(h)
  BY <1>1, GoOnItems
<1>2. CASE Leave(ExitAPI) /\ how = "api"
  BY <1>2 DEF Leave, Depth
<1> QED BY <1>1, <1>2 DEF StatementEnds

LEMMA EndKeeps ==
  ASSUME NEW b, Stage(b), ~Lost(b), IsPile(frames), NEW how, StatementEnds(how),
         UNCHANGED <<tx, pending, committed>>,
         pc \in {"key", "parse", "ran", "judging"},
         pc = "parse" => current.kind \in NotSent \cup {"jev"},
         ~abandoned'
  PROVE  Stage(b)'
<1>0. pc \notin Over /\ (pc \in NotRun => current.kind \in NotSent \cup {"jev"})
  BY DEF Over, NotRun
<1>1. CASE pc' = "closing"
  BY <1>1, BecomesLost
<1>2. CASE pc' = "next" /\ (SameItems(frames, frames') \/ (Len(frames) > 1 /\ frames' = Front(frames)))
  <2>1. CurrentSilent(b)'
    BY <1>2 DEF CurrentSilent, Over
  <2>2. CASE Before(b)
    <3>1. AllCalm(frames', b) \/ OneComing(frames', b)
      BY <1>2, <2>2, SamePile, FrontPile DEF Before
    <3>2. (NonePending(b) /\ NoneCommitted(b) /\ Even(b))'
      BY <2>2, StageEven DEF Before, NonePending, NoneCommitted, Even
    <3> QED BY <2>1, <3>1, <3>2 DEF Stage, Before, After
  <2>3. CASE After(b)
    <3>1. AllCalm(frames', b)
      BY <1>2, <2>3, SamePile, FrontPile DEF After
    <3>2. (NonePending(b) /\ Even(b))'
      BY <2>3 DEF After, NonePending, Even
    <3> QED BY <2>1, <3>1, <3>2 DEF Stage, After
  <2>4. CASE Opening(b) \/ Ending(b)
    BY <1>0, <2>4 DEF Opening, Ending, NotSent
  <2>5. CASE Within(b)
    <3>1. SameItems(frames, frames')
      <4>1. tx # "none"
        BY <2>5 DEF Within
      <4>2. how = "api" /\ pc' = "next" => ~(Len(frames) > 1 /\ frames' = Front(frames))
        BY <4>1, ApiAbandons
      <4> QED BY <1>2, <4>2, EndPile
    <3>2. \A w \in b : ~AtHand(w) /\ ~AtHand(w)'
      BY <1>0, <1>2 DEF AtHand, NotRun, NotSent
    <3>3. PICK todo \in SUBSET b :
            /\ Amid(frames, b, todo)
            /\ \A w \in b : AtHand(w) => w \notin todo
            /\ \/ tx = "failed"
               \/ tx = "open" /\ \A w \in b : pending[w] = IF w \in todo \/ AtHand(w) THEN 0 ELSE 1
      BY <2>5 DEF Within
    <3>4. /\ Amid(frames', b, todo)
          /\ \A w \in b : AtHand(w)' => w \notin todo
          /\ \/ tx' = "failed"
             \/ tx' = "open" /\ \A w \in b : pending'[w] = IF w \in todo \/ AtHand(w)' THEN 0 ELSE 1
      BY <3>1, <3>2, <3>3, SamePile
    <3>5. /\ NoneCommitted(b)'
          /\ pc' \notin NotRun /\ pc' \in Over
      BY <1>2, <2>5 DEF Within, NoneCommitted, NotRun, Over
    <3>6. Within(b)'
      BY <3>4, <3>5 DEF Within
    <3> QED BY <3>6 DEF Stage
  <2> QED BY <2>2, <2>3, <2>4, <2>5 DEF Stage
<1> QED BY <1>1, <1>2, EndPile
-----------------------------------------------------------------------------
LEMMA TakenItems ==
  ASSUME IsPile(frames)
  PROVE  IsPile(Taken) /\ Advanced(frames, Taken)
<1>1. /\ Len(frames) \in Nat /\ Len(frames) >= 1 /\ DOMAIN frames = 1 .. Len(frames)
      /\ Depth = Len(frames) /\ IsFrame(frames[Depth])
  BY DEF IsPile, Depth
<1>2. PICK f : f = [frames[Depth] EXCEPT !.items = Tail(frames[Depth].items)]
  OBVIOUS
<1>3. f.items = Tail(frames[Depth].items)
  BY <1>1, <1>2 DEF IsFrame
<1>4. PICK t : t = Changed(frames, f)
  OBVIOUS
<1>5. Taken = t
  BY <1>2, <1>4 DEF Taken, Changed, Depth
<1>6. frames \in Seq(ToSet(frames) \cup {f})
  BY DEF IsPile
<1>7. t \in Seq(ToSet(frames) \cup {f}) /\ Len(t) = Len(frames) /\ t[Len(frames)] = f
      /\ \A d \in 1 .. Len(frames) - 1 : t[d] = frames[d]
  BY <1>1, <1>4, <1>6 DEF Changed
<1>8. Advanced(frames, t)
  BY <1>1, <1>3, <1>7 DEF Advanced
<1>9. IsPile(Taken)
  BY TakenKeeps
<1> QED BY <1>5, <1>8, <1>9

\* A statement, or what is behind \explain, is taken from the script at hand.
LEMMA StartKeeps ==
  ASSUME NEW b, Stage(b), ~Lost(b), IsPile(frames), ItemReady, NEW text, NEW explained,
         Start(text, explained), UNCHANGED server,
         (~IsMeta(Item) /\ text = Item) \/ (IsMeta(Item) /\ text = Tail(Item)),
         ~Includes(Item, Holders(b))
  PROVE  Stage(b)'
<1>1. /\ pc = "next" /\ Len(frames) = Depth /\ Top.items = frames[Len(frames)].items
      /\ frames[Len(frames)].items # <<>> /\ Item = Head(frames[Len(frames)].items)
  BY DEF ItemReady, Item, Top, Depth
<1>2. PICK t : t = Taken
  OBVIOUS
<1>3. frames' = t /\ Advanced(frames, t)
  BY <1>2, TakenItems DEF Start
<1>4. /\ current'.kind = Kind(text) /\ current'.word = Word(text)
      /\ (pc' = "key" /\ Kind(text) \in {"jev", "refused"}) \/ pc' = "parse"
  BY StartWhere DEF Start
<1>5. Kind(text) \notin {"jev", "refused"} => pc' = "parse"
  BY <1>4
<1>6. pc' \notin Over /\ (pc' \in NotRun <=> pc' = "parse")
  BY <1>4 DEF Over, NotRun
<1>7. tx' = tx /\ pending' = pending /\ committed' = committed
  BY DEF server
<1>8. Silent(Item, b, Quiet(b)) => CurrentSilent(b)'
  BY <1>4 DEF Silent, Mentions, CurrentSilent
<1>9. Statement(Item) => text = Item
  BY DEF Statement
<1>10. CASE Before(b)
  <2>1. OneComing(frames, b)
    BY <1>10 DEF Before
  <2>2. NoneCommitted(b)' /\ NonePending(b)'
    BY <1>7, <1>10 DEF Before, NoneCommitted, NonePending
  <2>3. \/ Silent(Item, b, Quiet(b)) /\ OneComing(frames', b)
        \/ Statement(Item) /\ Kind(Item) = "begin" /\ Amid(frames', b, b)
    BY <1>1, <1>3, <2>1, AdvanceComing
  <2>4. CASE Silent(Item, b, Quiet(b)) /\ OneComing(frames', b)
    BY <1>8, <2>2, <2>4 DEF Stage, Before
  <2>5. CASE Statement(Item) /\ Kind(Item) = "begin" /\ Amid(frames', b, b)
    <3>1. current'.kind = "begin" /\ pc' \in NotRun
      BY <1>4, <1>5, <1>6, <1>9, <2>5
    <3> QED BY <2>2, <2>5, <3>1 DEF Stage, Opening
  <2> QED BY <2>3, <2>4, <2>5
<1>11. CASE Opening(b) \/ Ending(b)
  BY <1>1, <1>11 DEF Opening, Ending, NotRun
<1>12. CASE Within(b)
  <2>1. PICK todo \in SUBSET b :
          /\ Amid(frames, b, todo)
          /\ \A w \in b : AtHand(w) => w \notin todo
          /\ \/ tx = "failed"
             \/ tx = "open" /\ \A w \in b : pending[w] = IF w \in todo \/ AtHand(w) THEN 0 ELSE 1
    BY <1>12 DEF Within
  <2>2. PICK rest : rest = Left(todo, Item, b)
    OBVIOUS
  <2>3. /\ Statement(Item)
        /\ \/ Kind(Item) = "commit" /\ todo = {} /\ AllCalm(frames', b)
           \/ /\ Kind(Item) \notin {"begin", "commit"}
              /\ Mentions(Item, b) => Word(Item) \in todo
              /\ Amid(frames', b, rest)
    <3>1. PICK item : item = Item
      OBVIOUS
    <3>2. Drawn(frames, item)
      BY <1>1, <3>1 DEF Drawn
    <3>3. /\ Statement(item)
          /\ \/ Kind(item) = "commit" /\ todo = {} /\ AllCalm(t, b)
             \/ /\ Kind(item) \notin {"begin", "commit"}
                /\ Mentions(item, b) => Word(item) \in todo
                /\ Amid(t, b, Left(todo, item, b))
      BY <1>3, <2>1, <3>2, AdvanceAmid
    <3> QED BY <1>3, <2>2, <3>1, <3>3
  <2>4. text = Item
    BY <1>9, <2>3
  <2>5. \A w \in b : ~AtHand(w)
    BY <1>1 DEF AtHand, NotRun
  <2>6. NoneCommitted(b)'
    BY <1>7, <1>12 DEF Within, NoneCommitted
  <2>7. CASE Kind(Item) = "commit" /\ todo = {} /\ AllCalm(frames', b)
    <3>1. pc' \in NotRun /\ current'.kind = "commit"
      BY <1>4, <1>5, <1>6, <2>4, <2>7
    <3>2. tx' = "failed" \/ (tx' = "open" /\ \A w \in b : pending'[w] = 1)
      BY <1>7, <2>1, <2>5, <2>7
    <3> QED BY <2>6, <2>7, <3>1, <3>2 DEF Stage, Ending
  <2>8. CASE /\ Kind(Item) \notin {"begin", "commit"}
             /\ Mentions(Item, b) => Word(Item) \in todo
             /\ Amid(frames', b, rest)
    <3>1. current'.kind \notin {"begin", "commit"}
      BY <1>4, <2>4, <2>8
    <3>3. \A w \in b : AtHand(w)' <=> Mentions(Item, b) /\ w = Word(Item)
      <4> SUFFICES ASSUME NEW w \in b PROVE AtHand(w)' <=> Mentions(Item, b) /\ w = Word(Item)
        OBVIOUS
      <4>1. AtHand(w)' <=> pc' \in NotRun /\ Kind(Item) = "write" /\ Word(Item) = w
        BY <1>4, <2>4 DEF AtHand
      <4>2. Kind(Item) = "write" => pc' \in NotRun
        BY <1>5, <1>6, <2>4
      <4> QED BY <4>1, <4>2 DEF Mentions
    <3>4. rest \in SUBSET b /\ \A w \in b : AtHand(w)' => w \notin rest
      BY <2>1, <2>2, <3>3 DEF Left
    <3>5. \A w \in b : w \in todo <=> w \in rest \/ AtHand(w)'
      BY <2>2, <2>8, <3>3 DEF Left
    <3>6. \/ tx' = "failed"
          \/ tx' = "open" /\ \A w \in b : pending'[w] = IF w \in rest \/ AtHand(w)' THEN 0 ELSE 1
      BY <1>7, <2>1, <2>5, <3>5
    <3>7. Within(b)'
      BY <2>6, <2>8, <3>1, <3>4, <3>6 DEF Within
    <3> QED BY <3>7 DEF Stage
  <2> QED BY <2>3, <2>7, <2>8
<1>13. CASE After(b)
  <2>1. Silent(Item, b, Quiet(b)) /\ AllCalm(frames', b)
    BY <1>1, <1>3, <1>13, AdvanceCalm DEF After
  <2>2. (Even(b) /\ NonePending(b))'
    BY <1>7, <1>13 DEF After, Even, NonePending
  <2> QED BY <1>8, <2>1, <2>2 DEF Stage, After
<1> QED BY <1>10, <1>11, <1>12, <1>13 DEF Stage

\* A meta command is taken that runs nothing, or a script is put on the pile.
LEMMA MetaKeeps ==
  ASSUME NEW b, Stage(b), ~Lost(b), IsPile(frames), ItemReady, IsMeta(Item),
         UNCHANGED <<pc, current, server>>,
         \/ ~Includes(Item, DOMAIN Files) /\ Advanced(frames, frames')
         \/ /\ Includes(Item, DOMAIN Files)
            /\ Piled(Taken, frames', SplitScript(Files[Item[2]]))
  PROVE  Stage(b)'
<1>1. /\ pc = "next" /\ Len(frames) = Depth
      /\ frames[Len(frames)].items # <<>> /\ Item = Head(frames[Len(frames)].items)
  BY DEF ItemReady, Item, Top, Depth
<1>2. PICK t : t = Taken
  OBVIOUS
<1>3. IsPile(t) /\ Advanced(frames, t)
  BY <1>2, TakenItems
<1>4. PICK items : items = SplitScript(Files[Item[2]])
  OBVIOUS
<1>5. \/ ~Includes(Item, DOMAIN Files) /\ Advanced(frames, frames')
      \/ Includes(Item, DOMAIN Files) /\ Piled(t, frames', items)
  BY <1>2, <1>4
<1>6. tx' = tx /\ pending' = pending /\ committed' = committed /\ pc' = "next"
  BY <1>1 DEF server
<1>7. CurrentSilent(b)'
  BY <1>6 DEF CurrentSilent, Over
<1>8. Holders(b) \subseteq DOMAIN Files
  BY DEF Holders
<1>9. ~Statement(Item)
  BY DEF Statement
<1>10. Includes(Item, DOMAIN Files) /\ Silent(Item, b, Quiet(b)) => Calm(items, b, Quiet(b))
  <2> SUFFICES ASSUME Includes(Item, DOMAIN Files), Silent(Item, b, Quiet(b))
               PROVE  Calm(items, b, Quiet(b))
    OBVIOUS
  <2>1. PICK f : f = Item[2]
    OBVIOUS
  <2>2. f \in Quiet(b)
    BY <2>1 DEF Silent, Includes
  <2> QED BY <1>4, <2>1, <2>2, QuietFile
<1>11. Includes(Item, Holders(b)) =>
         Ahead(items, b) \/ Through(items, b, Holders(b))
  <2> SUFFICES ASSUME Includes(Item, Holders(b))
               PROVE  Ahead(items, b) \/ Through(items, b, Holders(b))
    OBVIOUS
  <2>1. PICK f : f = Item[2]
    OBVIOUS
  <2>2. f \in Holders(b)
    BY <2>1 DEF Includes
  <2> QED BY <1>4, <2>1, <2>2, HolderFile
<1>12. Includes(Item, Holders(b)) => Includes(Item, DOMAIN Files)
  BY <1>8 DEF Includes
<1>13. CASE Before(b)
  <2>1. OneComing(frames, b)
    BY <1>13 DEF Before
  <2>2. NoneCommitted(b)' /\ NonePending(b)' /\ Even(b)'
    BY <1>6, <1>13, StageEven DEF Before, NoneCommitted, NonePending, Even
  <2>3. AllCalm(frames', b) \/ OneComing(frames', b)
    <3>1. CASE ~Includes(Item, DOMAIN Files) /\ Advanced(frames, frames')
      BY <1>1, <1>9, <1>12, <2>1, <3>1, AdvanceComing
    <3>2. CASE Includes(Item, DOMAIN Files) /\ Piled(t, frames', items)
      <4>1. \/ Silent(Item, b, Quiet(b)) /\ OneComing(t, b)
            \/ Includes(Item, Holders(b)) /\ AllCalm(t, b)
        BY <1>1, <1>3, <1>9, <2>1, AdvanceComing
      <4> QED BY <1>3, <1>10, <1>11, <3>2, <4>1, PilePile
    <3> QED BY <1>5, <3>1, <3>2
  <2> QED BY <1>7, <2>2, <2>3 DEF Stage, Before, After
<1>14. CASE Opening(b) \/ Ending(b)
  BY <1>1, <1>14 DEF Opening, Ending, NotRun
<1>15. CASE Within(b)
  <2>1. PICK todo \in SUBSET b : Amid(frames, b, todo)
    BY <1>15 DEF Within
  <2>2. Statement(Item)
    <3>1. PICK item : item = Item
      OBVIOUS
    <3>2. Drawn(frames, item)
      BY <1>1, <3>1 DEF Drawn
    <3>3. Statement(item)
      BY <1>3, <2>1, <3>1, <3>2, AdvanceAmid
    <3> QED BY <3>1, <3>3
  <2> QED BY <1>9, <2>2
<1>16. CASE After(b)
  <2>1. (Even(b) /\ NonePending(b))'
    BY <1>6, <1>16 DEF After, Even, NonePending
  <2>2. AllCalm(frames', b)
    <3>1. CASE ~Includes(Item, DOMAIN Files) /\ Advanced(frames, frames')
      BY <1>1, <1>16, <3>1, AdvanceCalm DEF After
    <3>2. CASE Includes(Item, DOMAIN Files) /\ Piled(t, frames', items)
      <4>1. Silent(Item, b, Quiet(b)) /\ AllCalm(t, b)
        BY <1>1, <1>3, <1>16, AdvanceCalm DEF After
      <4> QED BY <1>3, <1>10, <3>2, <4>1, PilePile
    <3> QED BY <1>5, <3>1, <3>2
  <2> QED BY <1>7, <2>1, <2>2 DEF Stage, After
<1> QED BY <1>13, <1>14, <1>15, <1>16 DEF Stage
-----------------------------------------------------------------------------
\* A script returns at its end or at \q, never within the block.
LEMMA LeaveKeeps ==
  ASSUME NEW b, Stage(b), ~Lost(b), IsPile(frames), ScriptEnds \/ ScriptCancelled \/ Quit
  PROVE  Stage(b)'
<1>1. /\ pc = "next" /\ UNCHANGED <<current, server, cancelled>>
      /\ \E code : Leave(code)
  BY DEF ScriptEnds, ScriptCancelled, Quit, ItemReady
<1>2. tx' = tx /\ pending' = pending /\ committed' = committed
  BY <1>1 DEF server
<1>3. CASE pc' = "closing"
  BY <1>2, <1>3, BecomesLost
<1>4. CASE pc' = "next" /\ Len(frames) > 1 /\ frames' = Front(frames)
  <2>1. CurrentSilent(b)'
    BY <1>4 DEF CurrentSilent, Over
  <2>2. ASSUME NEW todo \in SUBSET b PROVE ~Amid(frames, b, todo) \/ cancelled
    <3> SUFFICES ASSUME Amid(frames, b, todo), ~cancelled PROVE FALSE
      OBVIOUS
    <3>1. PICK items : items = frames[Len(frames)].items
      OBVIOUS
    <3>2. items # <<>> /\ Statement(Head(items))
      BY <3>1, InsideNext DEF Amid
    <3>3. Top.items = items
      BY <3>1 DEF Top, Depth
    <3>4. Item = <<"\\q">>
      BY <3>2, <3>3 DEF ScriptEnds, ScriptCancelled, Quit
    <3>5. IsMeta(Item)
      BY <3>4 DEF IsMeta, Metas
    <3> QED BY <3>2, <3>3, <3>5 DEF Statement, Item
  <2>3. CASE Before(b)
    <3>1. AllCalm(frames', b) \/ OneComing(frames', b)
      BY <1>4, <2>3, FrontPile DEF Before
    <3>2. (NonePending(b) /\ NoneCommitted(b) /\ Even(b))'
      BY <1>2, <2>3, StageEven DEF Before, NonePending, NoneCommitted, Even
    <3> QED BY <2>1, <3>1, <3>2 DEF Stage, Before, After
  <2>4. CASE Opening(b) \/ Ending(b)
    BY <1>1, <2>4 DEF Opening, Ending, NotRun
  <2>5. CASE Within(b)
    <3>1. cancelled
      BY <2>2, <2>5 DEF Within
    <3> QED BY <1>1, <1>2, <1>4, <3>1, BecomesLost
  <2>6. CASE After(b)
    <3>1. AllCalm(frames', b)
      BY <1>4, <2>6, FrontPile DEF After
    <3>2. (NonePending(b) /\ Even(b))'
      BY <1>2, <2>6 DEF After, NonePending, Even
    <3> QED BY <2>1, <3>1, <3>2 DEF Stage, After
  <2> QED BY <2>3, <2>4, <2>5, <2>6 DEF Stage
<1> QED BY <1>1, <1>3, <1>4 DEF Leave, Depth

\* The server runs the statement or refuses it.
LEMMA Executed ==
  ASSUME Execute, ExplainInv
  PROVE  /\ pc = "running" /\ pc' = "ran" /\ UNCHANGED <<frames, conn, cancelled, warned>>
         /\ current'.kind = current.kind /\ current'.word = current.word
         /\ current.kind \in Kinds \ NotSent
         /\ \/ /\ current.kind = "commit" /\ tx' = "none" /\ pending' = Zero
               /\ committed' = IF tx = "open" THEN [v \in Writes |-> committed[v] + pending[v]]
                               ELSE committed
            \/ current.kind # "commit" /\ tx = "failed" /\ UNCHANGED <<tx, pending, committed>>
            \/ /\ current.kind = "begin" /\ tx # "failed"
               /\ tx' = "open" /\ UNCHANGED <<pending, committed>>
            \/ /\ current.kind \in {"write", "create", "jev"} /\ tx # "failed"
               /\ tx' = (IF tx = "open" THEN "failed" ELSE tx) /\ UNCHANGED <<pending, committed>>
            \/ /\ current.kind \in {"create", "jev"} /\ tx # "failed"
               /\ UNCHANGED <<tx, pending, committed>>
            \/ /\ current.kind = "write" /\ tx = "open" /\ UNCHANGED <<tx, committed>>
               /\ pending' = [pending EXCEPT ![current.word] = @ + 1]
            \/ /\ current.kind = "write" /\ tx \notin {"open", "failed"} /\ UNCHANGED <<tx, pending>>
               /\ committed' = [committed EXCEPT ![current.word] = @ + 1]
<1>1. pc = "running" /\ pc' = "ran" /\ UNCHANGED <<frames, conn, cancelled, warned>>
  BY DEF Execute
<1>2. current.kind \in Kinds \ NotSent /\ DOMAIN current = DOMAIN NoStatement
  BY <1>1 DEF ExplainInv, Over
<1>3. \A ok : current' = [current EXCEPT !.ok = ok] =>
                current'.kind = current.kind /\ current'.word = current.word
  BY <1>2 DEF NoStatement
<1>4. CASE current.kind = "commit"
  BY <1>1, <1>2, <1>3, <1>4 DEF Execute
<1>5. CASE current.kind # "commit" /\ tx = "failed"
  BY <1>1, <1>2, <1>3, <1>5 DEF Execute
<1>6. CASE current.kind = "begin" /\ tx # "failed"
  BY <1>1, <1>2, <1>3, <1>6 DEF Execute
<1>7. CASE current.kind \in {"write", "create", "jev"} /\ tx # "failed"
  <2>1. /\ \E ok : current' = [current EXCEPT !.ok = ok]
        /\ \/ tx' = (IF tx = "open" THEN "failed" ELSE tx) /\ UNCHANGED <<pending, committed>>
           \/ current.kind # "write" /\ UNCHANGED <<tx, pending, committed>>
           \/ /\ current.kind = "write" /\ tx = "open" /\ UNCHANGED <<tx, committed>>
              /\ pending' = [pending EXCEPT ![current.word] = @ + 1]
           \/ /\ current.kind = "write" /\ tx # "open" /\ UNCHANGED <<tx, pending>>
              /\ committed' = [committed EXCEPT ![current.word] = @ + 1]
    BY <1>7 DEF Execute
  <2> QED BY <1>1, <1>2, <1>3, <1>7, <2>1
<1> QED BY <1>2, <1>4, <1>5, <1>6, <1>7 DEF Kinds, NotSent

LEMMA ExecuteKeeps ==
  ASSUME NEW b, Stage(b), ~Lost(b), Execute, ExplainInv, Sides, b \subseteq Writes
  PROVE  Stage(b)'
<1>1. /\ pc \in NotRun /\ pc' \notin Over /\ pc' \notin NotRun /\ pc \notin Over
      /\ frames' = frames
      /\ current'.kind = current.kind /\ current'.word = current.word
      /\ current.kind \in Kinds \ NotSent
  BY Executed DEF NotRun, Over
<1>2. pending \in [Writes -> Nat] /\ committed \in [Writes -> Nat]
  BY DEF Sides
<1>3. \A w \in b : ~AtHand(w)'
  BY <1>1 DEF AtHand
<1>4. ASSUME CurrentSilent(b), NonePending(b)
      PROVE  /\ CurrentSilent(b)' /\ NonePending(b)'
             /\ \A w \in b : committed'[w] = committed[w]
  <2>1. CurrentSilent(b)'
    BY <1>1, <1>4 DEF CurrentSilent
  <2>2. current.kind = "write" => current.word \notin b
    BY <1>1, <1>4 DEF CurrentSilent
  <2>3. \A w \in b : pending[w] = 0 /\ w \in Writes /\ committed[w] \in Nat
    BY <1>2, <1>4 DEF NonePending
  <2>4. \A w \in b : pending'[w] = 0 /\ committed'[w] = committed[w]
    <3> SUFFICES ASSUME NEW w \in b PROVE pending'[w] = 0 /\ committed'[w] = committed[w]
      OBVIOUS
    <3>1. CASE UNCHANGED <<pending, committed>>
      BY <2>3, <3>1
    <3>2. CASE /\ pending' = Zero
               /\ committed' = IF tx = "open" THEN [v \in Writes |-> committed[v] + pending[v]]
                               ELSE committed
      BY <2>3, <3>2 DEF Zero
    <3>3. CASE /\ current.kind = "write" /\ committed' = committed
               /\ pending' = [pending EXCEPT ![current.word] = @ + 1]
      BY <1>2, <2>2, <2>3, <3>3
    <3>4. CASE /\ current.kind = "write" /\ pending' = pending
               /\ committed' = [committed EXCEPT ![current.word] = @ + 1]
      BY <1>2, <2>2, <2>3, <3>4
    <3> QED BY <3>1, <3>2, <3>3, <3>4, Executed
  <2> QED BY <2>1, <2>4 DEF NonePending
<1>5. CASE Before(b)
  <2>1. OneComing(frames', b) /\ CurrentSilent(b)' /\ NoneCommitted(b)' /\ NonePending(b)'
    BY <1>1, <1>4, <1>5 DEF Before, NoneCommitted
  <2> QED BY <2>1 DEF Stage, Before
<1>6. CASE Opening(b)
  <2>1. current.kind = "begin" /\ UNCHANGED <<pending, committed>>
        /\ (tx' = "failed" \/ tx' = "open")
    BY <1>6, Executed DEF Opening
  <2>2. /\ NoneCommitted(b)' /\ Amid(frames', b, b)
        /\ \A w \in b : pending'[w] = IF w \in b \/ AtHand(w)' THEN 0 ELSE 1
    BY <1>1, <1>6, <2>1 DEF Opening, NoneCommitted, NonePending
  <2>3. Within(b)'
    <3>1. pc' \notin NotRun /\ b \in SUBSET b
      BY <1>1, <2>1
    <3> QED BY <1>3, <2>1, <2>2, <3>1 DEF Within
  <2> QED BY <2>3 DEF Stage
<1>7. CASE Within(b)
  <2>1. PICK todo \in SUBSET b :
          /\ Amid(frames, b, todo)
          /\ \A w \in b : AtHand(w) => w \notin todo
          /\ \/ tx = "failed"
             \/ tx = "open" /\ \A w \in b : pending[w] = IF w \in todo \/ AtHand(w) THEN 0 ELSE 1
    BY <1>7 DEF Within
  <2>2. current.kind \in {"write", "create", "jev"}
    BY <1>1, <1>7 DEF Within, Kinds, NotSent
  <2>3. Amid(frames', b, todo)
    BY <1>1, <2>1
  <2>4. committed' = committed /\
        (tx' = "failed" \/
         (tx' = "open" /\ \A w \in b : pending'[w] = IF w \in todo \/ AtHand(w)' THEN 0 ELSE 1))
    <3>1. CASE tx = "failed" /\ UNCHANGED <<tx, pending, committed>>
      BY <3>1
    <3>2. CASE tx = "open" /\ tx' = "failed" /\ committed' = committed
      BY <3>2
    <3>3. CASE current.kind # "write" /\ tx = "open" /\ UNCHANGED <<tx, pending, committed>>
      <4>1. \A w \in b : ~AtHand(w)
        BY <3>3 DEF AtHand
      <4> QED BY <1>3, <2>1, <3>3, <4>1
    <3>4. CASE /\ current.kind = "write" /\ tx = "open" /\ UNCHANGED <<tx, committed>>
               /\ pending' = [pending EXCEPT ![current.word] = @ + 1]
      <4>1. \A w \in b : AtHand(w) <=> current.word = w
        BY <1>1, <3>4 DEF AtHand
      <4>2. \A w \in b : pending[w] = IF w \in todo \/ current.word = w THEN 0 ELSE 1
        BY <2>1, <3>4, <4>1
      <4>3. \A w \in b : current.word = w => w \notin todo
        BY <2>1, <4>1
      <4>4. \A w \in b : pending'[w] = IF current.word = w THEN pending[w] + 1 ELSE pending[w]
        BY <1>2, <3>4
      <4>5. \A w \in b : pending'[w] = IF w \in todo THEN 0 ELSE 1
        BY <4>2, <4>3, <4>4
      <4> QED BY <1>3, <3>4, <4>5
    <3> QED BY <2>1, <2>2, <3>1, <3>2, <3>3, <3>4, Executed
  <2>5. NoneCommitted(b)'
    BY <1>7, <2>4 DEF Within, NoneCommitted
  <2>6. Within(b)'
    BY <1>1, <1>3, <2>3, <2>4, <2>5 DEF Within
  <2> QED BY <2>6 DEF Stage
<1>8. CASE Ending(b)
  <2>1. /\ current.kind = "commit" /\ pending' = Zero
        /\ committed' = IF tx = "open" THEN [v \in Writes |-> committed[v] + pending[v]]
                        ELSE committed
    BY <1>8, Executed DEF Ending
  <2>2. \A w \in b : w \in Writes /\ committed[w] = 0
    BY <1>8 DEF Ending, NoneCommitted
  <2>3. Even(b)'
    <3>1. CASE tx = "failed"
      <4>1. committed' = committed
        BY <2>1, <3>1
      <4> QED BY <2>2, <4>1 DEF Even
    <3>2. CASE tx = "open" /\ \A w \in b : pending[w] = 1
      <4>1. \A w \in b : committed'[w] = 1
        BY <2>1, <2>2, <3>2
      <4> QED BY <4>1 DEF Even
    <3> QED BY <1>8, <3>1, <3>2 DEF Ending
  <2>4. AllCalm(frames', b) /\ CurrentSilent(b)' /\ NonePending(b)'
    BY <1>1, <1>8, <2>1, <2>2 DEF Ending, CurrentSilent, NonePending, Zero
  <2> QED BY <2>3, <2>4 DEF Stage, After
<1>9. CASE After(b)
  <2>1. AllCalm(frames', b) /\ CurrentSilent(b)' /\ NonePending(b)'
        /\ \A w \in b : committed'[w] = committed[w]
    BY <1>1, <1>4, <1>9 DEF After
  <2>2. Even(b)'
    BY <1>9, <2>1 DEF After, Even
  <2> QED BY <2>1, <2>2 DEF Stage, After
<1> QED BY <1>5, <1>6, <1>7, <1>8, <1>9 DEF Stage
-----------------------------------------------------------------------------
\* Items are not empty.
LEMMA ItemThere ==
  ASSUME NEW b, Stage(b), ~Lost(b), IsPile(frames), ItemReady
  PROVE  Item # <<>>
<1>1. /\ pc = "next" /\ frames[Len(frames)].items # <<>>
      /\ Item = Head(frames[Len(frames)].items)
  BY DEF ItemReady, Item, Top, Depth
<1>2. PICK t : Advanced(frames, t)
  BY TakenItems
<1>3. CASE Before(b)
  <2>1. \/ Silent(Item, b, Quiet(b)) \/ Statement(Item) \/ Includes(Item, Holders(b))
    BY <1>1, <1>2, <1>3, AdvanceComing DEF Before
  <2> QED BY <2>1 DEF Silent, Statement, Includes
<1>4. CASE Opening(b) \/ Ending(b)
  BY <1>1, <1>4 DEF Opening, Ending, NotRun
<1>5. CASE Within(b)
  <2>1. PICK todo \in SUBSET b : Inside(frames[Len(frames)].items, b, todo)
    BY <1>5 DEF Within, Amid
  <2>2. Statement(Item)
    BY <1>1, <2>1, InsideNext
  <2> QED BY <2>2 DEF Statement
<1>6. CASE After(b)
  <2>1. Silent(Item, b, Quiet(b))
    BY <1>1, <1>2, <1>6, AdvanceCalm DEF After
  <2> QED BY <2>1 DEF Silent
<1> QED BY <1>3, <1>4, <1>5, <1>6 DEF Stage

\* An abandoned transaction is never forgotten.
LEMMA EndRemembers == ASSUME NEW how, StatementEnds(how), abandoned PROVE abandoned'
BY DEF StatementEnds, Note, history

\* A reconnect is never forgotten, nor a script that was left in a transaction.
LEMMA WarnedStays == ASSUME Next, ~warned', ~abandoned' PROVE ~warned /\ ~abandoned
<1>1. CASE ScriptEnds \/ ScriptCancelled \/ Quit \/ Include \/ SetKey \/ Send \/ Execute
           \/ Close \/ Signal \/ Lose \/ Exited
  <2>1. CASE ScriptEnds \/ ScriptCancelled \/ Quit \/ Include \/ SetKey \/ Send
    BY <2>1 DEF ScriptEnds, ScriptCancelled, Quit, Include, SetKey, Send, server, history
  <2>2. CASE Execute
    BY <2>2 DEF Execute, history
  <2>3. CASE Close \/ Signal \/ Lose \/ Exited
    BY <2>3 DEF Close, Signal, Lose, Exited, server, history, vars
  <2> QED BY <1>1, <2>1, <2>2, <2>3
<1>2. CASE MetaFails
  BY <1>2 DEF MetaFails, Note, server
<1>3. CASE StartStatement \/ StartExplain
  <2>1. PICK text, explained : Start(text, explained)
    BY <1>3 DEF StartStatement, StartExplain
  <2> QED BY <2>1 DEF Start, server, history
<1>4. CASE AskKey
  BY <1>4, EndRemembers DEF AskKey, server, history
<1>5. CASE Parse
  BY <1>5, EndRemembers DEF Parse, server, history
<1>6. CASE Redial
  BY <1>6, EndRemembers DEF Redial, history
<1>7. CASE Reply
  BY <1>7, EndRemembers DEF Reply, server, history
<1>8. CASE ReplyLost
  BY <1>8, EndRemembers DEF ReplyLost, history
<1>9. CASE Interrupted
  BY <1>9, EndRemembers DEF Interrupted
<1>10. CASE Judged
  BY <1>10, EndRemembers DEF Judged, server
<1> QED
  BY <1>1, <1>2, <1>3, <1>4, <1>5, <1>6, <1>7, <1>8, <1>9, <1>10 DEF Next, Loop, RunStatement

LEMMA LoopKeeps ==
  ASSUME NEW b, Stage(b), ~Lost(b), Loop, IsPile(frames)
  PROVE  Stage(b)'
<1>1. CASE ScriptEnds \/ ScriptCancelled \/ Quit
  BY <1>1, LeaveKeeps
<1>2. CASE Include
  <2>1. PICK t, items : t = Taken /\ items = SplitScript(Files[Item[2]])
    OBVIOUS
  <2>2. frames' = Append(t, Frame(items)) /\ IsPile(t)
    BY <1>2, <2>1, TakenItems DEF Include
  <2>3. t \in Seq(ToSet(t) \cup {Frame(items)})
    BY <2>2 DEF IsPile
  <2>4. Piled(t, frames', items)
    BY <2>2, <2>3 DEF Piled, Frame
  <2>5. /\ ItemReady /\ Head(Item) = "\\i" /\ Item[2] \in DOMAIN Files
        /\ UNCHANGED <<pc, current, server>>
    BY <1>2 DEF Include
  <2>6. Item # <<>>
    BY <2>5, ItemThere
  <2>7. IsMeta(Item) /\ Includes(Item, DOMAIN Files)
    BY <2>5, <2>6 DEF IsMeta, Metas, Includes
  <2> QED BY <2>1, <2>4, <2>5, <2>7, MetaKeeps
<1>3. CASE MetaFails
  <2>1. /\ ItemReady /\ UNCHANGED <<pc, current, server>>
        /\ (Head(Item) = "\\i" /\ Item[2] \notin DOMAIN Files) \/ Head(Item) = "\\nope"
    BY <1>3 DEF MetaFails
  <2>2. IsMeta(Item) /\ ~Includes(Item, DOMAIN Files)
    BY <2>1, ItemThere DEF IsMeta, Metas, Includes
  <2>3. PICK t : t = Taken
    OBVIOUS
  <2>4. IsPile(t) /\ Len(t) = Depth /\ Advanced(frames, t)
    BY <2>3, TakenItems, TakenKeeps
  <2>5. frames' = Recoded(t, ExitSQL)
    BY <1>3, <2>3, <2>4 DEF MetaFails, Recoded
  <2>6. SameItems(t, frames')
    <3>1. SameItems(t, Recoded(t, ExitSQL))
      BY <2>4, RecodedItems
    <3> QED BY <2>5, <3>1
  <2>7. Advanced(frames, frames')
    BY <2>4, <2>6 DEF Advanced, SameItems, IsPile
  <2> QED BY <2>1, <2>2, <2>7, MetaKeeps
<1>4. CASE SetKey
  <2>1. /\ ItemReady /\ UNCHANGED <<pc, current, server>>
        /\ Item = <<"\\set">> /\ frames' = Taken
    BY <1>4 DEF SetKey
  <2>2. IsMeta(Item) /\ ~Includes(Item, DOMAIN Files)
    BY <2>1 DEF IsMeta, Metas, Includes
  <2> QED BY <2>1, <2>2, TakenItems, MetaKeeps
<1>5. CASE StartStatement
  <2>1. ItemReady /\ ~IsMeta(Item) /\ Start(Item, FALSE) /\ UNCHANGED server
    BY <1>5 DEF StartStatement, Start
  <2>2. ~Includes(Item, Holders(b))
    BY <2>1 DEF IsMeta, Metas, Includes
  <2> QED BY <2>1, <2>2, StartKeeps
<1>6. CASE StartExplain
  <2>1. ItemReady /\ Head(Item) = "\\explain" /\ Start(Tail(Item), TRUE) /\ UNCHANGED server
    BY <1>6 DEF StartExplain, Start
  <2>2. IsMeta(Item) /\ ~Includes(Item, Holders(b))
    BY <2>1, ItemThere DEF IsMeta, Metas, Includes
  <2> QED BY <2>1, <2>2, StartKeeps
<1> QED BY <1>1, <1>2, <1>3, <1>4, <1>5, <1>6 DEF Loop

LEMMA RunKeeps ==
  ASSUME NEW b, Stage(b), ~Lost(b), RunStatement, ~warned', ~abandoned', Sides, ExplainInv,
         IsPile(frames),
         b \subseteq Writes
  PROVE  Stage(b)'
<1>0. conn = "up"
  BY StageEven DEF Lost
<1>1. CASE AskKey
  <2>1. /\ pc = "key" /\ current.kind \in {"jev", "refused"} /\ UNCHANGED <<tx, pending, committed>>
        /\ (pc' = "parse" /\ UNCHANGED <<frames, current>>) \/ StatementEnds("api")
    BY <1>1 DEF AskKey, Sides, server
  <2> QED BY <2>1, IdleKeeps, EndKeeps DEF Over, NotRun
<1>2. CASE Parse
  <2>1. /\ pc = "parse" /\ UNCHANGED <<tx, pending, committed>>
        /\ \/ pc' = "send" /\ UNCHANGED <<frames, current>>
           \/ current.kind \in NotSent \cup {"jev"} /\ StatementEnds("sql")
    BY <1>2 DEF Parse, NotSent, server
  <2> QED BY <2>1, IdleKeeps, EndKeeps DEF Over, NotRun
<1>3. CASE Redial
  BY <1>0, <1>3 DEF Redial
<1>4. CASE Send
  <2>1. /\ pc = "send" /\ pc' = "running"
        /\ UNCHANGED <<frames, current, tx, pending, committed>>
    BY <1>4 DEF Send, server
  <2> QED BY <2>1, IdleKeeps DEF Over, NotRun
<1>5. CASE Execute
  BY <1>5, ExecuteKeeps
<1>6. CASE Reply
  <2>1. /\ pc = "ran" /\ UNCHANGED <<tx, pending, committed>>
        /\ \/ pc' = "judging" /\ UNCHANGED <<frames, current>>
           \/ \E how \in {"ok", "sql"} : StatementEnds(how)
    BY <1>6 DEF Reply, server
  <2> QED BY <2>1, IdleKeeps, EndKeeps DEF Over, NotRun
<1>7. CASE ReplyLost \/ Interrupted
  <2>1. committed' = committed /\ conn' # "up"
    BY <1>7 DEF ReplyLost, Interrupted, Hung
  <2> QED BY <2>1, BecomesLost
<1>8. CASE Judged
  <2>1. /\ pc = "judging" /\ current.kind = "jev" /\ UNCHANGED <<tx, pending, committed>>
        /\ \E how : StatementEnds(how)
    BY <1>8 DEF Judged, Sides, server
  <2> QED BY <2>1, EndKeeps
<1> QED BY <1>1, <1>2, <1>3, <1>4, <1>5, <1>6, <1>7, <1>8 DEF RunStatement

LEMMA StageStep ==
  ASSUME NEW b, Stage(b), Next, ~warned', ~abandoned', Sides, ExplainInv, IsPile(frames),
         b \subseteq Writes
  PROVE  Stage(b)'
<1>1. CASE Lost(b)
  BY <1>1, LostStays
<1>2. CASE ~Lost(b)
  <2>1. CASE Loop
    BY <1>2, <2>1, LoopKeeps
  <2>2. CASE RunStatement
    BY <1>2, <2>2, RunKeeps
  <2>3. CASE Close \/ Lose
    <3>1. committed' = committed /\ conn' # "up"
      BY <2>3 DEF Close, Lose, Hung
    <3> QED BY <3>1, BecomesLost
  <2>4. CASE Signal \/ Exited
    <3>1. UNCHANGED <<pc, frames, current, tx, pending, committed>>
      BY <2>4 DEF Signal, Exited, server, vars
    <3> QED BY <1>2, <3>1, IdleKeeps
  <2> QED BY <2>1, <2>2, <2>3, <2>4 DEF Next
<1> QED BY <1>1, <1>2

Raised(f, w) == [f EXCEPT ![w] = @ + 1]
LEMMA RaisedCounts == ASSUME NEW f \in [Writes -> Nat], NEW w PROVE Raised(f, w) \in [Writes -> Nat]
<1>1. CASE w \in Writes
  BY <1>1 DEF Raised
<1>2. CASE w \notin Writes
  <2>1. Raised(f, w) = f
    BY <1>2 DEF Raised
  <2> QED BY <2>1
<1> QED BY <1>1, <1>2

\* The counters of the server and the places of a session.
LEMMA SidesStep == ASSUME Sides, ExplainInv, Next PROVE Sides'
<1>1. ASSUME UNCHANGED <<pending, committed>> \/ (pending' = Zero /\ committed' = committed)
      PROVE  pending' \in [Writes -> Nat] /\ committed' \in [Writes -> Nat]
  BY <1>1 DEF Sides, Zero
<1>2. ASSUME UNCHANGED <<pending, committed>> \/ (pending' = Zero /\ committed' = committed),
             pc' \in Over
      PROVE  Sides'
  BY <1>1, <1>2 DEF Sides, Over
<1>3. ASSUME NEW how, StatementEnds(how) PROVE pc' \in Over
  BY <1>3, LeaveLeads, GoOnLeads DEF StatementEnds
<1>4. CASE ScriptEnds \/ ScriptCancelled \/ Quit
  <2>1. UNCHANGED <<pending, committed>> /\ pc' \in Over
    BY <1>4, LeaveLeads DEF ScriptEnds, ScriptCancelled, Quit, server
  <2> QED BY <1>2, <2>1
<1>5. CASE Include \/ MetaFails \/ SetKey
  <2>1. UNCHANGED <<pending, committed>> /\ pc' = "next"
    BY <1>5 DEF Include, MetaFails, SetKey, ItemReady, server
  <2> QED BY <1>2, <2>1 DEF Over
<1>6. CASE StartStatement \/ StartExplain
  <2>1. PICK text, explained : Start(text, explained)
    BY <1>6 DEF StartStatement, StartExplain
  <2>2. /\ UNCHANGED <<pending, committed>> /\ current'.kind = Kind(text)
        /\ (pc' = "key" /\ Kind(text) \in {"jev", "refused"}) \/ pc' = "parse"
    BY <2>1, StartWhere DEF Start, server
  <2> QED BY <2>2 DEF Sides, NotRun
<1>7. CASE AskKey \/ Parse \/ Send \/ Reply
  <2>1. /\ UNCHANGED <<pending, committed>>
        /\ \/ pc' \in {"parse", "send", "running"}
           \/ pc' = "judging" /\ current'.kind = "jev"
           \/ \E how : StatementEnds(how)
    BY <1>7 DEF AskKey, Parse, Send, Reply, server
  <2> QED BY <1>1, <1>2, <1>3, <2>1 DEF Sides, NotRun
<1>8. CASE Redial \/ ReplyLost
  <2>1. /\ UNCHANGED <<pending, committed>>
        /\ pc' \in NotRun \cup {"ran"} \/ \E how : StatementEnds(how)
    BY <1>8 DEF Redial, ReplyLost, NotRun
  <2> QED BY <1>1, <1>2, <1>3, <2>1 DEF Sides, NotRun
<1>9. CASE Execute
  <2>1. pc' = "ran"
    BY <1>9 DEF Execute
  <2>2. pending' \in [Writes -> Nat] /\ committed' \in [Writes -> Nat]
    <3>1. CASE UNCHANGED <<pending, committed>>
      BY <1>1, <3>1
    <3>2. CASE /\ pending' = Zero
               /\ committed' = IF tx = "open" THEN [v \in Writes |-> committed[v] + pending[v]]
                               ELSE committed
      BY <3>2 DEF Sides, Zero
    <3>3. CASE pending' = [pending EXCEPT ![current.word] = @ + 1] /\ committed' = committed
      <4>1. pending' = Raised(pending, current.word)
        BY <3>3 DEF Raised
      <4>2. committed' = committed
        BY <3>3
      <4> QED BY <4>1, <4>2, RaisedCounts DEF Sides
    <3>4. CASE committed' = [committed EXCEPT ![current.word] = @ + 1] /\ pending' = pending
      <4>1. committed' = Raised(committed, current.word)
        BY <3>4 DEF Raised
      <4>2. pending' = pending
        BY <3>4
      <4> QED BY <4>1, <4>2, RaisedCounts DEF Sides
    <3> QED BY <1>9, <3>1, <3>2, <3>3, <3>4, Executed
  <2> QED BY <2>1, <2>2 DEF Sides
<1>10. CASE Interrupted \/ Judged \/ Close
  <2>1. UNCHANGED <<pending, committed>> \/ (pending' = Zero /\ committed' = committed)
    BY <1>10 DEF Interrupted, Judged, Close, Hung, server
  <2>2. pc' \in Over
    BY <1>3, <1>10 DEF Interrupted, Judged, Close, Over
  <2> QED BY <1>2, <2>1, <2>2
<1>11. CASE Signal \/ Lose \/ Exited
  <2>1. /\ UNCHANGED <<pending, committed>> \/ (pending' = Zero /\ committed' = committed)
        /\ UNCHANGED <<pc, current>>
    BY <1>11 DEF Signal, Lose, Exited, Hung, server, vars
  <2> QED BY <1>1, <2>1 DEF Sides
<1> QED
  BY <1>4, <1>5, <1>6, <1>7, <1>8, <1>9, <1>10, <1>11 DEF Next, Loop, RunStatement

\* Whatever is lost, refused, retried, interrupted or left with \q, a block that
\* was begun on a connection nobody was warned about is there whole or not at
\* all: from the assumption on where its writes stand, for every text and every
\* set of files.
THEOREM BlocksWhole == Spec => []WholeUnlessWarned
<1>1. Init => WholeInv
  <2> SUFFICES ASSUME Init PROVE WholeInv
    OBVIOUS
  <2>1. Sides
    BY DEF Init, Sides, Zero, Over
  <2>2. ASSUME NEW b \in Sent PROVE Stage(b)
    <3>1. PICK items : /\ frames = <<Frame(items)>>
                       /\ Calm(items, b, Quiet(b)) \/ Ahead(items, b)
                          \/ Through(items, b, Holders(b))
      BY BlocksAssumption DEF Init
    <3>2. Len(frames) = 1 /\ frames[1].items = items
      BY <3>1 DEF Frame
    <3>3. AllCalm(frames, b) \/ OneComing(frames, b)
      BY <3>1, <3>2 DEF AllCalm, OneComing
    <3>4. b \subseteq Writes
      BY BlocksAssumption
    <3>5. /\ pc = "next" /\ \A w \in b : committed[w] = 0 /\ pending[w] = 0
      BY <3>4 DEF Init, Zero
    <3>6. CurrentSilent(b) /\ NoneCommitted(b) /\ NonePending(b) /\ Even(b)
      BY <3>5 DEF CurrentSilent, NoneCommitted, NonePending, Even, Over
    <3> QED BY <3>3, <3>6 DEF Stage, Before, After
  <2> QED BY <2>1, <2>2 DEF WholeInv
<1>2. WholeInv /\ ExplainInv /\ ExitInv /\ [Next]_vars => WholeInv'
  <2> SUFFICES ASSUME WholeInv, ExplainInv, ExitInv, [Next]_vars PROVE WholeInv'
    OBVIOUS
  <2>1. CASE Next
    <3>1. Sides'
      BY <2>1, SidesStep DEF WholeInv
    <3>2. ASSUME ~warned', ~abandoned', NEW b \in Sent PROVE Stage(b)'
      <4>1. ~warned /\ ~abandoned
        BY <2>1, <3>2, WarnedStays
      <4>2. Stage(b) /\ Sides /\ IsPile(frames) /\ b \subseteq Writes
        BY <4>1, BlocksAssumption DEF WholeInv, ExitInv
      <4> QED BY <2>1, <3>2, <4>2, StageStep
    <3> QED BY <3>1, <3>2 DEF WholeInv
  <2>2. CASE UNCHANGED vars
    <3>1. UNCHANGED <<pc, frames, current, conn, cancelled, warned, abandoned, tx, pending, committed>>
      BY <2>2 DEF vars, server, history
    <3>2. Sides'
      BY <3>1 DEF WholeInv, Sides
    <3>3. ASSUME ~warned', ~abandoned', NEW b \in Sent PROVE Stage(b)'
      <4>1. Stage(b)
        BY <3>1, <3>3 DEF WholeInv
      <4>2. CASE Lost(b)
        <5>1. Lost(b)'
          BY <3>1, <4>2 DEF Lost, Even
        <5> QED BY <5>1 DEF Stage
      <4>3. CASE ~Lost(b)
        BY <3>1, <4>1, <4>3, IdleKeeps
      <4> QED BY <4>2, <4>3
    <3> QED BY <3>2, <3>3 DEF WholeInv
  <2> QED BY <2>1, <2>2
<1>3. WholeInv => WholeUnlessWarned
  BY StageEven DEF WholeInv, WholeUnlessWarned, Even
<1> QED BY <1>1, <1>2, <1>3, ExplainHolds, ExitHolds, PTL DEF Spec
-----------------------------------------------------------------------------
(* What a text is cut into.                                                 *)

LEMMA Induct ==
  ASSUME NEW P \in SUBSET Nat, 0 \in P, \A n \in P : n + 1 \in P
  PROVE  P = Nat
<1> DEFINE R == {ss \in Nat \X Nat : ss[1] < ss[2]}
<1> SUFFICES ASSUME Nat \ P # {} PROVE FALSE
  OBVIOUS
<1>1. IsWellFoundedOn(R, Nat)
  BY NatLessThanWellFounded DEF OpToRel
<1>2. PICK x \in Nat \ P : \A y \in Nat \ P : ~(<<y, x>> \in R)
  <2>1. Nat \ P \subseteq Nat
    OBVIOUS
  <2> HIDE DEF R
  <2> QED BY <1>1, <2>1, WFMin
<1>3. x - 1 \in Nat
  OBVIOUS
<1>4. <<x - 1, x>> \in R
  BY <1>3
<1>5. x - 1 \in P
  BY <1>2, <1>3, <1>4
<1>6. (x - 1) + 1 \in P
  BY <1>5
<1> QED BY <1>6

\* Induction up to a bound.
LEMMA InductTo ==
  ASSUME NEW n \in Nat, NEW P \in SUBSET (0 .. n), 0 \in P, \A k \in 0 .. n - 1 : k \in P => k + 1 \in P
  PROVE  P = 0 .. n
<1> DEFINE Q == {k \in Nat : k <= n => k \in P}
<1>1. ASSUME NEW k \in Q PROVE k + 1 \in Q
  <2>1. k + 1 <= n => k \in 0 .. n - 1
    OBVIOUS
  <2> QED BY <2>1
<1>2. Q = Nat
  <2>1. 0 \in Q /\ Q \in SUBSET Nat
    OBVIOUS
  <2> HIDE DEF Q
  <2> QED BY <1>1, <2>1, Induct
<1>3. \A k \in 0 .. n : k \in Nat /\ k <= n
  OBVIOUS
<1>4. \A k \in 0 .. n : k \in P
  BY <1>2, <1>3
<1> QED BY <1>4
-----------------------------------------------------------------------------
\* What a loop over a text has, and over lines, after each step.
Scans(f, acc, text, n) ==
  f = [k \in 0 .. n |-> IF k = 0 THEN acc ELSE Lexeme(f[k - 1], text[k])]
Reads(f, lines, n) ==
  f = [k \in 0 .. n |-> IF k = 0 THEN Nothing ELSE ReadLine(f[k - 1], lines[k])]

\* The pieces if all lines were cut where they are read, as psql does, and meta
\* commands were lines as for the code: half way between the two.
CutLine(acc, line) ==
  IF IsMeta(line) /\ OnlyComments(acc.buf) THEN [out |-> Append(acc.out, line), buf |-> <<>>]
  ELSE Scan(acc, line)
Joined(lines) ==
  LET upTo[k \in 0 .. Len(lines)] == IF k = 0 THEN Nothing ELSE CutLine(upTo[k - 1], lines[k])
  IN  Flushed(upTo[Len(lines)]).out
ReadsWhole(f, lines, n) ==
  f = [k \in 0 .. n |-> IF k = 0 THEN Nothing ELSE CutLine(f[k - 1], lines[k])]

LEMMA ScansExists ==
  ASSUME NEW acc, NEW text, NEW n \in Nat
  PROVE  \E f : Scans(f, acc, text, n)
<1> DEFINE P == {m \in 0 .. n : \E f : Scans(f, acc, text, m)}
<1>1. 0 \in P
  <2>1. Scans([k \in 0 .. 0 |-> acc], acc, text, 0)
    BY DEF Scans
  <2> QED BY <2>1
<1>2. ASSUME NEW m \in 0 .. n - 1, m \in P PROVE m + 1 \in P
  <2>1. PICK f : Scans(f, acc, text, m)
    BY <1>2
  <2> DEFINE g == [k \in 0 .. m + 1 |-> IF k = 0 THEN acc ELSE Lexeme(f[k - 1], text[k])]
  <2>2. ASSUME NEW k \in 0 .. m PROVE g[k] = f[k]
    BY <2>1 DEF Scans
  <2>3. ASSUME NEW k \in 0 .. m + 1, k # 0 PROVE g[k - 1] = f[k - 1]
    <3>1. k - 1 \in 0 .. m
      BY <2>3
    <3> QED BY <2>2, <3>1
  <2>4. g = [k \in 0 .. m + 1 |-> IF k = 0 THEN acc ELSE Lexeme(g[k - 1], text[k])]
    BY <2>3
  <2>5. Scans(g, acc, text, m + 1)
    BY <2>4 DEF Scans
  <2>6. m + 1 \in 0 .. n
    OBVIOUS
  <2> QED BY <2>5, <2>6
<1>3. P = 0 .. n
  <2>1. P \in SUBSET (0 .. n)
    OBVIOUS
  <2> HIDE DEF P
  <2> QED BY <1>1, <1>2, <2>1, InductTo
<1> QED BY <1>3

LEMMA ReadsExists ==
  ASSUME NEW lines, NEW n \in Nat
  PROVE  \E f : Reads(f, lines, n)
<1> DEFINE P == {m \in 0 .. n : \E f : Reads(f, lines, m)}
<1>1. 0 \in P
  <2>1. Reads([k \in 0 .. 0 |-> Nothing], lines, 0)
    BY DEF Reads
  <2> QED BY <2>1
<1>2. ASSUME NEW m \in 0 .. n - 1, m \in P PROVE m + 1 \in P
  <2>1. PICK f : Reads(f, lines, m)
    BY <1>2
  <2> DEFINE g == [k \in 0 .. m + 1 |-> IF k = 0 THEN Nothing ELSE ReadLine(f[k - 1], lines[k])]
  <2>2. ASSUME NEW k \in 0 .. m PROVE g[k] = f[k]
    BY <2>1 DEF Reads
  <2>3. ASSUME NEW k \in 0 .. m + 1, k # 0 PROVE g[k - 1] = f[k - 1]
    <3>1. k - 1 \in 0 .. m
      BY <2>3
    <3> QED BY <2>2, <3>1
  <2>4. g = [k \in 0 .. m + 1 |-> IF k = 0 THEN Nothing ELSE ReadLine(g[k - 1], lines[k])]
    BY <2>3
  <2>5. Reads(g, lines, m + 1)
    BY <2>4 DEF Reads
  <2>6. m + 1 \in 0 .. n
    OBVIOUS
  <2> QED BY <2>5, <2>6
<1>3. P = 0 .. n
  <2>1. P \in SUBSET (0 .. n)
    OBVIOUS
  <2> HIDE DEF P
  <2> QED BY <1>1, <1>2, <2>1, InductTo
<1> QED BY <1>3

LEMMA ReadsWholeExists ==
  ASSUME NEW lines, NEW n \in Nat
  PROVE  \E f : ReadsWhole(f, lines, n)
<1> DEFINE P == {m \in 0 .. n : \E f : ReadsWhole(f, lines, m)}
<1>1. 0 \in P
  <2>1. ReadsWhole([k \in 0 .. 0 |-> Nothing], lines, 0)
    BY DEF ReadsWhole
  <2> QED BY <2>1
<1>2. ASSUME NEW m \in 0 .. n - 1, m \in P PROVE m + 1 \in P
  <2>1. PICK f : ReadsWhole(f, lines, m)
    BY <1>2
  <2> DEFINE g == [k \in 0 .. m + 1 |-> IF k = 0 THEN Nothing ELSE CutLine(f[k - 1], lines[k])]
  <2>2. ASSUME NEW k \in 0 .. m PROVE g[k] = f[k]
    BY <2>1 DEF ReadsWhole
  <2>3. ASSUME NEW k \in 0 .. m + 1, k # 0 PROVE g[k - 1] = f[k - 1]
    <3>1. k - 1 \in 0 .. m
      BY <2>3
    <3> QED BY <2>2, <3>1
  <2>4. g = [k \in 0 .. m + 1 |-> IF k = 0 THEN Nothing ELSE CutLine(g[k - 1], lines[k])]
    BY <2>3
  <2>5. ReadsWhole(g, lines, m + 1)
    BY <2>4 DEF ReadsWhole
  <2>6. m + 1 \in 0 .. n
    OBVIOUS
  <2> QED BY <2>5, <2>6
<1>3. P = 0 .. n
  <2>1. P \in SUBSET (0 .. n)
    OBVIOUS
  <2> HIDE DEF P
  <2> QED BY <1>1, <1>2, <2>1, InductTo
<1> QED BY <1>3

\* The same without the functions' definitions.
Steps(f, acc, text, n) == f[0] = acc /\ \A k \in 1 .. n : f[k] = Lexeme(f[k - 1], text[k])

LEMMA ScanSteps ==
  ASSUME NEW acc, NEW text, NEW n \in Nat, n = Len(text)
  PROVE  \E f : Steps(f, acc, text, n) /\ Scan(acc, text) = f[n]
<1> DEFINE F == CHOOSE f : Scans(f, acc, text, n)
<1>1. Scans(F, acc, text, n)
  BY ScansExists
<1>2. Scan(acc, text) = F[n]
  BY DEF Scan, Scans
<1> HIDE DEF F
<1>3. Steps(F, acc, text, n)
  BY <1>1 DEF Scans, Steps
<1> QED BY <1>2, <1>3

LEMMA ReadSteps ==
  ASSUME NEW lines, NEW n \in Nat, n = Len(lines)
  PROVE  \E f : /\ f[0] = Nothing /\ \A k \in 1 .. n : f[k] = ReadLine(f[k - 1], lines[k])
                /\ Read(lines) = f[n]
<1> DEFINE F == CHOOSE f : Reads(f, lines, n)
<1>1. Reads(F, lines, n)
  BY ReadsExists
<1>2. Read(lines) = F[n]
  BY DEF Read, Reads
<1> HIDE DEF F
<1>3. F[0] = Nothing /\ \A k \in 1 .. n : F[k] = ReadLine(F[k - 1], lines[k])
  BY <1>1 DEF Reads
<1> QED BY <1>2, <1>3

LEMMA WholeSteps ==
  ASSUME NEW lines, NEW n \in Nat, n = Len(lines)
  PROVE  \E f : /\ f[0] = Nothing /\ \A k \in 1 .. n : f[k] = CutLine(f[k - 1], lines[k])
                /\ Joined(lines) = Flushed(f[n]).out
<1> DEFINE F == CHOOSE f : ReadsWhole(f, lines, n)
<1>1. ReadsWhole(F, lines, n)
  BY ReadsWholeExists
<1>2. Joined(lines) = Flushed(F[n]).out
  BY DEF Joined, ReadsWhole
<1> HIDE DEF F
<1>3. F[0] = Nothing /\ \A k \in 1 .. n : F[k] = CutLine(F[k - 1], lines[k])
  BY <1>1 DEF ReadsWhole
<1> QED BY <1>2, <1>3
-----------------------------------------------------------------------------
Accs(L) == [out : Seq(Seq(L)), buf : Seq(L)]

LEMMA NothingType == ASSUME NEW L PROVE Nothing \in Accs(L)
BY DEF Nothing, Accs

LEMMA LexemeType ==
  ASSUME NEW L, NEW acc \in Accs(L), NEW t \in L
  PROVE  /\ Flushed(acc) \in Accs(L) /\ Lexeme(acc, t) \in Accs(L)
         /\ Flushed(acc).out = IF OnlyComments(acc.buf) THEN acc.out ELSE Append(acc.out, acc.buf)
         /\ Flushed(acc).buf = <<>>
         /\ t = ";" /\ ~Unclosed(acc.buf) => Lexeme(acc, t) = Flushed(acc)
         /\ ~(t = ";" /\ ~Unclosed(acc.buf)) =>
              Lexeme(acc, t).out = acc.out /\ Lexeme(acc, t).buf = Append(acc.buf, t)
<1>1. acc.out \in Seq(Seq(L)) /\ acc.buf \in Seq(L)
  BY DEF Accs
<1>2. /\ Flushed(acc) \in Accs(L)
      /\ Flushed(acc).out = IF OnlyComments(acc.buf) THEN acc.out ELSE Append(acc.out, acc.buf)
      /\ Flushed(acc).buf = <<>>
  <2>1. Append(acc.out, acc.buf) \in Seq(Seq(L)) /\ <<>> \in Seq(L)
    BY <1>1
  <2> QED BY <1>1, <2>1 DEF Flushed, Accs
<1>3. CASE t = ";" /\ ~Unclosed(acc.buf)
  <2>1. Lexeme(acc, t) = Flushed(acc)
    BY <1>3 DEF Lexeme
  <2> QED BY <1>2, <1>3, <2>1
<1>4. CASE ~(t = ";" /\ ~Unclosed(acc.buf))
  <2>1. PICK o \in Seq(Seq(L)), b \in Seq(L) : acc = [out |-> o, buf |-> b]
    BY DEF Accs
  <2>2. Lexeme(acc, t) = [acc EXCEPT !.buf = Append(@, t)]
    BY <1>4 DEF Lexeme
  <2>3. Append(b, t) \in Seq(L) /\ acc.out = o /\ acc.buf = b
    BY <2>1
  <2>4. Lexeme(acc, t) = [out |-> o, buf |-> Append(b, t)]
    BY <2>1, <2>2
  <2>5. Lexeme(acc, t) \in Accs(L)
    BY <2>3, <2>4 DEF Accs
  <2>6. Lexeme(acc, t).out = acc.out /\ Lexeme(acc, t).buf = Append(acc.buf, t)
    BY <2>3, <2>4
  <2> QED BY <1>2, <1>4, <2>5, <2>6
<1> QED BY <1>3, <1>4

LEMMA SameAcc ==
  ASSUME NEW L, NEW a \in Accs(L), NEW b \in Accs(L), a.out = b.out, a.buf = b.buf
  PROVE  a = b
BY DEF Accs

LEMMA FlushedOut ==
  ASSUME NEW L, NEW acc \in Accs(L)
  PROVE  /\ OnlyComments(acc.buf) => Flushed(acc).out = acc.out
         /\ ~OnlyComments(acc.buf) => Flushed(acc).out = Append(acc.out, acc.buf)
BY DEF Flushed

LEMMA ScanTypes ==
  ASSUME NEW L, NEW acc \in Accs(L), NEW text \in Seq(L), NEW n \in Nat, n = Len(text),
         NEW f, Steps(f, acc, text, n)
  PROVE  \A k \in 0 .. n : f[k] \in Accs(L)
<1> DEFINE P == {k \in 0 .. n : f[k] \in Accs(L)}
<1>1. 0 \in P
  BY DEF Steps
<1>2. ASSUME NEW k \in 0 .. n - 1, k \in P PROVE k + 1 \in P
  <2>1. k + 1 \in 1 .. n /\ (k + 1) - 1 = k
    OBVIOUS
  <2>2. f[k + 1] = Lexeme(f[k], text[k + 1])
    BY <2>1 DEF Steps
  <2>3. text[k + 1] \in L
    BY <2>1
  <2>4. f[k] \in Accs(L)
    BY <1>2
  <2>5. f[k + 1] \in Accs(L)
    BY <2>2, <2>3, <2>4, LexemeType
  <2> QED BY <2>1, <2>5
<1>3. P = 0 .. n
  <2>1. P \in SUBSET (0 .. n)
    OBVIOUS
  <2> HIDE DEF P
  <2> QED BY <1>1, <1>2, <2>1, InductTo
<1> QED BY <1>3

LEMMA ScanType ==
  ASSUME NEW L, NEW acc \in Accs(L), NEW text \in Seq(L)
  PROVE  Scan(acc, text) \in Accs(L)
<1>1. PICK n \in Nat : n = Len(text)
  OBVIOUS
<1>2. PICK f : Steps(f, acc, text, n) /\ Scan(acc, text) = f[n]
  BY <1>1, ScanSteps
<1>3. n \in 0 .. n
  OBVIOUS
<1> QED BY <1>1, <1>2, <1>3, ScanTypes

\* A text and then another one.
LEMMA ScanJoins ==
  ASSUME NEW L, NEW acc, NEW a \in Seq(L), NEW b \in Seq(L)
  PROVE  Scan(acc, a \o b) = Scan(Scan(acc, a), b)
<1>1. PICK m \in Nat : m = Len(a)
  OBVIOUS
<1>2. PICK n \in Nat : n = Len(b)
  OBVIOUS
<1>3. PICK ab : ab = a \o b
  OBVIOUS
<1>4. /\ Len(ab) = m + n
      /\ \A k \in 1 .. m : ab[k] = a[k]
      /\ \A k \in 1 .. n : ab[m + k] = b[k]
  BY <1>1, <1>2, <1>3
<1>5. PICK f : Steps(f, acc, a, m) /\ Scan(acc, a) = f[m]
  BY <1>1, ScanSteps
<1>6. PICK g : Steps(g, f[m], b, n) /\ Scan(f[m], b) = g[n]
  BY <1>2, ScanSteps
<1>7. PICK h : Steps(h, acc, ab, m + n) /\ Scan(acc, ab) = h[m + n]
  <2>1. m + n \in Nat
    OBVIOUS
  <2> QED BY <1>4, <2>1, ScanSteps
<1>8. \A k \in 0 .. m : h[k] = f[k]
  <2> DEFINE P == {k \in 0 .. m : h[k] = f[k]}
  <2>1. 0 \in P
    BY <1>5, <1>7 DEF Steps
  <2>2. ASSUME NEW k \in 0 .. m - 1, k \in P PROVE k + 1 \in P
    <3>1. k + 1 \in 1 .. m /\ k + 1 \in 1 .. m + n /\ (k + 1) - 1 = k
      OBVIOUS
    <3>2. h[k + 1] = Lexeme(h[k], ab[k + 1]) /\ f[k + 1] = Lexeme(f[k], a[k + 1])
      BY <1>5, <1>7, <3>1 DEF Steps
    <3>3. h[k] = f[k] /\ ab[k + 1] = a[k + 1]
      BY <1>4, <2>2, <3>1
    <3> QED BY <3>1, <3>2, <3>3
  <2>3. P = 0 .. m
    <3>1. P \in SUBSET (0 .. m)
      OBVIOUS
    <3> HIDE DEF P
    <3> QED BY <2>1, <2>2, <3>1, InductTo
  <2> QED BY <2>3
<1>9. \A k \in 0 .. n : h[m + k] = g[k]
  <2> DEFINE P == {k \in 0 .. n : h[m + k] = g[k]}
  <2>1. 0 \in P
    <3>1. m \in 0 .. m /\ m + 0 = m
      OBVIOUS
    <3> QED BY <1>6, <1>8, <3>1 DEF Steps
  <2>2. ASSUME NEW k \in 0 .. n - 1, k \in P PROVE k + 1 \in P
    <3>1. /\ k + 1 \in 1 .. n /\ (k + 1) - 1 = k
          /\ m + (k + 1) \in 1 .. m + n /\ (m + (k + 1)) - 1 = m + k
      OBVIOUS
    <3>2. h[m + (k + 1)] = Lexeme(h[m + k], ab[m + (k + 1)]) /\ g[k + 1] = Lexeme(g[k], b[k + 1])
      BY <1>6, <1>7, <3>1 DEF Steps
    <3>3. h[m + k] = g[k] /\ ab[m + (k + 1)] = b[k + 1]
      BY <1>4, <2>2, <3>1
    <3> QED BY <3>1, <3>2, <3>3
  <2>3. P = 0 .. n
    <3>1. P \in SUBSET (0 .. n)
      OBVIOUS
    <3> HIDE DEF P
    <3> QED BY <2>1, <2>2, <3>1, InductTo
  <2> QED BY <2>3
<1>10. h[m + n] = g[n]
  <2>1. n \in 0 .. n
    OBVIOUS
  <2> QED BY <1>9, <2>1
<1> QED BY <1>3, <1>5, <1>6, <1>7, <1>10

LEMMA AppendAfter ==
  ASSUME NEW S, NEW o \in Seq(S), NEW s \in Seq(S), NEW x \in S
  PROVE  o \o Append(s, x) = Append(o \o s, x)
OBVIOUS

\* What was cut before a text only stands before what is cut from it.
LEMMA ScanAfter ==
  ASSUME NEW L, NEW o \in Seq(Seq(L)), NEW text \in Seq(L)
  PROVE  /\ Scan([out |-> o, buf |-> <<>>], text).out = o \o Scan(Nothing, text).out
         /\ Scan([out |-> o, buf |-> <<>>], text).buf = Scan(Nothing, text).buf
<1>1. PICK n \in Nat : n = Len(text)
  OBVIOUS
<1>2. PICK acc : acc = [out |-> o, buf |-> <<>>]
  OBVIOUS
<1>3. acc \in Accs(L) /\ acc.out = o /\ acc.buf = <<>>
  BY <1>2 DEF Accs
<1>4. PICK g : Steps(g, acc, text, n) /\ Scan(acc, text) = g[n]
  BY <1>1, ScanSteps
<1>5. PICK f : Steps(f, Nothing, text, n) /\ Scan(Nothing, text) = f[n]
  BY <1>1, ScanSteps
<1>6. \A k \in 0 .. n : f[k] \in Accs(L) /\ g[k] \in Accs(L)
  BY <1>1, <1>3, <1>4, <1>5, NothingType, ScanTypes
<1> DEFINE P == {k \in 0 .. n : g[k].out = o \o f[k].out /\ g[k].buf = f[k].buf}
<1>7. 0 \in P
  <2>1. o \o <<>> = o
    OBVIOUS
  <2>2. Nothing.out = <<>> /\ Nothing.buf = <<>>
    BY DEF Nothing
  <2>3. g[0] = acc /\ f[0] = Nothing
    BY <1>4, <1>5 DEF Steps
  <2> QED BY <1>3, <2>1, <2>2, <2>3
<1>8. ASSUME NEW k \in 0 .. n - 1, k \in P PROVE k + 1 \in P
  <2>1. k + 1 \in 1 .. n /\ (k + 1) - 1 = k /\ k \in 0 .. n /\ k + 1 \in 0 .. n
    OBVIOUS
  <2>2. PICK t \in L : t = text[k + 1]
    BY <1>1, <2>1
  <2>3. PICK a \in Accs(L) : a = f[k]
    BY <1>6, <2>1
  <2>4. PICK c \in Accs(L) : c = g[k]
    BY <1>6, <2>1
  <2>5. f[k + 1] = Lexeme(a, t) /\ g[k + 1] = Lexeme(c, t)
    BY <1>4, <1>5, <2>1, <2>2, <2>3, <2>4 DEF Steps
  <2>6. c.out = o \o a.out /\ c.buf = a.buf /\ a.out \in Seq(Seq(L)) /\ a.buf \in Seq(L)
    BY <1>8, <2>3, <2>4 DEF Accs
  <2>7. o \o Append(a.out, a.buf) = Append(c.out, c.buf)
    <3>1. PICK M : M = Seq(L)
      OBVIOUS
    <3>2. PICK q \in Seq(M), b \in M : q = a.out /\ b = a.buf
      BY <2>6, <3>1
    <3>3. o \o Append(q, b) = Append(o \o q, b)
      BY <3>1, AppendAfter, SMTT(30)
    <3> QED BY <2>6, <3>2, <3>3
  <2>8. CASE t = ";" /\ ~Unclosed(a.buf)
    <3>1. Lexeme(a, t) = Flushed(a) /\ Lexeme(c, t) = Flushed(c)
      BY <2>6, <2>8, LexemeType
    <3>2. Flushed(c).out = o \o Flushed(a).out
      <4>1. CASE OnlyComments(a.buf)
        BY <2>6, <4>1, FlushedOut
      <4>2. CASE ~OnlyComments(a.buf)
        BY <2>6, <2>7, <4>2, FlushedOut
      <4> QED BY <4>1, <4>2
    <3>3. Flushed(c).buf = Flushed(a).buf
      BY LexemeType
    <3> QED BY <2>1, <2>5, <3>1, <3>2, <3>3
  <2>9. CASE ~(t = ";" /\ ~Unclosed(a.buf))
    <3>1. Lexeme(a, t).out = a.out /\ Lexeme(a, t).buf = Append(a.buf, t)
      BY <2>9, LexemeType
    <3>2. ~(t = ";" /\ ~Unclosed(c.buf))
      BY <2>6, <2>9
    <3>3. Lexeme(c, t).out = c.out /\ Lexeme(c, t).buf = Append(c.buf, t)
      BY <3>2, LexemeType
    <3> QED BY <2>1, <2>5, <2>6, <3>1, <3>3
  <2> QED BY <2>8, <2>9
<1>9. P = 0 .. n
  <2>1. P \in SUBSET (0 .. n)
    OBVIOUS
  <2> HIDE DEF P
  <2> QED BY <1>7, <1>8, <2>1, InductTo
<1>10. n \in P
  <2>1. n \in 0 .. n
    OBVIOUS
  <2> HIDE DEF P
  <2> QED BY <1>9, <2>1
<1> QED BY <1>2, <1>4, <1>5, <1>10
-----------------------------------------------------------------------------
Marks(s) == {i \in DOMAIN s : s[i] = "$$"}

LEMMA ParityFlips ==
  ASSUME NEW n \in Nat PROVE ((n + 1) % 2 = 1) <=> ~(n % 2 = 1)
OBVIOUS

\* One more lexeme closes or opens a quote if it is a quote mark, and only then.
LEMMA UnclosedAppend ==
  ASSUME NEW L, NEW s \in Seq(L), NEW x \in L
  PROVE  /\ x # "$$" => (Unclosed(Append(s, x)) <=> Unclosed(s))
         /\ x = "$$" => (Unclosed(Append(s, x)) <=> ~Unclosed(s))
<1>1. PICK n \in Nat : n = Len(s) /\ DOMAIN s = 1 .. n
  OBVIOUS
<1>2. PICK r : r = Append(s, x)
  OBVIOUS
<1>3. /\ DOMAIN r = 1 .. n + 1 /\ r[n + 1] = x
      /\ \A i \in 1 .. n : r[i] = s[i]
  BY <1>1, <1>2
<1>4. /\ IsFiniteSet(Marks(s)) /\ Cardinality(Marks(s)) \in Nat
      /\ n + 1 \notin Marks(s)
  <2>1. IsFiniteSet(1 .. n)
    BY FS_Interval
  <2>2. Marks(s) \subseteq 1 .. n
    BY <1>1 DEF Marks
  <2>3. IsFiniteSet(Marks(s))
    BY <2>1, <2>2, FS_Subset
  <2>4. n + 1 \notin 1 .. n
    OBVIOUS
  <2> QED BY <2>2, <2>3, <2>4, FS_CardinalityType
<1>5. CASE x # "$$"
  <2>1. Marks(r) = Marks(s)
    BY <1>1, <1>3, <1>5 DEF Marks
  <2> QED BY <1>2, <1>5, <2>1 DEF Unclosed, Marks
<1>6. CASE x = "$$"
  <2>1. Marks(r) = Marks(s) \cup {n + 1}
    BY <1>1, <1>3, <1>6 DEF Marks
  <2>2. Cardinality(Marks(r)) = Cardinality(Marks(s)) + 1
    BY <1>4, <2>1, FS_AddElement
  <2>3. Cardinality(Marks(r)) % 2 = 1 <=> ~(Cardinality(Marks(s)) % 2 = 1)
    BY <1>4, <2>2, ParityFlips
  <2> QED BY <1>2, <1>6, <2>3 DEF Unclosed, Marks
<1> QED BY <1>5, <1>6

LEMMA NoQuoteYet == ~Unclosed(<<>>)
<1>1. Marks(<<>>) = {}
  BY DEF Marks
<1>2. Cardinality(Marks(<<>>)) = 0
  BY <1>1, FS_EmptySet
<1> QED BY <1>2 DEF Unclosed, Marks

LEMMA PrefixGrows ==
  ASSUME NEW L, NEW s \in Seq(L), NEW k \in Nat, k + 1 <= Len(s)
  PROVE  /\ s[k + 1] \in L /\ SubSeq(s, 1, k) \in Seq(L)
         /\ SubSeq(s, 1, k + 1) = Append(SubSeq(s, 1, k), s[k + 1])
OBVIOUS

\* Quotes are balanced in two texts, one after the other, if they are in each.
LEMMA ClosedJoin ==
  ASSUME NEW L, NEW a \in Seq(L), NEW b \in Seq(L), ~Unclosed(a), ~Unclosed(b)
  PROVE  ~Unclosed(a \o b)
<1>1. PICK n \in Nat : n = Len(b)
  OBVIOUS
<1> DEFINE P == {k \in 0 .. n : Unclosed(a \o SubSeq(b, 1, k)) <=> Unclosed(SubSeq(b, 1, k))}
<1>2. 0 \in P
  <2>1. SubSeq(b, 1, 0) = <<>> /\ a \o <<>> = a /\ 0 \in 0 .. n
    OBVIOUS
  <2>2. ~Unclosed(a \o SubSeq(b, 1, 0)) /\ ~Unclosed(SubSeq(b, 1, 0))
    BY <2>1, NoQuoteYet
  <2> QED BY <2>1, <2>2
<1>3. ASSUME NEW k \in 0 .. n - 1, k \in P PROVE k + 1 \in P
  <2>1. k + 1 \in 0 .. n /\ k \in Nat /\ k + 1 <= Len(b)
    BY <1>1
  <2>2. PICK x \in L, p \in Seq(L) : x = b[k + 1] /\ p = SubSeq(b, 1, k)
    BY <2>1, PrefixGrows
  <2>3. SubSeq(b, 1, k + 1) = Append(p, x)
    BY <2>1, <2>2, PrefixGrows
  <2>4. a \o Append(p, x) = Append(a \o p, x)
    BY AppendAfter
  <2>5. Unclosed(a \o p) <=> Unclosed(p)
    BY <1>3, <2>2
  <2>6. Unclosed(Append(a \o p, x)) <=> Unclosed(Append(p, x))
    <3>1. a \o p \in Seq(L)
      OBVIOUS
    <3>2. CASE x = "$$"
      <4>1. Unclosed(Append(a \o p, x)) <=> ~Unclosed(a \o p)
        BY <3>1, <3>2, UnclosedAppend
      <4>2. Unclosed(Append(p, x)) <=> ~Unclosed(p)
        BY <3>2, UnclosedAppend
      <4> QED BY <2>5, <4>1, <4>2
    <3>3. CASE x # "$$"
      <4>1. Unclosed(Append(a \o p, x)) <=> Unclosed(a \o p)
        BY <3>1, <3>3, UnclosedAppend
      <4>2. Unclosed(Append(p, x)) <=> Unclosed(p)
        BY <3>3, UnclosedAppend
      <4> QED BY <2>5, <4>1, <4>2
    <3> QED BY <3>2, <3>3
  <2> QED BY <2>1, <2>3, <2>4, <2>6
<1>4. P = 0 .. n
  <2>1. P \in SUBSET (0 .. n)
    OBVIOUS
  <2> HIDE DEF P
  <2> QED BY <1>2, <1>3, <2>1, InductTo
<1>5. n \in P
  <2>1. n \in 0 .. n
    OBVIOUS
  <2> HIDE DEF P
  <2> QED BY <1>4, <2>1
<1>6. SubSeq(b, 1, n) = b
  BY <1>1
<1> QED BY <1>5, <1>6

\* A quote is open in what is left to cut if it is in the text read so far.
LEMMA ScanQuotes ==
  ASSUME NEW L, NEW text \in Seq(L), NEW n \in Nat, n = Len(text),
         NEW acc0 \in Accs(L), ~Unclosed(acc0.buf), NEW f, Steps(f, acc0, text, n)
  PROVE  \A k \in 0 .. n : Unclosed(f[k].buf) <=> Unclosed(SubSeq(text, 1, k))
<1> DEFINE P == {k \in 0 .. n : Unclosed(f[k].buf) <=> Unclosed(SubSeq(text, 1, k))}
<1>1. 0 \in P
  <2>1. SubSeq(text, 1, 0) = <<>> /\ 0 \in 0 .. n
    OBVIOUS
  <2>2. f[0] = acc0
    BY DEF Steps
  <2>3. ~Unclosed(f[0].buf) /\ ~Unclosed(SubSeq(text, 1, 0))
    BY <2>1, <2>2, NoQuoteYet
  <2> QED BY <2>1, <2>3
<1>2. \A k \in 0 .. n : f[k] \in Accs(L)
  BY ScanTypes
<1>3. ASSUME NEW k \in 0 .. n - 1, k \in P PROVE k + 1 \in P
  <2>1. /\ k + 1 \in 1 .. n /\ k + 1 \in 0 .. n /\ (k + 1) - 1 = k /\ k \in 0 .. n
        /\ k \in Nat /\ k + 1 <= Len(text)
    OBVIOUS
  <2>2. PICK x \in L, p \in Seq(L) : x = text[k + 1] /\ p = SubSeq(text, 1, k)
    BY <2>1, PrefixGrows
  <2>3. SubSeq(text, 1, k + 1) = Append(p, x)
    BY <2>1, <2>2, PrefixGrows
  <2>4. PICK acc \in Accs(L) : acc = f[k]
    BY <1>2, <2>1
  <2>5. f[k + 1] = Lexeme(acc, x)
    BY <2>1, <2>2, <2>4 DEF Steps
  <2>6. Unclosed(acc.buf) <=> Unclosed(p)
    BY <1>3, <2>2, <2>4
  <2>7. acc.buf \in Seq(L)
    BY DEF Accs
  <2>8. Unclosed(Lexeme(acc, x).buf) <=> Unclosed(Append(p, x))
    <3>1. CASE x = ";" /\ ~Unclosed(acc.buf)
      <4>1. Lexeme(acc, x).buf = <<>>
        <5>1. Lexeme(acc, x) = Flushed(acc)
          BY <3>1, LexemeType
        <5> QED BY <5>1, LexemeType
      <4>2. x # "$$"
        BY <3>1
      <4>3. ~Unclosed(Append(p, x))
        BY <2>6, <3>1, <4>2, UnclosedAppend
      <4> QED BY <4>1, <4>3, NoQuoteYet
    <3>2. CASE ~(x = ";" /\ ~Unclosed(acc.buf))
      <4>1. Lexeme(acc, x).buf = Append(acc.buf, x)
        BY <3>2, LexemeType
      <4>2. CASE x = "$$"
        BY <2>6, <2>7, <4>1, <4>2, UnclosedAppend
      <4>3. CASE x # "$$"
        BY <2>6, <2>7, <4>1, <4>3, UnclosedAppend
      <4> QED BY <4>2, <4>3
    <3> QED BY <3>1, <3>2
  <2> QED BY <2>1, <2>3, <2>5, <2>8
<1>4. P = 0 .. n
  <2>1. P \in SUBSET (0 .. n)
    OBVIOUS
  <2> HIDE DEF P
  <2> QED BY <1>1, <1>3, <2>1, InductTo
<1> QED BY <1>4

\* Nothing is left of a text whose quotes are balanced and which ends with a
\* semicolon; something is left of any other.
LEMMA ScanLast ==
  ASSUME NEW L, NEW text \in Seq(L), text # <<>>, ~Unclosed(text)
  PROVE  /\ Last(text) = ";" => Scan(Nothing, text).buf = <<>>
         /\ Last(text) # ";" => Scan(Nothing, text).buf # <<>>
<1>1. PICK k \in Nat : k + 1 = Len(text)
  <2>1. Len(text) \in Nat \ {0}
    OBVIOUS
  <2>2. Len(text) - 1 \in Nat /\ (Len(text) - 1) + 1 = Len(text)
    BY <2>1
  <2> QED BY <2>2
<1>2. k + 1 \in Nat /\ k + 1 \in 1 .. k + 1 /\ (k + 1) - 1 = k /\ k \in 0 .. k + 1
  OBVIOUS
<1>3. PICK f : Steps(f, Nothing, text, k + 1) /\ Scan(Nothing, text) = f[k + 1]
  BY <1>1, <1>2, ScanSteps
<1>4. PICK x \in L, p \in Seq(L) : x = text[k + 1] /\ p = SubSeq(text, 1, k)
  <2>1. k + 1 <= Len(text)
    BY <1>1
  <2> QED BY <2>1, PrefixGrows
<1>5. text = Append(p, x)
  <2>1. SubSeq(text, 1, k + 1) = Append(p, x)
    BY <1>1, <1>4, PrefixGrows
  <2>2. SubSeq(text, 1, k + 1) = text
    BY <1>1
  <2> QED BY <2>1, <2>2
<1>6. Last(text) = x
  BY <1>1, <1>4 DEF Last
<1>7. PICK acc \in Accs(L) : acc = f[k]
  <2>1. \A i \in 0 .. k + 1 : f[i] \in Accs(L)
    BY <1>1, <1>2, <1>3, NothingType, ScanTypes
  <2> QED BY <1>2, <2>1
<1>8. Scan(Nothing, text) = Lexeme(acc, x)
  BY <1>2, <1>3, <1>4, <1>7 DEF Steps
<1>9. Unclosed(acc.buf) <=> Unclosed(p)
  <2>1. \A i \in 0 .. k + 1 : Unclosed(f[i].buf) <=> Unclosed(SubSeq(text, 1, i))
    <3>1. Nothing \in Accs(L) /\ ~Unclosed(Nothing.buf)
      BY NothingType, NoQuoteYet DEF Nothing
    <3> QED BY <1>1, <1>2, <1>3, <3>1, ScanQuotes
  <2> QED BY <1>2, <1>4, <1>7, <2>1
<1>10. CASE x = ";"
  <2>1. x # "$$"
    BY <1>10
  <2>2. ~Unclosed(acc.buf)
    <3>1. Unclosed(Append(p, x)) <=> Unclosed(p)
      BY <2>1, UnclosedAppend
    <3> QED BY <1>5, <1>9, <3>1
  <2>3. Lexeme(acc, x).buf = <<>>
    <3>1. Lexeme(acc, x) = Flushed(acc)
      BY <1>10, <2>2, LexemeType
    <3> QED BY <3>1, LexemeType
  <2> QED BY <1>6, <1>8, <1>10, <2>3
<1>11. CASE x # ";"
  <2>1. Lexeme(acc, x).buf = Append(acc.buf, x)
    BY <1>11, LexemeType, ZenonT(40)
  <2>2. acc.buf \in Seq(L)
    BY DEF Accs
  <2>3. Append(acc.buf, x) # <<>>
    BY <2>2
  <2> QED BY <1>6, <1>8, <1>11, <2>1, <2>3
<1> QED BY <1>10, <1>11

LEMMA ScanNothing == Scan(Nothing, <<>>) = Nothing
<1>1. PICK f : Steps(f, Nothing, <<>>, 0) /\ Scan(Nothing, <<>>) = f[0]
  BY ScanSteps
<1> QED BY <1>1 DEF Steps

\* A text that holds no comment, cut at the end of a balanced line.
LEMMA SplitClosed ==
  ASSUME NEW L, NEW text \in Seq(L), ~Unclosed(text)
  PROVE  Split(text) = Flushed(Scan(Nothing, text)).out
BY DEF Split

LEMMA NoComment ==
  ASSUME NEW L, L \cap Comments = {}, NEW text \in Seq(L)
  PROVE  OnlyComments(text) <=> text = <<>>
<1>1. CASE text = <<>>
  BY <1>1 DEF OnlyComments, ToSet
<1>2. CASE text # <<>>
  <2>1. 1 \in DOMAIN text /\ text[1] \in L
    BY <1>2
  <2>2. text[1] \in ToSet(text) /\ text[1] \notin Comments
    BY <2>1 DEF ToSet
  <2> QED BY <1>2, <2>2 DEF OnlyComments
<1> QED BY <1>1, <1>2

LEMMA LastJoin ==
  ASSUME NEW L, NEW a \in Seq(L), NEW b \in Seq(L), b # <<>>
  PROVE  a \o b # <<>> /\ Last(a \o b) = Last(b) /\ Last(b) \in L
<1>1. PICK m \in Nat : m = Len(a)
  OBVIOUS
<1>2. PICK k \in Nat \ {0} : k = Len(b)
  OBVIOUS
<1>3. PICK c : c = a \o b
  OBVIOUS
<1>4. Len(c) = m + k /\ c[m + k] = b[k] /\ b[k] \in L
  BY <1>1, <1>2, <1>3
<1> QED BY <1>2, <1>3, <1>4 DEF Last

\* What all lines cut one by one give, from what the script reader has: its
\* buffer, cut.
Follows(C, W, L) ==
  /\ C \in Accs(L) /\ W \in Accs(L)
  /\ ~Unclosed(C.buf)
  /\ C.buf # <<>> => Last(C.buf) # ";"
  /\ W.out = C.out \o Scan(Nothing, C.buf).out
  /\ W.buf = Scan(Nothing, C.buf).buf

LEMMA FollowsNothing == ASSUME NEW L PROVE Follows(Nothing, Nothing, L)
<1>1. Nothing.out = <<>> /\ Nothing.buf = <<>> /\ <<>> \o <<>> = <<>>
  BY DEF Nothing
<1> QED BY <1>1, NothingType, NoQuoteYet, ScanNothing DEF Follows

\* The buffer takes a line that is no meta command.
Buffered(C, line) ==
  IF EndsInSemicolon(line)
    THEN [out |-> C.out \o Split(C.buf \o line), buf |-> <<>>]
    ELSE [C EXCEPT !.buf = @ \o line]
Buffers(D, C, line) == D = Buffered(C, line)

LEMMA PlainLine ==
  ASSUME NEW L, L \cap Comments = {}, NEW C, NEW W, Follows(C, W, L),
         NEW line \in Seq(L), ~Unclosed(line), NEW D, Buffers(D, C, line)
  PROVE  Follows(D, Scan(W, line), L)
<1>1. PICK o \in Seq(Seq(L)), b \in Seq(L) : C = [out |-> o, buf |-> b]
  BY DEF Follows, Accs
<1>2. C.out = o /\ C.buf = b
  BY <1>1
<1>3. PICK t \in Seq(L) : t = b \o line
  <2>1. b \o line \in Seq(L)
    OBVIOUS
  <2> QED BY <2>1
<1>4. ~Unclosed(t)
  BY <1>2, <1>3, ClosedJoin DEF Follows
<1>5. PICK S \in Accs(L) : S = Scan(Nothing, t)
  BY NothingType, ScanType
<1>6. S.out \in Seq(Seq(L)) /\ S.buf \in Seq(L)
  BY DEF Accs
<1>7. /\ Scan(W, line) \in Accs(L)
      /\ Scan(W, line).out = o \o S.out
      /\ Scan(W, line).buf = S.buf
  <2>1. PICK acc : acc = [out |-> o, buf |-> <<>>]
    OBVIOUS
  <2>2. PICK T \in Accs(L) : T = Scan(acc, b)
    <3>1. acc \in Accs(L)
      BY <2>1 DEF Accs
    <3> QED BY <3>1, ScanType
  <2>3. T.out = o \o Scan(Nothing, b).out /\ T.buf = Scan(Nothing, b).buf
    BY <2>1, <2>2, ScanAfter
  <2>4. T = W
    <3>1. W.out = T.out /\ W.buf = T.buf /\ W \in Accs(L)
      BY <1>2, <2>3 DEF Follows
    <3> QED BY <3>1, SameAcc
  <2>5. Scan(W, line) = Scan(acc, t)
    <3>1. Scan(acc, b \o line) = Scan(Scan(acc, b), line)
      BY ScanJoins
    <3> QED BY <1>3, <2>2, <2>4, <3>1
  <2>6. Scan(W, line) \in Accs(L)
    BY <2>4, ScanType
  <2>7. Scan(acc, t).out = o \o S.out /\ Scan(acc, t).buf = S.buf
    BY <1>5, <2>1, ScanAfter
  <2> QED BY <2>5, <2>6, <2>7
<1>8. CASE EndsInSemicolon(line)
  <2>1. line # <<>> /\ Last(line) \in {";", "--;"}
    BY <1>8 DEF EndsInSemicolon
  <2>2. t # <<>> /\ Last(t) = ";"
    <3>1. t # <<>> /\ Last(t) = Last(line) /\ Last(line) \in L
      <4>1. b \o line # <<>> /\ Last(b \o line) = Last(line) /\ Last(line) \in L
        BY <2>1, LastJoin
      <4> QED BY <1>3, <4>1
    <3>2. "--;" \notin L
      BY DEF Comments
    <3> QED BY <2>1, <3>1, <3>2
  <2>3. S.buf = <<>>
    BY <1>4, <1>5, <2>2, ScanLast
  <2>4. OnlyComments(S.buf)
    BY <1>6, <2>3, NoComment
  <2>5. Flushed(S).out = S.out
    BY <2>4, FlushedOut
  <2>6. Split(t) = S.out
    BY <1>4, <1>5, <2>5, SplitClosed
  <2>7. D = [out |-> o \o S.out, buf |-> <<>>]
    BY <1>2, <1>3, <1>8, <2>6 DEF Buffers, Buffered
  <2>8. D.out = o \o S.out /\ D.buf = <<>> /\ o \o S.out \in Seq(Seq(L)) /\ <<>> \in Seq(L)
    BY <1>6, <2>7
  <2>9. D \in Accs(L)
    BY <2>7, <2>8 DEF Accs
  <2>10. D.out \o Scan(Nothing, <<>>).out = o \o S.out /\ Scan(Nothing, <<>>).buf = <<>>
    <3>1. Scan(Nothing, <<>>).out = <<>> /\ Scan(Nothing, <<>>).buf = <<>>
      BY ScanNothing DEF Nothing
    <3>2. D.out \o <<>> = D.out
      BY <2>8
    <3> QED BY <2>8, <3>1, <3>2
  <2> QED BY <1>7, <2>3, <2>8, <2>9, <2>10, NoQuoteYet DEF Follows
<1>9. CASE ~EndsInSemicolon(line)
  <2>1. D = [C EXCEPT !.buf = @ \o line]
    BY <1>9 DEF Buffers, Buffered
  <2>2. D = [out |-> o, buf |-> t]
    BY <1>1, <1>3, <2>1
  <2>3. D.out = o /\ D.buf = t
    BY <2>2
  <2>4. D \in Accs(L)
    BY <2>2 DEF Accs
  <2>5. t # <<>> => Last(t) # ";"
    <3>1. CASE line = <<>>
      <4>1. t = b
        BY <1>3, <3>1
      <4> QED BY <1>2, <4>1 DEF Follows
    <3>2. CASE line # <<>>
      <4>1. Last(t) = Last(line)
        BY <1>3, <3>2, LastJoin
      <4>2. Last(line) # ";"
        BY <1>9, <3>2 DEF EndsInSemicolon
      <4> QED BY <4>1, <4>2
    <3> QED BY <3>1, <3>2
  <2> QED BY <1>4, <1>5, <1>7, <2>3, <2>4, <2>5 DEF Follows
<1> QED BY <1>8, <1>9

\* One line further, meta command or not.
LEMMA ReadFollows ==
  ASSUME NEW L, L \cap Comments = {}, NEW C, NEW W, Follows(C, W, L),
         NEW line \in Seq(L), ~Unclosed(line)
  PROVE  Follows(ReadLine(C, line), CutLine(W, line), L)
<1>1. PICK o \in Seq(Seq(L)), b \in Seq(L) : C = [out |-> o, buf |-> b]
  BY DEF Follows, Accs
<1>2. C.out = o /\ C.buf = b
  BY <1>1
<1>3. W.buf \in Seq(L) /\ W.out \in Seq(Seq(L))
  BY DEF Follows, Accs
<1>4. OnlyComments(W.buf) <=> C.buf = <<>>
  <2>1. OnlyComments(W.buf) <=> W.buf = <<>>
    BY <1>3, NoComment
  <2>2. CASE C.buf = <<>>
    BY <2>1, <2>2, ScanNothing DEF Follows, Nothing
  <2>3. CASE C.buf # <<>>
    <3>1. Scan(Nothing, b).buf # <<>>
      BY <1>2, <2>3, ScanLast DEF Follows
    <3> QED BY <1>2, <2>1, <2>3, <3>1 DEF Follows
  <2> QED BY <2>2, <2>3
<1>5. CASE IsMeta(line) /\ C.buf = <<>>
  <2>1. ReadLine(C, line) = [C EXCEPT !.out = Append(@, line)]
    BY <1>5 DEF ReadLine
  <2>2. PICK p \in Seq(Seq(L)) : p = Append(o, line)
    <3>1. Append(o, line) \in Seq(Seq(L))
      OBVIOUS
    <3> QED BY <3>1
  <2>3. ReadLine(C, line) = [out |-> p, buf |-> <<>>]
    BY <1>1, <1>2, <1>5, <2>1, <2>2
  <2>4. W.out = o
    <3>1. Scan(Nothing, <<>>).out = <<>>
      BY ScanNothing DEF Nothing
    <3>2. o \o <<>> = o
      OBVIOUS
    <3> QED BY <1>2, <1>5, <3>1, <3>2 DEF Follows
  <2>5. CutLine(W, line) = [out |-> p, buf |-> <<>>]
    BY <1>4, <1>5, <2>2, <2>4 DEF CutLine
  <2>6. PICK E : E = [out |-> p, buf |-> <<>>]
    OBVIOUS
  <2>7. E \in Accs(L) /\ E.out = p /\ E.buf = <<>>
    BY <2>6 DEF Accs
  <2>8. E.out \o Scan(Nothing, <<>>).out = E.out /\ Scan(Nothing, <<>>).buf = <<>>
    <3>1. Scan(Nothing, <<>>).out = <<>> /\ Scan(Nothing, <<>>).buf = <<>>
      BY ScanNothing DEF Nothing
    <3>2. p \o <<>> = p
      OBVIOUS
    <3> QED BY <2>7, <3>1, <3>2
  <2>9. Follows(E, E, L)
    BY <2>7, <2>8, NoQuoteYet DEF Follows
  <2> QED BY <2>3, <2>5, <2>6, <2>9
<1>6. CASE ~(IsMeta(line) /\ C.buf = <<>>)
  <2>1. CutLine(W, line) = Scan(W, line)
    BY <1>4, <1>6 DEF CutLine
  <2>2. PICK D : D = ReadLine(C, line)
    OBVIOUS
  <2>3. Buffers(D, C, line)
    BY <1>6, <2>2 DEF ReadLine, Buffers, Buffered
  <2>4. Follows(D, Scan(W, line), L)
    BY <2>3, PlainLine
  <2> QED BY <2>1, <2>2, <2>4
<1> QED BY <1>5, <1>6

\* For a text with neither comments nor quotes that go on at a line end it makes
\* no difference that the code cuts its buffer at some line ends only.
LEMMA CutAsJoined ==
  ASSUME NEW L, L \cap Comments = {}, NEW lines \in Seq(Seq(L)),
         \A k \in DOMAIN lines : ~Unclosed(lines[k])
  PROVE  SplitScript(lines) = Joined(lines)
<1>1. PICK n \in Nat : n = Len(lines)
  OBVIOUS
<1>2. PICK f : /\ f[0] = Nothing /\ \A k \in 1 .. n : f[k] = ReadLine(f[k - 1], lines[k])
               /\ Read(lines) = f[n]
  BY <1>1, ReadSteps
<1>3. PICK g : /\ g[0] = Nothing /\ \A k \in 1 .. n : g[k] = CutLine(g[k - 1], lines[k])
               /\ Joined(lines) = Flushed(g[n]).out
  BY <1>1, WholeSteps
<1> DEFINE P == {k \in 0 .. n : Follows(f[k], g[k], L)}
<1>4. 0 \in P
  <2>1. 0 \in 0 .. n
    OBVIOUS
  <2> QED BY <1>2, <1>3, <2>1, FollowsNothing
<1>5. ASSUME NEW k \in 0 .. n - 1, k \in P PROVE k + 1 \in P
  <2>1. k + 1 \in 0 .. n /\ k + 1 \in 1 .. n /\ (k + 1) - 1 = k
    OBVIOUS
  <2>2. f[k + 1] = ReadLine(f[k], lines[k + 1]) /\ g[k + 1] = CutLine(g[k], lines[k + 1])
    BY <1>2, <1>3, <2>1
  <2>3. PICK line \in Seq(L) : line = lines[k + 1] /\ ~Unclosed(line)
    BY <1>1, <2>1
  <2>4. Follows(f[k], g[k], L)
    BY <1>5
  <2>5. Follows(f[k + 1], g[k + 1], L)
    BY <2>2, <2>3, <2>4, ReadFollows
  <2> QED BY <2>1, <2>5
<1>6. P = 0 .. n
  <2>1. P \in SUBSET (0 .. n)
    OBVIOUS
  <2> HIDE DEF P
  <2> QED BY <1>4, <1>5, <2>1, InductTo
<1>7. Follows(f[n], g[n], L)
  <2>1. n \in 0 .. n
    OBVIOUS
  <2>2. n \in P
    BY <1>6, <2>1
  <2> QED BY <2>2
<1>8. PICK C, W : C = f[n] /\ W = g[n] /\ Follows(C, W, L)
  BY <1>7
<1>9. /\ C.out \in Seq(Seq(L)) /\ C.buf \in Seq(L) /\ W \in Accs(L)
  BY <1>8 DEF Follows, Accs
<1>10. PICK S \in Accs(L) : S = Scan(Nothing, C.buf)
  BY <1>9, NothingType, ScanType
<1>11. S.out \in Seq(Seq(L)) /\ S.buf \in Seq(L) /\ W.out = C.out \o S.out /\ W.buf = S.buf
  BY <1>8, <1>10 DEF Follows, Accs
<1>12. SplitScript(lines) = C.out \o Flushed(S).out
  <2>1. ~Unclosed(C.buf)
    BY <1>8 DEF Follows
  <2>2. Split(C.buf) = Flushed(S).out
    BY <1>9, <1>10, <2>1, SplitClosed
  <2> QED BY <1>2, <1>8, <2>2 DEF SplitScript
<1>13. C.out \o Flushed(S).out = Flushed(W).out
  <2>1. CASE OnlyComments(S.buf)
    <3>1. Flushed(S).out = S.out /\ Flushed(W).out = W.out
      BY <1>9, <1>11, <2>1, FlushedOut
    <3> QED BY <1>11, <3>1
  <2>2. CASE ~OnlyComments(S.buf)
    <3>1. Flushed(S).out = Append(S.out, S.buf) /\ Flushed(W).out = Append(W.out, S.buf)
      BY <1>9, <1>11, <2>2, FlushedOut
    <3>2. C.out \o Append(S.out, S.buf) = Append(C.out \o S.out, S.buf)
      <4>1. PICK o \in Seq(Seq(L)), q \in Seq(Seq(L)), b \in Seq(L) :
              o = C.out /\ q = S.out /\ b = S.buf
        BY <1>9, <1>11
      <4>2. o \o Append(q, b) = Append(o \o q, b)
        <5>1. PICK M : M = Seq(L)
          OBVIOUS
        <5>2. o \in Seq(M) /\ q \in Seq(M) /\ b \in M
          BY <5>1
        <5> QED BY <5>2, AppendAfter
      <4> QED BY <4>1, <4>2
    <3> QED BY <1>11, <3>1, <3>2
  <2> QED BY <2>1, <2>2
<1> QED BY <1>3, <1>8, <1>12, <1>13

LEMMA WithoutComments ==
  ASSUME NEW M, NEW lines \in Seq(Seq(M)), Tame(lines)
  PROVE  /\ lines \in Seq(Seq(M \ Comments))
         /\ \A k \in DOMAIN lines : ~Unclosed(lines[k])
<1>1. ASSUME NEW k \in DOMAIN lines PROVE lines[k] \in Seq(M \ Comments) /\ ~Unclosed(lines[k])
  <2>1. PICK line \in Seq(M) : line = lines[k]
    OBVIOUS
  <2>2. ~Unclosed(line) /\ ToSet(line) \cap Comments = {}
    BY <2>1 DEF Tame
  <2>3. ASSUME NEW i \in DOMAIN line PROVE line[i] \in M \ Comments
    <3>1. line[i] \in ToSet(line) /\ line[i] \in M
      BY DEF ToSet
    <3> QED BY <2>2, <3>1
  <2>4. line \in Seq(M \ Comments)
    BY <2>3
  <2> QED BY <2>1, <2>2, <2>4
<1>2. lines \in [1 .. Len(lines) -> Seq(M \ Comments)] /\ Len(lines) \in Nat
  <2>1. lines \in [1 .. Len(lines) -> Seq(M)] /\ Len(lines) \in Nat
    OBVIOUS
  <2> QED BY <1>1, <2>1
<1>3. lines \in Seq(Seq(M \ Comments))
  <2>1. PICK K : K = Seq(M \ Comments)
    OBVIOUS
  <2>2. PICK n \in Nat : n = Len(lines)
    BY <1>2
  <2>3. lines \in [1 .. n -> K]
    BY <1>2, <2>1, <2>2
  <2>4. lines \in Seq(K)
    BY <2>3
  <2> QED BY <2>1, <2>4
<1> QED BY <1>1, <1>3

-----------------------------------------------------------------------------
(* psql, lexeme by lexeme and line by line, and the pieces of all lines.    *)

Psqls(L) == [items : Seq(Seq(L)), text : Seq(L), quoted : BOOLEAN, depth : Int, command : BOOLEAN]
Lexemes(f, p, line, n) ==
  f = [k \in 0 .. n |-> IF k = 0 THEN p ELSE PsqlLexeme(f[k - 1], line[k])]
LineEnd(p, line) == [PsqlIn(p, line)[Len(line)] EXCEPT !.command = FALSE]
LineEnds(f, lines, n) ==
  f = [k \in 0 .. n |-> IF k = 0 THEN PsqlStart ELSE LineEnd(f[k - 1], lines[k])]

LEMMA LexemesExists ==
  ASSUME NEW p, NEW line, NEW n \in Nat
  PROVE  \E f : Lexemes(f, p, line, n)
<1> DEFINE P == {m \in 0 .. n : \E f : Lexemes(f, p, line, m)}
<1>1. 0 \in P
  <2>1. Lexemes([k \in 0 .. 0 |-> p], p, line, 0)
    BY DEF Lexemes
  <2> QED BY <2>1
<1>2. ASSUME NEW m \in 0 .. n - 1, m \in P PROVE m + 1 \in P
  <2>1. PICK f : Lexemes(f, p, line, m)
    BY <1>2
  <2> DEFINE g == [k \in 0 .. m + 1 |-> IF k = 0 THEN p ELSE PsqlLexeme(f[k - 1], line[k])]
  <2>2. ASSUME NEW k \in 0 .. m PROVE g[k] = f[k]
    BY <2>1 DEF Lexemes
  <2>3. ASSUME NEW k \in 0 .. m + 1, k # 0 PROVE g[k - 1] = f[k - 1]
    <3>1. k - 1 \in 0 .. m
      BY <2>3
    <3> QED BY <2>2, <3>1
  <2>4. g = [k \in 0 .. m + 1 |-> IF k = 0 THEN p ELSE PsqlLexeme(g[k - 1], line[k])]
    BY <2>3
  <2>5. Lexemes(g, p, line, m + 1)
    BY <2>4 DEF Lexemes
  <2>6. m + 1 \in 0 .. n
    OBVIOUS
  <2> QED BY <2>5, <2>6
<1>3. P = 0 .. n
  <2>1. P \in SUBSET (0 .. n)
    OBVIOUS
  <2> HIDE DEF P
  <2> QED BY <1>1, <1>2, <2>1, InductTo
<1> QED BY <1>3

LEMMA LineEndsExists ==
  ASSUME NEW lines, NEW n \in Nat
  PROVE  \E f : LineEnds(f, lines, n)
<1> DEFINE P == {m \in 0 .. n : \E f : LineEnds(f, lines, m)}
<1>1. 0 \in P
  <2>1. LineEnds([k \in 0 .. 0 |-> PsqlStart], lines, 0)
    BY DEF LineEnds
  <2> QED BY <2>1
<1>2. ASSUME NEW m \in 0 .. n - 1, m \in P PROVE m + 1 \in P
  <2>1. PICK f : LineEnds(f, lines, m)
    BY <1>2
  <2> DEFINE g == [k \in 0 .. m + 1 |-> IF k = 0 THEN PsqlStart ELSE LineEnd(f[k - 1], lines[k])]
  <2>2. ASSUME NEW k \in 0 .. m PROVE g[k] = f[k]
    BY <2>1 DEF LineEnds
  <2>3. ASSUME NEW k \in 0 .. m + 1, k # 0 PROVE g[k - 1] = f[k - 1]
    <3>1. k - 1 \in 0 .. m
      BY <2>3
    <3> QED BY <2>2, <3>1
  <2>4. g = [k \in 0 .. m + 1 |-> IF k = 0 THEN PsqlStart ELSE LineEnd(g[k - 1], lines[k])]
    BY <2>3
  <2>5. LineEnds(g, lines, m + 1)
    BY <2>4 DEF LineEnds
  <2>6. m + 1 \in 0 .. n
    OBVIOUS
  <2> QED BY <2>5, <2>6
<1>3. P = 0 .. n
  <2>1. P \in SUBSET (0 .. n)
    OBVIOUS
  <2> HIDE DEF P
  <2> QED BY <1>1, <1>2, <2>1, InductTo
<1> QED BY <1>3

\* The same without the functions' definitions.
LEMMA InSteps ==
  ASSUME NEW p, NEW line, NEW n \in Nat, n = Len(line)
  PROVE  /\ PsqlIn(p, line)[0] = p
         /\ \A k \in 1 .. n : PsqlIn(p, line)[k] = PsqlLexeme(PsqlIn(p, line)[k - 1], line[k])
<1> DEFINE F == CHOOSE f : Lexemes(f, p, line, n)
<1>1. Lexemes(F, p, line, n)
  BY LexemesExists
<1>2. PsqlIn(p, line) = F
  BY DEF PsqlIn, Lexemes
<1> HIDE DEF F
<1>3. F[0] = p /\ \A k \in 1 .. n : F[k] = PsqlLexeme(F[k - 1], line[k])
  BY <1>1 DEF Lexemes
<1> QED BY <1>2, <1>3

LEMMA AfterSteps ==
  ASSUME NEW lines, NEW n \in Nat, n = Len(lines)
  PROVE  /\ PsqlAfter(lines)[0] = PsqlStart
         /\ \A k \in 1 .. n : PsqlAfter(lines)[k] = LineEnd(PsqlAfter(lines)[k - 1], lines[k])
<1> DEFINE F == CHOOSE f : LineEnds(f, lines, n)
<1>1. LineEnds(F, lines, n)
  BY LineEndsExists
<1>2. PsqlAfter(lines) = F
  BY DEF PsqlAfter, LineEnds, LineEnd
<1> HIDE DEF F
<1>3. F[0] = PsqlStart /\ \A k \in 1 .. n : F[k] = LineEnd(F[k - 1], lines[k])
  BY <1>1 DEF LineEnds
<1> QED BY <1>2, <1>3

\* What a reader of this kind has.
LEMMA PsqlHas ==
  ASSUME NEW L, NEW i \in Seq(Seq(L)), NEW x \in Seq(L), NEW u \in BOOLEAN, NEW d \in Int,
         NEW b \in BOOLEAN, NEW q,
         q = [items |-> i, text |-> x, quoted |-> u, depth |-> d, command |-> b]
  PROVE  /\ q \in Psqls(L) /\ q.items = i /\ q.text = x /\ q.quoted = u /\ q.depth = d
         /\ q.command = b
BY DEF Psqls

LEMMA OneMore == ASSUME NEW L, NEW x \in Seq(L), NEW t \in L PROVE Append(x, t) \in Seq(L)
OBVIOUS

LEMMA NoneYet == ASSUME NEW L PROVE <<>> \in Seq(L)
OBVIOUS

LEMMA DepthIs ==
  ASSUME NEW d \in Int, NEW t
  PROVE  (CASE t = "(" -> d + 1 [] t = ")" /\ d > 0 -> d - 1 [] OTHER -> d) \in Int
OBVIOUS

\* Where lexemes have their meaning, and which have one.
InQuote(p) == p.quoted = TRUE
Unquoted(p) == p.quoted = FALSE
NoCommand(p) == p.command = FALSE
InCommand(p) == p.command = TRUE
Semicolon(t) == t = ";"
Mark(t) == t = "$$"
Ordinary(t) == t \notin Metas \cup Comments \cup {";"}

LEMMA QuotedOr == ASSUME NEW L, NEW p \in Psqls(L) PROVE Unquoted(p) <=> ~InQuote(p)
BY DEF Psqls, Unquoted, InQuote

LEMMA SemicolonIs == ASSUME NEW t, Semicolon(t) PROVE t \notin Metas /\ t \notin Comments
BY DEF Semicolon, Metas, Comments

LEMMA OrdinaryIs ==
  ASSUME NEW t, t \notin Metas, t \notin Comments, ~Semicolon(t) PROVE Ordinary(t)
BY Zenon DEF Semicolon, Ordinary

\* The statement grows, or ends; a meta command is what it is.
Grown(q, p, t, L) ==
  q \in Psqls(L) /\ NoCommand(q) /\ q.items = p.items /\ q.text = Append(p.text, t)
Ended(q, p, L) ==
  /\ q \in Psqls(L) /\ NoCommand(q) /\ Unquoted(q)
  /\ q.items = IF p.text = <<>> THEN p.items ELSE Append(p.items, p.text)
  /\ q.text = <<>>
Commanded(q, p, items, L) ==
  q \in Psqls(L) /\ InCommand(q) /\ Unquoted(q) /\ q.items = items /\ q.text = p.text

\* A lexeme in a quote; a semicolon that ends a statement; any other lexeme of one.
LEMMA QuotedLexeme ==
  ASSUME NEW L, NEW p \in Psqls(L), NEW t \in L, InQuote(p), NoCommand(p)
  PROVE  Grown(PsqlLexeme(p, t), p, t, L) /\ (InQuote(PsqlLexeme(p, t)) <=> ~Mark(t))
<1>1. PICK i \in Seq(Seq(L)), x \in Seq(L), u \in BOOLEAN, d \in Int, b \in BOOLEAN :
        p = [items |-> i, text |-> x, quoted |-> u, depth |-> d, command |-> b]
  BY DEF Psqls
<1>2. p.items = i /\ p.text = x /\ p.quoted = u /\ p.depth = d /\ p.command = b
  BY <1>1, PsqlHas
<1>3. PICK xt \in Seq(L) : xt = Append(x, t)
  BY OneMore, Zenon
<1>4. PICK q : q = PsqlLexeme(p, t)
  OBVIOUS
<1>5. q = [p EXCEPT !.text = Append(@, t), !.quoted = t # "$$"]
  BY <1>4 DEF PsqlLexeme, InQuote
<1>6. PICK v \in BOOLEAN : v = (t # "$$")
  OBVIOUS
<1>7. q = [items |-> i, text |-> xt, quoted |-> v, depth |-> d, command |-> b]
  BY <1>1, <1>2, <1>3, <1>5, <1>6
<1>8. q \in Psqls(L) /\ q.items = i /\ q.text = xt /\ q.quoted = v /\ q.command = b
  BY <1>7, PsqlHas
<1>9. Grown(q, p, t, L)
  BY <1>2, <1>3, <1>8 DEF Grown, NoCommand
<1>10. InQuote(q) <=> ~Mark(t)
  BY <1>6, <1>8 DEF InQuote, Mark
<1> QED BY <1>4, <1>9, <1>10

LEMMA EndingLexeme ==
  ASSUME NEW L, NEW p \in Psqls(L), Unquoted(p), NoCommand(p), p.depth = 0, NEW t, Semicolon(t)
  PROVE  Ended(PsqlLexeme(p, t), p, L)
<1>1. PICK i \in Seq(Seq(L)), x \in Seq(L), u \in BOOLEAN, d \in Int, b \in BOOLEAN :
        p = [items |-> i, text |-> x, quoted |-> u, depth |-> d, command |-> b]
  BY DEF Psqls
<1>2. p.items = i /\ p.text = x /\ p.quoted = u /\ p.depth = d /\ p.command = b
  BY <1>1, PsqlHas
<1>3. PICK q : q = PsqlLexeme(p, t)
  OBVIOUS
<1>4. q = [p EXCEPT !.items = IF p.text = <<>> THEN @ ELSE Append(@, p.text), !.text = <<>>]
  BY <1>3, SemicolonIs DEF PsqlLexeme, Unquoted, NoCommand, Semicolon
<1>5. PICK j \in Seq(Seq(L)) : j = IF x = <<>> THEN i ELSE Append(i, x)
  <2>1. Append(i, x) \in Seq(Seq(L))
    BY OneMore, Zenon
  <2> QED BY <2>1, Zenon
<1>6. q = [items |-> j, text |-> <<>>, quoted |-> u, depth |-> d, command |-> b]
  BY <1>1, <1>2, <1>4, <1>5
<1>7. <<>> \in Seq(L)
  BY NoneYet, Zenon
<1>8. q \in Psqls(L) /\ q.items = j /\ q.text = <<>> /\ q.quoted = u /\ q.command = b
  BY <1>6, <1>7 DEF Psqls
<1>9. Ended(q, p, L)
  BY <1>2, <1>5, <1>8 DEF Ended, Unquoted, NoCommand
<1> QED BY <1>3, <1>9

LEMMA OtherLexeme ==
  ASSUME NEW L, NEW p \in Psqls(L), Unquoted(p), NoCommand(p), NEW t \in L, Ordinary(t)
  PROVE  Grown(PsqlLexeme(p, t), p, t, L) /\ (InQuote(PsqlLexeme(p, t)) <=> Mark(t))
<1>1. PICK i \in Seq(Seq(L)), x \in Seq(L), u \in BOOLEAN, d \in Int, b \in BOOLEAN :
        p = [items |-> i, text |-> x, quoted |-> u, depth |-> d, command |-> b]
  BY DEF Psqls
<1>2. p.items = i /\ p.text = x /\ p.quoted = u /\ p.depth = d /\ p.command = b
  BY <1>1, PsqlHas
<1>3. PICK xt \in Seq(L) : xt = Append(x, t)
  BY OneMore, Zenon
<1>4. PICK q : q = PsqlLexeme(p, t)
  OBVIOUS
<1>5. q = [p EXCEPT !.text = Append(@, t), !.quoted = t = "$$",
                    !.depth = CASE t = "(" -> @ + 1
                                [] t = ")" /\ @ > 0 -> @ - 1
                                [] OTHER -> @]
  BY <1>4 DEF PsqlLexeme, Unquoted, NoCommand, Ordinary
<1>6. PICK e \in Int : e = CASE t = "(" -> d + 1 [] t = ")" /\ d > 0 -> d - 1 [] OTHER -> d
  BY DepthIs, Zenon
<1>7. PICK v \in BOOLEAN : v = (t = "$$")
  OBVIOUS
<1>8. q = [items |-> i, text |-> xt, quoted |-> v, depth |-> e, command |-> b]
  BY <1>1, <1>2, <1>3, <1>5, <1>6, <1>7
<1>9. q \in Psqls(L) /\ q.items = i /\ q.text = xt /\ q.quoted = v /\ q.command = b
  BY <1>8, PsqlHas
<1>10. Grown(q, p, t, L)
  BY <1>2, <1>3, <1>9 DEF Grown, NoCommand
<1>11. InQuote(q) <=> Mark(t)
  BY <1>7, <1>9 DEF InQuote, Mark
<1> QED BY <1>4, <1>10, <1>11

\* What has been read is the same for both.
Agrees(W, p, L) ==
  /\ W \in Accs(L) /\ p \in Psqls(L) /\ NoCommand(p)
  /\ W.out = p.items /\ W.buf = p.text
  /\ Unclosed(W.buf) <=> InQuote(p)

LEMMA LexemeIs ==
  ASSUME NEW L, NEW acc \in Accs(L), NEW t \in L
  PROVE  /\ Lexeme(acc, t) \in Accs(L)
         /\ Flushed(acc).out = IF OnlyComments(acc.buf) THEN acc.out ELSE Append(acc.out, acc.buf)
         /\ Flushed(acc).buf = <<>>
         /\ Semicolon(t) /\ ~Unclosed(acc.buf) => Lexeme(acc, t) = Flushed(acc)
BY LexemeType, Zenon DEF Semicolon

LEMMA LexemeKept ==
  ASSUME NEW L, NEW acc \in Accs(L), NEW t \in L, ~(Semicolon(t) /\ ~Unclosed(acc.buf))
  PROVE  Lexeme(acc, t).out = acc.out /\ Lexeme(acc, t).buf = Append(acc.buf, t)
BY LexemeType, Zenon DEF Semicolon

LEMMA MarkAppend ==
  ASSUME NEW L, NEW s \in Seq(L), NEW x \in L
  PROVE  /\ ~Mark(x) => (Unclosed(Append(s, x)) <=> Unclosed(s))
         /\ Mark(x) => (Unclosed(Append(s, x)) <=> ~Unclosed(s))
BY UnclosedAppend, Zenon DEF Mark

LEMMA LexemeAgrees ==
  ASSUME NEW L, L \cap Comments = {}, NEW W, NEW p, Agrees(W, p, L), NEW t \in L,
         Unquoted(p) => t \notin Metas /\ (Semicolon(t) => p.depth = 0)
  PROVE  Agrees(Lexeme(W, t), PsqlLexeme(p, t), L)
<1>1. W \in Accs(L) /\ p \in Psqls(L) /\ t \notin Comments /\ W.buf \in Seq(L)
  BY DEF Agrees, Accs
<1>2. /\ NoCommand(p) /\ (Unclosed(W.buf) <=> InQuote(p)) /\ (Unquoted(p) <=> ~InQuote(p))
      /\ W.out = p.items /\ W.buf = p.text
  BY <1>1, QuotedOr DEF Agrees
<1>3. PICK q : q = PsqlLexeme(p, t)
  OBVIOUS
<1>4. PICK V \in Accs(L) : V = Lexeme(W, t)
  BY <1>1, LexemeIs
<1>5. CASE Semicolon(t) /\ Unquoted(p)
  <2>1. Ended(q, p, L)
    BY <1>1, <1>2, <1>3, <1>5, EndingLexeme
  <2>2. V = Flushed(W)
    BY <1>1, <1>2, <1>4, <1>5, LexemeIs
  <2>3. V.buf = <<>> /\ V.out = IF OnlyComments(W.buf) THEN W.out ELSE Append(W.out, W.buf)
    BY <1>1, <2>2, LexemeIs
  <2>4. OnlyComments(W.buf) <=> W.buf = <<>>
    BY <1>1, NoComment
  <2>5. V.out = q.items /\ V.buf = q.text
    BY <1>2, <2>1, <2>3, <2>4 DEF Ended
  <2>6. ~Unclosed(V.buf)
    BY <2>3, NoQuoteYet
  <2>7. q \in Psqls(L) /\ NoCommand(q) /\ ~InQuote(q)
    BY <2>1, QuotedOr DEF Ended
  <2>8. Agrees(V, q, L)
    BY <2>5, <2>6, <2>7 DEF Agrees
  <2> QED BY <1>3, <1>4, <2>8
<1>6. CASE ~(Semicolon(t) /\ Unquoted(p))
  <2>1. V.out = W.out /\ V.buf = Append(W.buf, t)
    <3>1. ~(Semicolon(t) /\ ~Unclosed(W.buf))
      BY <1>2, <1>6
    <3> QED BY <1>1, <1>4, <3>1, LexemeKept
  <2>2. Grown(q, p, t, L) /\ (Unclosed(V.buf) <=> InQuote(q))
    <3>1. CASE InQuote(p)
      <4>1. Grown(q, p, t, L) /\ (InQuote(q) <=> ~Mark(t))
        BY <1>1, <1>2, <1>3, <3>1, QuotedLexeme, Zenon
      <4>2. Unclosed(V.buf) <=> ~Mark(t)
        BY <1>1, <1>2, <2>1, <3>1, MarkAppend
      <4> QED BY <4>1, <4>2
    <3>2. CASE Unquoted(p)
      <4>1. Ordinary(t)
        BY <1>1, <1>6, <3>2, OrdinaryIs
      <4>2. Grown(q, p, t, L) /\ (InQuote(q) <=> Mark(t))
        BY <1>1, <1>2, <1>3, <3>2, <4>1, OtherLexeme, Zenon
      <4>3. Unclosed(V.buf) <=> Mark(t)
        BY <1>1, <1>2, <2>1, <3>2, MarkAppend
      <4> QED BY <4>2, <4>3
    <3> QED BY <1>2, <3>1, <3>2
  <2>3. Agrees(V, q, L)
    BY <1>2, <2>1, <2>2 DEF Agrees, Grown
  <2> QED BY <1>3, <1>4, <2>3
<1> QED BY <1>5, <1>6

\* Where psql is in a line that agrees with how the code reads it.
TameLine(p, line) ==
  /\ ~Unclosed(line)
  /\ \A k \in DOMAIN line :
       LET q == PsqlIn(p, line)[k - 1]
       IN  Unquoted(q) => /\ Semicolon(line[k]) => q.depth = 0
                          /\ line[k] \in Metas => k = 1 /\ q.text = <<>>

LEMMA LineEndIs ==
  ASSUME NEW L, NEW q \in Psqls(L), NEW e, e = [q EXCEPT !.command = FALSE]
  PROVE  /\ e \in Psqls(L) /\ NoCommand(e)
         /\ e.items = q.items /\ e.text = q.text
         /\ (InQuote(e) <=> InQuote(q)) /\ (Unquoted(e) <=> Unquoted(q))
BY DEF Psqls, NoCommand, InQuote, Unquoted

\* A line with no meta command at its start.
LEMMA StatementLine ==
  ASSUME NEW L, L \cap Comments = {}, NEW W, NEW p, Agrees(W, p, L), Unquoted(p),
         NEW line \in Seq(L), ~IsMeta(line), TameLine(p, line)
  PROVE  Agrees(Scan(W, line), LineEnd(p, line), L) /\ Unquoted(LineEnd(p, line))
<1>1. PICK n \in Nat : n = Len(line) /\ DOMAIN line = 1 .. n
  OBVIOUS
<1>2. PICK f : Steps(f, W, line, n) /\ Scan(W, line) = f[n]
  BY <1>1, ScanSteps
<1>3. PICK g : g = PsqlIn(p, line)
  OBVIOUS
<1>4. g[0] = p /\ \A k \in 1 .. n : g[k] = PsqlLexeme(g[k - 1], line[k])
  BY <1>1, <1>3, InSteps
<1>5. \A k \in 1 .. n : Unquoted(g[k - 1]) => /\ Semicolon(line[k]) => g[k - 1].depth = 0
                                              /\ line[k] \in Metas => k = 1
  BY <1>1, <1>3 DEF TameLine
<1> DEFINE P == {k \in 0 .. n : Agrees(f[k], g[k], L)}
<1>6. 0 \in P
  <2>1. f[0] = W
    BY <1>2 DEF Steps
  <2> QED BY <1>4, <2>1
<1>7. ASSUME NEW k \in 0 .. n - 1, k \in P PROVE k + 1 \in P
  <2>1. k + 1 \in 1 .. n /\ k + 1 \in 0 .. n /\ (k + 1) - 1 = k
    OBVIOUS
  <2>2. PICK t \in L : t = line[k + 1]
    BY <1>1, <2>1
  <2>3. f[k + 1] = Lexeme(f[k], t) /\ g[k + 1] = PsqlLexeme(g[k], t)
    BY <1>2, <1>4, <2>1, <2>2 DEF Steps
  <2>4. t \in Metas => k + 1 # 1
    BY <1>1, <2>1, <2>2 DEF IsMeta
  <2>5. Unquoted(g[k]) => t \notin Metas /\ (Semicolon(t) => g[k].depth = 0)
    BY <1>5, <2>1, <2>2, <2>4
  <2>6. Agrees(f[k], g[k], L)
    BY <1>7
  <2>7. Agrees(f[k + 1], g[k + 1], L)
    BY <2>3, <2>5, <2>6, LexemeAgrees
  <2> QED BY <2>1, <2>7
<1>8. P = 0 .. n
  <2>1. P \in SUBSET (0 .. n)
    OBVIOUS
  <2> HIDE DEF P
  <2> QED BY <1>6, <1>7, <2>1, InductTo
<1>9. n \in 0 .. n
  OBVIOUS
<1>10. Agrees(f[n], g[n], L)
  <2>1. n \in P
    BY <1>8, <1>9
  <2> QED BY <2>1
<1>11. ~Unclosed(f[n].buf)
  <2>1. W \in Accs(L) /\ ~Unclosed(W.buf)
    BY QuotedOr DEF Agrees
  <2>2. Unclosed(f[n].buf) <=> Unclosed(SubSeq(line, 1, n))
    BY <1>1, <1>2, <1>9, <2>1, ScanQuotes
  <2>3. SubSeq(line, 1, n) = line
    BY <1>1
  <2> QED BY <2>2, <2>3 DEF TameLine
<1>12. PICK q \in Psqls(L) : q = g[n] /\ Agrees(f[n], q, L)
  BY <1>10 DEF Agrees
<1>13. PICK e : e = LineEnd(p, line)
  OBVIOUS
<1>14. e = [q EXCEPT !.command = FALSE]
  BY <1>1, <1>3, <1>12, <1>13 DEF LineEnd
<1>15. /\ e \in Psqls(L) /\ NoCommand(e)
       /\ e.items = q.items /\ e.text = q.text
       /\ (InQuote(e) <=> InQuote(q)) /\ (Unquoted(e) <=> Unquoted(q))
  BY <1>14, LineEndIs
<1>16. Agrees(f[n], e, L) /\ Unquoted(e)
  <2>1. ~InQuote(q) /\ Unquoted(q)
    BY <1>11, <1>12, QuotedOr DEF Agrees
  <2> QED BY <1>12, <1>15, <2>1 DEF Agrees
<1> QED BY <1>2, <1>12, <1>13, <1>16

\* The last element of a sequence is another one.
LEMMA SameSeq ==
  ASSUME NEW M, NEW a \in Seq(M), NEW b \in Seq(M), Len(a) = Len(b),
         \A n \in 1 .. Len(a) : a[n] = b[n]
  PROVE  a = b
OBVIOUS

LEMMA LastChanged ==
  ASSUME NEW M, NEW o \in Seq(M), NEW c \in M, NEW d \in M
  PROVE  [Append(o, c) EXCEPT ![Len(Append(o, c))] = d] = Append(o, d)
<1>1. PICK k \in Nat : k = Len(o)
  OBVIOUS
<1>2. PICK i \in Seq(M) : i = Append(o, c)
  BY OneMore
<1>3. Len(i) = k + 1 /\ \A n \in 1 .. k : i[n] = o[n]
  BY <1>1, <1>2
<1>4. PICK r : r = [i EXCEPT ![k + 1] = d]
  OBVIOUS
<1>5. r \in Seq(M) /\ Len(r) = k + 1 /\ r[k + 1] = d /\ \A n \in 1 .. k : r[n] = i[n]
  BY <1>3, <1>4
<1>6. PICK a \in Seq(M) : a = Append(o, d)
  BY OneMore
<1>7. Len(a) = k + 1 /\ a[k + 1] = d /\ \A n \in 1 .. k : a[n] = o[n]
  BY <1>1, <1>6
<1>8. ASSUME NEW n \in 1 .. k + 1 PROVE r[n] = a[n]
  <2>1. n \in 1 .. k \/ n = k + 1
    OBVIOUS
  <2> QED BY <1>3, <1>5, <1>7, <2>1
<1>9. r = a
  BY <1>5, <1>7, <1>8, SameSeq
<1> QED BY <1>2, <1>3, <1>4, <1>6, <1>9

\* The first lexeme of a meta command, and one that follows.
LEMMA CommandBegins ==
  ASSUME NEW L, NEW p \in Psqls(L), Unquoted(p), NEW t \in L, t \in Metas
  PROVE  Commanded(PsqlLexeme(p, t), p, Append(p.items, <<t>>), L)
<1>1. PICK i \in Seq(Seq(L)), x \in Seq(L), d \in Int, b \in BOOLEAN, u \in BOOLEAN :
        p = [items |-> i, text |-> x, quoted |-> u, depth |-> d, command |-> b]
  BY DEF Psqls
<1>2. p.items = i /\ p.text = x /\ p.quoted = u /\ p.depth = d /\ p.command = b
  BY <1>1, PsqlHas
<1>3. PICK q : q = PsqlLexeme(p, t)
  OBVIOUS
<1>4. q = [p EXCEPT !.items = Append(@, <<t>>), !.command = TRUE]
  <2>1. ~p.quoted
    BY DEF Unquoted
  <2>2. t \notin Comments /\ ~Semicolon(t)
    BY Zenon DEF Metas, Comments, Semicolon
  <2> QED BY <1>3, <2>1, <2>2, Zenon DEF PsqlLexeme, Semicolon
<1>5. PICK j \in Seq(Seq(L)) : j = Append(i, <<t>>)
  <2>1. <<t>> \in Seq(L)
    OBVIOUS
  <2>2. Append(i, <<t>>) \in Seq(Seq(L))
    BY <2>1, OneMore, Zenon
  <2> QED BY <2>2
<1>6. PICK v \in BOOLEAN : v = TRUE
  OBVIOUS
<1>7. q = [items |-> j, text |-> x, quoted |-> u, depth |-> d, command |-> v]
  BY <1>1, <1>2, <1>4, <1>5, <1>6
<1>8. q \in Psqls(L) /\ q.items = j /\ q.text = x /\ q.quoted = u /\ q.command = v
  BY <1>7, PsqlHas
<1>9. Commanded(q, p, Append(p.items, <<t>>), L)
  BY <1>2, <1>5, <1>6, <1>8 DEF Commanded, Unquoted, InCommand
<1> QED BY <1>3, <1>9

LEMMA CommandGoesOn ==
  ASSUME NEW L, NEW p \in Psqls(L), Unquoted(p), InCommand(p), NEW t \in L, t \notin Metas,
         NEW o \in Seq(Seq(L)), NEW c \in Seq(L), p.items = Append(o, c)
  PROVE  Commanded(PsqlLexeme(p, t), p, Append(o, Append(c, t)), L)
<1>1. PICK i \in Seq(Seq(L)), x \in Seq(L), d \in Int, b \in BOOLEAN, u \in BOOLEAN :
        p = [items |-> i, text |-> x, quoted |-> u, depth |-> d, command |-> b]
  BY DEF Psqls
<1>2. p.items = i /\ p.text = x /\ p.quoted = u /\ p.depth = d /\ p.command = b
  BY <1>1, PsqlHas
<1>3. PICK q : q = PsqlLexeme(p, t)
  OBVIOUS
<1>4. q = [p EXCEPT !.items[Len(p.items)] = Append(@, t)]
  BY <1>3 DEF PsqlLexeme, Unquoted, InCommand
<1>5. PICK ct \in Seq(L) : ct = Append(c, t)
  BY OneMore, Zenon
<1>6. [i EXCEPT ![Len(i)] = Append(i[Len(i)], t)] = Append(o, ct)
  <2>1. PICK M : M = Seq(L)
    OBVIOUS
  <2>2. o \in Seq(M) /\ c \in M /\ ct \in M /\ i = Append(o, c)
    BY <1>2, <1>5, <2>1
  <2>3. i[Len(i)] = c
    BY <2>2
  <2>4. [Append(o, c) EXCEPT ![Len(Append(o, c))] = ct] = Append(o, ct)
    BY <2>2, LastChanged
  <2>5. [i EXCEPT ![Len(i)] = ct] = Append(o, ct)
    BY <2>2, <2>4, Zenon
  <2> QED BY <1>5, <2>3, <2>5, Zenon
<1>7. PICK j \in Seq(Seq(L)) : j = Append(o, ct)
  BY OneMore, Zenon
<1>8. q = [p EXCEPT !.items = [i EXCEPT ![Len(i)] = Append(i[Len(i)], t)]]
  BY <1>1, <1>2, <1>4
<1>9. q = [items |-> j, text |-> x, quoted |-> u, depth |-> d, command |-> b]
  BY <1>1, <1>6, <1>7, <1>8
<1>10. q \in Psqls(L) /\ q.items = j /\ q.text = x /\ q.quoted = u /\ q.command = b
  BY <1>9, PsqlHas
<1>11. Commanded(q, p, Append(o, Append(c, t)), L)
  BY <1>2, <1>5, <1>7, <1>10 DEF Commanded, Unquoted, InCommand
<1> QED BY <1>3, <1>11

\* A line that is a meta command, between two statements.
LEMMA CommandLine ==
  ASSUME NEW L, L \cap Comments = {}, NEW W, NEW p, Agrees(W, p, L), Unquoted(p),
         NEW line \in Seq(L), IsMeta(line), TameLine(p, line),
         NEW V, V = [out |-> Append(W.out, line), buf |-> <<>>]
  PROVE  OnlyComments(W.buf) /\ Agrees(V, LineEnd(p, line), L) /\ Unquoted(LineEnd(p, line))
<1>1. PICK n \in Nat : n = Len(line) /\ DOMAIN line = 1 .. n /\ n >= 1
  BY DEF IsMeta
<1>2. PICK g : g = PsqlIn(p, line)
  OBVIOUS
<1>3. g[0] = p /\ \A k \in 1 .. n : g[k] = PsqlLexeme(g[k - 1], line[k])
  BY <1>1, <1>2, InSteps
<1>4. p \in Psqls(L) /\ W \in Accs(L) /\ W.out = p.items /\ W.buf = p.text
  BY DEF Agrees
<1>5. PICK o \in Seq(Seq(L)) : o = p.items
  BY DEF Agrees, Psqls
<1>6. \A k \in 1 .. n : Unquoted(g[k - 1]) => (line[k] \in Metas => k = 1 /\ g[k - 1].text = <<>>)
  BY <1>1, <1>2 DEF TameLine
<1>7. line[1] \in Metas /\ line[1] \in L
  BY <1>1 DEF IsMeta
<1>8. p.text = <<>>
  <2>1. 1 \in 1 .. n /\ g[1 - 1] = p
    BY <1>1, <1>3
  <2> QED BY <1>6, <1>7, <2>1
<1> DEFINE In(k) == /\ g[k] \in Psqls(L) /\ InCommand(g[k]) /\ g[k].text = <<>> /\ Unquoted(g[k])
                    /\ g[k].items = Append(o, SubSeq(line, 1, k))
           P == {k \in 0 .. n : k # 0 => In(k)}
<1>9. 0 \in P
  OBVIOUS
<1>10. ASSUME NEW k \in 0 .. n - 1, k \in P PROVE k + 1 \in P
  <2>1. /\ k + 1 \in 1 .. n /\ k + 1 \in 0 .. n /\ (k + 1) - 1 = k
        /\ k \in Nat /\ k + 1 <= Len(line)
    BY <1>1
  <2>2. PICK t \in L, c \in Seq(L) : t = line[k + 1] /\ c = SubSeq(line, 1, k)
    BY <2>1, PrefixGrows
  <2>3. SubSeq(line, 1, k + 1) = Append(c, t)
    BY <2>1, <2>2, PrefixGrows
  <2>4. PICK q, r : q = g[k + 1] /\ r = g[k]
    OBVIOUS
  <2>5. q = PsqlLexeme(r, t)
    BY <1>3, <2>1, <2>2, <2>4
  <2>6. CASE k = 0
    <3>1. r = p /\ t \in Metas
      BY <1>3, <1>7, <2>2, <2>4, <2>6
    <3>2. Commanded(q, p, Append(p.items, <<t>>), L)
      BY <1>4, <2>5, <3>1, CommandBegins
    <3>3. Append(c, t) = <<t>>
      <4>1. c = <<>>
        BY <2>2, <2>6
      <4> QED BY <4>1
    <3>4. In(k + 1)
      BY <1>5, <1>8, <2>3, <2>4, <3>2, <3>3 DEF Commanded
    <3> QED BY <2>1, <3>4
  <2>7. CASE k # 0
    <3>1. r \in Psqls(L) /\ InCommand(r) /\ r.text = <<>> /\ Unquoted(r) /\ r.items = Append(o, c)
      BY <1>10, <2>2, <2>4, <2>7
    <3>2. t \notin Metas
      BY <1>6, <2>1, <2>2, <2>4, <2>7, <3>1
    <3>3. Commanded(q, r, Append(o, Append(c, t)), L)
      BY <2>5, <3>1, <3>2, CommandGoesOn
    <3>4. In(k + 1)
      BY <2>3, <2>4, <3>1, <3>3 DEF Commanded
    <3> QED BY <2>1, <3>4
  <2> QED BY <2>6, <2>7
<1>11. P = 0 .. n
  <2>1. P \in SUBSET (0 .. n)
    OBVIOUS
  <2> HIDE DEF P
  <2> QED BY <1>9, <1>10, <2>1, InductTo
<1>12. In(n)
  <2>1. n \in 0 .. n /\ n # 0
    BY <1>1
  <2>2. n \in P
    BY <1>11, <2>1
  <2> QED BY <2>1, <2>2
<1>13. PICK q \in Psqls(L) : q = g[n]
  BY <1>12
<1>14. q.text = <<>> /\ Unquoted(q) /\ q.items = Append(o, line)
  <2>1. SubSeq(line, 1, n) = line
    BY <1>1
  <2> QED BY <1>12, <1>13, <2>1
<1>15. PICK e : e = LineEnd(p, line)
  OBVIOUS
<1>16. e = [q EXCEPT !.command = FALSE]
  BY <1>1, <1>2, <1>13, <1>15 DEF LineEnd
<1>17. /\ e \in Psqls(L) /\ NoCommand(e)
       /\ e.items = q.items /\ e.text = q.text
       /\ (InQuote(e) <=> InQuote(q)) /\ (Unquoted(e) <=> Unquoted(q))
  BY <1>16, LineEndIs
<1>18. V \in Accs(L) /\ V.out = Append(o, line) /\ V.buf = <<>> /\ ~Unclosed(V.buf)
  <2>1. Append(o, line) \in Seq(Seq(L)) /\ <<>> \in Seq(L)
    OBVIOUS
  <2>2. V = [out |-> Append(o, line), buf |-> <<>>]
    BY <1>4, <1>5
  <2>3. V.out = Append(o, line) /\ V.buf = <<>>
    BY <2>2
  <2> QED BY <2>1, <2>2, <2>3, NoQuoteYet DEF Accs
<1>19. OnlyComments(W.buf)
  BY <1>4, <1>8 DEF OnlyComments, ToSet
<1>20. Agrees(V, e, L) /\ Unquoted(e)
  <2>1. ~InQuote(e)
    BY <1>14, <1>17, QuotedOr
  <2> QED BY <1>14, <1>17, <1>18, <2>1 DEF Agrees
<1> QED BY <1>15, <1>19, <1>20

\* All lines cut one by one, as psql cuts them.
LEMMA JoinedAsPsql ==
  ASSUME NEW L, L \cap Comments = {}, NEW lines \in Seq(Seq(L)), Tame(lines)
  PROVE  Joined(lines) = TopLevel(lines)
<1>1. PICK n \in Nat : n = Len(lines) /\ DOMAIN lines = 1 .. n
  OBVIOUS
<1>2. PICK g : /\ g[0] = Nothing /\ \A k \in 1 .. n : g[k] = CutLine(g[k - 1], lines[k])
               /\ Joined(lines) = Flushed(g[n]).out
  BY <1>1, WholeSteps
<1>3. PICK q : q = PsqlAfter(lines)
  OBVIOUS
<1>4. q[0] = PsqlStart /\ \A k \in 1 .. n : q[k] = LineEnd(q[k - 1], lines[k])
  BY <1>1, <1>3, AfterSteps, Zenon
<1>5. \A k \in 1 .. n : TameLine(q[k - 1], lines[k])
  BY <1>1, <1>3, Zenon DEF Tame, TameLine, Unquoted, Semicolon
<1> DEFINE P == {k \in 0 .. n : Agrees(g[k], q[k], L) /\ Unquoted(q[k])}
<1>6. 0 \in P
  <2>1. /\ PsqlStart \in Psqls(L) /\ NoCommand(PsqlStart) /\ Unquoted(PsqlStart)
        /\ PsqlStart.items = <<>> /\ PsqlStart.text = <<>>
    BY DEF PsqlStart, Psqls, NoCommand, Unquoted
  <2>2. Nothing.out = <<>> /\ Nothing.buf = <<>>
    BY DEF Nothing
  <2>3. ~InQuote(PsqlStart)
    BY <2>1, QuotedOr
  <2>4. Agrees(Nothing, PsqlStart, L)
    BY <2>1, <2>2, <2>3, NothingType, NoQuoteYet DEF Agrees
  <2> QED BY <1>2, <1>4, <2>1, <2>4
<1>7. ASSUME NEW k \in 0 .. n - 1, k \in P PROVE k + 1 \in P
  <2>1. k + 1 \in 1 .. n /\ k + 1 \in 0 .. n /\ (k + 1) - 1 = k
    OBVIOUS
  <2>2. PICK W, p : W = g[k] /\ p = q[k] /\ Agrees(W, p, L) /\ Unquoted(p)
    BY <1>7
  <2>3. PICK line \in Seq(L) : line = lines[k + 1] /\ TameLine(p, line)
    <3>1. TameLine(q[(k + 1) - 1], lines[k + 1])
      BY <1>5, <2>1
    <3>2. lines[k + 1] \in Seq(L)
      BY <1>1, <2>1
    <3> QED BY <2>1, <2>2, <3>1, <3>2
  <2>4. g[k + 1] = CutLine(W, line) /\ q[k + 1] = LineEnd(p, line)
    BY <1>2, <1>4, <2>1, <2>2, <2>3
  <2>5. Agrees(CutLine(W, line), LineEnd(p, line), L) /\ Unquoted(LineEnd(p, line))
    <3>1. CASE IsMeta(line)
      <4>1. PICK V : V = [out |-> Append(W.out, line), buf |-> <<>>]
        OBVIOUS
      <4>2. OnlyComments(W.buf) /\ Agrees(V, LineEnd(p, line), L) /\ Unquoted(LineEnd(p, line))
        BY <2>2, <2>3, <3>1, <4>1, CommandLine
      <4>3. CutLine(W, line) = V
        BY <3>1, <4>1, <4>2 DEF CutLine
      <4> QED BY <4>2, <4>3
    <3>2. CASE ~IsMeta(line)
      <4>1. Agrees(Scan(W, line), LineEnd(p, line), L) /\ Unquoted(LineEnd(p, line))
        BY <2>2, <2>3, <3>2, StatementLine
      <4>2. CutLine(W, line) = Scan(W, line)
        BY <3>2 DEF CutLine
      <4> QED BY <4>1, <4>2
    <3> QED BY <3>1, <3>2
  <2> QED BY <2>1, <2>4, <2>5
<1>8. P = 0 .. n
  <2>1. P \in SUBSET (0 .. n)
    OBVIOUS
  <2> HIDE DEF P
  <2> QED BY <1>6, <1>7, <2>1, InductTo
<1>9. PICK W, p : W = g[n] /\ p = q[n] /\ Agrees(W, p, L)
  <2>1. n \in 0 .. n
    OBVIOUS
  <2>2. n \in P
    BY <1>8, <2>1
  <2> QED BY <2>2
<1>10. W \in Accs(L) /\ W.buf \in Seq(L) /\ W.out = p.items /\ W.buf = p.text
  BY <1>9 DEF Agrees, Accs
<1>11. Flushed(W).out = IF p.text = <<>> THEN p.items ELSE Append(p.items, p.text)
  <2>1. OnlyComments(W.buf) <=> W.buf = <<>>
    BY <1>10, NoComment
  <2> QED BY <1>10, <2>1, FlushedOut
<1>12. TopLevel(lines) = IF p.text = <<>> THEN p.items ELSE Append(p.items, p.text)
  BY <1>1, <1>3, <1>9 DEF TopLevel
<1> QED BY <1>2, <1>9, <1>11, <1>12
-----------------------------------------------------------------------------
\* The text a session was given stays what it is.
LEMMA OpenedStays == Spec => [](opened \in Texts)
<1>1. Init => opened \in Texts
  BY DEF Init
<1>2. opened \in Texts /\ [Next]_vars => (opened \in Texts)'
  <2>1. CASE Loop
    BY <2>1 DEF Loop, ScriptEnds, ScriptCancelled, Quit, Include, MetaFails, SetKey,
                StartStatement, StartExplain, Start
  <2>2. CASE RunStatement
    BY <2>2 DEF RunStatement, AskKey, Parse, Redial, Send, Execute, Reply, ReplyLost,
                Interrupted, Judged
  <2> QED BY <2>1, <2>2 DEF Next, Close, Signal, Lose, Exited, vars
<1> QED BY <1>1, <1>2, PTL DEF Spec

\* The statements and meta commands that splitScript and the buffer of its loop
\* find in a text are those psql finds in it, one lexeme after the other, if psql
\* reads no comment in it, no quote that goes on at a line end, no semicolon in
\* brackets, and meta commands only at the start of a line between two statements.
THEOREM SplitAsPsql == Spec => []SplitMatches
<1>1. opened \in Texts => SplitMatches
  <2> SUFFICES ASSUME opened \in Texts, frames = <<Frame(SplitScript(opened))>>, Tame(opened)
               PROVE  Top.items = TopLevel(opened)
    BY DEF SplitMatches
  <2>1. PICK lines : lines = opened
    OBVIOUS
  <2>2. PICK M : M = STRING
    OBVIOUS
  <2>3. lines \in Seq(Seq(M)) /\ Tame(lines)
    BY <2>1, <2>2, TextsAssumption
  <2>4. PICK L : L = M \ Comments
    OBVIOUS
  <2>5. lines \in Seq(Seq(L)) /\ L \cap Comments = {} /\ \A k \in DOMAIN lines : ~Unclosed(lines[k])
    BY <2>3, <2>4, WithoutComments
  <2>6. SplitScript(lines) = TopLevel(lines)
    <3>1. SplitScript(lines) = Joined(lines)
      BY <2>5, CutAsJoined
    <3>2. Joined(lines) = TopLevel(lines)
      BY <2>3, <2>5, JoinedAsPsql
    <3> QED BY <3>1, <3>2
  <2>7. Top.items = SplitScript(lines)
    BY <2>1 DEF Top, Depth, Frame
  <2> QED BY <2>1, <2>6, <2>7
<1> QED BY <1>1, OpenedStays, PTL
=============================================================================
