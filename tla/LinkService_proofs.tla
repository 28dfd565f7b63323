------------------------- MODULE LinkService_proofs -------------------------
(* Theorems about LinkService, for every value of its constants.           *)
EXTENDS LinkService, FiniteSetTheorems, TLAPS

USE ConstantsAssumption DEF Reqs

-----------------------------------------------------------------------------
(* The values the steps build *)

\* The fields of a row, and the rows the handlers start from.
LEMMA RowForms ==
  /\ NoRow \in Row
  /\ NoCounts \in [Days -> Nat]
BY DEF NoRow, Row, Time, NoCounts, ConstantsAssumption

\* Every answer a handler gives is an Answer.
LEMMA AnswerForms ==
  /\ \A status \in Statuses, n \in Names \cup {Null}, url \in Reqs \cup {Null} :
       Wrote(status, n, url) \in Answer
  /\ \A status \in Statuses : Says(status) \in Answer
  /\ TypeOK => \A S \in SUBSET Names : Report(S) \in Answer
<1>1. NoCountsAtAll \in [Names -> [Days -> Nat]] BY RowForms DEF NoCountsAtAll
<1>2. ASSUME NEW status \in Statuses, NEW n \in Names \cup {Null}, NEW url \in Reqs \cup {Null}
      PROVE  Wrote(status, n, url) \in Answer
  BY <1>1 DEF Wrote, Answer
<1>3. ASSUME NEW status \in Statuses PROVE Says(status) \in Answer
  BY <1>2 DEF Says
<1>4. ASSUME TypeOK, NEW S \in SUBSET Names PROVE Report(S) \in Answer
  <2>1. [n \in Names |-> IF n \in S THEN counts[n] ELSE NoCounts] \in [Names -> [Days -> Nat]]
    BY <1>4, RowForms DEF TypeOK
  <2> QED BY <2>1 DEF Report, Answer, Statuses
<1> QED BY <1>2, <1>3, <1>4

\* Deciding an answer keeps every local of the handlers well typed.
LEMMA DecideType ==
  ASSUME TypeOK, NEW r \in Reqs, NEW a \in Answer, Decide(r, a)
  PROVE  /\ call' \in [Reqs -> Request] /\ at' \in [Reqs -> Time]
         /\ seen' \in [Reqs -> Row] /\ tries' \in [Reqs -> 0 .. Attempts - 1]
         /\ answer' \in [Reqs -> Answer]
<1>1. 0 \in 0 .. Attempts - 1 BY DEF ConstantsAssumption
<1> QED BY <1>1, RowForms DEF TypeOK, Decide

\* Moving a request to a place keeps the type of pc.
LEMMA GotoType ==
  ASSUME TypeOK, NEW r \in Reqs, NEW place \in Places, Goto(r, place)
  PROVE  pc' \in [Reqs -> Places]
BY DEF TypeOK, Goto

\* Deciding an answer and closing keeps the types of pc and answer.
LEMMA FinishType ==
  ASSUME TypeOK, NEW r \in Reqs, NEW a \in Answer, Finish(r, a) \/ Written(r, a)
  PROVE  /\ pc' \in [Reqs -> Places]
         /\ call' \in [Reqs -> Request] /\ at' \in [Reqs -> Time]
         /\ seen' \in [Reqs -> Row] /\ tries' \in [Reqs -> 0 .. Attempts - 1]
         /\ answer' \in [Reqs -> Answer]
<1>1. {"closing", "settle"} \subseteq Places BY DEF Places
<1> QED BY <1>1, DecideType, GotoType DEF Finish, Written

\* A handler that decides its answer and keeps the tables' types keeps the type
\* invariant.
LEMMA WriteKeepsType ==
  ASSUME TypeOK, NEW r \in Reqs, NEW a \in Answer, Finish(r, a) \/ Written(r, a),
         links' \in [Names -> Row], counts' \in [Names -> [Days -> Nat]],
         UNCHANGED <<now, up, lock>>
  PROVE  TypeOK'
<1>1. /\ pc' \in [Reqs -> Places]
      /\ call' \in [Reqs -> Request] /\ at' \in [Reqs -> Time]
      /\ seen' \in [Reqs -> Row] /\ tries' \in [Reqs -> 0 .. Attempts - 1]
      /\ answer' \in [Reqs -> Answer]
  BY FinishType
<1>2. now' \in Time /\ up' \in [Procs -> BOOLEAN] /\ lock' \in [Procs -> Reqs \cup {Null}]
  BY DEF TypeOK
<1> QED BY <1>1, <1>2 DEF TypeOK

\* A handler that only decides its answer keeps the type invariant.
LEMMA FinishKeepsType ==
  ASSUME TypeOK, NEW r \in Reqs, NEW a \in Answer, Finish(r, a) \/ Written(r, a), UNCHANGED world
  PROVE  TypeOK'
<1>1. links' = links /\ counts' = counts /\ UNCHANGED <<now, up, lock>> BY DEF world
<1>2. links' \in [Names -> Row] /\ counts' \in [Names -> [Days -> Nat]] BY <1>1 DEF TypeOK
<1> QED BY <1>1, <1>2, WriteKeepsType

-----------------------------------------------------------------------------
(* Type correctness *)

\* The tables start empty, with every request unsent.
LEMMA TypeInit == Init => TypeOK
<1> SUFFICES ASSUME Init PROVE TypeOK OBVIOUS
<1>1. 0 \in Time /\ Says(0) \in Answer /\ NoRequest \in Request
  BY AnswerForms DEF Time, Statuses, NoRequest, Request, ConstantsAssumption
<1>2. 0 \in 0 .. Attempts - 1 BY DEF ConstantsAssumption
<1> QED BY <1>1, <1>2, RowForms DEF Init, TypeOK, Places

\* One step per action; RecordFollow needs LocalsOK to know that the target
\* it sends is that of a live row, Lookup that the name it reads is a name.
LEMMA TypeStep == TypeOK /\ LocalsOK /\ [Next]_vars => TypeOK'
<1> SUFFICES ASSUME TypeOK, LocalsOK, [Next]_vars PROVE TypeOK'
  OBVIOUS
<1> USE DEF world
<1>1. ASSUME NEW r \in Reqs, NEW p \in Procs, Send(r, p) PROVE TypeOK'
  <2>1. PICK c \in Calls :
          call' = [call EXCEPT ![r] = [op |-> c.op, proc |-> p, name |-> c.name,
                                       expires |-> c.expires, since |-> now,
                                       gone |-> ToldDeleted]]
    BY <1>1 DEF Send
  <2>2. [op |-> c.op, proc |-> p, name |-> c.name, expires |-> c.expires,
         since |-> now, gone |-> ToldDeleted] \in Request
    BY DEF Calls, Request, ToldDeleted, TypeOK, ConstantsAssumption
  <2>3. call' \in [Reqs -> Request] BY <2>1, <2>2 DEF TypeOK
  <2>4. pc' \in [Reqs -> Places] BY <1>1, GotoType DEF Send, Places
  <2> QED BY <1>1, <2>3, <2>4 DEF Send, TypeOK
<1>2. ASSUME NEW r \in Reqs, Connect(r) PROVE TypeOK'
  <2>1. lock' \in [Procs -> Reqs \cup {Null}] BY <1>2 DEF Connect, TypeOK
  <2>2. CASE Unusable(r)
    <3>1. Says(IF call[r].op = "create" THEN 422 ELSE 404) \in Answer
      BY AnswerForms DEF Statuses
    <3> QED BY <1>2, <2>1, <2>2, <3>1, FinishType DEF Connect, TypeOK
  <2>3. CASE ~ Unusable(r)
    <3>1. FirstPlace(call[r].op) \in Places BY DEF FirstPlace, Places
    <3> QED BY <1>2, <2>1, <2>3, <3>1, GotoType DEF Connect, TypeOK
  <2> QED BY <2>2, <2>3
<1>3. ASSUME NEW r \in Reqs, ConnectFails(r) PROVE TypeOK'
  <2>1. Says(500) \in Answer BY AnswerForms DEF Statuses
  <2>2. pc' \in [Reqs -> Places] BY <1>3, GotoType DEF ConnectFails, Places
  <2> QED BY <1>3, <2>1, <2>2, DecideType DEF ConnectFails, TypeOK
<1>4. ASSUME NEW r \in Reqs, Close(r) PROVE TypeOK'
  <2>1. pc' \in [Reqs -> Places] BY <1>4, GotoType DEF Close, Places
  <2> QED BY <1>4, <2>1 DEF Close, TypeOK
<1>5. ASSUME NEW r \in Reqs, Respond(r) PROVE TypeOK'
  <2>1. pc' \in [Reqs -> Places] BY <1>5, GotoType DEF Respond, Places
  <2> QED BY <1>5, <2>1 DEF Respond, TypeOK
<1>6. ASSUME NEW r \in Reqs, Busy(r) PROVE TypeOK'
  <2>1. Says(500) \in Answer BY AnswerForms DEF Statuses
  <2> QED BY <1>6, <2>1, FinishKeepsType DEF Busy
<1>7. ASSUME NEW r \in Reqs, Settle(r) PROVE TypeOK'
  <2>1. CASE Goto(r, "closing") /\ UNCHANGED <<call, at, seen, tries, answer>>
    <3>1. pc' \in [Reqs -> Places] BY <2>1, GotoType DEF Places
    <3> QED BY <1>7, <2>1, <3>1 DEF Settle, TypeOK
  <2>2. CASE Finish(r, Says(500))
    <3>1. Says(500) \in Answer BY AnswerForms DEF Statuses
    <3>2. UNCHANGED world BY <1>7 DEF Settle
    <3> QED BY <2>2, <3>1, <3>2, FinishKeepsType
  <2> QED BY <1>7, <2>1, <2>2 DEF Settle
<1>8. ASSUME NEW r \in Reqs, Validate(r) PROVE TypeOK'
  <2>1. CASE Finish(r, Says(422))
    <3>1. Says(422) \in Answer BY AnswerForms DEF Statuses
    <3>2. UNCHANGED world BY <1>8 DEF Validate
    <3> QED BY <2>1, <3>1, <3>2, FinishKeepsType
  <2>2. CASE Goto(r, "insert") /\ at' = [at EXCEPT ![r] = now]
             /\ UNCHANGED <<call, seen, tries, answer>>
    <3>1. pc' \in [Reqs -> Places] BY <2>2, GotoType DEF Places
    <3> QED BY <1>8, <2>2, <3>1 DEF Validate, TypeOK
  <2> QED BY <1>8, <2>1, <2>2 DEF Validate
<1>9. ASSUME NEW r \in Reqs, NEW n \in Names \cup {Null}, Insert(r, n) PROVE TypeOK'
  <2>1. NewRow(r) \in Row BY DEF NewRow, Row, TypeOK, Request
  <2>2. links' \in [Names -> Row] BY <1>9, <2>1 DEF Insert, TypeOK
  <2>3. Wrote(201, n, r) \in Answer BY AnswerForms DEF Statuses
  <2>4. Written(r, Wrote(201, n, r)) /\ UNCHANGED <<counts, now, up, lock>> BY <1>9 DEF Insert
  <2>5. counts' \in [Names -> [Days -> Nat]] BY <2>4 DEF TypeOK
  <2> QED BY <2>2, <2>3, <2>4, <2>5, WriteKeepsType
<1>10. ASSUME NEW r \in Reqs, CreateNamed(r) PROVE TypeOK'
  <2>1. call[r].name \in Names \cup {Null} BY DEF TypeOK, Request
  <2>2. Says(409) \in Answer BY AnswerForms DEF Statuses
  <2>3. CASE Finish(r, Says(409)) /\ UNCHANGED world
    BY <2>2, <2>3, FinishKeepsType
  <2> QED BY <1>9, <1>10, <2>1, <2>3 DEF CreateNamed
<1>11. ASSUME NEW r \in Reqs, CreateGenerated(r) PROVE TypeOK'
  <2>1. PICK n \in Generable :
          \/ Insert(r, n)
          \/ Finish(r, Says(503)) /\ UNCHANGED world
          \/ /\ tries[r] + 1 < Attempts /\ tries' = [tries EXCEPT ![r] = @ + 1]
             /\ UNCHANGED <<world, pc, call, at, seen, answer>>
    BY <1>11 DEF CreateGenerated
  <2>2. n \in Names \cup {Null} BY DEF ConstantsAssumption
  <2>3. CASE Finish(r, Says(503)) /\ UNCHANGED world
    <3>1. Says(503) \in Answer BY AnswerForms DEF Statuses
    <3> QED BY <2>3, <3>1, FinishKeepsType
  <2>4. CASE /\ tries[r] + 1 < Attempts /\ tries' = [tries EXCEPT ![r] = @ + 1]
             /\ UNCHANGED <<world, pc, call, at, seen, answer>>
    <3>1. tries[r] + 1 \in 0 .. Attempts - 1 BY <2>4 DEF TypeOK, ConstantsAssumption
    <3> QED BY <2>4, <3>1 DEF TypeOK
  <2> QED BY <1>9, <2>1, <2>2, <2>3, <2>4
<1>12. ASSUME NEW r \in Reqs, Lookup(r) PROVE TypeOK'
  <2>1. CASE Finish(r, Says(404))
    <3>1. Says(404) \in Answer BY AnswerForms DEF Statuses
    <3>2. UNCHANGED world BY <1>12 DEF Lookup
    <3> QED BY <2>1, <3>1, <3>2, FinishKeepsType
  <2>2. CASE /\ Goto(r, "expiry") /\ seen' = [seen EXCEPT ![r] = links[call[r].name]]
             /\ UNCHANGED <<call, at, tries, answer>>
    <3>1. call[r].name \in Names BY <1>12 DEF Lookup, LocalsOK, LocalOK, Connected, Statements
    <3>2. pc' \in [Reqs -> Places] BY <2>2, GotoType DEF Places
    <3> QED BY <1>12, <2>2, <3>1, <3>2 DEF Lookup, TypeOK
  <2> QED BY <1>12, <2>1, <2>2 DEF Lookup
<1>13. ASSUME NEW r \in Reqs, Expiry(r) PROVE TypeOK'
  <2>1. Says(410) \in Answer BY AnswerForms DEF Statuses
  <2>2. CASE Finish(r, Says(410))
    <3>1. UNCHANGED world BY <1>13 DEF Expiry
    <3> QED BY <2>1, <2>2, <3>1, FinishKeepsType
  <2>3. CASE Goto(r, "day") /\ UNCHANGED <<call, at, seen, tries, answer>>
    <3>1. pc' \in [Reqs -> Places] BY <2>3, GotoType DEF Places
    <3> QED BY <1>13, <2>3, <3>1 DEF Expiry, TypeOK
  <2> QED BY <1>13, <2>2, <2>3 DEF Expiry
<1>14. ASSUME NEW r \in Reqs, ReadDay(r) PROVE TypeOK'
  <2>1. pc' \in [Reqs -> Places] BY <1>14, GotoType DEF ReadDay, Places
  <2> QED BY <1>14, <2>1 DEF ReadDay, TypeOK
<1>15. ASSUME NEW r \in Reqs, RecordFollow(r) PROVE TypeOK'
  <2>1. call[r].name \in Names /\ seen[r].target \in Reqs
    BY <1>15 DEF RecordFollow, LocalsOK, LocalOK, Connected, Statements
  <2>2. Wrote(302, call[r].name, seen[r].target) \in Answer /\ Says(410) \in Answer
    BY <2>1, AnswerForms DEF Statuses
  <2>3. counts' \in [Names -> [Days -> Nat]]
    <3>1. Day(at[r]) \in Days BY DEF Days, TypeOK
    <3>2. counts[call[r].name][Day(at[r])] + 1 \in Nat BY <2>1, <3>1 DEF TypeOK
    <3>3. [counts[call[r].name] EXCEPT ![Day(at[r])] = @ + 1] \in [Days -> Nat]
      BY <2>1, <3>1, <3>2 DEF TypeOK
    <3>4. \/ UNCHANGED counts
          \/ counts' = [counts EXCEPT ![call[r].name] =
                          [counts[call[r].name] EXCEPT ![Day(at[r])] = @ + 1]]
      BY <1>15 DEF RecordFollow
    <3> QED BY <2>1, <3>3, <3>4 DEF TypeOK
  <2>4. CASE Written(r, Wrote(302, call[r].name, seen[r].target))
    <3>1. UNCHANGED <<links, now, up, lock>> BY <1>15 DEF RecordFollow
    <3>2. links' \in [Names -> Row] BY <3>1 DEF TypeOK
    <3> QED BY <2>2, <2>3, <2>4, <3>1, <3>2, WriteKeepsType
  <2>5. CASE Finish(r, Says(410))
    <3>1. UNCHANGED <<links, now, up, lock>> BY <1>15 DEF RecordFollow
    <3>2. links' \in [Names -> Row] BY <3>1 DEF TypeOK
    <3> QED BY <2>2, <2>3, <2>5, <3>1, <3>2, WriteKeepsType
  <2> QED BY <1>15, <2>4, <2>5 DEF RecordFollow
<1>16. ASSUME NEW r \in Reqs, Tombstone(r) PROVE TypeOK'
  <2>1. call[r].name \in Names BY <1>16 DEF Tombstone, LocalsOK, LocalOK, Connected, Statements
  <2>2. Wrote(204, call[r].name, Null) \in Answer
    <3>1. 204 \in Statuses BY DEF Statuses
    <3> QED BY <2>1, <3>1, AnswerForms
  <2>3. Buried(links[call[r].name]) \in Row
    <3> DEFINE row == links[call[r].name]
    <3>1. row \in Row BY <2>1 DEF TypeOK
    <3>2. [row EXCEPT !.state = "deleted"] \in Row BY <3>1 DEF Row
    <3>3. ASSUME NEW x \in Row PROVE [x EXCEPT !.target = Empty] \in Row BY DEF Row
    <3>4. ASSUME NEW x \in Row PROVE [x EXCEPT !.created_by = Null] \in Row BY DEF Row
    <3> QED BY <3>2, <3>3, <3>4 DEF Buried
  <2>4. CASE links[call[r].name].state = "live"
    <3>1. links' \in [Names -> Row] BY <1>16, <2>1, <2>3, <2>4 DEF Tombstone, TypeOK
    <3>2. counts' \in [Names -> [Days -> Nat]]
      <4>1. counts' = [counts EXCEPT ![call[r].name] = NoCounts] BY <1>16, <2>4 DEF Tombstone
      <4> QED BY <4>1, RowForms DEF TypeOK
    <3>3. Written(r, Wrote(204, call[r].name, Null)) /\ UNCHANGED <<now, up, lock>>
      BY <1>16, <2>4 DEF Tombstone
    <3> QED BY <2>2, <3>1, <3>2, <3>3, WriteKeepsType
  <2>5. CASE links[call[r].name].state # "live"
    <3>1. pc' \in [Reqs -> Places] BY <1>16, <2>5, GotoType DEF Tombstone, Places
    <3> QED BY <1>16, <2>5, <3>1 DEF Tombstone, TypeOK
  <2> QED BY <2>4, <2>5
<1>17. ASSUME NEW r \in Reqs, Why(r) PROVE TypeOK'
  <2>1. Says(IF links[call[r].name].state = "absent" THEN 404 ELSE 410) \in Answer
    BY AnswerForms DEF Statuses
  <2> QED BY <1>17, <2>1, FinishKeepsType DEF Why
<1>18. ASSUME NEW r \in Reqs, Stats(r) PROVE TypeOK'
  <2>1. call[r].name \in Names BY <1>18 DEF Stats, LocalsOK, LocalOK, Connected, Statements
  <2>2. Says(404) \in Answer /\ Says(410) \in Answer /\ Report({call[r].name}) \in Answer
    BY <2>1, AnswerForms DEF Statuses
  <2>3. UNCHANGED world /\ \E a \in Answer : Finish(r, a) BY <1>18, <2>2 DEF Stats
  <2> QED BY <2>3, FinishKeepsType
<1>19. ASSUME NEW r \in Reqs, Collect(r) PROVE TypeOK'
  <2>1. Report(LiveNames) \in Answer BY AnswerForms DEF LiveNames
  <2> QED BY <1>19, <2>1, FinishKeepsType DEF Collect
<1>20. ASSUME NEW p \in Procs, Crash(p) PROVE TypeOK'
  <2>1. Says(0) \in Answer BY AnswerForms DEF Statuses
  <2>2. 0 \in 0 .. Attempts - 1 BY DEF ConstantsAssumption
  <2> QED BY <1>20, <2>1, <2>2, RowForms DEF Crash, TypeOK, Places
<1>21. ASSUME NEW p \in Procs, Restart(p) PROVE TypeOK'
  BY <1>21 DEF Restart, TypeOK
<1>22. CASE Tick
  BY <1>22 DEF Tick, TypeOK, Time, ConstantsAssumption
<1>23. CASE UNCHANGED vars
  BY <1>23 DEF vars, TypeOK
<1> QED
  BY <1>1, <1>2, <1>3, <1>4, <1>5, <1>6, <1>7, <1>8, <1>10, <1>11, <1>12, <1>13, <1>14,
     <1>15, <1>16, <1>17, <1>18, <1>19, <1>20, <1>21, <1>22, <1>23 DEF Next, Serve

-----------------------------------------------------------------------------
(* What requests know of themselves *)

Untouched(q) ==
  /\ pc'[q] = pc[q] /\ call'[q] = call[q] /\ at'[q] = at[q]
  /\ seen'[q] = seen[q] /\ tries'[q] = tries[q] /\ answer'[q] = answer[q]

\* A handler's step touches no request but its own.
LEMMA OthersUntouched ==
  ASSUME TypeOK, NEW r \in Reqs, Serve(r) \/ \E p \in Procs : Send(r, p), NEW q \in Reqs, q # r
  PROVE  Untouched(q)
<1> USE DEF TypeOK, Untouched, Goto, Decide
<1>1. ASSUME NEW p \in Procs, Send(r, p) PROVE Untouched(q)
  BY <1>1 DEF Send
<1>2. ASSUME Connect(r) \/ ConnectFails(r) \/ Close(r) \/ Respond(r) \/ Busy(r) \/ Settle(r)
      PROVE  Untouched(q)
  BY <1>2 DEF Connect, ConnectFails, Close, Respond, Busy, Settle, Finish
<1>3. ASSUME Validate(r) \/ CreateNamed(r) \/ CreateGenerated(r) PROVE Untouched(q)
  BY <1>3 DEF Validate, CreateNamed, CreateGenerated, Insert, Finish, Written
<1>4. ASSUME Lookup(r) \/ Expiry(r) \/ ReadDay(r) \/ RecordFollow(r) PROVE Untouched(q)
  BY <1>4 DEF Lookup, Expiry, ReadDay, RecordFollow, Finish, Written
<1>5. ASSUME Tombstone(r) \/ Why(r) \/ Stats(r) \/ Collect(r) PROVE Untouched(q)
  BY <1>5 DEF Tombstone, Why, Stats, Collect, Finish, Written
<1> QED BY <1>1, <1>2, <1>3, <1>4, <1>5 DEF Serve

\* A request that has been answered needs to know only who was asked what.
LEMMA DecidedLocalOK ==
  ASSUME TypeOK, NEW r \in Reqs, LocalOK(r), pc[r] # "unsent", NEW a, Decide(r, a),
         pc'[r] \in {"settle", "closing", "sending"},
         pc'[r] = "settle" /\ call[r].op \notin {"generate", "page"} => call[r].name \in Names
  PROVE  LocalOK(r)'
<1>1. seen'[r] = NoRow /\ call'[r] = call[r] BY DEF Decide, TypeOK
<1> QED BY <1>1 DEF LocalOK, NoRow, Connected, Statements

\* A request not yet sent has read nothing.
LEMMA LocalsInit == Init => LocalsOK
BY DEF Init, LocalsOK, LocalOK, NoRow, NoRequest, Connected, Statements

\* One step per action, for the request it serves.
LEMMA LocalsStep == TypeOK /\ LocalsOK /\ RowsOK /\ [Next]_vars => LocalsOK'
<1> SUFFICES ASSUME TypeOK, LocalsOK, RowsOK, [Next]_vars PROVE LocalsOK'
  OBVIOUS
<1>1. ASSUME NEW r \in Reqs, NEW p \in Procs, Send(r, p) PROVE LocalOK(r)'
  <2>1. /\ pc'[r] = "waiting" /\ call'[r].op \in Ops /\ call'[r].proc = p
        /\ UNCHANGED <<at, seen, answer>>
    BY <1>1 DEF Send, Goto, TypeOK, Calls
  <2>2. LocalOK(r) /\ pc[r] = "unsent" BY <1>1 DEF Send, LocalsOK
  <2> QED BY <2>1, <2>2 DEF LocalOK, Connected, Statements
<1>2. ASSUME NEW r \in Reqs, Connect(r) PROVE LocalOK(r)'
  <2>1. LocalOK(r) /\ pc[r] = "waiting" BY <1>2 DEF Connect, LocalsOK
  <2>2. CASE Unusable(r)
    <3>1. pc'[r] = "closing" /\ \E a \in Answer : Finish(r, a)
      <4>1. Says(422) \in Answer /\ Says(404) \in Answer BY AnswerForms DEF Statuses
      <4>2. \E a \in Answer : Finish(r, a) BY <1>2, <2>2, <4>1 DEF Connect
      <4> QED BY <4>2 DEF Finish, Goto, TypeOK
    <3> QED BY <2>1, <3>1, DecidedLocalOK DEF Finish
  <2>3. CASE ~ Unusable(r)
    <3>1. pc'[r] = FirstPlace(call[r].op) /\ UNCHANGED <<call, at, seen, tries, answer>>
      BY <1>2, <2>3 DEF Connect, Goto, TypeOK
    <3>2. call[r].op \in {"create", "generate", "follow", "delete", "stats", "page"}
      BY <2>1 DEF LocalOK, ConstantsAssumption
    <3>3. call[r].op \notin {"generate", "page"} => call[r].name \in Names
      BY <2>3, <3>2 DEF Unusable, TypeOK, Request
    <3> QED BY <2>1, <3>1, <3>2, <3>3 DEF LocalOK, FirstPlace, Connected, Statements
  <2> QED BY <2>2, <2>3
<1>3. ASSUME NEW r \in Reqs, ConnectFails(r) PROVE LocalOK(r)'
  <2>1. LocalOK(r) /\ pc[r] = "waiting" BY <1>3 DEF ConnectFails, LocalsOK
  <2> QED BY <1>3, <2>1, DecidedLocalOK DEF ConnectFails, Goto, TypeOK
<1>4. ASSUME NEW r \in Reqs, Close(r) \/ Respond(r) PROVE LocalOK(r)'
  <2>1. LocalOK(r) /\ pc[r] \in {"closing", "sending"} BY <1>4 DEF Close, Respond, LocalsOK
  <2>2. pc'[r] \in {"sending", "answered"} /\ UNCHANGED <<call, at, seen, answer>>
    BY <1>4 DEF Close, Respond, Goto, TypeOK
  <2> QED BY <2>1, <2>2 DEF LocalOK, Connected, Statements
<1>5. ASSUME NEW r \in Reqs, Busy(r) PROVE LocalOK(r)'
  <2>1. LocalOK(r) /\ pc[r] # "unsent" BY <1>5 DEF Busy, LocalsOK, Statements
  <2> QED BY <1>5, <2>1, DecidedLocalOK DEF Busy, Finish, Goto, TypeOK
<1>6. ASSUME NEW r \in Reqs, Settle(r) PROVE LocalOK(r)'
  <2>1. LocalOK(r) /\ pc[r] = "settle" BY <1>6 DEF Settle, LocalsOK
  <2>2. CASE Finish(r, Says(500))
    BY <2>1, <2>2, DecidedLocalOK DEF Finish, Goto, TypeOK
  <2>3. CASE Goto(r, "closing") /\ UNCHANGED <<call, at, seen, tries, answer>>
    BY <2>1, <2>3 DEF Goto, TypeOK, LocalOK, Connected, Statements
  <2> QED BY <1>6, <2>2, <2>3 DEF Settle
<1>7. ASSUME NEW r \in Reqs, Validate(r) PROVE LocalOK(r)'
  <2>1. LocalOK(r) /\ pc[r] = "validate" BY <1>7 DEF Validate, LocalsOK
  <2>2. CASE Finish(r, Says(422))
    BY <2>1, <2>2, DecidedLocalOK DEF Finish, Goto, TypeOK
  <2>3. CASE ~ IsExpired(call[r].expires, now) /\ Goto(r, "insert")
             /\ at' = [at EXCEPT ![r] = now] /\ UNCHANGED <<call, seen, tries, answer>>
    <3>1. pc'[r] = "insert" /\ at'[r] = now BY <2>3 DEF Goto, TypeOK
    <3> QED BY <2>1, <2>3, <3>1 DEF LocalOK, Connected, Statements
  <2> QED BY <1>7, <2>2, <2>3 DEF Validate
<1>8. ASSUME NEW r \in Reqs, CreateNamed(r) \/ CreateGenerated(r) PROVE LocalOK(r)'
  <2>1. LocalOK(r) /\ pc[r] = "insert" BY <1>8 DEF CreateNamed, CreateGenerated, LocalsOK
  <2>2. call[r].op # "generate" => call[r].name \in Names
    BY <2>1 DEF LocalOK, Connected, Statements
  <2>3. CASE \E a : Finish(r, a) \/ Written(r, a)
    BY <2>1, <2>2, <2>3, DecidedLocalOK DEF Finish, Written, Goto, TypeOK
  <2>4. CASE UNCHANGED <<world, pc, call, at, seen, answer>>
    BY <2>1, <2>4 DEF LocalOK
  <2> QED BY <1>8, <2>3, <2>4 DEF CreateNamed, CreateGenerated, Insert
<1>9. ASSUME NEW r \in Reqs, Lookup(r) PROVE LocalOK(r)'
  <2>1. LocalOK(r) /\ pc[r] = "lookup" BY <1>9 DEF Lookup, LocalsOK
  <2>2. CASE Finish(r, Says(404))
    BY <2>1, <2>2, DecidedLocalOK DEF Finish, Goto, TypeOK
  <2>3. CASE /\ links[call[r].name].state # "absent" /\ Goto(r, "expiry")
             /\ seen' = [seen EXCEPT ![r] = links[call[r].name]]
             /\ UNCHANGED <<call, at, tries, answer>>
    <3>1. call[r].name \in Names BY <2>1 DEF LocalOK, Connected, Statements
    <3>2. pc'[r] = "expiry" /\ seen'[r] = links[call[r].name]
      BY <2>3 DEF Goto, TypeOK
    <3>3. seen'[r].state = "live" => seen'[r].target \in Reqs
      BY <3>1, <3>2 DEF RowsOK
    <3> QED BY <2>1, <2>3, <3>1, <3>2, <3>3 DEF LocalOK, Connected, Statements
  <2> QED BY <1>9, <2>2, <2>3 DEF Lookup
<1>10. ASSUME NEW r \in Reqs, Expiry(r) PROVE LocalOK(r)'
  <2>1. LocalOK(r) /\ pc[r] = "expiry" BY <1>10 DEF Expiry, LocalsOK
  <2>2. CASE Finish(r, Says(410))
    BY <2>1, <2>2, DecidedLocalOK DEF Finish, Goto, TypeOK
  <2>3. CASE /\ seen[r].state # "deleted" /\ Goto(r, "day")
             /\ UNCHANGED <<call, at, seen, tries, answer>>
    <3>1. seen[r].state = "live" BY <2>1, <2>3 DEF LocalOK, TypeOK, Row
    <3>2. pc'[r] = "day" BY <2>3 DEF Goto, TypeOK
    <3> QED BY <2>1, <2>3, <3>1, <3>2 DEF LocalOK, Connected, Statements
  <2> QED BY <1>10, <2>2, <2>3 DEF Expiry
<1>11. ASSUME NEW r \in Reqs, ReadDay(r) PROVE LocalOK(r)'
  <2>1. LocalOK(r) /\ pc[r] = "day" BY <1>11 DEF ReadDay, LocalsOK
  <2>2. pc'[r] = "count" /\ UNCHANGED <<call, seen, answer>> BY <1>11 DEF ReadDay, Goto, TypeOK
  <2> QED BY <2>1, <2>2 DEF LocalOK, Connected, Statements
<1>12. ASSUME NEW r \in Reqs, RecordFollow(r) \/ Tombstone(r) PROVE LocalOK(r)'
  <2>1. LocalOK(r) /\ pc[r] \in {"count", "tombstone"}
    BY <1>12 DEF RecordFollow, Tombstone, LocalsOK
  <2>2. call[r].op \in {"follow", "delete"} /\ call[r].name \in Names
    BY <2>1 DEF LocalOK, Connected, Statements
  <2>3. CASE \E a : Finish(r, a) \/ Written(r, a)
    BY <2>1, <2>2, <2>3, DecidedLocalOK DEF Finish, Written, Goto, TypeOK
  <2>4. CASE /\ pc[r] = "tombstone" /\ Goto(r, "why")
             /\ UNCHANGED <<call, at, seen, tries, answer>>
    <3>1. pc'[r] = "why" BY <2>4 DEF Goto, TypeOK
    <3> QED BY <2>1, <2>2, <2>4, <3>1 DEF LocalOK, Connected, Statements
  <2> QED BY <1>12, <2>3, <2>4 DEF RecordFollow, Tombstone
<1>13. ASSUME NEW r \in Reqs, Why(r) \/ Stats(r) \/ Collect(r) PROVE LocalOK(r)'
  <2>1. LocalOK(r) /\ pc[r] # "unsent" BY <1>13 DEF Why, Stats, Collect, LocalsOK
  <2>2. \E a : Finish(r, a) BY <1>13 DEF Why, Stats, Collect
  <2> QED BY <2>1, <2>2, DecidedLocalOK DEF Finish, Goto, TypeOK
<1>14. ASSUME NEW r \in Reqs, Serve(r) \/ \E p \in Procs : Send(r, p) PROVE LocalsOK'
  <2>1. LocalOK(r)'
    BY <1>1, <1>2, <1>3, <1>4, <1>5, <1>6, <1>7, <1>8, <1>9, <1>10, <1>11, <1>12, <1>13, <1>14
       DEF Serve
  <2>2. ASSUME NEW q \in Reqs, q # r PROVE LocalOK(q)'
    <3>1. Untouched(q) BY <1>14, <2>2, OthersUntouched
    <3>2. LocalOK(q) BY DEF LocalsOK
    <3> QED BY <3>1, <3>2 DEF LocalOK, Untouched
  <2> QED BY <2>1, <2>2 DEF LocalsOK
<1>15. ASSUME NEW p \in Procs, Crash(p) PROVE LocalsOK'
  <2> SUFFICES ASSUME NEW r \in Reqs PROVE LocalOK(r)' BY DEF LocalsOK
  <2>1. LocalOK(r) BY DEF LocalsOK
  <2>2. CASE call[r].proc = p /\ pc[r] \in InFlight
    <3>1. pc'[r] = "lost" /\ answer'[r] = Says(0) /\ seen'[r] = NoRow /\ call' = call
      BY <1>15, <2>2 DEF Crash
    <3>2. call[r].op \in Ops /\ call[r].proc \in Procs
      BY <2>1, <2>2 DEF LocalOK, InFlight, Connected, Statements
    <3> QED BY <3>1, <3>2 DEF LocalOK, NoRow, Connected, Statements
  <2>3. CASE ~ (call[r].proc = p /\ pc[r] \in InFlight)
    <3>1. Untouched(r) BY <1>15, <2>3 DEF Crash, Untouched
    <3> QED BY <2>1, <3>1 DEF LocalOK, Untouched
  <2> QED BY <2>2, <2>3
<1>16. ASSUME UNCHANGED <<pc, call, at, seen, tries, answer>> PROVE LocalsOK'
  BY <1>16 DEF LocalsOK, LocalOK
<1> QED
  BY <1>14, <1>15, <1>16 DEF Next, Restart, Tick, vars

-----------------------------------------------------------------------------
(* The lock *)

\* OneConnection, one process and one request at a time
Holder(p, r) == lock[p] = r <=> (call[r].proc = p /\ pc[r] \in Connected)
Holders == \A p \in Procs, r \in Reqs : Holder(p, r)

\* OneConnection, said request by request instead of by sets.
LEMMA HolderIff == TypeOK => (OneConnection <=> Holders)
<1> SUFFICES ASSUME TypeOK PROVE OneConnection <=> \A p \in Procs, r \in Reqs : Holder(p, r)
  BY DEF Holders
<1>1. Null \notin Reqs BY DEF ConstantsAssumption
<1>2. \A p \in Procs : lock[p] \in Reqs \cup {Null} BY DEF TypeOK
<1>3. ASSUME OneConnection, NEW p \in Procs, NEW r \in Reqs PROVE Holder(p, r)
  BY <1>1, <1>2, <1>3 DEF OneConnection, Holder
<1>4. ASSUME \A p \in Procs, r \in Reqs : Holder(p, r), NEW p \in Procs
      PROVE  {r \in Reqs : call[r].proc = p /\ pc[r] \in Connected} =
               IF lock[p] = Null THEN {} ELSE {lock[p]}
  BY <1>1, <1>2, <1>4 DEF Holder
<1> QED BY <1>3, <1>4 DEF OneConnection

\* The same of the state after a step.
LEMMA HolderIffNext == TypeOK' => (OneConnection' <=> Holders')
BY HolderIff, PTL

\* Steps that neither take nor give up the connection leave Holder alone.
LEMMA HolderKept ==
  ASSUME TypeOK, NEW r \in Reqs, UNCHANGED <<lock, call>>,
         pc[r] \in Connected, pc'[r] \in Connected,
         \A q \in Reqs : q # r => pc'[q] = pc[q],
         \A p \in Procs, q \in Reqs : Holder(p, q)
  PROVE  \A p \in Procs, q \in Reqs : Holder(p, q)'
BY DEF Holder

\* Every step leaves each process with the one connection its lock stands for
\* (get_conn: every path out of it releases the lock).
LEMMA LockStep == TypeOK /\ LocalsOK /\ OneConnection /\ TypeOK' /\ [Next]_vars => OneConnection'
<1> SUFFICES ASSUME TypeOK, LocalsOK, OneConnection, TypeOK', [Next]_vars PROVE OneConnection'
  OBVIOUS
<1>a. \A p \in Procs, q \in Reqs : Holder(p, q) BY HolderIff DEF Holders
<1>b. TypeOK' => (OneConnection' <=> (\A p \in Procs, q \in Reqs : Holder(p, q))')
  BY HolderIffNext DEF Holders
<1>1. ASSUME NEW r \in Reqs, NEW p \in Procs, Send(r, p)
      PROVE  \A p1 \in Procs, q \in Reqs : Holder(p1, q)'
  <2>1. pc[r] \notin Connected /\ pc'[r] \notin Connected /\ UNCHANGED lock
    BY <1>1 DEF Send, Goto, TypeOK, Connected, Statements, world
  <2>2. \A q \in Reqs : q # r => Untouched(q) BY <1>1, OthersUntouched
  <2> QED BY <1>a, <2>1, <2>2 DEF Holder, Untouched
<1>2. ASSUME NEW r \in Reqs, Connect(r) PROVE \A p \in Procs, q \in Reqs : Holder(p, q)'
  <2>1. pc[r] = "waiting" /\ call' = call /\ lock[call[r].proc] = Null
        /\ lock' = [lock EXCEPT ![call[r].proc] = r]
    BY <1>2 DEF Connect, Finish, Decide
  <2>2. call[r].proc \in Procs BY <2>1 DEF LocalsOK, LocalOK
  <2>3. pc'[r] \in Connected
    BY <1>2 DEF Connect, Finish, Goto, FirstPlace, TypeOK, Connected, Statements
  <2>4. \A q \in Reqs : q # r => pc'[q] = pc[q]
    BY <1>2 DEF Connect, Finish, Goto, TypeOK
  <2>5. pc[r] \notin Connected BY <2>1 DEF Connected, Statements
  <2>6. Null \notin Reqs BY DEF ConstantsAssumption
  <2>7. ASSUME NEW p \in Procs, NEW q \in Reqs PROVE Holder(p, q)'
    <3>1. CASE p = call[r].proc
      BY <1>a, <2>1, <2>2, <2>3, <2>4, <2>6, <3>1 DEF Holder, TypeOK
    <3>2. CASE p # call[r].proc
      BY <1>a, <2>1, <2>2, <2>3, <2>4, <2>5, <3>2 DEF Holder, TypeOK
    <3> QED BY <3>1, <3>2
  <2> QED BY <2>7
<1>3. ASSUME NEW r \in Reqs, ConnectFails(r) \/ Respond(r)
      PROVE  \A p \in Procs, q \in Reqs : Holder(p, q)'
  <2>1. pc[r] \notin Connected /\ pc'[r] \notin Connected /\ UNCHANGED <<lock, call>>
    <3>1. CASE ConnectFails(r)
      BY <3>1 DEF ConnectFails, Decide, Goto, TypeOK, Connected, Statements, world
    <3>2. CASE Respond(r)
      BY <3>2 DEF Respond, Goto, TypeOK, Connected, Statements, world
    <3> QED BY <1>3, <3>1, <3>2
  <2>2. \A q \in Reqs : q # r => pc'[q] = pc[q]
    BY <1>3 DEF ConnectFails, Respond, Goto, TypeOK
  <2> QED BY <1>a, <2>1, <2>2 DEF Holder
<1>4. ASSUME NEW r \in Reqs, Close(r) PROVE \A p \in Procs, q \in Reqs : Holder(p, q)'
  <2>1. pc[r] = "closing" /\ call' = call /\ pc'[r] = "sending"
        /\ lock' = [lock EXCEPT ![call[r].proc] = Null]
    BY <1>4 DEF Close, Goto, TypeOK
  <2>2. \A q \in Reqs : q # r => pc'[q] = pc[q] BY <1>4 DEF Close, Goto, TypeOK
  <2>3. call[r].proc \in Procs /\ lock[call[r].proc] = r
    BY <1>a, <2>1 DEF LocalsOK, LocalOK, Holder, Connected
  <2>4. Null \notin Reqs /\ pc'[r] \notin Connected
    BY <2>1 DEF Connected, Statements, ConstantsAssumption
  <2>5. ASSUME NEW p \in Procs, NEW q \in Reqs PROVE Holder(p, q)'
    <3>1. Holder(p, q) /\ Holder(call[r].proc, q) BY <1>a, <2>3
    <3>2. CASE p = call[r].proc
      BY <2>1, <2>2, <2>3, <2>4, <3>1, <3>2 DEF Holder, TypeOK
    <3>3. CASE p # call[r].proc
      BY <2>1, <2>2, <2>3, <2>4, <3>1, <3>3 DEF Holder, TypeOK
    <3> QED BY <3>2, <3>3
  <2> QED BY <2>5
<1>5. ASSUME NEW r \in Reqs,
             \/ Busy(r) \/ Settle(r) \/ Validate(r) \/ CreateNamed(r) \/ CreateGenerated(r)
             \/ Lookup(r) \/ Expiry(r) \/ ReadDay(r) \/ RecordFollow(r)
             \/ Tombstone(r) \/ Why(r) \/ Stats(r) \/ Collect(r)
      PROVE  \A p \in Procs, q \in Reqs : Holder(p, q)'
  <2>1. \A q \in Reqs : q # r => pc'[q] = pc[q]
    BY <1>5, OthersUntouched DEF Serve, Untouched
  <2>2. UNCHANGED <<lock, call>> /\ pc[r] \in Connected /\ pc'[r] \in Connected
    <3> USE DEF Goto, Decide, Finish, Written, world, TypeOK, Connected, Statements
    <3>1. CASE Busy(r) \/ Settle(r) \/ Validate(r)
      BY <3>1 DEF Busy, Settle, Validate
    <3>2. CASE CreateNamed(r) \/ CreateGenerated(r)
      BY <3>2 DEF CreateNamed, CreateGenerated, Insert
    <3>3. CASE Lookup(r) \/ Expiry(r) \/ ReadDay(r) \/ RecordFollow(r)
      BY <3>3 DEF Lookup, Expiry, ReadDay, RecordFollow
    <3>4. CASE Tombstone(r) \/ Why(r) \/ Stats(r) \/ Collect(r)
      BY <3>4 DEF Tombstone, Why, Stats, Collect
    <3> QED BY <1>5, <3>1, <3>2, <3>3, <3>4
  <2> QED BY <1>a, <2>1, <2>2, HolderKept
<1>6. ASSUME NEW p \in Procs, Crash(p) PROVE \A p1 \in Procs, q \in Reqs : Holder(p1, q)'
  <2>1. lock' = [lock EXCEPT ![p] = Null] /\ call' = call
        /\ pc' = [r \in Reqs |-> IF call[r].proc = p /\ pc[r] \in InFlight THEN "lost" ELSE pc[r]]
    BY <1>6 DEF Crash
  <2>2. "lost" \notin Connected /\ Connected \subseteq InFlight /\ Null \notin Reqs
    BY DEF Connected, Statements, InFlight, ConstantsAssumption
  <2> QED BY <1>a, <2>1, <2>2 DEF Holder, TypeOK
<1>7. ASSUME UNCHANGED <<lock, call, pc>> PROVE \A p \in Procs, q \in Reqs : Holder(p, q)'
  BY <1>a, <1>7 DEF Holder
<1>8. \A p \in Procs, q \in Reqs : Holder(p, q)'
  BY <1>1, <1>2, <1>3, <1>4, <1>5, <1>6, <1>7 DEF Next, Serve, Restart, Tick, vars
<1> QED BY <1>8, <1>b

-----------------------------------------------------------------------------
(* The tables *)

\* The three steps that write: a name is filled, counted on, or buried.
Fills(r, n) == pc[r] = "insert" /\ Insert(r, n)
Counted(r)  == RecordFollow(r) /\ links[call[r].name].state = "live"
Buries(r)   == Tombstone(r) /\ links[call[r].name].state = "live"
Writes(r)   == (\E n \in Names : Fills(r, n)) \/ Counted(r) \/ Buries(r)

\* Only an insert, a counted follow and a tombstone change the tables.
LEMMA OnlyThreeWrite ==
  TypeOK /\ LocalsOK /\ [Next]_vars => UNCHANGED tables \/ \E r \in Reqs : Writes(r)
<1> SUFFICES ASSUME TypeOK, LocalsOK, [Next]_vars
             PROVE  UNCHANGED tables \/ \E r \in Reqs : Writes(r)
  OBVIOUS
<1> USE DEF tables, world
<1>1. ASSUME NEW r \in Reqs, Serve(r) PROVE UNCHANGED tables \/ Writes(r)
  <2>1. CASE Connect(r) \/ ConnectFails(r) \/ Close(r) \/ Respond(r) \/ Busy(r) \/ Settle(r)
    BY <2>1 DEF Connect, ConnectFails, Close, Respond, Busy, Settle
  <2>2. CASE CreateNamed(r)
    <3>1. call[r].name \in Names
      BY <2>2 DEF CreateNamed, LocalsOK, LocalOK, Connected, Statements
    <3> QED BY <2>2, <3>1 DEF CreateNamed, Writes, Fills
  <2>3. CASE CreateGenerated(r)
    BY <2>3 DEF CreateGenerated, Writes, Fills, ConstantsAssumption
  <2>4. CASE Validate(r) \/ Lookup(r) \/ Expiry(r) \/ ReadDay(r)
    BY <2>4 DEF Validate, Lookup, Expiry, ReadDay
  <2>5. CASE RecordFollow(r) \/ Tombstone(r)
    BY <2>5 DEF RecordFollow, Tombstone, Writes, Counted, Buries
  <2>6. CASE Why(r) \/ Stats(r) \/ Collect(r)
    BY <2>6 DEF Why, Stats, Collect
  <2> QED BY <1>1, <2>1, <2>2, <2>3, <2>4, <2>5, <2>6 DEF Serve
<1>2. ASSUME NEW r \in Reqs, NEW p \in Procs, Send(r, p) PROVE UNCHANGED tables
  BY <1>2 DEF Send
<1>3. ASSUME NEW p \in Procs, Crash(p) \/ Restart(p) PROVE UNCHANGED tables
  BY <1>3 DEF Crash, Restart
<1> QED BY <1>1, <1>2, <1>3 DEF Next, Tick, vars

\* What each of the three does to the row it touches
LEMMA FillsRow ==
  ASSUME TypeOK, LocalsOK, NEW r \in Reqs, NEW n \in Names, Fills(r, n)
  PROVE  /\ links[n].state = "absent" /\ counts' = counts
         /\ links' = [links EXCEPT ![n] = NewRow(r)]
         /\ NewRow(r).state = "live" /\ NewRow(r).target \in Reqs
         /\ ~ IsExpired(NewRow(r).expires_at, NewRow(r).created_at)
BY DEF Fills, Insert, NewRow, LocalsOK, LocalOK

\* A tombstone changes one row, empties it, and clears its counts.
LEMMA BuriesRow ==
  ASSUME TypeOK, LocalsOK, NEW r \in Reqs, Buries(r)
  PROVE  LET n == call[r].name IN
         /\ n \in Names /\ links[n].state = "live"
         /\ links' = [links EXCEPT ![n] = Buried(links[n])]
         /\ counts' = [counts EXCEPT ![n] = NoCounts]
         /\ Buried(links[n]).state = "deleted" /\ Buried(links[n]).target = Empty
         /\ Buried(links[n]).created_by = Null
         /\ Buried(links[n]).created_at = links[n].created_at
         /\ Buried(links[n]).expires_at = links[n].expires_at
<1>1. call[r].name \in Names BY DEF Buries, Tombstone, LocalsOK, LocalOK, Connected, Statements
<1>2. links[call[r].name] \in Row BY <1>1 DEF TypeOK
<1> QED BY <1>1, <1>2 DEF Buries, Tombstone, Buried, Row

\* A counted follow changes the counts of one live name.
LEMMA CountedRow ==
  ASSUME TypeOK, LocalsOK, NEW r \in Reqs, Counted(r)
  PROVE  /\ call[r].name \in Names /\ links[call[r].name].state = "live" /\ links' = links
         /\ \A n \in Names : n # call[r].name => counts'[n] = counts[n]
<1>1. call[r].name \in Names BY DEF Counted, RecordFollow, LocalsOK, LocalOK, Connected, Statements
<1> QED BY <1>1 DEF Counted, RecordFollow, TypeOK

\* No row and no count, so nothing a row could contradict.
LEMMA TablesInit == Init => RowsOK /\ TombstoneKeepsNothing /\ BornUnexpired
BY DEF Init, RowsOK, TombstoneKeepsNothing, BornUnexpired, NoRow

\* Every step keeps tombstones empty and links unexpired at birth (links.py,
\* migration 0002).
LEMMA TablesStep ==
  TypeOK /\ LocalsOK /\ RowsOK /\ TombstoneKeepsNothing /\ BornUnexpired /\ [Next]_vars
    => RowsOK' /\ TombstoneKeepsNothing' /\ BornUnexpired'
<1> SUFFICES ASSUME TypeOK, LocalsOK, RowsOK, TombstoneKeepsNothing, BornUnexpired, [Next]_vars
             PROVE  RowsOK' /\ TombstoneKeepsNothing' /\ BornUnexpired'
  OBVIOUS
<1> USE DEF RowsOK, TombstoneKeepsNothing, BornUnexpired
<1>1. CASE UNCHANGED tables
  BY <1>1 DEF tables, IsExpired
<1>2. ASSUME NEW r \in Reqs, NEW n \in Names, Fills(r, n)
      PROVE  RowsOK' /\ TombstoneKeepsNothing' /\ BornUnexpired'
  <2>1. ASSUME NEW m \in Names, m # n PROVE links'[m] = links[m]
    BY <1>2, <2>1, FillsRow DEF TypeOK
  <2>2. links'[n] = NewRow(r) /\ counts' = counts BY <1>2, FillsRow DEF TypeOK
  <2>3. /\ NewRow(r).state = "live" /\ NewRow(r).target \in Reqs
        /\ ~ IsExpired(NewRow(r).expires_at, NewRow(r).created_at)
    BY <1>2, FillsRow
  <2> QED BY <2>1, <2>2, <2>3 DEF IsExpired
<1>3. ASSUME NEW r \in Reqs, Counted(r)
      PROVE  RowsOK' /\ TombstoneKeepsNothing' /\ BornUnexpired'
  BY <1>3, CountedRow DEF TypeOK, IsExpired
<1>4. ASSUME NEW r \in Reqs, Buries(r)
      PROVE  RowsOK' /\ TombstoneKeepsNothing' /\ BornUnexpired'
  <2> DEFINE n == call[r].name
  <2>1. ASSUME NEW m \in Names, m # n PROVE links'[m] = links[m] /\ counts'[m] = counts[m]
    BY <1>4, <2>1, BuriesRow DEF TypeOK
  <2>2. links'[n] = Buried(links[n]) /\ counts'[n] = NoCounts
    BY <1>4, BuriesRow DEF TypeOK
  <2>3. /\ Buried(links[n]).state = "deleted" /\ Buried(links[n]).target = Empty
        /\ Buried(links[n]).created_by = Null
        /\ Buried(links[n]).created_at = links[n].created_at
        /\ Buried(links[n]).expires_at = links[n].expires_at
        /\ links[n].state = "live" /\ n \in Names
    BY <1>4, BuriesRow
  <2>4. ASSUME NEW m \in Names
        PROVE  /\ links'[m].state = "absent" => links'[m] = NoRow
               /\ links'[m].state = "live" => links'[m].target \in Reqs
               /\ links'[m].state # "live" => counts'[m] = NoCounts
               /\ links'[m].state = "deleted" => links'[m].target = Empty /\ links'[m].created_by = Null
               /\ links'[m].state # "absent"
                    => ~ IsExpired(links'[m].expires_at, links'[m].created_at)
    <3>1. CASE m = n BY <2>2, <2>3, <3>1
    <3>2. CASE m # n BY <2>1, <3>2
    <3> QED BY <3>1, <3>2
  <2> QED BY <2>4 DEF IsExpired
<1> QED BY <1>1, <1>2, <1>3, <1>4, OnlyThreeWrite DEF Writes

\* No step repoints, frees or revives a name.
LEMMA RepointStep ==
  TypeOK /\ LocalsOK /\ [Next]_vars =>
    \A n \in Names : links[n].state # "absent" =>
       \/ links'[n] = links[n]
       \/ /\ links[n].state = "live" /\ links'[n].state = "deleted"
          /\ links'[n].expires_at = links[n].expires_at
          /\ links'[n].created_at = links[n].created_at
<1> SUFFICES ASSUME TypeOK, LocalsOK, [Next]_vars, NEW n \in Names, links[n].state # "absent"
             PROVE  \/ links'[n] = links[n]
                    \/ /\ links[n].state = "live" /\ links'[n].state = "deleted"
                       /\ links'[n].expires_at = links[n].expires_at
                       /\ links'[n].created_at = links[n].created_at
  OBVIOUS
<1>1. CASE UNCHANGED tables BY <1>1 DEF tables
<1>2. ASSUME NEW r \in Reqs, NEW m \in Names, Fills(r, m) PROVE links'[n] = links[n]
  BY <1>2, FillsRow DEF TypeOK
<1>3. ASSUME NEW r \in Reqs, Counted(r) PROVE links'[n] = links[n]
  BY <1>3, CountedRow
<1>4. ASSUME NEW r \in Reqs, Buries(r), call[r].name # n PROVE links'[n] = links[n]
  BY <1>4, BuriesRow DEF TypeOK
<1>5. ASSUME NEW r \in Reqs, Buries(r), call[r].name = n
      PROVE  /\ links[n].state = "live" /\ links'[n].state = "deleted"
             /\ links'[n].expires_at = links[n].expires_at
             /\ links'[n].created_at = links[n].created_at
  BY <1>5, BuriesRow DEF TypeOK
<1> QED BY <1>1, <1>2, <1>3, <1>4, <1>5, OnlyThreeWrite DEF Writes

-----------------------------------------------------------------------------
(* The answers *)

\* What an answer claims of its name stays true of it.
LEMMA NamesOnlyAge ==
  TypeOK /\ LocalsOK /\ [Next]_vars =>
    \A n \in Names : /\ links[n].state # "absent" => links'[n].state # "absent"
                     /\ links[n].state = "deleted" => links'[n].state = "deleted"
BY RepointStep

\* Deciding an answer gives it to one request.
LEMMA Gives ==
  ASSUME TypeOK, NEW r \in Reqs, NEW a, Finish(r, a) \/ Written(r, a)
  PROVE  answer'[r] = a /\ call' = call
BY DEF Finish, Written, Decide, TypeOK

\* An answer that claims nothing of any name
Silent(a) == a.status \notin {201, 204, 302} /\ a.listed \subseteq LiveNames

\* An answer of a bare status wins nothing and lists nothing.
LEMMA SaysSilent ==
  \A status \in Statuses \ {201, 204, 302} : Silent(Says(status))
BY DEF Silent, Says, Wrote

\* A step that writes nothing gives no answer that claims a write, and lists
\* only live links.
LEMMA OtherAnswers ==
  ASSUME TypeOK, LocalsOK, NEW r \in Reqs, Serve(r), ~ Writes(r)
  PROVE  call' = call /\ (answer'[r] = answer[r] \/ Silent(answer'[r]))
<1> USE DEF Statuses
<1>a. ASSUME NEW status \in Statuses \ {201, 204, 302}, Finish(r, Says(status))
      PROVE  call' = call /\ Silent(answer'[r])
  BY <1>a, SaysSilent, Gives
<1>1. CASE Connect(r)
  <2>1. CASE Unusable(r)
    <3>1. PICK status \in {404, 422} : Finish(r, Says(status)) BY <1>1, <2>1 DEF Connect
    <3> QED BY <3>1, <1>a
  <2> QED BY <1>1, <2>1 DEF Connect
<1>2. CASE ConnectFails(r)
  <2>1. answer'[r] = Says(500) /\ call' = call BY <1>2 DEF ConnectFails, Decide, TypeOK
  <2> QED BY <2>1, SaysSilent
<1>3. CASE Close(r) \/ Respond(r)
  BY <1>3 DEF Close, Respond
<1>4. CASE Busy(r) \/ Settle(r)
  BY <1>4, <1>a DEF Busy, Settle
<1>5. CASE Validate(r)
  BY <1>5, <1>a DEF Validate
<1>6. CASE Lookup(r) \/ Expiry(r) \/ ReadDay(r)
  BY <1>6, <1>a DEF Lookup, Expiry, ReadDay
<1>7. CASE Why(r)
  <2>1. PICK status \in {404, 410} : Finish(r, Says(status)) BY <1>7 DEF Why
  <2> QED BY <2>1, <1>a
<1>8. CASE CreateNamed(r)
  <2>1. call[r].name \in Names
    BY <1>8 DEF CreateNamed, LocalsOK, LocalOK, Connected, Statements
  <2>2. ~ Insert(r, call[r].name) BY <1>8, <2>1 DEF Writes, Fills, CreateNamed
  <2> QED BY <1>8, <2>2, <1>a DEF CreateNamed
<1>9. CASE CreateGenerated(r)
  <2>1. \A n \in Generable : ~ Insert(r, n)
    BY <1>9 DEF Writes, Fills, CreateGenerated, ConstantsAssumption
  <2> QED BY <1>9, <2>1, <1>a DEF CreateGenerated
<1>10. CASE RecordFollow(r)
  <2>1. links[call[r].name].state # "live" BY <1>10 DEF Writes, Counted
  <2> QED BY <1>10, <2>1, <1>a DEF RecordFollow
<1>11. CASE Tombstone(r)
  <2>1. links[call[r].name].state # "live" BY <1>11 DEF Writes, Buries
  <2> QED BY <1>11, <2>1 DEF Tombstone
<1>12. CASE Stats(r) \/ Collect(r)
  <2>1. ASSUME NEW S \in SUBSET LiveNames, Finish(r, Report(S))
        PROVE  call' = call /\ Silent(answer'[r])
    BY <2>1, Gives DEF Silent, Report
  <2>2. Stats(r) => call[r].name \in Names
    BY DEF Stats, LocalsOK, LocalOK, Connected, Statements
  <2>3. Stats(r) /\ links[call[r].name].state = "live" => {call[r].name} \subseteq LiveNames
    BY <2>2 DEF LiveNames
  <2> QED BY <1>12, <1>a, <2>1, <2>3 DEF Stats, Collect
<1> QED
  BY <1>1, <1>2, <1>3, <1>4, <1>5, <1>6, <1>7, <1>8, <1>9, <1>10, <1>11, <1>12 DEF Serve

\* What a write's answer says: the name's row before and after
Claims(r, n) ==
  /\ answer'[r].name = n
  /\ \/ answer'[r].status = 201 /\ links[n].state = "absent" /\ links'[n].state = "live"
     \/ answer'[r].status = 302 /\ links[n].state = "live" /\ links'[n].state = "live"
     \/ answer'[r].status = 204 /\ links[n].state = "live" /\ links'[n].state = "deleted"

\* A handler decides an answer of its own and no other request's.
LEMMA WriteAnswers ==
  ASSUME TypeOK, LocalsOK, NEW r \in Reqs, Writes(r)
  PROVE  call' = call /\ answer'[r].listed = {} /\ \E n \in Names : Claims(r, n)
<1> USE DEF Wrote, Claims
<1>1. ASSUME NEW n \in Names, Fills(r, n)
      PROVE  call' = call /\ answer'[r].listed = {} /\ Claims(r, n)
  <2>1. answer'[r] = Wrote(201, n, r) /\ call' = call BY <1>1, Gives DEF Fills, Insert
  <2>2. links[n].state = "absent" /\ links'[n].state = "live" BY <1>1, FillsRow DEF TypeOK
  <2> QED BY <2>1, <2>2
<1>2. ASSUME Counted(r)
      PROVE  /\ call' = call /\ answer'[r].listed = {}
             /\ call[r].name \in Names /\ Claims(r, call[r].name)
  <2>1. answer'[r] = Wrote(302, call[r].name, seen[r].target) /\ call' = call
    BY <1>2, Gives DEF Counted, RecordFollow
  <2> QED BY <2>1, <1>2, CountedRow
<1>3. ASSUME Buries(r)
      PROVE  /\ call' = call /\ answer'[r].listed = {}
             /\ call[r].name \in Names /\ Claims(r, call[r].name)
  <2>1. answer'[r] = Wrote(204, call[r].name, Null) /\ call' = call
    BY <1>3, Gives DEF Buries, Tombstone
  <2>2. /\ call[r].name \in Names /\ links[call[r].name].state = "live"
        /\ links'[call[r].name].state = "deleted"
    BY <1>3, BuriesRow DEF TypeOK
  <2> QED BY <2>1, <2>2
<1> QED BY <1>1, <1>2, <1>3 DEF Writes

\* Nobody has been told anything.
LEMMA AnswersInit == Init => AnswersOK /\ OneWinner /\ DeletedIsFinal
BY DEF Init, AnswersOK, OneWinner, DeletedIsFinal, Says, Wrote, NoRequest

\* The claims of the answers are kept: a step that answers silently adds
\* none, a write claims what no earlier answer can have claimed, and a new
\* request starts from the names that have been buried.
LEMMA AnswersStep ==
  TypeOK /\ LocalsOK /\ AnswersOK /\ OneWinner /\ DeletedIsFinal /\ [Next]_vars
    => AnswersOK' /\ OneWinner' /\ DeletedIsFinal'
<1> SUFFICES ASSUME TypeOK, LocalsOK, AnswersOK, OneWinner, DeletedIsFinal, [Next]_vars
             PROVE  AnswersOK' /\ OneWinner' /\ DeletedIsFinal'
  OBVIOUS
<1>a. \A n \in Names : /\ links[n].state # "absent" => links'[n].state # "absent"
                       /\ links[n].state = "deleted" => links'[n].state = "deleted"
  BY NamesOnlyAge
<1>b. \A q \in Reqs : call[q].gone \subseteq Names
  BY DEF TypeOK, Request
<1>1. ASSUME call' = call, \A q \in Reqs : answer'[q] = answer[q] \/ Silent(answer'[q])
      PROVE  AnswersOK' /\ OneWinner' /\ DeletedIsFinal'
  <2>1. AnswersOK' BY <1>1, <1>a, <1>b DEF AnswersOK, Silent
  <2>2. OneWinner' BY <1>1 DEF OneWinner, Silent
  <2>3. ASSUME NEW q \in Reqs
        PROVE  /\ answer'[q].status \in {201, 204, 302} => answer'[q].name \notin call'[q].gone
               /\ answer'[q].listed \cap call'[q].gone = {}
    <3>1. CASE answer'[q] = answer[q] BY <1>1, <3>1 DEF DeletedIsFinal
    <3>2. CASE Silent(answer'[q])
      BY <1>1, <3>2 DEF Silent, LiveNames, AnswersOK
    <3> QED BY <1>1, <3>1, <3>2
  <2> QED BY <2>1, <2>2, <2>3 DEF DeletedIsFinal
<1>2. ASSUME NEW r \in Reqs, Serve(r), Writes(r)
      PROVE  AnswersOK' /\ OneWinner' /\ DeletedIsFinal'
  <2>1. call' = call /\ answer'[r].listed = {} BY <1>2, WriteAnswers
  <2>2. PICK n \in Names : Claims(r, n) BY <1>2, WriteAnswers
  <2>3. \A q \in Reqs : q # r => answer'[q] = answer[q]
    BY <1>2, OthersUntouched DEF Untouched
  <2>4. ASSUME NEW q \in Reqs
        PROVE  /\ answer'[q].status \in {201, 204} => answer'[q].name \in Names
               /\ answer'[q].status = 201 => links'[answer'[q].name].state # "absent"
               /\ answer'[q].status = 204 => links'[answer'[q].name].state = "deleted"
    <3>1. CASE q = r BY <2>2, <3>1 DEF Claims
    <3>2. CASE q # r BY <1>a, <2>3, <3>2 DEF AnswersOK
    <3> QED BY <3>1, <3>2
  <2>5. AnswersOK' BY <1>a, <1>b, <2>1, <2>4 DEF AnswersOK
  <2>6. ASSUME NEW q \in Reqs, q # r, answer'[q].status \in {201, 204},
               answer'[r].status = answer'[q].status
        PROVE  answer'[q].name # n
    BY <2>2, <2>3, <2>6 DEF Claims, AnswersOK
  <2>7. OneWinner'
    <3> SUFFICES ASSUME NEW q \in Reqs, NEW s \in Reqs,
                        answer'[q].status \in {201, 204}, answer'[s].status = answer'[q].status,
                        answer'[q].name = answer'[s].name
                 PROVE  q = s
      BY DEF OneWinner
    <3>1. CASE q # r /\ s # r BY <2>3, <3>1 DEF OneWinner
    <3>2. CASE q = r \/ s = r BY <2>2, <2>6, <3>2 DEF Claims
    <3> QED BY <3>1, <3>2
  <2>8. n \notin call[r].gone BY <2>2 DEF Claims, AnswersOK
  <2>9. ASSUME NEW q \in Reqs
        PROVE  /\ answer'[q].status \in {201, 204, 302} => answer'[q].name \notin call'[q].gone
               /\ answer'[q].listed \cap call'[q].gone = {}
    <3>1. CASE q = r BY <2>1, <2>2, <2>8, <3>1 DEF Claims
    <3>2. CASE q # r BY <2>1, <2>3, <3>2 DEF DeletedIsFinal
    <3> QED BY <3>1, <3>2
  <2> QED BY <2>5, <2>7, <2>9 DEF DeletedIsFinal
<1>3. ASSUME NEW r \in Reqs, NEW p \in Procs, Send(r, p)
      PROVE  AnswersOK' /\ OneWinner' /\ DeletedIsFinal'
  <2>1. answer' = answer /\ links' = links /\ answer[r] = Says(0)
    BY <1>3 DEF Send, world, LocalsOK, LocalOK
  <2>2. \A q \in Reqs : q # r => call'[q] = call[q]
    BY <1>3, OthersUntouched DEF Untouched
  <2>3. call'[r].gone = ToldDeleted BY <1>3 DEF Send, TypeOK
  <2>4. \A m \in ToldDeleted : links[m].state = "deleted" BY DEF ToldDeleted, AnswersOK
  <2>5. AnswersOK'
    <3>1. ASSUME NEW q \in Reqs, NEW m \in call'[q].gone PROVE links'[m].state = "deleted"
      BY <2>1, <2>2, <2>3, <2>4 DEF AnswersOK
    <3> QED BY <2>1, <3>1 DEF AnswersOK
  <2>6. OneWinner' BY <2>1 DEF OneWinner
  <2>7. answer[r].status = 0 /\ answer[r].listed = {} BY <2>1 DEF Says, Wrote
  <2>8. DeletedIsFinal' BY <2>1, <2>2, <2>7 DEF DeletedIsFinal
  <2> QED BY <2>5, <2>6, <2>8
<1>4. ASSUME NEW r \in Reqs, Serve(r), ~ Writes(r)
      PROVE  AnswersOK' /\ OneWinner' /\ DeletedIsFinal'
  <2>1. call' = call /\ (answer'[r] = answer[r] \/ Silent(answer'[r])) BY <1>4, OtherAnswers
  <2>2. \A q \in Reqs : q # r => answer'[q] = answer[q]
    BY <1>4, OthersUntouched DEF Untouched
  <2> QED BY <2>1, <2>2, <1>1
<1>5. ASSUME NEW p \in Procs, Crash(p) PROVE AnswersOK' /\ OneWinner' /\ DeletedIsFinal'
  <2>1. Silent(Says(0)) BY SaysSilent DEF Statuses
  <2>2. call' = call /\ \A q \in Reqs : answer'[q] \in {answer[q], Says(0)}
    BY <1>5 DEF Crash
  <2> QED BY <1>1, <2>1, <2>2
<1>6. ASSUME UNCHANGED <<call, answer>> PROVE AnswersOK' /\ OneWinner' /\ DeletedIsFinal'
  BY <1>1, <1>6
<1> QED BY <1>2, <1>3, <1>4, <1>5, <1>6 DEF Next, Restart, Tick, vars

-----------------------------------------------------------------------------
(* The inductive invariant *)

\* No lock is held, and no request is connected.
LEMMA LockInit == Init => OneConnection
BY DEF Init, OneConnection, Connected, Statements

\* IInv holds at the start, every step keeps it, and it implies each of the
\* invariants the runs check.  (app.py, links.py, counts.py, stats.py: every
\* handler, statement, error path, crash and restart of LinkService.)
THEOREM Invariant == Spec => []IInv
<1>1. Init => IInv
  BY TypeInit, LocalsInit, TablesInit, AnswersInit, LockInit DEF IInv
<1>2. IInv /\ [Next]_vars => IInv'
  <2> SUFFICES ASSUME IInv, [Next]_vars PROVE IInv' OBVIOUS
  <2> USE DEF IInv
  <2>1. TypeOK' BY TypeStep
  <2>2. LocalsOK' BY LocalsStep
  <2>3. RowsOK' /\ TombstoneKeepsNothing' /\ BornUnexpired' BY TablesStep
  <2>4. AnswersOK' /\ OneWinner' /\ DeletedIsFinal' BY AnswersStep
  <2>5. OneConnection' BY <2>1, LockStep
  <2> QED BY <2>1, <2>2, <2>3, <2>4, <2>5
<1> QED BY <1>1, <1>2, PTL DEF Spec

\* Every variable keeps its shape: no answer carries a tombstone's empty
\* target, no count is stored for a day the clock never showed.
THEOREM TypeCorrect == Spec => []TypeOK
<1>1. IInv => TypeOK BY DEF IInv
<1> QED BY <1>1, Invariant, PTL

\* Per process at most one request is between connect and close, and it is
\* the one that holds app.state.db_lock, whatever path get_conn took.
THEOREM OneConnectionAtATime == Spec => []OneConnection
<1>1. IInv => OneConnection BY DEF IInv
<1> QED BY <1>1, Invariant, PTL

\* A tombstone keeps no target, no maker and no count, however follows and
\* deletes interleave (links.delete, counts._INCREMENT, the trigger).
THEOREM TombstonesAreEmpty == Spec => []TombstoneKeepsNothing
<1>1. IInv => TombstoneKeepsNothing BY DEF IInv
<1> QED BY <1>1, Invariant, PTL

\* No link is stored with an expiry at or before its own creation
\* (create_link's one reading of the clock).
THEOREM LinksAreBornUnexpired == Spec => []BornUnexpired
<1>1. IInv => BornUnexpired BY DEF IInv
<1> QED BY <1>1, Invariant, PTL

\* For each name at most one create is told 201 and at most one delete 204,
\* with any number of processes (links.create, links.delete).
THEOREM OneCreatorOneDeleter == Spec => []OneWinner
<1>1. IInv => OneWinner BY DEF IInv
<1> QED BY <1>1, Invariant, PTL

\* After a delete's 204, no later request is served the name, gets its
\* statistics or sees it listed.
THEOREM DeletesAreFinal == Spec => []DeletedIsFinal
<1>1. IInv => DeletedIsFinal BY DEF IInv
<1> QED BY <1>1, Invariant, PTL

\* No step repoints, frees or revives a name that has a row (links.py:3-9).
THEOREM NamesAreNeverRepointed == Spec => NeverRepointed
<1>1. IInv /\ [Next]_vars =>
        [\A n \in Names : links[n].state # "absent" =>
           \/ links'[n] = links[n]
           \/ /\ links[n].state = "live" /\ links'[n].state = "deleted"
              /\ links'[n].expires_at = links[n].expires_at
              /\ links'[n].created_at = links[n].created_at]_vars
  BY RepointStep DEF IInv
<1> QED BY <1>1, Invariant, PTL DEF Spec, NeverRepointed

-----------------------------------------------------------------------------
(* The counts *)

\* A redirect stands, or turns into a doubt, and no doubt is lifted.
Stands(q) ==
  /\ answer'[q].status = 302 => answer'[q] = answer[q] /\ at'[q] = at[q]
  /\ answer[q].status = 302 => \/ answer'[q] = answer[q] /\ at'[q] = at[q]
                               \/ answer'[q].status = 500 \/ pc'[q] = "lost"
  /\ answer[q].status = 500 => answer'[q].status = 500 \/ pc'[q] = "lost"
  /\ pc[q] = "lost" => pc'[q] = "lost"
  /\ answer[q].status \in {302, 500} \/ pc[q] = "lost" => call'[q] = call[q]

\* Every step but a follow's own counted statement lets its answer stand.
LEMMA AnswersStand ==
  ASSUME TypeOK, LocalsOK, [Next]_vars, NEW q \in Reqs, ~ Counted(q)
  PROVE  Stands(q)
<1>0. Says(0).status = 0 /\ Says(500).status = 500 BY DEF Says, Wrote
<1>1. ASSUME Untouched(q) PROVE Stands(q) BY <1>1 DEF Untouched, Stands
<1>2. ASSUME answer[q] = Says(0), pc[q] # "lost", answer'[q].status # 302 PROVE Stands(q)
  BY <1>0, <1>2 DEF Stands
<1>3. LocalOK(q) BY DEF LocalsOK
<1>4. ASSUME Serve(q) PROVE Stands(q)
  <2>1. CASE Close(q) \/ Respond(q)
    BY <2>1 DEF Close, Respond, Goto, Stands, TypeOK
  <2>2. CASE Settle(q)
    <3>1. CASE Goto(q, "closing") /\ UNCHANGED <<call, at, seen, tries, answer>>
      BY <2>2, <3>1 DEF Settle, Stands
    <3>2. CASE Finish(q, Says(500))
      <4>1. answer'[q].status = 500 /\ call' = call BY <1>0, <3>2, Gives
      <4> QED BY <2>2, <4>1 DEF Settle, Stands
    <3> QED BY <2>2, <3>1, <3>2 DEF Settle
  <2>3. CASE ~ (Close(q) \/ Respond(q) \/ Settle(q))
    <3>1. pc[q] \notin {"settle", "closing", "sending", "answered", "lost"}
      BY <1>4, <2>3
      DEF Serve, Connect, ConnectFails, Busy, Validate, CreateNamed, CreateGenerated, Lookup, Expiry,
          ReadDay, RecordFollow, Tombstone, Why, Stats, Collect, Statements
    <3>2. answer[q] = Says(0) BY <1>3, <3>1 DEF LocalOK
    <3>3. answer'[q].status # 302
      <4>1. CASE ~ Writes(q) BY <1>0, <1>4, <3>2, <4>1, OtherAnswers DEF Silent
      <4>2. ASSUME NEW n \in Names, Fills(q, n) PROVE answer'[q].status # 302
        BY <4>2, Gives DEF Fills, Insert, Wrote
      <4>3. CASE Buries(q)
        <5>1. answer'[q] = Wrote(204, call[q].name, Null) BY <4>3, Gives DEF Buries, Tombstone
        <5> QED BY <5>1 DEF Wrote
      <4> QED BY <4>1, <4>2, <4>3 DEF Writes
    <3> QED BY <1>2, <3>1, <3>2, <3>3
  <2> QED BY <2>1, <2>2, <2>3
<1>5. ASSUME NEW p \in Procs, Send(q, p) PROVE Stands(q)
  <2>1. answer[q] = Says(0) /\ answer' = answer /\ pc[q] # "lost" BY <1>3, <1>5 DEF Send, LocalOK
  <2> QED BY <1>0, <1>2, <2>1
<1>6. ASSUME NEW r \in Reqs, r # q, Serve(r) \/ \E p \in Procs : Send(r, p) PROVE Stands(q)
  BY <1>1, <1>6, OthersUntouched
<1>7. ASSUME NEW p \in Procs, Crash(p) PROVE Stands(q)
  <2>1. \/ pc'[q] = "lost" /\ answer'[q] = Says(0)
        \/ pc'[q] = pc[q] /\ answer'[q] = answer[q]
    BY <1>7 DEF Crash
  <2> QED BY <1>0, <1>7, <2>1 DEF Crash, Stands
<1>8. ASSUME UNCHANGED <<pc, call, at, seen, tries, answer>> PROVE Stands(q)
  BY <1>1, <1>8 DEF Untouched
<1> QED BY <1>4, <1>5, <1>6, <1>7, <1>8 DEF Next, Restart, Tick, vars

\* What that means for the two sets a count lies between
LEMMA StandsInSets ==
  ASSUME FollowsOK, NEW q \in Reqs, Stands(q), NEW n \in Names, NEW d
  PROVE  /\ q \in Redirected(n, d)' => q \in Redirected(n, d)
         /\ q \in Redirected(n, d) \cup InDoubt(n) => q \in Redirected(n, d)' \cup InDoubt(n)'
<1>1. q \in Redirected(n, d)' => q \in Redirected(n, d) BY DEF Stands, Redirected
<1>2. ASSUME q \in Redirected(n, d) PROVE q \in Redirected(n, d)' \cup InDoubt(n)'
  <2>1. answer[q].status = 302 /\ call'[q] = call[q] BY <1>2 DEF Stands, Redirected
  <2>2. call'[q].op = "follow" /\ call'[q].name = n BY <1>2, <2>1 DEF FollowsOK, Redirected
  <2>3. CASE answer'[q] = answer[q] /\ at'[q] = at[q] BY <1>2, <2>3 DEF Redirected
  <2>4. CASE answer'[q].status = 500 \/ pc'[q] = "lost" BY <2>2, <2>4 DEF InDoubt
  <2> QED BY <2>1, <2>3, <2>4 DEF Stands
<1>3. ASSUME q \in InDoubt(n) PROVE q \in InDoubt(n)'
  BY <1>3 DEF Stands, InDoubt
<1> QED BY <1>1, <1>2, <1>3

\* Sets of requests are finite.
LEMMA Sizes ==
  ASSUME NEW S \in SUBSET Reqs, NEW T \in SUBSET S
  PROVE  /\ IsFiniteSet(S) /\ Cardinality(S) \in Nat /\ Cardinality(T) \in Nat
         /\ Cardinality(T) <= Cardinality(S)
<1>1. IsFiniteSet(Reqs) BY FS_Interval DEF Reqs, ConstantsAssumption
<1>2. IsFiniteSet(S) /\ IsFiniteSet(T) BY <1>1, FS_Subset
<1> QED BY <1>2, FS_Subset, FS_CardinalityType

\* A redirect that is decided is one to a follow of a name that has a row.
LEMMA FollowsStep == ASSUME IInv, FollowsOK, [Next]_vars PROVE FollowsOK'
<1> USE DEF IInv
<1> SUFFICES ASSUME NEW q \in Reqs, answer'[q].status = 302
             PROVE  /\ call'[q].op = "follow" /\ call'[q].name = answer'[q].name
                    /\ answer'[q].name \in Names /\ links'[answer'[q].name].state # "absent"
  BY DEF FollowsOK
<1>1. CASE Counted(q)
  <2>1. answer'[q] = Wrote(302, call[q].name, seen[q].target) /\ call' = call
    BY <1>1, Gives DEF Counted, RecordFollow
  <2>2. call[q].op = "follow" BY <1>1 DEF Counted, RecordFollow, LocalsOK, LocalOK
  <2>3. call[q].name \in Names /\ links[call[q].name].state = "live" /\ links' = links
    BY <1>1, CountedRow
  <2> QED BY <2>1, <2>2, <2>3 DEF Wrote
<1>2. CASE ~ Counted(q)
  <2>1. Stands(q) BY <1>2, AnswersStand
  <2>2. answer[q].status = 302 /\ answer'[q] = answer[q] /\ call'[q] = call[q] BY <2>1 DEF Stands
  <2> QED BY <2>2, NamesOnlyAge DEF FollowsOK
<1> QED BY <1>1, <1>2

\* A step that counts nobody leaves every live name's counts alone; they lie
\* between the sets they lay between.
LEMMA NobodyCounted ==
  ASSUME CountInv, [Next]_vars, \A q \in Reqs : ~ Counted(q) PROVE RedirectsAreCounted'
<1> USE DEF CountInv, IInv
<1> SUFFICES ASSUME NEW n \in LiveNames', NEW d \in Days
             PROVE  /\ Cardinality(Redirected(n, d)') <= counts'[n][d]
                    /\ counts'[n][d] <= Cardinality(Redirected(n, d)' \cup InDoubt(n)')
  BY DEF RedirectsAreCounted
<1> DEFINE A == Redirected(n, d)
           B == InDoubt(n)
<1>1. n \in Names /\ links'[n].state = "live" BY DEF LiveNames
<1>2. A' \subseteq A /\ A \cup B \subseteq A' \cup B' /\ A' \cup B' \subseteq Reqs /\ A \subseteq Reqs
  <2>1. \A q \in Reqs : Stands(q) BY AnswersStand
  <2>2. A' \subseteq Reqs /\ A \subseteq Reqs /\ B' \subseteq Reqs /\ B \subseteq Reqs BY DEF Redirected, InDoubt
  <2> HIDE DEF A, B
  <2>3. \A q \in Reqs : (q \in A' => q \in A) /\ (q \in A \cup B => q \in A' \cup B')
    BY <1>1, <2>1, StandsInSets DEF A, B
  <2> QED BY <2>2, <2>3
<1>3. counts'[n] = counts[n]
  <2>1. CASE UNCHANGED tables BY <2>1 DEF tables
  <2>2. ASSUME NEW r \in Reqs, NEW m \in Names, Fills(r, m) PROVE counts'[n] = counts[n]
    BY <2>2, FillsRow
  <2>3. ASSUME NEW r \in Reqs, Buries(r) PROVE counts'[n] = counts[n]
    <3>1. call[r].name # n BY <1>1, <2>3, BuriesRow DEF TypeOK
    <3> QED BY <1>1, <2>3, <3>1, BuriesRow DEF TypeOK
  <2> QED BY <2>1, <2>2, <2>3, OnlyThreeWrite DEF Writes
<1>4. counts[n][d] \in Nat BY <1>1 DEF TypeOK
<1>5. CASE links[n].state = "live"
  <2>1. Cardinality(A) <= counts[n][d] /\ counts[n][d] <= Cardinality(A \cup B)
    BY <1>1, <1>5 DEF RedirectsAreCounted, LiveNames
  <2> HIDE DEF A, B
  <2>2. Cardinality(A') <= Cardinality(A) /\ Cardinality(A') \in Nat /\ Cardinality(A) \in Nat BY <1>2, Sizes
  <2>3. /\ Cardinality(A \cup B) <= Cardinality(A' \cup B')
        /\ Cardinality(A \cup B) \in Nat /\ Cardinality(A' \cup B') \in Nat
    BY <1>2, Sizes
  <2>4. Cardinality(A') <= counts'[n][d] /\ counts'[n][d] <= Cardinality(A' \cup B')
    BY <1>3, <1>4, <2>1, <2>2, <2>3
  <2> QED BY <2>4 DEF A, B
<1>6. CASE links[n].state # "live"
  <2>1. links[n].state = "absent" BY <1>1, <1>6, NamesOnlyAge DEF TypeOK, Row
  <2>2. counts'[n][d] = 0 BY <1>1, <1>3, <1>6 DEF TombstoneKeepsNothing, NoCounts
  <2>3. A = {} BY <2>1 DEF Redirected, FollowsOK
  <2> HIDE DEF A, B
  <2>4. Cardinality(A') = 0 BY <1>2, <2>3, FS_EmptySet
  <2>5. Cardinality(A' \cup B') \in Nat BY <1>2, Sizes
  <2>6. Cardinality(A') <= counts'[n][d] /\ counts'[n][d] <= Cardinality(A' \cup B')
    BY <2>2, <2>4, <2>5
  <2> QED BY <2>6 DEF A, B
<1> QED BY <1>5, <1>6

\* A counted follow adds itself to the redirects of one name and day, and one
\* to their count.
LEMMA OneCounted ==
  ASSUME CountInv, [Next]_vars, NEW r \in Reqs, Serve(r), Counted(r) PROVE RedirectsAreCounted'
<1> USE DEF CountInv, IInv
<1> SUFFICES ASSUME NEW n \in LiveNames', NEW d \in Days
             PROVE  /\ Cardinality(Redirected(n, d)') <= counts'[n][d]
                    /\ counts'[n][d] <= Cardinality(Redirected(n, d)' \cup InDoubt(n)')
  BY DEF RedirectsAreCounted
<1> DEFINE A == Redirected(n, d)
           B == InDoubt(n)
           here == n = call[r].name /\ d = Day(at[r])
<1>1. /\ call[r].name \in Names /\ links[call[r].name].state = "live" /\ links' = links
      /\ n \in Names /\ n \in LiveNames
  BY CountedRow DEF LiveNames
<1>2. answer[r] = Says(0) /\ pc[r] = "count" BY DEF Counted, RecordFollow, LocalsOK, LocalOK
<1>3. r \notin A \cup B BY <1>2 DEF Redirected, InDoubt, Says, Wrote
<1>4. /\ answer'[r].status = 302 /\ answer'[r].name = call[r].name /\ at' = at
      /\ counts' = [counts EXCEPT ![call[r].name][Day(at[r])] = @ + 1]
  BY <1>1, Gives DEF Counted, RecordFollow, Written, Decide, Wrote
<1>5. r \in A' <=> here BY <1>4 DEF Redirected
<1>6. \A q \in Reqs \ {r} : (q \in A' => q \in A) /\ (q \in A \cup B => q \in A' \cup B')
  <2>1. \A q \in Reqs \ {r} : Stands(q) BY OthersUntouched DEF Untouched, Stands
  <2> QED BY <1>1, <2>1, StandsInSets
<1>7. A' \subseteq Reqs /\ A \subseteq Reqs /\ B' \subseteq Reqs /\ B \subseteq Reqs BY DEF Redirected, InDoubt
<1>8. counts[n][d] \in Nat /\ counts'[n][d] = IF here THEN counts[n][d] + 1 ELSE counts[n][d]
  <2>1. counts[n] \in [Days -> Nat] /\ counts \in [Names -> [Days -> Nat]] BY <1>1 DEF TypeOK
  <2> QED BY <1>1, <1>4, <2>1
<1>9. Cardinality(A) <= counts[n][d] /\ counts[n][d] <= Cardinality(A \cup B)
  BY <1>1 DEF RedirectsAreCounted
<1> HIDE DEF A, B, here
<1>10. /\ Cardinality(A) \in Nat /\ Cardinality(A') \in Nat /\ Cardinality(A \cup B) \in Nat
       /\ Cardinality(A' \cup B') \in Nat /\ IsFiniteSet(A) /\ IsFiniteSet(A \cup B)
  BY <1>7, Sizes
<1>11. CASE here
  <2>1. Cardinality(A \cup {r}) = Cardinality(A) + 1 BY <1>3, <1>10, FS_AddElement
  <2>2. Cardinality((A \cup B) \cup {r}) = Cardinality(A \cup B) + 1 BY <1>3, <1>10, FS_AddElement
  <2>3. A' \subseteq A \cup {r} /\ (A \cup B) \cup {r} \subseteq A' \cup B'
    BY <1>5, <1>6, <1>7, <1>11
  <2>4. Cardinality(A') <= Cardinality(A \cup {r}) BY <1>7, <2>3, Sizes
  <2>5. Cardinality((A \cup B) \cup {r}) <= Cardinality(A' \cup B') BY <1>7, <2>3, Sizes
  <2>6. Cardinality(A') <= counts'[n][d] /\ counts'[n][d] <= Cardinality(A' \cup B')
    BY <1>8, <1>9, <1>10, <1>11, <2>1, <2>2, <2>4, <2>5
  <2> QED BY <2>6 DEF A, B
<1>12. CASE ~ here
  <2>1. A' \subseteq A /\ A \cup B \subseteq A' \cup B' BY <1>3, <1>5, <1>6, <1>7, <1>12
  <2>2. Cardinality(A') <= Cardinality(A) /\ Cardinality(A \cup B) <= Cardinality(A' \cup B')
    BY <1>7, <2>1, Sizes
  <2>3. Cardinality(A') <= counts'[n][d] /\ counts'[n][d] <= Cardinality(A' \cup B')
    BY <1>8, <1>9, <1>10, <1>12, <2>2
  <2> QED BY <2>3 DEF A, B
<1> QED BY <1>11, <1>12

\* While a link is live its count of a day is the number of redirects of that
\* day, give or take the follows whose answer was lost or a 500, for any
\* number of processes, requests and faults (counts.record_follow before the
\* redirect, app.follow).
THEOREM EveryRedirectIsCounted == Spec => []RedirectsAreCounted
<1>1. Init => IInv
  BY TypeInit, LocalsInit, TablesInit, AnswersInit, LockInit DEF IInv
<1>2. Init => FollowsOK /\ RedirectsAreCounted
  BY DEF Init, FollowsOK, RedirectsAreCounted, LiveNames, NoRow, Says, Wrote
<1>3. ASSUME CountInv, [Next]_vars, IInv' PROVE CountInv'
  <2>1. FollowsOK' BY <1>3, FollowsStep DEF CountInv
  <2>2. ASSUME NEW r \in Reqs, Counted(r) PROVE Serve(r)
    BY <2>2 DEF Counted, Serve
  <2>3. RedirectsAreCounted' BY <1>3, <2>2, NobodyCounted, OneCounted
  <2> QED BY <1>3, <2>1, <2>3 DEF CountInv
<1>4. CountInv => RedirectsAreCounted BY DEF CountInv
<1> QED BY <1>1, <1>2, <1>3, <1>4, Invariant, PTL DEF Spec, CountInv
=============================================================================
