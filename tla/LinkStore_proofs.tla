-------------------------- MODULE LinkStore_proofs --------------------------
(* LinkService implements LinkStore!WeakSpec, and LinkStore!Spec when one  *)
(* process serves the database: each of its steps is a step of the atomic  *)
(* store, or none.                                                         *)
EXTENDS LinkService_proofs

USE ConstantsAssumption DEF Reqs

-----------------------------------------------------------------------------
(* What handlers have read *)

\* No request has been sent.
LEMMA ReadInit == Init => \A r \in Reqs : ReadingOK(r)
BY DEF Init, ReadingOK, NoRequest

\* A link that had expired had done so at every later moment.
LEMMA StaysExpired ==
  ASSUME NEW e \in Lifetimes \cup {Never}, NEW t \in Nat, NEW u \in Nat, t <= u, ~ IsExpired(e, u)
  PROVE  ~ IsExpired(e, t)
BY DEF IsExpired

\* Readings of the clock are numbers.
LEMMA Readable ==
  ASSUME TypeOK, NEW r \in Reqs
  PROVE  now \in Nat /\ at[r] \in Nat /\ call[r].since \in Nat
<1>1. Time \subseteq Nat BY DEF Time
<1>2. now \in Time /\ at[r] \in Time BY DEF TypeOK
<1>3. call[r] \in Request BY DEF TypeOK
<1>4. call[r].since \in Time BY <1>3 DEF Request
<1> QED BY <1>1, <1>2, <1>4

\* What the rows do to the readings of requests that take no step
LEMMA OthersReadings ==
  ASSUME IInv, [Next]_vars, now <= now', NEW q \in Reqs, ReadingOK(q), Untouched(q)
  PROVE  ReadingOK(q)'
<1>1. now \in Nat /\ at[q] \in Nat /\ call[q].since \in Nat /\ now' \in Nat
  <2>1. now' \in Time BY TypeStep DEF IInv, TypeOK
  <2> QED BY <2>1, Readable DEF IInv, Time
<1>2. UNCHANGED <<pc[q], call[q], at[q], seen[q]>> BY DEF Untouched
<1>3. call'[q].since <= now'
  BY <1>1, <1>2 DEF ReadingOK
<1>4. pc'[q] \in {"insert", "count"} => call'[q].since <= at'[q] /\ at'[q] <= now'
  BY <1>1, <1>2 DEF ReadingOK
<1>5. pc'[q] \in {"day", "count"} => ~ IsExpired(seen'[q].expires_at, call'[q].since)
  BY <1>2 DEF ReadingOK
<1>6. ASSUME pc'[q] \in {"expiry", "day", "count"}
      PROVE  /\ links'[call'[q].name].state # "absent"
             /\ links'[call'[q].name].expires_at = seen'[q].expires_at
             /\ links'[call'[q].name].state = "live" =>
                  seen'[q].state = "live" /\ links'[call'[q].name].target = seen'[q].target
  <2>1. call[q].name \in Names BY <1>2, <1>6 DEF IInv, LocalsOK, LocalOK, Connected, Statements
  <2>2. links[call[q].name].state # "absent" BY <1>2, <1>6 DEF ReadingOK
  <2> QED BY <1>2, <1>6, <2>1, <2>2, RepointStep DEF IInv, ReadingOK
<1> QED BY <1>3, <1>4, <1>5, <1>6 DEF ReadingOK, IsExpired

\* What a request's own step leaves it knowing
LEMMA OwnReading ==
  ASSUME IInv, [Next]_vars, NEW r \in Reqs, ReadingOK(r), Serve(r) \/ \E p \in Procs : Send(r, p)
  PROVE  ReadingOK(r)'
<1>a. TypeOK /\ LocalOK(r) BY DEF IInv, LocalsOK
<1>b. now \in Nat /\ at[r] \in Nat /\ call[r].since \in Nat
  BY <1>a, Readable
<1>1. ASSUME UNCHANGED <<now, call>>, pc'[r] \notin {"insert", "expiry", "day", "count"}
      PROVE  ReadingOK(r)'
  BY <1>1 DEF ReadingOK
<1>2. ASSUME NEW a, Finish(r, a) \/ Written(r, a), now' = now PROVE ReadingOK(r)'
  BY <1>1, <1>2, <1>a DEF Finish, Written, Goto, Decide, TypeOK
<1> USE DEF world
<1>3. ASSUME NEW p \in Procs, Send(r, p) PROVE ReadingOK(r)'
  <2>1. call'[r].since = now /\ now' = now /\ pc'[r] = "waiting" BY <1>3, <1>a DEF Send, Goto, TypeOK
  <2> QED BY <1>b, <2>1 DEF ReadingOK
<1>4. CASE Connect(r)
  <2>1. CASE Unusable(r) BY <1>2, <1>4, <2>1 DEF Connect
  <2>2. CASE ~ Unusable(r)
    <3>1. pc'[r] = FirstPlace(call[r].op) /\ UNCHANGED <<now, call>> BY <1>4, <1>a, <2>2 DEF Connect, Goto, TypeOK
    <3>2. FirstPlace(call[r].op) \notin {"insert", "expiry", "day", "count"} BY DEF FirstPlace
    <3> QED BY <1>1, <3>1, <3>2
  <2> QED BY <2>1, <2>2
<1>5. CASE ConnectFails(r) \/ Close(r) \/ Respond(r)
  BY <1>1, <1>5, <1>a DEF ConnectFails, Close, Respond, Goto, Decide, TypeOK
<1>6. CASE Busy(r) BY <1>2, <1>6 DEF Busy
<1>7. CASE Settle(r)
  <2>1. CASE Goto(r, "closing") /\ UNCHANGED <<call, at, seen, tries, answer>>
    BY <1>1, <1>7, <1>a, <2>1 DEF Settle, Goto, TypeOK
  <2> QED BY <1>2, <1>7, <2>1 DEF Settle
<1>8. CASE Validate(r)
  <2>1. CASE Finish(r, Says(422)) BY <1>2, <1>8, <2>1 DEF Validate
  <2>2. CASE Goto(r, "insert") /\ at' = [at EXCEPT ![r] = now] /\ UNCHANGED call
    <3>1. pc'[r] = "insert" /\ at'[r] = now /\ now' = now BY <1>8, <1>a, <2>2 DEF Validate, Goto, TypeOK
    <3> QED BY <1>b, <2>2, <3>1 DEF ReadingOK
  <2> QED BY <1>8, <2>1, <2>2 DEF Validate
<1>9. CASE CreateNamed(r) BY <1>2, <1>9 DEF CreateNamed, Insert
<1>10. CASE CreateGenerated(r)
  <2>1. CASE UNCHANGED <<world, pc, call, at, seen, answer>> BY <2>1 DEF ReadingOK, IsExpired
  <2> QED BY <1>2, <1>10, <2>1 DEF CreateGenerated, Insert
<1>11. CASE Lookup(r)
  <2>1. CASE Finish(r, Says(404)) BY <1>2, <1>11, <2>1 DEF Lookup
  <2>2. CASE /\ links[call[r].name].state # "absent" /\ Goto(r, "expiry")
             /\ seen' = [seen EXCEPT ![r] = links[call[r].name]] /\ UNCHANGED call
    <3>1. pc'[r] = "expiry" /\ seen'[r] = links[call[r].name] /\ UNCHANGED <<links, now>>
      BY <1>11, <1>a, <2>2 DEF Lookup, Goto, TypeOK
    <3> QED BY <1>b, <2>2, <3>1 DEF ReadingOK
  <2> QED BY <1>11, <2>1, <2>2 DEF Lookup
<1>12. CASE Expiry(r)
  <2>1. CASE Finish(r, Says(410)) BY <1>2, <1>12, <2>1 DEF Expiry
  <2>2. CASE /\ ~ IsExpired(seen[r].expires_at, now) /\ Goto(r, "day")
             /\ UNCHANGED <<call, at, seen>>
    <3>1. pc[r] = "expiry" /\ pc'[r] = "day" /\ UNCHANGED <<links, now>>
      BY <1>12, <1>a, <2>2 DEF Expiry, Goto, TypeOK
    <3>2. seen[r].expires_at \in Lifetimes \cup {Never} BY <1>a DEF TypeOK, Row
    <3>3. ~ IsExpired(seen[r].expires_at, call[r].since) BY <1>b, <2>2, <3>2, StaysExpired DEF ReadingOK
    <3> QED BY <2>2, <3>1, <3>3 DEF ReadingOK, IsExpired
  <2> QED BY <1>12, <2>1, <2>2 DEF Expiry
<1>13. CASE ReadDay(r)
  <2>1. pc[r] = "day" /\ pc'[r] = "count" /\ at'[r] = now /\ UNCHANGED <<links, now, call, seen>>
    BY <1>13, <1>a DEF ReadDay, Goto, TypeOK
  <2> QED BY <1>b, <2>1 DEF ReadingOK, IsExpired
<1>14. CASE RecordFollow(r) BY <1>2, <1>14 DEF RecordFollow
<1>15. CASE Tombstone(r)
  <2>1. CASE Goto(r, "why") /\ UNCHANGED call
    BY <1>1, <1>15, <1>a, <2>1 DEF Tombstone, Goto, TypeOK
  <2> QED BY <1>2, <1>15, <2>1 DEF Tombstone
<1>16. CASE Why(r) \/ Stats(r) \/ Collect(r) BY <1>2, <1>16 DEF Why, Stats, Collect
<1> QED
  BY <1>3, <1>4, <1>5, <1>6, <1>7, <1>8, <1>9, <1>10, <1>11, <1>12, <1>13, <1>14, <1>15, <1>16 DEF Serve

\* What handlers have read stays true enough for their answers.
LEMMA Readings == Spec => []ReadInv
<1>1. ASSUME IInv, [Next]_vars, \A r \in Reqs : ReadingOK(r), NEW q \in Reqs PROVE ReadingOK(q)'
  <2>1. ASSUME NEW r \in Reqs, Serve(r) \/ \E p \in Procs : Send(r, p) PROVE ReadingOK(q)'
    <3>1. CASE q = r BY <1>1, <2>1, <3>1, OwnReading
    <3>2. CASE q # r
      <4>1. Untouched(q) BY <1>1, <2>1, <3>2, OthersUntouched DEF IInv
      <4>2. now' = now /\ now \in Nat
        BY <1>1, <2>1
        DEF IInv, TypeOK, Time, Serve, Send, Connect, ConnectFails, Close, Respond, Busy, Settle, Validate,
            CreateNamed, CreateGenerated, Insert, Lookup, Expiry, ReadDay, RecordFollow, Tombstone,
            Why, Stats, Collect, world
      <4> QED BY <1>1, <4>1, <4>2, OthersReadings
    <3> QED BY <3>1, <3>2
  <2>2. ASSUME NEW p \in Procs, Crash(p) PROVE ReadingOK(q)'
    <3>1. \/ pc'[q] = "lost"
          \/ Untouched(q)
      BY <1>1, <2>2 DEF Crash, Untouched, IInv, TypeOK
    <3>2. UNCHANGED <<now, call>> /\ now \in Nat BY <1>1, <2>2 DEF Crash, IInv, TypeOK, Time
    <3> QED BY <1>1, <3>1, <3>2, OthersReadings DEF ReadingOK
  <2>3. CASE UNCHANGED <<pc, call, at, seen, tries, answer>> /\ now <= now'
    BY <1>1, <2>3, OthersReadings DEF Untouched
  <2>4. now \in Nat BY <1>1 DEF IInv, TypeOK, Time
  <2> QED BY <1>1, <2>1, <2>2, <2>3, <2>4 DEF Next, Restart, Tick, vars
<1>2. ReadInv /\ [Next]_vars /\ IInv' => ReadInv'
  BY <1>1 DEF ReadInv
<1>3. Init /\ IInv => ReadInv BY ReadInit DEF ReadInv
<1> QED BY <1>2, <1>3, Invariant, PTL DEF Spec

-----------------------------------------------------------------------------
(* The refinement mapping *)

\* What the mapping makes of rows, and of requests
LEMMA StoreForms ==
  ASSUME NEW row \in Row
  PROVE  /\ row.state = "absent" => StoreOf(row) = Store!Free
         /\ row.state = "deleted" => StoreOf(row) = Store!Retired
         /\ row.state = "live" => StoreOf(row) = Store!Live(row.target, row.expires_at)
         /\ (row.state = "absent" <=> StoreOf(row).phase = "free")
         /\ (row.state = "deleted" <=> StoreOf(row).phase = "retired")
         /\ (row.state = "live" <=> StoreOf(row).phase = "live")
BY DEF StoreOf, Row, Store!Free, Store!Retired, Store!Live

AskOf(r) == [stage |-> StageOf(pc[r]), op |-> call[r].op, name |-> call[r].name,
             lasts |-> call[r].expires, since |-> call[r].since, answer |-> answer[r]]

\* A handler decides its answer.
LEMMA Decides ==
  ASSUME TypeOK, NEW r \in Reqs, NEW a, StageOf(pc'[r]) = "decided", call' = call,
         answer' = [answer EXCEPT ![r] = a],
         \A q \in Reqs \ {r} : pc'[q] = pc[q]
  PROVE  Store!Decide(r, a)
<1> DEFINE asks == [q \in Reqs |-> AskOf(q)]
<1>1. \A q \in Reqs \ {r} : AskOf(q)' = AskOf(q) BY DEF AskOf, TypeOK
<1>2. AskOf(r)' = [AskOf(r) EXCEPT !.stage = "decided", !.answer = a]
  <2>1. AskOf(r)' = [stage |-> "decided", op |-> call[r].op, name |-> call[r].name,
                     lasts |-> call[r].expires, since |-> call[r].since, answer |-> a]
    BY DEF AskOf, TypeOK
  <2> DEFINE one == [AskOf(r) EXCEPT !.stage = "decided"]
  <2>2. one = [stage |-> "decided", op |-> call[r].op, name |-> call[r].name,
               lasts |-> call[r].expires, since |-> call[r].since, answer |-> answer[r]]
    BY DEF AskOf
  <2> HIDE DEF one
  <2>3. [one EXCEPT !.answer = a] =
          [stage |-> "decided", op |-> call[r].op, name |-> call[r].name,
           lasts |-> call[r].expires, since |-> call[r].since, answer |-> a]
    BY <2>2
  <2> QED BY <2>1, <2>3 DEF one
<1>3. asks' = [asks EXCEPT ![r] = [@ EXCEPT !.stage = "decided", !.answer = a]]
  <2> HIDE DEF AskOf, Reqs
  <2> QED BY <1>1, <1>2
<1> QED BY <1>3 DEF Store!Decide, AskOf

\* A handler that returns or has written decides its answer.
LEMMA FinishDecides ==
  ASSUME TypeOK, NEW r \in Reqs, NEW a, Finish(r, a) \/ Written(r, a)
  PROVE  Store!Decide(r, a)
<1>1. pc'[r] \in {"closing", "settle"} BY DEF Finish, Written, Goto, TypeOK
<1>2. StageOf(pc'[r]) = "decided" BY <1>1 DEF StageOf
<1>3. \A q \in Reqs \ {r} : pc'[q] = pc[q] BY DEF Finish, Written, Goto, TypeOK
<1> QED BY <1>2, <1>3, Decides DEF Finish, Written, Decide

\* The answers of the store are those of the service.
LEMMA AnswersMatch ==
  /\ \A s : Store!Says(s) = Says(s)
  /\ \A s, n, u : Store!Did(s, n, u) = Wrote(s, n, u)
  /\ \A S : Store!Snapshot(S) = Report(S)
BY DEF Store!Says, Store!Did, Store!Snapshot, Store!NoTallies, Store!NoFollows,
       Says, Wrote, Report, NoCountsAtAll, NoCounts

\* An open request of one of the operations is undecided.
LEMMA OpenUndecided ==
  ASSUME NEW r \in Reqs, NEW ops, call[r].op \in ops, StageOf(pc[r]) = "open"
  PROVE  Store!Undecided(r, ops)
BY DEF Store!Undecided

\* Where a handler has not decided
LEMMA OpenPlaces ==
  /\ \A place \in Statements \cup {"waiting", "validate", "expiry", "day"} : StageOf(place) = "open"
  /\ \A place \in {"settle", "closing", "sending"} : StageOf(place) = "decided"
BY DEF StageOf, Statements

\* The requests of a step that decides nothing
LEMMA KeepsAsks ==
  ASSUME TypeOK, UNCHANGED <<call, answer>>, \A q \in Reqs : StageOf(pc'[q]) = StageOf(pc[q])
  PROVE  UNCHANGED [r \in Reqs |-> [stage |-> StageOf(pc[r]), op |-> call[r].op,
                            name |-> call[r].name, lasts |-> call[r].expires,
                            since |-> call[r].since, answer |-> answer[r]]]
OBVIOUS

\* A step within a handler that decides nothing
LEMMA QuietStep ==
  ASSUME TypeOK, NEW r \in Reqs, NEW place, Goto(r, place), StageOf(place) = StageOf(pc[r]),
         UNCHANGED <<links, counts, now, call, answer>>
  PROVE  UNCHANGED Store!vars
<1>1. \A q \in Reqs : StageOf(pc'[q]) = StageOf(pc[q]) BY DEF Goto, TypeOK
<1> QED BY <1>1, KeepsAsks DEF Store!vars

-----------------------------------------------------------------------------
(* Each action, step by step *)

\* A step of the service is a step of the store, or none.
Matched == Store!WeakNext \/ UNCHANGED Store!vars

\* What a request's step maps to
LEMMA ServeMatches ==
  ASSUME NEW r \in Reqs, Store!Serve(r) \/ Store!FalseGone(r)
  PROVE  Matched
BY DEF Matched, Store!WeakNext, Store!Next

\* A request is sent.
LEMMA SendMatches ==
  ASSUME IInv, NEW r \in Reqs, NEW p \in Procs, Send(r, p)
  PROVE  Matched
<1> DEFINE asks == [q \in Reqs |-> AskOf(q)]
<1>a. TypeOK BY DEF IInv
<1>1. PICK c \in Calls :
        call' = [call EXCEPT ![r] = [op |-> c.op, proc |-> p, name |-> c.name,
                                     expires |-> c.expires, since |-> now, gone |-> ToldDeleted]]
  BY DEF Send
<1>2. /\ c.op \in {"create", "generate", "follow", "delete", "stats", "page"}
      /\ c.name \in Names \cup {Null} /\ c.expires \in Lifetimes \cup {Never}
  BY DEF Calls, ConstantsAssumption
<1>3. \A q \in Reqs \ {r} : AskOf(q)' = AskOf(q) BY <1>1, <1>a DEF AskOf, Send, Goto, TypeOK
<1>4. AskOf(r)' = [stage |-> "open", op |-> c.op, name |-> c.name, lasts |-> c.expires,
                   since |-> now, answer |-> answer[r]]
  <2>1. StageOf(pc'[r]) = "open" BY <1>a DEF Send, Goto, TypeOK, StageOf
  <2>2. call'[r] = [op |-> c.op, proc |-> p, name |-> c.name,
                    expires |-> c.expires, since |-> now, gone |-> ToldDeleted]
    BY <1>1, <1>a DEF TypeOK
  <2>3. answer'[r] = answer[r] BY DEF Send
  <2> QED BY <2>1, <2>2, <2>3 DEF AskOf
<1>5. [AskOf(r) EXCEPT !.stage = "open", !.op = c.op, !.name = c.name, !.lasts = c.expires, !.since = now]
        = [stage |-> "open", op |-> c.op, name |-> c.name, lasts |-> c.expires,
           since |-> now, answer |-> answer[r]]
  <2> DEFINE a1 == [AskOf(r) EXCEPT !.stage = "open"]
             a2 == [a1 EXCEPT !.op = c.op]
             a3 == [a2 EXCEPT !.name = c.name]
             a4 == [a3 EXCEPT !.lasts = c.expires]
             Form(stage, op, name, lasts, since) ==
               [stage |-> stage, op |-> op, name |-> name, lasts |-> lasts, since |-> since,
                answer |-> answer[r]]
  <2>1. a1 = Form("open", call[r].op, call[r].name, call[r].expires, call[r].since) BY DEF AskOf
  <2> HIDE DEF a1
  <2>2. a2 = Form("open", c.op, call[r].name, call[r].expires, call[r].since) BY <2>1
  <2> HIDE DEF a2
  <2>3. a3 = Form("open", c.op, c.name, call[r].expires, call[r].since) BY <2>2
  <2> HIDE DEF a3
  <2>4. a4 = Form("open", c.op, c.name, c.expires, call[r].since) BY <2>3
  <2> HIDE DEF a4
  <2>5. [a4 EXCEPT !.since = now] = Form("open", c.op, c.name, c.expires, now) BY <2>4
  <2> QED BY <2>5 DEF a1, a2, a3, a4
<1>6. asks' = [asks EXCEPT ![r] = [@ EXCEPT !.stage = "open", !.op = c.op, !.name = c.name,
                                            !.lasts = c.expires, !.since = now]]
  <2> HIDE DEF AskOf, Reqs
  <2> QED BY <1>3, <1>4, <1>5
<1>7. AskOf(r).stage = "unsent" BY DEF AskOf, Send, StageOf
<1>8. UNCHANGED <<links, counts, now>> BY DEF Send, world
<1>9. \E op \in {"create", "generate", "follow", "delete", "stats", "page"},
         n \in Names \cup {Null}, u \in Lifetimes \cup {Never} :
        asks' = [asks EXCEPT ![r] = [@ EXCEPT !.stage = "open", !.op = op, !.name = n,
                                              !.lasts = u, !.since = now]]
  <2> HIDE DEF asks
  <2> USE <1>2
  <2> WITNESS c.op \in {"create", "generate", "follow", "delete", "stats", "page"},
              c.name \in Names \cup {Null}, c.expires \in Lifetimes \cup {Never}
  <2> QED BY <1>6
<1>10. asks[r].stage = "unsent" BY <1>7
<1>11. Store!Call(r)
  <2> USE DEF AskOf
  <2> QED BY <1>8, <1>9, <1>10 DEF Store!Call
<1> QED BY <1>11, ServeMatches DEF Store!Serve

\* A 500 before or after the decision
LEMMA FailMatches ==
  ASSUME IInv, NEW r \in Reqs, pc[r] \in InFlight, UNCHANGED world,
         \/ Finish(r, Says(500))
         \/ Goto(r, "sending") /\ Decide(r, Says(500))
  PROVE  Matched
<1>a. TypeOK BY DEF IInv
<1>1. Store!Decide(r, Store!Says(500))
  <2>1. CASE Finish(r, Says(500)) BY <1>a, <2>1, FinishDecides, AnswersMatch
  <2>2. CASE Goto(r, "sending") /\ Decide(r, Says(500))
    <3>1. StageOf(pc'[r]) = "decided" /\ \A q \in Reqs \ {r} : pc'[q] = pc[q]
      BY <1>a, <2>2 DEF Goto, TypeOK, StageOf
    <3> QED BY <1>a, <2>2, <3>1, Decides, AnswersMatch DEF Decide
  <2> QED BY <2>1, <2>2
<1>2. StageOf(pc[r]) \in {"open", "decided"} BY DEF StageOf, InFlight, Connected, Statements
<1>3. Store!Fail(r) BY <1>1, <1>2 DEF Store!Fail, world
<1> QED BY <1>3, ServeMatches DEF Store!Serve

\* A name that does not normalise is answered without a look at the table.
LEMMA UnusableMatches ==
  ASSUME IInv, NEW r \in Reqs, pc[r] = "waiting", UNCHANGED <<links, counts, now>>, Unusable(r),
         Finish(r, Says(IF call[r].op = "create" THEN 422 ELSE 404))
  PROVE  Matched
<1>a. TypeOK BY DEF IInv
<1>b. StageOf(pc[r]) = "open" BY OpenPlaces
<1>1. CASE call[r].op = "create"
  <2>1. Store!Decide(r, Store!Says(422)) BY <1>1, <1>a, FinishDecides, AnswersMatch
  <2>2. Store!Undecided(r, {"create"}) BY <1>1, <1>b, OpenUndecided
  <2>3. Store!NotCreated(r) BY <2>1, <2>2 DEF Store!NotCreated, Unusable
  <2> QED BY <2>3, ServeMatches DEF Store!Serve
<1>2. CASE call[r].op # "create"
  <2>1. Store!Decide(r, Store!Says(404)) BY <1>2, <1>a, FinishDecides, AnswersMatch
  <2>2. Store!Undecided(r, {"follow", "delete", "stats"}) BY <1>2, <1>b, OpenUndecided DEF Unusable
  <2>3. Null \notin Names BY DEF ConstantsAssumption
  <2>4. Store!NotFound(r) BY <2>1, <2>2, <2>3 DEF Store!NotFound, Unusable
  <2> QED BY <2>4, ServeMatches DEF Store!Serve
<1> QED BY <1>1, <1>2

\* One row changes, and what the store holds for its name.
LEMMA StoreChanges ==
  ASSUME TypeOK, NEW n \in Names, NEW row, links' = [links EXCEPT ![n] = row]
  PROVE  [m \in Names |-> StoreOf(links[m])]' = [[m \in Names |-> StoreOf(links[m])] EXCEPT ![n] = StoreOf(row)]
BY DEF TypeOK

\* A created link
LEMMA InsertMatches ==
  ASSUME ReadInv, NEW r \in Reqs, NEW n \in Names, pc[r] = "insert", Insert(r, n),
         \/ call[r].op = "create" /\ n = call[r].name
         \/ call[r].op = "generate" /\ n \in Generable
  PROVE  Matched
<1>a. TypeOK /\ ReadingOK(r) /\ LocalOK(r) BY DEF ReadInv, IInv, LocalsOK
<1>1. StoreOf(links[n]) = Store!Free BY <1>a, StoreForms DEF Insert, TypeOK
<1>2. StoreOf(NewRow(r)) = Store!Live(r, call[r].expires) BY DEF StoreOf, NewRow, Store!Live
<1>3. [m \in Names |-> StoreOf(links[m])]' =
        [[m \in Names |-> StoreOf(links[m])] EXCEPT ![n] = Store!Live(r, call[r].expires)]
  BY <1>a, <1>2, StoreChanges DEF Insert
<1>4. Store!Decide(r, Store!Did(201, n, r))
  BY <1>a, FinishDecides, AnswersMatch DEF Insert
<1>5. ~ IsExpired(call[r].expires, call[r].since)
  <2>1. call[r].expires \in Lifetimes \cup {Never} BY <1>a DEF TypeOK, Request
  <2> QED BY <1>a, <2>1, Readable, StaysExpired DEF ReadingOK, LocalOK
<1>6. Store!Created(r, n)
  <2>1. [m \in Names |-> StoreOf(links[m])][n].phase = "free" BY <1>1 DEF Store!Free
  <2>2. ~ Store!Past(call[r].expires, call[r].since) BY <1>5 DEF Store!Past, IsExpired
  <2>3. UNCHANGED <<counts, now>> BY DEF Insert
  <2> QED BY <1>3, <1>4, <2>1, <2>2, <2>3 DEF Store!Created
<1>7. Store!Create(r) BY <1>6, OpenUndecided, OpenPlaces DEF Store!Create, Statements
<1> QED BY <1>7, ServeMatches DEF Store!Serve

\* A create that is refused
LEMMA RefusalMatches ==
  ASSUME ReadInv, NEW r \in Reqs, UNCHANGED world,
         \/ /\ pc[r] = "validate" /\ IsExpired(call[r].expires, now) /\ Finish(r, Says(422))
         \/ /\ pc[r] = "insert" /\ call[r].op = "create"
            /\ links[call[r].name].state # "absent" /\ Finish(r, Says(409))
         \/ /\ pc[r] = "insert" /\ call[r].op = "generate"
            /\ \E n \in Generable : links[n].state # "absent"
            /\ Finish(r, Says(503))
  PROVE  Matched
<1>a. TypeOK /\ LocalOK(r) BY DEF ReadInv, IInv, LocalsOK
<1>b. StageOf(pc[r]) = "open" BY OpenPlaces DEF Statements
<1>1. CASE pc[r] = "validate" /\ IsExpired(call[r].expires, now) /\ Finish(r, Says(422))
  <2>1. Store!Decide(r, Store!Says(422)) BY <1>1, <1>a, FinishDecides, AnswersMatch
  <2>2. Store!Undecided(r, {"create", "generate"}) BY <1>1, <1>a, <1>b, OpenUndecided DEF LocalOK
  <2>3. Store!NotCreated(r) BY <1>1, <2>1, <2>2 DEF Store!NotCreated, Store!Past, IsExpired, world
  <2> QED BY <2>3, ServeMatches DEF Store!Serve
<1>2. CASE /\ pc[r] = "insert" /\ call[r].op = "create"
           /\ links[call[r].name].state # "absent" /\ Finish(r, Says(409))
  <2>1. Store!Decide(r, Store!Says(409)) BY <1>2, <1>a, FinishDecides, AnswersMatch
  <2>2. Store!Undecided(r, {"create"}) BY <1>2, <1>b, OpenUndecided
  <2>3. call[r].name \in Names BY <1>2, <1>a DEF LocalOK, Connected, Statements
  <2>4. StoreOf(links[call[r].name]).phase # "free" BY <1>2, <1>a, <2>3, StoreForms DEF TypeOK
  <2>5. Store!NotCreated(r) BY <2>1, <2>2, <2>3, <2>4 DEF Store!NotCreated, world
  <2> QED BY <2>5, ServeMatches DEF Store!Serve
<1>3. CASE /\ pc[r] = "insert" /\ call[r].op = "generate"
           /\ \E n \in Generable : links[n].state # "absent"
           /\ Finish(r, Says(503))
  <2>1. Store!Decide(r, Store!Says(503)) BY <1>3, <1>a, FinishDecides, AnswersMatch
  <2>2. Store!Undecided(r, {"generate"}) BY <1>3, <1>b, OpenUndecided
  <2>3. PICK n \in Generable : links[n].state # "absent" BY <1>3
  <2>4. n \in Names BY DEF ConstantsAssumption
  <2>5. StoreOf(links[n]).phase # "free" BY <1>a, <2>3, <2>4, StoreForms DEF TypeOK
  <2>6. Store!NotCreated(r) BY <2>1, <2>2, <2>4, <2>5 DEF Store!NotCreated, world
  <2> QED BY <2>6, ServeMatches DEF Store!Serve
<1> QED BY <1>1, <1>2, <1>3

\* What a follow, a delete or a report finds is not there.
LEMMA NotFoundMatches ==
  ASSUME IInv, NEW r \in Reqs, pc[r] \in {"lookup", "why", "stats"}, UNCHANGED world,
         links[call[r].name].state = "absent", Finish(r, Says(404))
  PROVE  Matched
<1>a. TypeOK /\ LocalOK(r) BY DEF IInv, LocalsOK
<1>1. Store!Decide(r, Store!Says(404)) BY <1>a, FinishDecides, AnswersMatch
<1>2. Store!Undecided(r, {"follow", "delete", "stats"})
  BY <1>a, OpenPlaces, OpenUndecided DEF LocalOK, Statements
<1>3. call[r].name \in Names => StoreOf(links[call[r].name]).phase = "free"
  BY <1>a, StoreForms DEF TypeOK
<1>4. Store!NotFound(r) BY <1>1, <1>2, <1>3 DEF Store!NotFound, world
<1> QED BY <1>4, ServeMatches DEF Store!Serve

\* What they find is gone: deleted, expired, or (a delete's mistake) not gone.
LEMMA GoneMatches ==
  ASSUME ReadInv, NEW r \in Reqs, pc[r] \in {"expiry", "count", "why", "stats"},
         UNCHANGED <<links, counts, now>>, Finish(r, Says(410)),
         pc[r] = "why" => links[call[r].name].state # "absent",
         pc[r] = "stats" => links[call[r].name].state = "deleted",
         pc[r] = "count" => links[call[r].name].state # "live",
         pc[r] = "expiry" => seen[r].state = "deleted" \/ IsExpired(seen[r].expires_at, now)
  PROVE  Matched
<1> DEFINE row == links[call[r].name]
<1>a. TypeOK /\ LocalOK(r) /\ ReadingOK(r) BY DEF ReadInv, IInv, LocalsOK
<1>1. Store!Decide(r, Store!Says(410)) BY <1>a, FinishDecides, AnswersMatch
<1>2. Store!Undecided(r, {"follow", "delete", "stats"})
  BY <1>a, OpenPlaces, OpenUndecided DEF LocalOK, Statements
<1>3. call[r].name \in Names BY <1>a DEF LocalOK, Connected, Statements
<1>4. row \in Row BY <1>a, <1>3 DEF TypeOK
<1>5. CASE row.state = "deleted"
  <2>1. StoreOf(row).phase = "retired" BY <1>4, <1>5, StoreForms
  <2>2. Store!Gone(r) BY <1>1, <1>2, <1>3, <2>1 DEF Store!Gone
  <2> QED BY <2>2, ServeMatches DEF Store!Serve
<1>6. CASE row.state = "live" /\ pc[r] = "expiry"
  <2>1. StoreOf(row) = Store!Live(row.target, row.expires_at) BY <1>4, <1>6, StoreForms
  <2>2. IsExpired(row.expires_at, now) BY <1>6, <1>a DEF ReadingOK
  <2>3. call[r].op = "follow" BY <1>6, <1>a DEF LocalOK
  <2>4. Store!Gone(r)
    BY <1>1, <1>2, <1>3, <2>1, <2>2, <2>3 DEF Store!Gone, Store!Live, Store!Past, IsExpired
  <2> QED BY <2>4, ServeMatches DEF Store!Serve
<1>7. CASE row.state = "live" /\ pc[r] = "why"
  <2>1. StoreOf(row).phase = "live" BY <1>4, <1>7, StoreForms
  <2>2. Store!Undecided(r, {"delete"}) BY <1>7, <1>a, OpenPlaces, OpenUndecided DEF LocalOK, Statements
  <2>3. Store!FalseGone(r) BY <1>1, <1>3, <2>1, <2>2 DEF Store!FalseGone
  <2> QED BY <2>3, ServeMatches
<1>8. row.state # "absent"
  <2>1. CASE pc[r] = "count" \/ pc[r] = "expiry" BY <1>a, <2>1 DEF ReadingOK
  <2> QED BY <2>1
<1>9. row.state \in {"absent", "live", "deleted"} BY <1>4 DEF Row
<1>10. row.state = "live" => pc[r] \in {"expiry", "why"} OBVIOUS
<1> QED BY <1>5, <1>6, <1>7, <1>8, <1>9, <1>10

\* A counted follow
LEMMA FollowMatches ==
  ASSUME ReadInv, NEW r \in Reqs, pc[r] = "count", links[call[r].name].state = "live", RecordFollow(r)
  PROVE  Matched
<1> DEFINE n == call[r].name
           held == [m \in Names |-> StoreOf(links[m])]
<1>a. TypeOK /\ LocalOK(r) /\ ReadingOK(r) BY DEF ReadInv, IInv, LocalsOK
<1>1. n \in Names /\ call[r].op = "follow" BY <1>a DEF LocalOK, Connected, Statements
<1>2. links[n] \in Row BY <1>a, <1>1 DEF TypeOK
<1>3. StoreOf(links[n]) = Store!Live(seen[r].target, seen[r].expires_at)
  BY <1>2, <1>a, StoreForms DEF ReadingOK
<1>4. /\ counts' = [counts EXCEPT ![n][Day(at[r])] = @ + 1]
      /\ Written(r, Wrote(302, n, seen[r].target))
      /\ UNCHANGED <<links, now>>
  BY DEF RecordFollow
<1>5. held[n].phase = "live" /\ held[n].target = seen[r].target /\ held[n].until = seen[r].expires_at
  BY <1>1, <1>3 DEF Store!Live
<1>6. Store!Decide(r, Store!Did(302, n, seen[r].target))
  BY <1>4, <1>a, FinishDecides, AnswersMatch DEF Store!Decide
<1>7. Store!Undecided(r, {"follow"}) BY <1>1, OpenPlaces, OpenUndecided DEF Statements
<1>8. ~ Store!Past(seen[r].expires_at, call[r].since) BY <1>a DEF Store!Past, IsExpired, ReadingOK
<1>9. at[r] \in call[r].since .. now
  <2>1. now \in Int /\ at[r] \in Int /\ call[r].since \in Int BY <1>a, Readable
  <2> QED BY <2>1, <1>a DEF ReadingOK
<1>10. \E t \in call[r].since .. now : counts' = [counts EXCEPT ![n][Day(t)] = @ + 1]
  BY <1>4, <1>9
<1>11. Store!Follow(r)
  BY <1>1, <1>4, <1>5, <1>6, <1>7, <1>8, <1>10 DEF Store!Follow, Store!Decide
<1> QED BY <1>11, ServeMatches DEF Store!Serve

\* A deleted link
LEMMA DeleteMatches ==
  ASSUME IInv, NEW r \in Reqs, pc[r] = "tombstone", links[call[r].name].state = "live",
         links' = [links EXCEPT ![call[r].name] = Buried(links[call[r].name])],
         counts' = [counts EXCEPT ![call[r].name] = NoCounts],
         Written(r, Wrote(204, call[r].name, Null)), now' = now
  PROVE  Matched
<1> DEFINE n == call[r].name
<1>a. TypeOK /\ LocalOK(r) BY DEF IInv, LocalsOK
<1>1. n \in Names /\ call[r].op = "delete" BY <1>a DEF LocalOK, Connected, Statements
<1>2. links[n] \in Row BY <1>a, <1>1 DEF TypeOK
<1>3. Buried(links[n]).state = "deleted" BY <1>2 DEF Buried, Row
<1>4. StoreOf(Buried(links[n])) = Store!Retired BY <1>3 DEF StoreOf, Store!Retired
<1>5. [m \in Names |-> StoreOf(links[m])]' =
        [[m \in Names |-> StoreOf(links[m])] EXCEPT ![n] = Store!Retired]
  BY <1>a, <1>1, <1>4, StoreChanges
<1>6. [m \in Names |-> StoreOf(links[m])][n].phase = "live" BY <1>1, <1>2, StoreForms
<1>7. Store!NoFollows = NoCounts BY DEF Store!NoFollows, NoCounts
<1>8. Store!Decide(r, Store!Did(204, n, Null)) BY <1>a, FinishDecides, AnswersMatch DEF Store!Decide
<1>9. Store!Undecided(r, {"delete"}) BY <1>1, OpenPlaces, OpenUndecided DEF Statements
<1>10. Store!Delete(r) BY <1>1, <1>5, <1>6, <1>7, <1>8, <1>9 DEF Store!Delete, Store!Decide
<1> QED BY <1>10, ServeMatches DEF Store!Serve

\* A report of one link, or of all of them
LEMMA ReportMatches ==
  ASSUME IInv, NEW r \in Reqs, UNCHANGED world,
         \/ /\ pc[r] = "stats" /\ links[call[r].name].state = "live"
            /\ Finish(r, Report({call[r].name}))
         \/ /\ pc[r] = "collect" /\ Finish(r, Report(LiveNames))
  PROVE  Matched
<1>a. TypeOK /\ LocalOK(r) BY DEF IInv, LocalsOK
<1>b. StageOf(pc[r]) = "open" BY OpenPlaces DEF Statements
<1>1. CASE /\ pc[r] = "stats" /\ links[call[r].name].state = "live"
           /\ Finish(r, Report({call[r].name}))
  <2>1. Store!Decide(r, Store!Snapshot({call[r].name}))
    BY <1>1, <1>a, FinishDecides, AnswersMatch DEF Store!Decide
  <2>2. Store!Undecided(r, {"stats"}) BY <1>1, <1>a, <1>b, OpenUndecided DEF LocalOK
  <2>3. call[r].name \in Names BY <1>1, <1>a DEF LocalOK, Connected, Statements
  <2>4. StoreOf(links[call[r].name]).phase = "live" BY <1>1, <1>a, <2>3, StoreForms DEF TypeOK
  <2>5. Store!Report(r) BY <2>1, <2>2, <2>3, <2>4 DEF Store!Report, Store!Decide, world
  <2> QED BY <2>5, ServeMatches DEF Store!Serve
<1>2. CASE pc[r] = "collect" /\ Finish(r, Report(LiveNames))
  <2>1. Store!Decide(r, Store!Snapshot(LiveNames)) BY <1>2, <1>a, FinishDecides, AnswersMatch DEF Store!Decide
  <2>2. Store!Undecided(r, {"page"}) BY <1>2, <1>a, <1>b, OpenUndecided DEF LocalOK
  <2>3. \A n \in Names : links[n].state = "live" <=> StoreOf(links[n]).phase = "live"
    BY <1>a, StoreForms DEF TypeOK
  <2>4. LiveNames = {n \in Names : [m \in Names |-> StoreOf(links[m])][n].phase = "live"}
    BY <2>3 DEF LiveNames
  <2>5. Store!Report(r) BY <2>1, <2>2, <2>4 DEF Store!Report, Store!Decide, world
  <2> QED BY <2>5, ServeMatches DEF Store!Serve
<1> QED BY <1>1, <1>2

\* The answer is sent.
LEMMA RespondMatches ==
  ASSUME IInv, NEW r \in Reqs, Respond(r)
  PROVE  Matched
<1> DEFINE asks == [q \in Reqs |-> AskOf(q)]
<1>a. TypeOK BY DEF IInv
<1>1. StageOf(pc[r]) = "decided" /\ StageOf(pc'[r]) = "answered"
  BY <1>a DEF Respond, Goto, TypeOK, StageOf
<1>2. \A q \in Reqs \ {r} : AskOf(q)' = AskOf(q) BY <1>a DEF AskOf, Respond, Goto, TypeOK
<1>3. AskOf(r)' = [AskOf(r) EXCEPT !.stage = "answered"] BY <1>1 DEF AskOf, Respond
<1>4. asks' = [asks EXCEPT ![r].stage = "answered"]
  <2> HIDE DEF AskOf, Reqs
  <2> QED BY <1>2, <1>3
<1>5. asks[r].stage = "decided" BY <1>1 DEF AskOf
<1>6. UNCHANGED <<links, counts, now>> BY DEF Respond, world
<1>7. Store!Return(r)
  <2> USE DEF AskOf
  <2> QED BY <1>4, <1>5, <1>6 DEF Store!Return
<1> QED BY <1>7, ServeMatches DEF Store!Serve

\* A process dies: its open requests are lost.
LEMMA CrashMatches ==
  ASSUME IInv, NEW p \in Procs, Crash(p)
  PROVE  Matched
<1> DEFINE asks == [q \in Reqs |-> AskOf(q)]
           cut  == {r \in Reqs : call[r].proc = p /\ pc[r] \in InFlight}
<1>a. TypeOK BY DEF IInv
<1>1. UNCHANGED <<links, counts, now, call>> BY DEF Crash
<1>2. ASSUME NEW q \in Reqs, q \notin cut PROVE AskOf(q)' = AskOf(q)
  BY <1>2, <1>a DEF AskOf, Crash, TypeOK
<1>3. ASSUME NEW q \in Reqs, q \in cut
      PROVE  AskOf(q)' = [AskOf(q) EXCEPT !.stage = "lost", !.answer = Says(0)]
  <2> DEFINE one == [AskOf(q) EXCEPT !.stage = "lost"]
  <2>1. pc'[q] = "lost" /\ answer'[q] = Says(0) BY <1>3 DEF Crash
  <2>2. AskOf(q)' = [stage |-> "lost", op |-> call[q].op, name |-> call[q].name,
                     lasts |-> call[q].expires, since |-> call[q].since, answer |-> Says(0)]
    BY <1>1, <2>1 DEF AskOf, StageOf
  <2>3. one = [stage |-> "lost", op |-> call[q].op, name |-> call[q].name,
               lasts |-> call[q].expires, since |-> call[q].since, answer |-> answer[q]]
    BY DEF AskOf
  <2> HIDE DEF one
  <2>4. [one EXCEPT !.answer = Says(0)] =
          [stage |-> "lost", op |-> call[q].op, name |-> call[q].name,
           lasts |-> call[q].expires, since |-> call[q].since, answer |-> Says(0)]
    BY <2>3
  <2> QED BY <2>2, <2>4 DEF one
<1>4. asks' = [q \in Reqs |-> IF q \in cut
                              THEN [asks[q] EXCEPT !.stage = "lost", !.answer = Says(0)]
                              ELSE asks[q]]
  <2> HIDE DEF AskOf, Reqs, cut
  <2> QED BY <1>2, <1>3
<1>5. \A q \in cut : AskOf(q).stage \in {"open", "decided"}
  BY DEF AskOf, StageOf, InFlight, Connected, Statements
<1>6. Store!Says(0) = Says(0) BY AnswersMatch
<1>7. \E L \in SUBSET {q \in Reqs : asks[q].stage \in {"open", "decided"}} :
        asks' = [q \in Reqs |-> IF q \in L
                                THEN [asks[q] EXCEPT !.stage = "lost", !.answer = Store!Says(0)]
                                ELSE asks[q]]
  <2> HIDE DEF AskOf, Reqs
  <2>1. cut \in SUBSET {q \in Reqs : asks[q].stage \in {"open", "decided"}} BY <1>5
  <2> HIDE DEF cut, asks
  <2> QED BY <1>4, <1>6, <2>1
<1>8. Store!Lose
  <2> USE DEF AskOf
  <2> QED BY <1>1, <1>7 DEF Store!Lose
<1> QED BY <1>8 DEF Matched, Store!WeakNext, Store!Next

\* Every service starts as a store with nothing in it.
LEMMA StoreInit == Init => Store!Init
<1> SUFFICES ASSUME Init PROVE Store!Init OBVIOUS
<1>1. [n \in Names |-> StoreOf(links[n])] = [n \in Names |-> Store!Free]
  BY DEF Init, StoreOf, NoRow, Store!Free
<1>2. counts = [n \in Names |-> Store!NoFollows] BY DEF Init, NoCounts, Store!NoFollows
<1>3. Store!Says(0) = Says(0) BY AnswersMatch
<1>4. \A r \in Reqs : AskOf(r) = Store!Unsent
  BY <1>3 DEF AskOf, Init, NoRequest, StageOf, Store!Unsent
<1>5. [r \in Reqs |-> AskOf(r)] = [r \in Reqs |-> Store!Unsent] BY <1>4
<1> QED BY <1>1, <1>2, <1>5 DEF Store!Init, AskOf, Init

\* What a request's own process does for it
LEMMA ServiceMatches ==
  ASSUME ReadInv, NEW r \in Reqs, Serve(r)
  PROVE  Matched
<1>a. IInv /\ TypeOK /\ LocalOK(r) BY DEF ReadInv, IInv, LocalsOK
<1>1. ASSUME NEW place, Goto(r, place), StageOf(place) = StageOf(pc[r]),
             UNCHANGED <<links, counts, now, call, answer>>
      PROVE  Matched
  BY <1>1, <1>a, QuietStep DEF Matched
<1>2. CASE Connect(r)
  <2>1. pc[r] = "waiting" /\ UNCHANGED <<links, counts, now>> BY <1>2 DEF Connect
  <2>2. CASE Unusable(r) BY <1>2, <1>a, <2>1, <2>2, UnusableMatches DEF Connect
  <2>3. CASE ~ Unusable(r)
    <3>1. FirstPlace(call[r].op) \in Statements \cup {"validate"} BY DEF FirstPlace, Statements
    <3>2. StageOf(FirstPlace(call[r].op)) = StageOf(pc[r]) BY <2>1, <3>1, OpenPlaces
    <3>3. Goto(r, FirstPlace(call[r].op)) /\ UNCHANGED <<call, answer>> BY <1>2, <2>3 DEF Connect
    <3> QED BY <1>1, <2>1, <3>2, <3>3
  <2> QED BY <2>2, <2>3
<1>3. CASE ConnectFails(r)
  BY <1>3, <1>a, FailMatches DEF ConnectFails, InFlight
<1>4. CASE Close(r)
  BY <1>1, <1>4, OpenPlaces DEF Close
<1>5. CASE Respond(r) BY <1>5, <1>a, RespondMatches
<1>6. CASE Busy(r)
  BY <1>6, <1>a, FailMatches DEF Busy, InFlight, Connected
<1>7. CASE Settle(r)
  <2>1. CASE Goto(r, "closing") /\ UNCHANGED <<call, answer>>
    BY <1>1, <1>7, <2>1, OpenPlaces DEF Settle, world
  <2>2. CASE Finish(r, Says(500))
    BY <1>7, <1>a, <2>2, FailMatches DEF Settle, InFlight, Connected
  <2> QED BY <1>7, <2>1, <2>2 DEF Settle
<1>8. CASE Validate(r)
  <2>1. CASE IsExpired(call[r].expires, now) /\ Finish(r, Says(422))
    BY <1>8, <2>1, RefusalMatches DEF Validate
  <2>2. CASE Goto(r, "insert") /\ UNCHANGED <<call, answer>>
    BY <1>1, <1>8, <2>2, OpenPlaces DEF Validate, world, Statements
  <2> QED BY <1>8, <2>1, <2>2 DEF Validate
<1>9. CASE CreateNamed(r)
  <2>1. call[r].name \in Names BY <1>9, <1>a DEF CreateNamed, LocalOK, Connected, Statements
  <2>2. CASE Insert(r, call[r].name) BY <1>9, <2>1, <2>2, InsertMatches DEF CreateNamed
  <2>3. CASE links[call[r].name].state # "absent" /\ Finish(r, Says(409)) /\ UNCHANGED world
    BY <1>9, <2>3, RefusalMatches DEF CreateNamed
  <2> QED BY <1>9, <2>2, <2>3 DEF CreateNamed
<1>10. CASE CreateGenerated(r)
  <2>1. PICK n \in Generable :
          \/ Insert(r, n)
          \/ links[n].state # "absent" /\ Finish(r, Says(503)) /\ UNCHANGED world
          \/ UNCHANGED <<world, pc, call, at, seen, answer>>
    BY <1>10 DEF CreateGenerated
  <2>2. n \in Names BY DEF ConstantsAssumption
  <2>3. pc[r] = "insert" /\ call[r].op = "generate" BY <1>10 DEF CreateGenerated
  <2>4. CASE Insert(r, n) BY <2>2, <2>3, <2>4, InsertMatches
  <2>5. CASE links[n].state # "absent" /\ Finish(r, Says(503)) /\ UNCHANGED world
    BY <2>3, <2>5, RefusalMatches
  <2>6. CASE UNCHANGED <<world, pc, call, at, seen, answer>>
    BY <1>a, <2>6, KeepsAsks DEF Matched, Store!vars, world
  <2> QED BY <2>1, <2>4, <2>5, <2>6
<1>11. CASE Lookup(r)
  <2>1. CASE links[call[r].name].state = "absent" /\ Finish(r, Says(404))
    BY <1>11, <1>a, <2>1, NotFoundMatches DEF Lookup
  <2>2. CASE Goto(r, "expiry") /\ UNCHANGED <<call, answer>>
    BY <1>1, <1>11, <2>2, OpenPlaces DEF Lookup, world, Statements
  <2> QED BY <1>11, <2>1, <2>2 DEF Lookup
<1>12. CASE Expiry(r)
  <2>1. CASE /\ seen[r].state = "deleted" \/ IsExpired(seen[r].expires_at, now)
             /\ Finish(r, Says(410))
    BY <1>12, <2>1, GoneMatches DEF Expiry, world
  <2>2. CASE Goto(r, "day") /\ UNCHANGED <<call, answer>>
    BY <1>1, <1>12, <2>2, OpenPlaces DEF Expiry, world
  <2> QED BY <1>12, <2>1, <2>2 DEF Expiry
<1>13. CASE ReadDay(r)
  BY <1>1, <1>13, OpenPlaces DEF ReadDay, world, Statements
<1>14. CASE RecordFollow(r)
  <2>1. CASE links[call[r].name].state = "live"
    BY <1>14, <2>1, FollowMatches DEF RecordFollow
  <2>2. CASE links[call[r].name].state # "live"
    <3>1. Finish(r, Says(410)) /\ UNCHANGED <<links, counts, now>> /\ pc[r] = "count"
      BY <1>14, <2>2 DEF RecordFollow
    <3> QED BY <2>2, <3>1, GoneMatches
  <2> QED BY <2>1, <2>2
<1>15. CASE Tombstone(r)
  <2>1. CASE links[call[r].name].state = "live"
    BY <1>15, <1>a, <2>1, DeleteMatches DEF Tombstone
  <2>2. CASE links[call[r].name].state # "live"
    BY <1>1, <1>15, <2>2, OpenPlaces DEF Tombstone, Statements
  <2> QED BY <2>1, <2>2
<1>16. CASE Why(r)
  <2>1. CASE links[call[r].name].state = "absent"
    BY <1>16, <1>a, <2>1, NotFoundMatches DEF Why
  <2>2. CASE links[call[r].name].state # "absent"
    BY <1>16, <2>2, GoneMatches DEF Why, world
  <2> QED BY <2>1, <2>2
<1>17. CASE Stats(r)
  <2>1. CASE links[call[r].name].state = "absent" /\ Finish(r, Says(404))
    BY <1>17, <1>a, <2>1, NotFoundMatches DEF Stats
  <2>2. CASE links[call[r].name].state = "deleted" /\ Finish(r, Says(410))
    BY <1>17, <2>2, GoneMatches DEF Stats, world
  <2>3. CASE links[call[r].name].state = "live" /\ Finish(r, Report({call[r].name}))
    BY <1>17, <1>a, <2>3, ReportMatches DEF Stats
  <2> QED BY <1>17, <2>1, <2>2, <2>3 DEF Stats
<1>18. CASE Collect(r)
  BY <1>18, <1>a, ReportMatches DEF Collect
<1> QED
  BY <1>2, <1>3, <1>4, <1>5, <1>6, <1>7, <1>8, <1>9, <1>10, <1>11, <1>12, <1>13, <1>14, <1>15,
     <1>16, <1>17, <1>18 DEF Serve

\* Each step of the service is a step of the store, or none.
LEMMA StepMatches == ReadInv /\ [Next]_vars => [Store!WeakNext]_(Store!vars)
<1> SUFFICES ASSUME ReadInv, [Next]_vars PROVE Matched
  BY DEF Matched
<1>a. IInv /\ TypeOK BY DEF ReadInv, IInv
<1>1. ASSUME NEW r \in Reqs, NEW p \in Procs, Send(r, p) PROVE Matched
  BY <1>1, <1>a, SendMatches
<1>2. ASSUME NEW r \in Reqs, Serve(r) PROVE Matched
  BY <1>2, ServiceMatches
<1>3. ASSUME NEW p \in Procs, Crash(p) PROVE Matched
  BY <1>3, <1>a, CrashMatches
<1>4. CASE UNCHANGED <<links, counts, now, pc, call, answer>>
  BY <1>a, <1>4, KeepsAsks DEF Matched, Store!vars
<1>5. CASE Tick
  <2>1. now + 1 \in Time /\ now' = now + 1 BY <1>a, <1>5 DEF Tick, TypeOK, Time, ConstantsAssumption
  <2>2. UNCHANGED <<links, counts, pc, call, answer>> BY <1>5 DEF Tick
  <2>3. Store!Tick BY <1>a, <2>1, <2>2, KeepsAsks DEF Store!Tick
  <2> QED BY <2>3 DEF Matched, Store!WeakNext, Store!Next
<1> QED BY <1>1, <1>2, <1>3, <1>4, <1>5 DEF Next, Restart, vars

\* Whatever the number of processes, and whatever faults, crashes and
\* interleavings, every answer of the service is one that a store taking each
\* request at one instant could give, but for a delete's mistaken 410 for a
\* live link (links.py: create, lookup, delete; counts.py: record_follow;
\* app.py's handlers).
THEOREM ImplementsStore == Spec => AlmostAtomic
<1>1. Init => Store!Init BY StoreInit
<1>2. ReadInv /\ [Next]_vars => [Store!WeakNext]_(Store!vars) BY StepMatches
<1> QED BY <1>1, <1>2, Readings, PTL DEF Spec, AlmostAtomic, Store!WeakSpec

-----------------------------------------------------------------------------
(* One process *)

OneProcess == \A p, q \in Procs : p = q

\* Two requests of the only process are not both connected.
LEMMA AloneConnected ==
  ASSUME OneProcess, IInv, NEW q \in Reqs, NEW r \in Reqs, pc[q] \in Connected, pc[r] \in Connected
  PROVE  q = r
<1>1. call[q].proc \in Procs /\ call[r].proc \in Procs
  BY DEF IInv, LocalsOK, LocalOK, Connected, Statements
<1>2. call[q].proc = call[r].proc BY <1>1 DEF OneProcess
<1>3. Holders BY HolderIff DEF IInv
<1> QED BY <1>1, <1>2, <1>3 DEF Holders, Holder

\* Between a delete's UPDATE and its SELECT no link is created.
LEMMA WhyStep ==
  ASSUME OneProcess, IInv, IInv', WhyOK, [Next]_vars
  PROVE  WhyOK'
<1> SUFFICES ASSUME NEW r \in Reqs, pc'[r] = "why" PROVE links'[call'[r].name].state # "live"
  BY DEF WhyOK
<1>a. TypeOK /\ LocalsOK /\ LocalOK(r)' BY DEF IInv, LocalsOK
<1>n. call'[r].name \in Names BY <1>a DEF LocalOK, Connected, Statements
<1>1. CASE Tombstone(r)
  <2>1. links[call[r].name].state # "live" /\ UNCHANGED <<links, call>>
    BY <1>1, <1>a DEF Tombstone, Written, Goto, TypeOK
  <2> QED BY <2>1
<1>2. CASE pc[r] = "why" /\ call'[r] = call[r]
  <2> DEFINE n == call[r].name
  <2>1. n \in Names /\ links[n].state # "live" BY <1>2, <1>n DEF WhyOK
  <2>2. links[n] \in Row BY <1>a, <2>1 DEF TypeOK
  <2>3. CASE links[n].state # "absent" BY <1>2, <1>a, <2>1, <2>3, RepointStep
  <2>4. CASE links[n].state = "absent"
    <3>1. ASSUME NEW q \in Reqs, NEW m \in Names, Fills(q, m) PROVE FALSE
      <4>1. q = r BY <1>2, <3>1, AloneConnected DEF Fills, Connected, Statements
      <4> QED BY <1>2, <3>1, <4>1 DEF Fills
    <3>2. ASSUME NEW q \in Reqs, Counted(q) PROVE links'[n].state # "live"
      BY <1>a, <2>1, <3>2, CountedRow
    <3>3. ASSUME NEW q \in Reqs, Buries(q) PROVE links'[n].state # "live"
      BY <1>a, <2>1, <2>4, <3>3, BuriesRow DEF TypeOK
    <3>4. UNCHANGED tables => links'[n].state # "live" BY <2>1 DEF tables
    <3> QED BY <1>2, <1>a, <3>1, <3>2, <3>3, <3>4, OnlyThreeWrite DEF Writes
  <2> QED BY <2>3, <2>4
<1>3. ASSUME NEW q \in Reqs, Serve(q) \/ \E p \in Procs : Send(q, p), q # r
      PROVE  pc[r] = "why" /\ call'[r] = call[r]
  BY <1>3, <1>a, OthersUntouched DEF Untouched
<1>4. ASSUME Serve(r) PROVE Tombstone(r)
  <2>1. FirstPlace(call[r].op) # "why" BY DEF FirstPlace
  <2>2. ~ Connect(r)
    BY <1>a, <2>1 DEF Connect, Finish, Goto, TypeOK
  <2>3. ~ CreateGenerated(r)
    BY <1>a DEF CreateGenerated, Insert, Finish, Written, Goto, TypeOK
  <2>4. ~ (\/ ConnectFails(r) \/ Close(r) \/ Respond(r) \/ Busy(r) \/ Settle(r)
           \/ Validate(r) \/ CreateNamed(r))
    BY <1>a DEF ConnectFails, Close, Respond, Busy, Settle, Validate, CreateNamed, Insert,
                Finish, Written, Goto, TypeOK
  <2>5. ~ (\/ Lookup(r) \/ Expiry(r) \/ ReadDay(r) \/ RecordFollow(r)
           \/ Why(r) \/ Stats(r) \/ Collect(r))
    BY <1>a DEF Lookup, Expiry, ReadDay, RecordFollow, Why, Stats, Collect,
                Finish, Written, Goto, TypeOK
  <2> QED BY <1>4, <2>2, <2>3, <2>4, <2>5 DEF Serve
<1>5. ASSUME NEW p \in Procs, Send(r, p) PROVE FALSE
  BY <1>5, <1>a DEF Send, Goto, TypeOK
<1>6. ASSUME NEW p \in Procs, Crash(p) PROVE pc[r] = "why" /\ call'[r] = call[r]
  BY <1>6 DEF Crash
<1>7. UNCHANGED <<pc, call>> => pc[r] = "why" /\ call'[r] = call[r] OBVIOUS
<1> QED
  BY <1>1, <1>2, <1>3, <1>4, <1>5, <1>6, <1>7 DEF Next, Restart, Tick, vars

\* A delete is told 410 by Why, and by nothing else.
LEMMA GoneByWhy ==
  ASSUME IInv, [Next]_vars, NEW r \in Reqs, call[r].op = "delete",
         answer[r].status # 410, answer'[r].status = 410
  PROVE  Why(r) /\ UNCHANGED <<links, call>>
<1>a. TypeOK /\ LocalsOK /\ LocalOK(r) BY DEF IInv, LocalsOK
<1>b. /\ \A status : Says(status).status = status
      /\ \A status, n, url : Wrote(status, n, url).status = status
      /\ \A S : Report(S).status = 200
  BY DEF Says, Wrote, Report
<1>1. ASSUME NEW q \in Reqs, Serve(q) \/ \E p \in Procs : Send(q, p), q # r
      PROVE  FALSE
  BY <1>1, <1>a, OthersUntouched DEF Untouched
<1>2. ASSUME Serve(r) PROVE Why(r)
  <2>1. ~ (Close(r) \/ Respond(r) \/ Settle(r) \/ Connect(r) \/ ConnectFails(r) \/ Busy(r))
    <3>1. ~ (Close(r) \/ Respond(r)) BY DEF Close, Respond
    <3>2. ~ Settle(r)
      BY <1>a, <1>b, Gives DEF Settle
    <3>3. ~ Busy(r) BY <1>a, <1>b, Gives DEF Busy
    <3>4. ~ ConnectFails(r)
      BY <1>a, <1>b DEF ConnectFails, Decide, TypeOK
    <3>5. ~ Connect(r)
      <4> SUFFICES ASSUME Connect(r) PROVE FALSE OBVIOUS
      <4>1. Unusable(r) /\ Finish(r, Says(404)) BY DEF Connect
      <4> QED BY <1>a, <1>b, <4>1, Gives
    <3> QED BY <3>1, <3>2, <3>3, <3>4, <3>5
  <2>2. ~ Tombstone(r)
    <3>1. ~ (Tombstone(r) /\ Written(r, Wrote(204, call[r].name, Null)))
      BY <1>a, <1>b, Gives
    <3> QED BY <3>1 DEF Tombstone
  <2> QED BY <1>2, <1>a, <2>1, <2>2
      DEF Serve, LocalOK, Validate, CreateNamed, CreateGenerated, Lookup, Expiry, ReadDay, RecordFollow,
          Stats, Collect
<1>3. ASSUME NEW p \in Procs, Send(r, p) PROVE FALSE BY <1>3 DEF Send
<1>4. ASSUME NEW p \in Procs, Crash(p) PROVE FALSE
  BY <1>4, <1>b DEF Crash
<1>5. Why(r)
  BY <1>1, <1>2, <1>3, <1>4 DEF Next, Restart, Tick, vars
<1> QED BY <1>5, <1>a, Gives DEF Why, world

\* A delete told 410 asked why, of a row that is still deleted.
LEMMA GoneStep ==
  ASSUME IInv, WhyOK, GoneNamed, GoneMeansDeleted, [Next]_vars
  PROVE  GoneNamed' /\ GoneMeansDeleted'
<1> SUFFICES ASSUME NEW r \in Reqs, call'[r].op = "delete", answer'[r].status = 410
             PROVE  call'[r].name \in Names /\ links'[call'[r].name].state = "deleted"
  BY DEF GoneNamed, GoneMeansDeleted
<1>a. TypeOK /\ LocalsOK /\ LocalOK(r) BY DEF IInv, LocalsOK
<1>1. pc[r] # "unsent"
  <2>1. CASE answer[r].status = 410 BY <1>a, <2>1 DEF LocalOK, Says, Wrote
  <2>2. CASE answer[r].status # 410
    <3> SUFFICES ASSUME pc[r] = "unsent" PROVE FALSE OBVIOUS
    <3>1. answer[r] = Says(0) BY <1>a DEF LocalOK
    <3>2. \/ answer' = answer \/ Serve(r)
          \/ \E q \in Reqs : q # r /\ Serve(q)
          \/ \E p \in Procs : Crash(p)
      BY DEF Next, Send, Restart, Tick, vars
    <3>3. ~ Serve(r)
      BY DEF Serve, Connect, ConnectFails, Close, Respond, Busy, Settle, Validate, CreateNamed,
             CreateGenerated, Lookup, Expiry, ReadDay, RecordFollow, Tombstone, Why, Stats, Collect,
             Statements
    <3>4. ASSUME NEW q \in Reqs, q # r, Serve(q) PROVE answer'[r] = answer[r]
      BY <1>a, <3>4, OthersUntouched DEF Untouched
    <3>5. ASSUME NEW p \in Procs, Crash(p) PROVE answer'[r] = answer[r]
      BY <3>5 DEF Crash, InFlight, Connected, Statements
    <3> QED BY <2>2, <3>2, <3>3, <3>4, <3>5
  <2> QED BY <2>1, <2>2
<1>2. call'[r] = call[r]
  <2>1. ASSUME NEW q \in Reqs, q # r, Serve(q) \/ \E p \in Procs : Send(q, p) PROVE call'[r] = call[r]
    BY <1>a, <2>1, OthersUntouched DEF Untouched
  <2>2. ASSUME Serve(r) PROVE call'[r] = call[r]
    <3>1. CASE Writes(r)
      <4>1. ASSUME NEW n \in Names, Fills(r, n) PROVE call' = call BY <4>1, <1>a, Gives DEF Fills, Insert
      <4>2. ASSUME Counted(r) PROVE call' = call
        BY <4>2, <1>a, Gives DEF Counted, RecordFollow
      <4>3. ASSUME Buries(r) PROVE call' = call BY <4>3, <1>a, Gives DEF Buries, Tombstone
      <4> QED BY <3>1, <4>1, <4>2, <4>3 DEF Writes
    <3>2. CASE ~ Writes(r) BY <1>a, <2>2, <3>2, OtherAnswers
    <3> QED BY <3>1, <3>2
  <2>3. ASSUME NEW p \in Procs, Send(r, p) PROVE FALSE BY <1>1, <2>3 DEF Send
  <2> QED BY <2>1, <2>2, <2>3 DEF Next, Crash, Restart, Tick, vars
<1>3. CASE answer[r].status = 410
  <2>1. links[call[r].name].state = "deleted" BY <1>2, <1>3 DEF GoneMeansDeleted
  <2>2. call[r].name \in Names
    BY <1>2, <1>3 DEF GoneNamed
  <2> QED BY <1>2, <1>a, <2>1, <2>2, NamesOnlyAge
<1>4. CASE answer[r].status # 410
  <2>1. Why(r) /\ UNCHANGED <<links, call>> BY <1>2, <1>4, GoneByWhy
  <2>2. pc[r] = "why" /\ links[call[r].name].state # "absent"
    BY <2>1, <1>a, Gives DEF Why, Says, Wrote
  <2>3. call[r].name \in Names BY <1>a, <2>2 DEF LocalOK, Connected, Statements
  <2>4. links[call[r].name] \in Row BY <1>a, <2>3 DEF TypeOK
  <2> QED BY <2>1, <2>2, <2>3, <2>4 DEF WhyOK, Row
<1> QED BY <1>3, <1>4

\* What holds throughout with one process
LEMMA Alone == OneProcess => (Spec => []AloneInv)
<1> SUFFICES ASSUME OneProcess PROVE Spec => []AloneInv OBVIOUS
<1>1. Init => WhyOK /\ GoneNamed /\ GoneMeansDeleted
  BY DEF Init, WhyOK, GoneNamed, GoneMeansDeleted, Says, Wrote
<1>2. AloneInv /\ ReadInv' /\ [Next]_vars => AloneInv'
  BY WhyStep, GoneStep DEF AloneInv, ReadInv
<1> QED BY <1>1, <1>2, Readings, PTL DEF Spec, AloneInv

\* With one process a delete answers 410 only for a link that is deleted
\* (links.py, delete; ADR-0011).
THEOREM OneProcessDeletesHonestly == OneProcess => (Spec => []GoneMeansDeleted)
<1>1. AloneInv => GoneMeansDeleted BY DEF AloneInv
<1> QED BY <1>1, Alone, PTL

\* With one process the store's exception is never taken.
LEMMA NeverFalseGone ==
  ASSUME AloneInv, GoneMeansDeleted', [Next]_vars, NEW r \in Reqs
  PROVE  ~ Store!FalseGone(r)
<1> SUFFICES ASSUME Store!FalseGone(r) PROVE FALSE OBVIOUS
<1>a. IInv /\ TypeOK /\ LocalOK(r) BY DEF AloneInv, ReadInv, IInv, LocalsOK
<1>1. Store!Says(410) = Says(410) BY AnswersMatch
<1>2. StageOf(pc[r]) = "open" /\ call[r].op = "delete" /\ call[r].name \in Names
      /\ StoreOf(links[call[r].name]).phase = "live"
  BY DEF Store!FalseGone, Store!Undecided
<1>3. answer'[r] = Says(410)
  <2> DEFINE asks == [q \in Reqs |-> AskOf(q)]
  <2>1. asks' = [asks EXCEPT ![r] = [@ EXCEPT !.stage = "decided", !.answer = Store!Says(410)]]
    BY DEF Store!FalseGone, Store!Decide, AskOf
  <2>2. asks[r] = [stage |-> StageOf(pc[r]), op |-> call[r].op, name |-> call[r].name,
                   lasts |-> call[r].expires, since |-> call[r].since, answer |-> answer[r]]
    BY DEF AskOf
  <2>3. asks'[r].answer = Store!Says(410)
    <3> HIDE DEF asks
    <3>1. asks'[r] = [asks[r] EXCEPT !.stage = "decided", !.answer = Store!Says(410)]
      <4>1. r \in DOMAIN asks BY DEF asks
      <4> QED BY <2>1, <4>1
    <3> QED BY <2>2, <3>1
  <2>4. asks'[r].answer = answer'[r] BY DEF AskOf
  <2> QED BY <1>1, <2>3, <2>4
<1>4. answer[r].status # 410 /\ answer'[r].status = 410
  BY <1>2, <1>3, <1>a DEF LocalOK, StageOf, Says, Wrote
<1>5. Why(r) /\ UNCHANGED <<links, call>> BY <1>2, <1>4, <1>a, GoneByWhy
<1>6. links[call[r].name].state = "live" BY <1>2, <1>a, StoreForms DEF TypeOK
<1> QED BY <1>5, <1>6 DEF AloneInv, WhyOK, Why

\* With one process every answer of the service is one that a store taking
\* each request at one instant could give, through every fault and crash
\* (app.py's handlers, one connection at a time: get_conn).
THEOREM OneProcessIsAtomic == OneProcess => (Spec => Atomic)
<1> SUFFICES ASSUME OneProcess PROVE Spec => Atomic OBVIOUS
<1>1. Init => Store!Init BY StoreInit
<1>2. AloneInv /\ AloneInv' /\ [Next]_vars => [Store!Next]_(Store!vars)
  <2>1. AloneInv /\ [Next]_vars => [Store!WeakNext]_(Store!vars) BY StepMatches DEF AloneInv
  <2>2. AloneInv /\ AloneInv' /\ [Next]_vars => \A r \in Reqs : ~ Store!FalseGone(r)
    BY NeverFalseGone DEF AloneInv
  <2> QED BY <2>1, <2>2 DEF Store!WeakNext
<1> QED BY <1>1, <1>2, Alone, PTL DEF Spec, Atomic, Store!Spec
=============================================================================
