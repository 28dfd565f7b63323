---------------------------- MODULE RequestPath -----------------------------
(***************************************************************************)
(* The way of a request through one service process: the body limit, the   *)
(* dependencies of its route, the turn at the one connection, and what of  *)
(* it runs on a worker thread.                                             *)
(*                                                                         *)
(* The event loop runs one step at a time.  A synchronous dependency or    *)
(* handler, and every call of run_in_threadpool, is a job of the pool,     *)
(* which has Workers threads and serves those who wait for one in order    *)
(* of arrival; so does anyio.Lock with those who wait for their turn.      *)
(* Clients send requests for ever, and may stop sending a body, or never   *)
(* read an answer.  What the handlers do with the connection is the        *)
(* subject of LinkService.                                                 *)
(***************************************************************************)
EXTENDS Integers, Sequences, FiniteSets

CONSTANTS
  Clients,   \* connections of clients, each with one request at a time
  Routes,    \* the routes clients ask for
  Workers,   \* threads of the pool
  Limit,     \* _MAX_BODY_BYTES, in units of a chunk
  Chunked,   \* a body whose length is not declared
  None       \* no answer yet

ASSUME ConstantsAssumption ==
  /\ Routes \subseteq {"create", "delete", "stats", "page", "follow", "privacy", "nowhere"}
  /\ "nowhere" \in Routes
  /\ Workers \in Nat \ {0}
  /\ Limit \in Nat \ {0}
  /\ Chunked \notin Nat

VARIABLES
  place,     \* Clients -> where its request is
  req,       \* Clients -> the head of its request
  body,      \* Clients -> what the application has been given of the body
  line,      \* app.state.db_lock: its holder, and who waits for it, in order
  pool,      \* the worker threads: who has one, and who waits for one, in order
  answer     \* Clients -> the answer, from when it is decided

vars == <<place, req, body, line, pool, answer>>

-----------------------------------------------------------------------------
(* Requests and their bodies *)

Keyed    == {"create", "delete", "stats", "page"}   \* need the team key
WithConn == Keyed \cup {"follow"}                   \* depend on get_conn

Request == [route : Routes, key : BOOLEAN, declared : (0 .. Limit + 1) \cup {Chunked}]

\* What has been received: how much of it, whether as JSON it is nothing
\* ("none"), cannot be parsed ("part") or can ("whole"), and over_limit.
Body == [got : 0 .. Limit, text : {"none", "part", "whole"}, hit : BOOLEAN]

NoBody == [got |-> 0, text |-> "none", hit |-> FALSE]

OnThread == {"limit", "key", "connect", "handle", "owed", "close", "manifest"}  \* jobs of the pool
InTurn   == {"connect", "handle", "owed", "close"}   \* the lock is this request's
OnClient == {"idle", "reading", "sending"}           \* the client's move
Places   == OnThread \cup OnClient \cup {"waiting"}

\* A connection of a client between two requests
Blank == [route |-> "nowhere", key |-> FALSE, declared |-> 0]

Init ==
  /\ place = [c \in Clients |-> "idle"]
  /\ req = [c \in Clients |-> Blank]
  /\ body = [c \in Clients |-> NoBody]
  /\ line = <<>>
  /\ pool = [busy |-> {}, queue |-> <<>>]
  /\ answer = [c \in Clients |-> None]

\* An answer, and whether the body it answers went over the limit: declared
\* so, or cut off.
Answer == [status : {200, 400, 401, 404, 413, 422, 500}, over : BOOLEAN]

\* What is answered to a request of whose body b was received
Said(status, b) == [status |-> status, over |-> b.hit]

\* What the application is given of a body that is cut off
Cut(b) == [got |-> b.got, text |-> b.text, hit |-> TRUE]

-----------------------------------------------------------------------------
(* The pool and the lock *)

\* Broken: a thread for everybody who asks.
EnterAlways(p, c) == [p EXCEPT !.busy = @ \cup {c}]

\* Ask for a thread.
Enter(p, c) ==
  IF p.queue = <<>> /\ Cardinality(p.busy) < Workers
  THEN [p EXCEPT !.busy = @ \cup {c}]
  ELSE [p EXCEPT !.queue = Append(@, c)]

\* Give one's thread to who has waited longest.
Leave(p, c) ==
  IF p.queue = <<>>
  THEN [p EXCEPT !.busy = @ \ {c}]
  ELSE [busy |-> (p.busy \ {c}) \cup {Head(p.queue)}, queue |-> Tail(p.queue)]

Members(q) == {q[i] : i \in DOMAIN q}

Go(c, there) == place' = [place EXCEPT ![c] = there]

\* The answer is decided: nothing of the request is looked at again.
Decide(c, a) ==
  /\ answer' = [answer EXCEPT ![c] = a]
  /\ req' = [req EXCEPT ![c] = Blank]
  /\ body' = [body EXCEPT ![c] = NoBody]

\* Broken: a threading.Lock, waited for on the worker thread.
TakeTurnOnThread(c, p) ==
  /\ line' = Append(line, c)
  /\ IF line = <<>>
     THEN Go(c, "connect") /\ pool' = Enter(p, c)
     ELSE Go(c, "waiting") /\ pool' = pool

\* Broken: the lock goes to who has come last.
TakeTurnNewestFirst(c, p) ==
  /\ line' = IF line = <<>> THEN <<c>> ELSE <<line[1], c>> \o Tail(line)
  /\ IF line = <<>>
     THEN Go(c, "connect") /\ pool' = Enter(p, c)
     ELSE Go(c, "waiting") /\ pool' = p

\* async with db_lock: the head of the line goes on to db.connect; p is the
\* pool as the request's previous job left it.
TakeTurn(c, p) ==
  /\ line' = Append(line, c)
  /\ IF line = <<>>
     THEN Go(c, "connect") /\ pool' = Enter(p, c)
     ELSE Go(c, "waiting") /\ pool' = p

\* Release hands the lock to who has waited longest, whose db.connect asks
\* for a thread; the response is written only now.
EndTurn(c) ==
  /\ line' = Tail(line)
  /\ IF Len(line) = 1
     THEN Go(c, "sending") /\ pool' = Leave(pool, c)
     ELSE /\ place' = [place EXCEPT ![c] = "sending", ![line[2]] = "connect"]
          /\ pool' = Enter(Leave(pool, c), line[2])

\* The job of c at this place is done by a thread.
Runs(c, here) == place[c] = here /\ c \in pool.busy

\* On to the next job
Submit(c, there) == Go(c, there) /\ pool' = Enter(pool, c)
Resubmit(c, there) == Go(c, there) /\ pool' = Enter(Leave(pool, c), c)

-----------------------------------------------------------------------------
(* A request arrives *)

Oversized(r) == r.declared # Chunked /\ r.declared > Limit

\* Of a body nobody reads only a declared length over the limit matters.
Requests == {r \in Request : /\ r.route # "create" => r.declared \in {0, Limit + 1}
                             /\ r.route \notin Keyed => r.key}

\* BodyLimitMiddleware refuses a declared length unread, on any route; then
\* the router; then the first dependency of the route that has to be waited
\* for: FastAPI reads a create's body before its other dependencies.
Arrive(c) ==
  /\ place[c] = "idle"
  /\ \E r \in Requests :
       /\ \/ /\ Oversized(r)
             /\ Go(c, "sending") /\ Decide(c, Said(413, Cut(NoBody)))
             /\ UNCHANGED <<line, pool>>
          \/ /\ ~ Oversized(r) /\ r.route = "create"
             /\ Go(c, "reading")
             /\ req' = [req EXCEPT ![c] = r]
             /\ UNCHANGED <<body, line, pool, answer>>
          \/ /\ ~ Oversized(r) /\ r.route \in Keyed \ {"create"}
             /\ Submit(c, "key")
             /\ req' = [req EXCEPT ![c] = r]
             /\ UNCHANGED <<body, line, answer>>
          \/ /\ ~ Oversized(r) /\ r.route = "follow"
             /\ TakeTurn(c, pool)
             /\ req' = [req EXCEPT ![c] = r]
             /\ UNCHANGED <<body, answer>>
          \/ /\ ~ Oversized(r) /\ r.route = "privacy"
             /\ Submit(c, "manifest")
             /\ req' = [req EXCEPT ![c] = r]
             /\ UNCHANGED <<body, line, answer>>
          \/ /\ ~ Oversized(r) /\ r.route = "nowhere"
             /\ Go(c, "sending") /\ Decide(c, Said(404, NoBody))
             /\ UNCHANGED <<line, pool>>

\* The body has ended: what cannot be parsed is refused there and then,
\* before the dependencies.
Parse(c, b) ==
  \/ /\ b.text = "part"
     /\ Go(c, "sending") /\ Decide(c, Said(422, b))
     /\ UNCHANGED <<line, pool>>
  \/ /\ b.text # "part"           \* its length has served
     /\ Submit(c, "limit")
     /\ body' = [body EXCEPT ![c] = [b EXCEPT !.got = 0]]
     /\ req' = [req EXCEPT ![c].declared = 0]
     /\ UNCHANGED <<line, answer>>

\* What a body whose first part was b may be after n more units
Longer(b, n) == {[b EXCEPT !.got = @ + n, !.text = t] :
                   t \in IF n = 0 THEN {b.text} ELSE {"part", "whole"}}

\* receive_counting: a message of the body.  The one that goes over the
\* limit is replaced by an empty last one, and the flag is set.
Receive(c) ==
  /\ place[c] = "reading"
  /\ \E n \in 0 .. Limit + 1, more \in BOOLEAN :
       LET b == body[c]
           total == b.got + n IN
       /\ req[c].declared # Chunked =>
            total <= req[c].declared /\ (more <=> total < req[c].declared)
       /\ n = 0 => ~ more
       /\ \/ /\ total > Limit
             /\ Parse(c, Cut(b))
          \/ /\ total <= Limit /\ more
             /\ \E longer \in Longer(b, n) : body' = [body EXCEPT ![c] = longer]
             /\ UNCHANGED <<place, req, line, pool, answer>>
          \/ /\ total <= Limit /\ ~ more
             /\ \E longer \in Longer(b, n) : Parse(c, longer)

\* The client is gone in the middle of its body.
Disconnect(c) ==
  /\ place[c] = "reading"
  /\ Go(c, "sending") /\ Decide(c, Said(400, body[c]))
  /\ UNCHANGED <<line, pool>>

-----------------------------------------------------------------------------
(* The jobs of a request *)

\* The handler or a dependency refuses before the connection is asked for.
Reply(c, a) ==
  /\ Go(c, "sending") /\ Decide(c, a)
  /\ pool' = Leave(pool, c)
  /\ UNCHANGED line

\* Broken: the flag is not looked at.
NoLimitCheck(c) ==
  /\ Runs(c, "limit")
  /\ Resubmit(c, "key") /\ UNCHANGED <<req, body, line, answer>>

\* Broken: the route lists require_key before body_within_limit.
KeyBeforeLimit(c) ==
  /\ Runs(c, "limit")
  /\ \/ ~ req[c].key /\ Reply(c, Said(401, body[c]))
     \/ req[c].key /\ body[c].hit /\ Reply(c, Said(413, body[c]))
     \/ /\ req[c].key /\ ~ body[c].hit
        /\ Resubmit(c, "key") /\ UNCHANGED <<req, body, line, answer>>

\* body_within_limit
BodyWithinLimit(c) ==
  /\ Runs(c, "limit")
  /\ \/ body[c].hit /\ Reply(c, Said(413, body[c]))
     \/ ~ body[c].hit /\ Resubmit(c, "key") /\ UNCHANGED <<req, body, line, answer>>

\* require_key, require_basic_key
RequireKey(c) ==
  /\ Runs(c, "key")
  /\ \/ ~ req[c].key /\ Reply(c, Said(401, body[c]))
     \/ req[c].key /\ TakeTurn(c, Leave(pool, c)) /\ UNCHANGED <<req, body, answer>>

\* db.connect: if it raises, the turn is over.  A body that is not a
\* CreateLink, or none at all, is found out when all dependencies are there.
Connect(c) ==
  /\ Runs(c, "connect")
  /\ \/ /\ req[c].route = "create" => body[c].text = "whole"
        /\ Resubmit(c, "handle")
        /\ UNCHANGED <<req, body, line, answer>>
     \/ /\ req[c].route = "create"
        /\ Resubmit(c, "owed") /\ Decide(c, Said(422, body[c]))
        /\ UNCHANGED line
     \/ EndTurn(c) /\ Decide(c, Said(500, body[c]))

\* The handler answers (200 stands for all it may say), or raises what
\* nobody catches.
Handle(c) ==
  /\ Runs(c, "handle")
  /\ Resubmit(c, "owed")
  /\ \E status \in {200, 500} : Decide(c, Said(status, body[c]))
  /\ UNCHANGED line

\* settle_owed: sqlite3.Error is swallowed; an OSError takes the answer's
\* place; the connection is closed either way.
SettleOwed(c) ==
  /\ Runs(c, "owed")
  /\ Resubmit(c, "close")
  /\ answer' = answer \/ answer' = [answer EXCEPT ![c].status = 500]
  /\ UNCHANGED <<req, body, line>>

\* Broken: the connection is closed when the response has been sent.
CloseAfterResponse(c) ==
  /\ Runs(c, "close")
  /\ Go(c, "sending") /\ pool' = Leave(pool, c)
  /\ UNCHANGED <<req, body, line, answer>>

\* conn.close, the end of get_conn with scope="function"
Close(c) ==
  /\ Runs(c, "close")
  /\ EndTurn(c)
  /\ UNCHANGED <<req, body, answer>>

\* privacy_manifest depends on nothing.
Manifest(c) == Runs(c, "manifest") /\ Reply(c, Said(200, body[c]))

\* The client has read its answer, or has gone.
Sent(c) ==
  /\ place[c] = "sending"
  /\ Go(c, "idle")
  /\ answer' = [answer EXCEPT ![c] = None]
  /\ UNCHANGED <<req, body, line, pool>>

\* What the service does for a request it has in hand
Serve(c) ==
  \/ BodyWithinLimit(c) \/ RequireKey(c) \/ Connect(c) \/ Handle(c)
  \/ SettleOwed(c) \/ Close(c) \/ Manifest(c)

Next == \E c \in Clients : Arrive(c) \/ Receive(c) \/ Disconnect(c) \/ Serve(c) \/ Sent(c)

Spec == Init /\ [][Next]_vars

\* A thread that has a job finishes it.  Nothing is assumed of clients: they
\* may stop in the middle of a body, and never take an answer.
FairSpec == Spec /\ \A c \in Clients : WF_vars(Serve(c))

-----------------------------------------------------------------------------
(* Properties *)

\* Who waits for a thread of p or has one is exactly who has a job, S, nobody
\* twice; no more threads than there are, and none idle while
\* somebody waits for it (anyio's CapacityLimiter under run_in_threadpool).
PoolFor(p, S) ==
  /\ IsFiniteSet(p.busy)
  /\ p.busy \cap Members(p.queue) = {}
  /\ p.busy \cup Members(p.queue) = S
  /\ \A i, j \in DOMAIN p.queue : p.queue[i] = p.queue[j] => i = j
  /\ Cardinality(p.busy) <= Workers
  /\ p.queue # <<>> => Cardinality(p.busy) = Workers

PoolOK == PoolFor(pool, {c \in Clients : place[c] \in OnThread})

ShapesOK ==
  /\ place \in [Clients -> Places]
  /\ req \in [Clients -> Request]
  /\ body \in [Clients -> Body]
  /\ line \in Seq(Clients)
  /\ pool \in [busy : SUBSET Clients, queue : Seq(Clients)]
  /\ answer \in [Clients -> Answer \cup {None}]

\* Every variable keeps its shape, and every job is in the pool once.
TypeOK == ShapesOK /\ PoolOK

\* From connect to close a request is alone: it is the head of the line, and
\* whoever else is in the line waits; no failure leaves a request in the
\* line that is through (app.py, get_conn; ADR-0021 decision 7).
OneConnection ==
  /\ \A i \in DOMAIN line : place[line[i]] \in IF i = 1 THEN InTurn ELSE {"waiting"}
  /\ \A c \in Clients : place[c] \in InTurn \cup {"waiting"} => c \in Members(line)

\* A request whose next step is the client's holds neither a thread nor the
\* turn, and one that waits for its turn holds no thread: a client that
\* stops sending or reading, and a line of any length, take nothing from the
\* request that has the turn (app.py:334-345).
WaitingHoldsNothing ==
  \A c \in Clients :
    /\ place[c] \in OnClient \cup {"waiting"} => c \notin pool.busy \cup Members(pool.queue)
    /\ place[c] \in OnClient => c \notin Members(line)

\* However the excess of a chunked body arrives, before or after what parses
\* as JSON, a request that was cut off is not given the turn, let alone
\* handled; nor is one without the team key where one is needed
\* (app.py:132-136, 357-368, 370-387).
OnlyAdmittedTakeTurns ==
  \A c \in Clients : place[c] \in InTurn \cup {"waiting"} =>
    /\ ~ body[c].hit
    /\ req[c].route \in Keyed => req[c].key
    /\ place[c] = "handle" /\ req[c].route = "create" => body[c].text = "whole"

\* A request whose body went over the limit is told so, whatever its key, its
\* route and what fails, and nobody else is: 413, or 422 if what was let
\* through before the excess cannot be parsed (app.py:110-147, 357-368).
OverLimitIsRefused ==
  \A c \in Clients : answer[c] # None =>
    /\ answer[c].over => answer[c].status \in {413, 422}
    /\ answer[c].status = 413 => answer[c].over

\* Who is in a queue has no more before him in the new one.
KeepsItsPlace(c, old, new) == \A i \in DOMAIN old : old[i] = c => \E j \in DOMAIN new : j <= i /\ new[j] = c

\* Nobody is overtaken: who waits for the turn, or for a thread, has no more
\* before him after a step than he had, however many requests keep coming and
\* whichever fail (app.py:334-345, anyio's Lock and CapacityLimiter).
FirstComeFirstServed ==
  [][\A c \in Clients :
       /\ place[c] = "waiting" => KeepsItsPlace(c, line, line')
       /\ c \in pool'.busy \/ KeepsItsPlace(c, pool.queue, pool'.queue)]_vars

\* With requests arriving without end and clients that never read their
\* answers, a request whose body is complete gets its answer.
EveryoneIsAnswered ==
  \A c \in Clients : place[c] \in OnThread \cup {"waiting"} ~> place[c] = "sending"

-----------------------------------------------------------------------------
(* The inductive invariant *)

\* Nobody is in the line twice: who is let go is not in it any more.
OnceInLine == \A i, j \in DOMAIN line : line[i] = line[j] => i = j

\* The flag is read by the first job after it is set.
HitsAreLooked == \A c \in Clients : body[c].hit => place[c] = "limit"

\* Who has yet to pay what is owed has its answer, and was not cut off.
OwedAreAnswered ==
  \A c \in Clients : place[c] \in {"owed", "close"} => answer[c] \in Answer /\ ~ answer[c].over

PathInv ==
  /\ TypeOK /\ OneConnection /\ OnceInLine
  /\ HitsAreLooked /\ OnlyAdmittedTakeTurns /\ OwedAreAnswered
=============================================================================
