---------------------------- MODULE LinkService ----------------------------
(***************************************************************************)
(* The request handlers of app.py and the statements of links.py,          *)
(* counts.py and stats.py, run by one or more service processes over one   *)
(* SQLite file.  Each SQL statement commits on its own                     *)
(* (isolation_level=None), so it is one step; between two statements of a  *)
(* handler the clock ticks, requests of the other processes take their     *)
(* steps, statements fail with "database is locked", and a process dies.   *)
(*                                                                         *)
(* Within a process a request holds the only connection from connect to    *)
(* close (get_conn); its answer leaves after that.  A create carries a URL *)
(* and a maker of its own, both named by the request.  A name of Null is   *)
(* one that names.normalise refuses.  What settle does to the file's bytes *)
(* is the subject of DbFile; here it is a step that may raise after the    *)
(* write has committed.                                                    *)
(***************************************************************************)
EXTENDS Integers, FiniteSets

CONSTANTS
  Procs,       \* service processes sharing the database file
  NumReqs,     \* bound: how many requests are sent
  Names,       \* names in normal form
  Generable,   \* the names the generator can draw
  Ops,         \* the operations clients use
  Spellings,   \* the names clients write: members of Names, or Null
  Lifetimes,   \* the expires values a create may carry
  Faults,      \* what goes wrong: "connect", "busy", "settle", "crash"
  Attempts,    \* links.GENERATE_ATTEMPTS
  MaxTime,     \* bound: the clock stops here
  DayLength,   \* clock units in a day
  Never,       \* expires_at IS NULL
  Empty,       \* the target of a tombstone, the empty string
  Null         \* no value

ASSUME ConstantsAssumption ==
  /\ Generable \subseteq Names
  /\ Ops \subseteq {"create", "generate", "follow", "delete", "stats", "page"}
  /\ Spellings \subseteq Names \cup {Null}
  /\ Lifetimes \subseteq Nat
  /\ Attempts \in Nat \ {0}
  /\ MaxTime \in Nat
  /\ DayLength \in Nat \ {0}
  /\ NumReqs \in Nat
  /\ Never \notin Nat /\ Empty \notin Nat
  /\ Null \notin Nat /\ Null \notin Names

VARIABLES
  links,       \* the links table, by its UNIQUE name
  counts,      \* the daily_counts table: 0 is "no row"
  now,         \* what links._now() and counts._epoch_seconds() read
  up,          \* which processes are running
  lock,        \* Procs -> the request holding app.state.db_lock
  pc,          \* Reqs -> the place of the request's handler
  call,        \* Reqs -> what was asked, of whom and when
  at,          \* Reqs -> the handler's reading of the clock
  seen,        \* Reqs -> the row links.lookup read
  tries,       \* Reqs -> collisions of links.create_generated
  answer       \* Reqs -> the answer, from when it is decided

\* Requests, numbered in the order they are sent
Reqs == 1 .. NumReqs

tables == <<links, counts>>
world  == <<links, counts, now, up, lock>>
vars   == <<links, counts, now, up, lock, pc, call, at, seen, tries, answer>>

Time   == 0 .. MaxTime
Day(t) == t \div DayLength
Days   == {Day(t) : t \in Time}

-----------------------------------------------------------------------------
(* Rows *)

\* deleted_at IS NULL is "live"; no row is "absent".
NoRow == [state |-> "absent", target |-> Empty, created_by |-> Null,
          created_at |-> 0, expires_at |-> Never]

Row == [state : {"absent", "live", "deleted"}, target : Reqs \cup {Empty},
        created_by : Reqs \cup {Null}, created_at : Time,
        expires_at : Lifetimes \cup {Never}]

NoCounts == [d \in Days |-> 0]

\* links.is_expired at the moment t
IsExpired(expires_at, t) == expires_at # Never /\ expires_at <= t

LiveNames == {n \in Names : links[n].state = "live"}

-----------------------------------------------------------------------------
(* Requests *)

\* The SQL statements a handler can be about to execute are the places
\* "insert", "lookup", "count", "tombstone", "why", "stats" and "collect".
Places == {"unsent", "waiting", "validate", "insert", "lookup", "expiry", "day", "count",
           "tombstone", "why", "stats", "collect", "settle", "closing", "sending",
           "answered", "lost"}
Statements == {"insert", "lookup", "count", "tombstone", "why", "stats", "collect"}
\* The places where a request owns its process's connection
Connected  == {"validate", "expiry", "day", "settle", "closing"} \cup Statements
InFlight   == Connected \cup {"waiting", "sending"}

Request == [op : Ops \cup {Null}, proc : Procs \cup {Null}, name : Names \cup {Null},
            expires : Lifetimes \cup {Never}, since : Time, gone : SUBSET Names]

NoRequest == [op |-> Null, proc |-> Null, name |-> Null, expires |-> Never, since |-> 0,
              gone |-> {}]

Statuses == {0, 200, 201, 204, 302, 404, 409, 410, 422, 500, 503}

\* An answer: the name a write touched, a link's target, or the links that
\* statistics list with their counts
Answer == [status : Statuses, name : Names \cup {Null}, url : Reqs \cup {Null},
           listed : SUBSET Names, days : [Names -> [Days -> Nat]]]

NoCountsAtAll == [n \in Names |-> NoCounts]

Wrote(status, n, url) == [status |-> status, name |-> n, url |-> url,
                          listed |-> {}, days |-> NoCountsAtAll]

Says(status) == Wrote(status, Null, Null)

Report(S) == [status |-> 200, name |-> Null, url |-> Null, listed |-> S,
              days |-> [n \in Names |-> IF n \in S THEN counts[n] ELSE NoCounts]]

Init ==
  /\ links = [n \in Names |-> NoRow]
  /\ counts = [n \in Names |-> NoCounts]
  /\ now = 0
  /\ up = [p \in Procs |-> TRUE]
  /\ lock = [p \in Procs |-> Null]
  /\ pc = [r \in Reqs |-> "unsent"]
  /\ call = [r \in Reqs |-> NoRequest]
  /\ at = [r \in Reqs |-> 0]
  /\ seen = [r \in Reqs |-> NoRow]
  /\ tries = [r \in Reqs |-> 0]
  /\ answer = [r \in Reqs |-> Says(0)]

\* Names some client has been told are deleted (a delete's 204)
ToldDeleted == {n \in Names : \E q \in Reqs : /\ pc[q] = "answered"
                                              /\ answer[q].status = 204
                                              /\ answer[q].name = n}

Goto(r, place) == pc' = [pc EXCEPT ![r] = place]

\* The answer is decided; the handler's locals are of no more use.
Decide(r, a) ==
  /\ answer' = [answer EXCEPT ![r] = a]
  /\ seen' = [seen EXCEPT ![r] = NoRow]
  /\ tries' = [tries EXCEPT ![r] = 0]
  /\ UNCHANGED <<call, at>>

\* The handler returns, or raises the HTTPException for this status.
Finish(r, a) == Goto(r, "closing") /\ Decide(r, a)

\* A write has committed; the answer stands unless settle raises.
Written(r, a) == Goto(r, "settle") /\ Decide(r, a)

-----------------------------------------------------------------------------
(* Sending a request, and taking the process's one connection *)

\* What a client may ask.  Only a create carries an expiry; a generated
\* create and the stats page name no link.
Calls == {c \in [op : Ops, name : Spellings \cup {Null}, expires : Lifetimes \cup {Never}] :
            /\ IF c.op \in {"generate", "page"} THEN c.name = Null ELSE c.name \in Spellings
            /\ c.op \notin {"create", "generate"} => c.expires = Never}

Send(r, p) ==
  /\ pc[r] = "unsent" /\ up[p]
  /\ \A q \in Reqs : pc[q] = "unsent" => r <= q
  /\ \E c \in Calls :
       call' = [call EXCEPT ![r] = [op |-> c.op, proc |-> p, name |-> c.name,
                                    expires |-> c.expires, since |-> now,
                                    gone |-> ToldDeleted]]
  /\ Goto(r, "waiting")
  /\ UNCHANGED <<world, at, seen, tries, answer>>

\* The first thing each handler does with its connection
FirstPlace(op) ==
  CASE op \in {"create", "generate"} -> "validate"
    [] op = "follow" -> "lookup"
    [] op = "delete" -> "tombstone"
    [] op = "stats"  -> "stats"
    [] OTHER         -> "collect"

Unusable(r) == call[r].op \in {"create", "follow", "delete", "stats"} /\ call[r].name = Null

\* get_conn up to its yield; a name that does not normalise is refused by
\* the handler before any statement.
Connect(r) ==
  /\ pc[r] = "waiting" /\ lock[call[r].proc] = Null
  /\ lock' = [lock EXCEPT ![call[r].proc] = r]
  /\ IF Unusable(r)
     THEN Finish(r, Says(IF call[r].op = "create" THEN 422 ELSE 404))
     ELSE Goto(r, FirstPlace(call[r].op)) /\ UNCHANGED <<call, at, seen, tries, answer>>
  /\ UNCHANGED <<links, counts, now, up>>

\* db.connect raises: the lock is let go on the way out.
ConnectFails(r) ==
  /\ "connect" \in Faults
  /\ pc[r] = "waiting" /\ lock[call[r].proc] = Null
  /\ Goto(r, "sending") /\ Decide(r, Says(500))
  /\ UNCHANGED world

\* Broken: the connection is closed and the lock kept.
CloseLocked(r) ==
  /\ pc[r] = "closing"
  /\ Goto(r, "sending")
  /\ UNCHANGED <<world, call, at, seen, tries, answer>>

\* get_conn after its yield: settle_owed, whose errors are swallowed, and
\* close, before the response is written.
Close(r) ==
  /\ pc[r] = "closing"
  /\ lock' = [lock EXCEPT ![call[r].proc] = Null]
  /\ Goto(r, "sending")
  /\ UNCHANGED <<links, counts, now, up, call, at, seen, tries, answer>>

Respond(r) ==
  /\ pc[r] = "sending"
  /\ Goto(r, "answered")
  /\ UNCHANGED <<world, call, at, seen, tries, answer>>

\* Broken: a follow whose count could not be written redirects all the same.
BusyBestEffort(r) ==
  /\ "busy" \in Faults
  /\ pc[r] \in Statements
  /\ Finish(r, IF pc[r] = "count" THEN Wrote(302, call[r].name, seen[r].target) ELSE Says(500))
  /\ UNCHANGED world

\* A statement raises sqlite3.OperationalError (another process holds the
\* write lock past the busy timeout): nothing is committed.
Busy(r) ==
  /\ "busy" \in Faults
  /\ pc[r] \in Statements
  /\ Finish(r, Says(500))
  /\ UNCHANGED world

\* db.settle returns, or raises after the write it follows has committed.
Settle(r) ==
  /\ pc[r] = "settle"
  /\ \/ Goto(r, "closing") /\ UNCHANGED <<call, at, seen, tries, answer>>
     \/ "settle" \in Faults /\ Finish(r, Says(500))
  /\ UNCHANGED world

-----------------------------------------------------------------------------
(* POST /-/api/links *)

\* The clock is read once, for the expiry check and for created_at.
Validate(r) ==
  /\ pc[r] = "validate"
  /\ \/ IsExpired(call[r].expires, now) /\ Finish(r, Says(422))
     \/ /\ ~ IsExpired(call[r].expires, now)
        /\ Goto(r, "insert")
        /\ at' = [at EXCEPT ![r] = now]
        /\ UNCHANGED <<call, seen, tries, answer>>
  /\ UNCHANGED world

\* Broken: created_at is a second reading of the clock.
NewRowReread(r) == [state |-> "live", target |-> r, created_by |-> r,
                    created_at |-> now, expires_at |-> call[r].expires]

NewRow(r) == [state |-> "live", target |-> r, created_by |-> r,
              created_at |-> at[r], expires_at |-> call[r].expires]

\* Broken: INSERT OR REPLACE takes over a tombstone's name.
InsertReplaces(r, n) ==
  /\ links[n].state # "live"
  /\ links' = [links EXCEPT ![n] = NewRow(r)]
  /\ Written(r, Wrote(201, n, r))
  /\ UNCHANGED <<counts, now, up, lock>>

\* links.create: the UNIQUE constraint decides.
Insert(r, n) ==
  /\ links[n].state = "absent"
  /\ links' = [links EXCEPT ![n] = NewRow(r)]
  /\ Written(r, Wrote(201, n, r))
  /\ UNCHANGED <<counts, now, up, lock>>

CreateNamed(r) ==
  /\ pc[r] = "insert" /\ call[r].op = "create"
  /\ \/ Insert(r, call[r].name)
     \/ /\ links[call[r].name].state # "absent"
        /\ Finish(r, Says(409))
        /\ UNCHANGED world

\* Broken: one candidate more than GENERATE_ATTEMPTS.
CreateGeneratedOnceMore(r) ==
  /\ pc[r] = "insert" /\ call[r].op = "generate"
  /\ \E n \in Generable :
       \/ Insert(r, n)
       \/ /\ links[n].state # "absent" /\ tries[r] = Attempts
          /\ Finish(r, Says(503))
          /\ UNCHANGED world
       \/ /\ links[n].state # "absent" /\ tries[r] < Attempts
          /\ tries' = [tries EXCEPT ![r] = @ + 1]
          /\ UNCHANGED <<world, pc, call, at, seen, answer>>

\* One candidate of links.create_generated; the last collision gives up.
CreateGenerated(r) ==
  /\ pc[r] = "insert" /\ call[r].op = "generate"
  /\ \E n \in Generable :
       \/ Insert(r, n)
       \/ /\ links[n].state # "absent" /\ tries[r] + 1 = Attempts
          /\ Finish(r, Says(503))
          /\ UNCHANGED world
       \/ /\ links[n].state # "absent" /\ tries[r] + 1 < Attempts
          /\ tries' = [tries EXCEPT ![r] = @ + 1]
          /\ UNCHANGED <<world, pc, call, at, seen, answer>>

-----------------------------------------------------------------------------
(* GET /{name} *)

\* The SELECT of links.lookup
Lookup(r) ==
  /\ pc[r] = "lookup"
  /\ \/ links[call[r].name].state = "absent" /\ Finish(r, Says(404))
     \/ /\ links[call[r].name].state # "absent"
        /\ Goto(r, "expiry")
        /\ seen' = [seen EXCEPT ![r] = links[call[r].name]]
        /\ UNCHANGED <<call, at, tries, answer>>
  /\ UNCHANGED world

\* Broken: the handler asks whether the link expired, not whether it is gone.
ExpiryOnly(r) ==
  /\ pc[r] = "expiry"
  /\ IF IsExpired(seen[r].expires_at, now)
     THEN Finish(r, Says(410))
     ELSE Goto(r, "day") /\ UNCHANGED <<call, at, seen, tries, answer>>
  /\ UNCHANGED world

\* lookup's reading of the clock, and the handler's two refusals
Expiry(r) ==
  /\ pc[r] = "expiry"
  /\ IF seen[r].state = "deleted" \/ IsExpired(seen[r].expires_at, now)
     THEN Finish(r, Says(410))
     ELSE Goto(r, "day") /\ UNCHANGED <<call, at, seen, tries, answer>>
  /\ UNCHANGED world

\* record_follow reads the clock for the day before its statement runs.
ReadDay(r) ==
  /\ pc[r] = "day"
  /\ Goto(r, "count")
  /\ at' = [at EXCEPT ![r] = now]
  /\ UNCHANGED <<world, call, seen, tries, answer>>

\* Broken: the INSERT has no "deleted_at IS NULL".
RecordFollowAnyway(r) ==
  LET n == call[r].name IN
  /\ pc[r] = "count"
  /\ counts' = [counts EXCEPT ![n][Day(at[r])] = @ + 1]
  /\ Written(r, Wrote(302, n, seen[r].target))
  /\ UNCHANGED <<links, now, up, lock>>

\* Broken: ON CONFLICT replaces the day's count.
RecordFollowReplaces(r) ==
  LET n == call[r].name IN
  /\ pc[r] = "count"
  /\ \/ /\ links[n].state = "live"
        /\ counts' = [counts EXCEPT ![n][Day(at[r])] = 1]
        /\ Written(r, Wrote(302, n, seen[r].target))
     \/ /\ links[n].state # "live"
        /\ Finish(r, Says(410))
        /\ UNCHANGED counts
  /\ UNCHANGED <<links, now, up, lock>>

\* counts._INCREMENT: one statement, which a tombstone turns into nothing.
RecordFollow(r) ==
  LET n == call[r].name IN
  /\ pc[r] = "count"
  /\ \/ /\ links[n].state = "live"
        /\ counts' = [counts EXCEPT ![n][Day(at[r])] = @ + 1]
        /\ Written(r, Wrote(302, n, seen[r].target))
     \/ /\ links[n].state # "live"
        /\ Finish(r, Says(410))
        /\ UNCHANGED counts
  /\ UNCHANGED <<links, now, up, lock>>

-----------------------------------------------------------------------------
(* DELETE /-/api/links/{name}, and the two statistics *)

\* What the UPDATE leaves of a row
Buried(row) == [row EXCEPT !.state = "deleted", !.target = Empty, !.created_by = Null]

\* Broken: the UPDATE has no "deleted_at IS NULL".
TombstoneAgain(r) ==
  LET n == call[r].name IN
  /\ pc[r] = "tombstone"
  /\ \/ /\ links[n].state # "absent"
        /\ links' = [links EXCEPT ![n] = Buried(links[n])]
        /\ counts' = [counts EXCEPT ![n] = NoCounts]
        /\ Written(r, Wrote(204, n, Null))
     \/ /\ links[n].state = "absent"
        /\ Goto(r, "why")
        /\ UNCHANGED <<links, counts, call, at, seen, tries, answer>>
  /\ UNCHANGED <<now, up, lock>>

\* links.delete's UPDATE, with the trigger daily_counts_die_with_their_link
Tombstone(r) ==
  LET n == call[r].name IN
  /\ pc[r] = "tombstone"
  /\ \/ /\ links[n].state = "live"
        /\ links' = [links EXCEPT ![n] = Buried(links[n])]
        /\ counts' = [counts EXCEPT ![n] = NoCounts]
        /\ Written(r, Wrote(204, n, Null))
     \/ /\ links[n].state # "live"
        /\ Goto(r, "why")
        /\ UNCHANGED <<links, counts, call, at, seen, tries, answer>>
  /\ UNCHANGED <<now, up, lock>>

\* Broken: a delete that matched no row always says "already deleted".
WhyGone(r) ==
  /\ pc[r] = "why"
  /\ Finish(r, Says(410))
  /\ UNCHANGED world

\* The row that the UPDATE did not match, read afterwards
Why(r) ==
  /\ pc[r] = "why"
  /\ Finish(r, Says(IF links[call[r].name].state = "absent" THEN 404 ELSE 410))
  /\ UNCHANGED world

\* Broken: the statistics of a tombstone are an empty report.
StatsOfTombstone(r) ==
  /\ pc[r] = "stats"
  /\ \/ links[call[r].name].state = "absent" /\ Finish(r, Says(404))
     \/ links[call[r].name].state # "absent" /\ Finish(r, Report({call[r].name}))
  /\ UNCHANGED world

\* counts.days_for
Stats(r) ==
  /\ pc[r] = "stats"
  /\ \/ links[call[r].name].state = "absent"  /\ Finish(r, Says(404))
     \/ links[call[r].name].state = "deleted" /\ Finish(r, Says(410))
     \/ links[call[r].name].state = "live"    /\ Finish(r, Report({call[r].name}))
  /\ UNCHANGED world

\* Broken: the page lists tombstones.
CollectAll(r) ==
  /\ pc[r] = "collect"
  /\ Finish(r, Report({n \in Names : links[n].state # "absent"}))
  /\ UNCHANGED world

\* stats.collect
Collect(r) ==
  /\ pc[r] = "collect"
  /\ Finish(r, Report(LiveNames))
  /\ UNCHANGED world

-----------------------------------------------------------------------------
(* The world around the handlers *)

\* The process dies: its connection and its unanswered requests with it.
Crash(p) ==
  LET cut == {r \in Reqs : call[r].proc = p /\ pc[r] \in InFlight} IN
  /\ "crash" \in Faults
  /\ up[p]
  /\ up' = [up EXCEPT ![p] = FALSE]
  /\ lock' = [lock EXCEPT ![p] = Null]
  /\ pc' = [r \in Reqs |-> IF r \in cut THEN "lost" ELSE pc[r]]
  /\ answer' = [r \in Reqs |-> IF r \in cut THEN Says(0) ELSE answer[r]]
  /\ seen' = [r \in Reqs |-> IF r \in cut THEN NoRow ELSE seen[r]]
  /\ tries' = [r \in Reqs |-> IF r \in cut THEN 0 ELSE tries[r]]
  /\ UNCHANGED <<links, counts, now, call, at>>

\* restart: unless-stopped; the lifespan opens the same file.
Restart(p) ==
  /\ ~ up[p]
  /\ up' = [up EXCEPT ![p] = TRUE]
  /\ UNCHANGED <<links, counts, now, lock, pc, call, at, seen, tries, answer>>

Tick ==
  /\ now < MaxTime
  /\ now' = now + 1
  /\ UNCHANGED <<links, counts, up, lock, pc, call, at, seen, tries, answer>>

\* What a request's own process does for it
Serve(r) ==
  \/ Connect(r) \/ ConnectFails(r) \/ Close(r) \/ Respond(r) \/ Busy(r) \/ Settle(r)
  \/ Validate(r) \/ CreateNamed(r) \/ CreateGenerated(r)
  \/ Lookup(r) \/ Expiry(r) \/ ReadDay(r) \/ RecordFollow(r)
  \/ Tombstone(r) \/ Why(r) \/ Stats(r) \/ Collect(r)

Next ==
  \/ \E r \in Reqs : (\E p \in Procs : Send(r, p)) \/ Serve(r)
  \/ \E p \in Procs : Crash(p) \/ Restart(p)
  \/ Tick

Spec == Init /\ [][Next]_vars

-----------------------------------------------------------------------------
(* Properties *)

\* Every variable keeps its shape: in particular no answer carries the
\* empty target of a tombstone, and no count is stored under a day that the
\* clock never showed (counts.py: utc_day; links.py: Link).
TypeOK ==
  /\ links \in [Names -> Row]
  /\ counts \in [Names -> [Days -> Nat]]
  /\ now \in Time
  /\ up \in [Procs -> BOOLEAN]
  /\ lock \in [Procs -> Reqs \cup {Null}]
  /\ pc \in [Reqs -> Places]
  /\ call \in [Reqs -> Request]
  /\ at \in [Reqs -> Time]
  /\ seen \in [Reqs -> Row]
  /\ tries \in [Reqs -> 0 .. Attempts - 1]
  /\ answer \in [Reqs -> Answer]

\* At every moment each process has at most one request between connect and
\* close, and it is the one that holds the lock: no error path, crash or
\* refusal leaves the lock taken or lets a second connection open
\* (app.py, get_conn; ADR-0021 decision 7).
OneConnection ==
  \A p \in Procs :
    {r \in Reqs : call[r].proc = p /\ pc[r] \in Connected} =
      IF lock[p] = Null THEN {} ELSE {lock[p]}

\* A deleted link keeps no target, no maker and no count, and a name nobody
\* created has no count, whatever follow had already found the link live
\* when the delete committed (counts.py:7-13; migration 0002's trigger).
TombstoneKeepsNothing ==
  \A n \in Names :
    /\ links[n].state # "live" => counts[n] = NoCounts
    /\ links[n].state = "deleted" => links[n].target = Empty /\ links[n].created_by = Null

\* No step gives a name that has a row another target or another expiry,
\* frees it, or brings a deleted one back (links.py:3-9).
NeverRepointed ==
  [][\A n \in Names : links[n].state # "absent" =>
       \/ links'[n] = links[n]
       \/ /\ links[n].state = "live" /\ links'[n].state = "deleted"
          /\ links'[n].expires_at = links[n].expires_at
          /\ links'[n].created_at = links[n].created_at]_vars

\* A link with an expiry expires after it was created: the check of expires
\* and created_at come from one reading of the clock (app.py:436-442).
BornUnexpired ==
  \A n \in Names : links[n].state # "absent" => ~ IsExpired(links[n].expires_at, links[n].created_at)

\* Follows of n answered (or about to be answered) with a redirect for day d
Redirected(n, d) == {r \in Reqs : /\ answer[r].status = 302 /\ answer[r].name = n
                                  /\ Day(at[r]) = d}

\* Follows of n whose caller cannot know whether they were counted
InDoubt(n) == {r \in Reqs : /\ call[r].op = "follow" /\ call[r].name = n
                            /\ answer[r].status = 500 \/ pc[r] = "lost"}

\* While a link is live, each day's count holds every redirect of that day,
\* once, and nothing else but follows that ended in a 500 or were cut off:
\* no redirect leaves uncounted, none counts twice, and no other request
\* counts (app.py:550-554).
RedirectsAreCounted ==
  \A n \in LiveNames, d \in Days :
    /\ Cardinality(Redirected(n, d)) <= counts[n][d]
    /\ counts[n][d] <= Cardinality(Redirected(n, d) \cup InDoubt(n))

\* Of all the requests for one name, at most one is ever told it created
\* the link and at most one that it deleted it, generated names and several
\* processes included (links.py:194-196).
OneWinner ==
  \A q, r \in Reqs :
    /\ answer[q].status \in {201, 204} /\ answer[r].status = answer[q].status
    /\ answer[q].name = answer[r].name
    => q = r

\* Once a client has been told a name is deleted, no request sent later, to
\* any process and across any restart, is redirected, gets its statistics,
\* sees it listed, deletes it again or is given the name.
DeletedIsFinal ==
  \A r \in Reqs :
    /\ answer[r].status \in {201, 204, 302} => answer[r].name \notin call[r].gone
    /\ answer[r].listed \cap call[r].gone = {}

\* ADR-0011: a delete answers 410 only for a link that was already deleted.
GoneMeansDeleted ==
  \A r \in Reqs : call[r].op = "delete" /\ answer[r].status = 410
                    => links[call[r].name].state = "deleted"

-----------------------------------------------------------------------------
(* The inductive invariant: what makes the properties above hold *)

\* Where each request is says what it is and what it has read.
LocalOK(r) ==
  /\ pc[r] = "unsent" => call[r] = NoRequest
  /\ pc[r] # "unsent" => call[r].op \in Ops /\ call[r].proc \in Procs
  /\ pc[r] \in {"validate", "insert"} => call[r].op \in {"create", "generate"}
  /\ pc[r] \in {"lookup", "expiry", "day", "count"} => call[r].op = "follow"
  /\ pc[r] \in {"tombstone", "why"} => call[r].op = "delete"
  /\ pc[r] = "stats" => call[r].op = "stats"
  /\ pc[r] = "collect" => call[r].op = "page"
  /\ pc[r] \in Connected \ {"closing"} /\ call[r].op \notin {"generate", "page"}
       => call[r].name \in Names
  /\ pc[r] \in {"expiry", "day", "count"} => seen[r].state # "absent"
  /\ pc[r] \in {"day", "count"} => seen[r].state = "live"
  /\ seen[r].state = "live" => seen[r].target \in Reqs
  /\ pc[r] = "insert" => ~ IsExpired(call[r].expires, at[r])
  /\ pc[r] \notin {"settle", "closing", "sending", "answered"} => answer[r] = Says(0)

LocalsOK == \A r \in Reqs : LocalOK(r)

\* What each kind of row holds
RowsOK ==
  \A n \in Names :
    /\ links[n].state = "absent" => links[n] = NoRow
    /\ links[n].state = "live" => links[n].target \in Reqs

\* What an answer, given or decided, says of its name's row ever after
AnswersOK ==
  \A r \in Reqs :
    /\ answer[r].status \in {201, 204} => answer[r].name \in Names
    /\ answer[r].status = 201 => links[answer[r].name].state # "absent"
    /\ answer[r].status = 204 => links[answer[r].name].state = "deleted"
    /\ \A n \in call[r].gone : links[n].state = "deleted"

IInv ==
  /\ TypeOK /\ LocalsOK /\ RowsOK /\ AnswersOK
  /\ OneConnection /\ TombstoneKeepsNothing /\ BornUnexpired
  /\ OneWinner /\ DeletedIsFinal

\* A redirect is the answer to a follow of its name, which has a row.
FollowsOK ==
  \A r \in Reqs : answer[r].status = 302 =>
    /\ call[r].op = "follow" /\ call[r].name = answer[r].name
    /\ answer[r].name \in Names /\ links[answer[r].name].state # "absent"

CountInv == IInv /\ FollowsOK /\ RedirectsAreCounted

\* What a handler has read still says enough of its link: a row that was there
\* is there, with the same expiry, and as long as it is live the same target;
\* and the readings of the clock are of the time the request was open.
ReadingOK(r) ==
  LET row == links[call[r].name] IN
  /\ call[r].since <= now
  /\ pc[r] \in {"insert", "count"} => call[r].since <= at[r] /\ at[r] <= now
  /\ pc[r] \in {"expiry", "day", "count"} =>
       /\ row.state # "absent" /\ row.expires_at = seen[r].expires_at
       /\ row.state = "live" => seen[r].state = "live" /\ row.target = seen[r].target
  /\ pc[r] \in {"day", "count"} => ~ IsExpired(seen[r].expires_at, call[r].since)

ReadInv == IInv /\ \A r \in Reqs : ReadingOK(r)

\* A delete that finds nothing to delete and asks why: with one process,
\* nobody has created the link in between.
WhyOK == \A r \in Reqs : pc[r] = "why" => links[call[r].name].state # "live"

\* Only a delete of a usable name is told 410.
GoneNamed ==
  \A r \in Reqs : call[r].op = "delete" /\ answer[r].status = 410 => call[r].name \in Names

\* With one process
AloneInv == ReadInv /\ WhyOK /\ GoneNamed /\ GoneMeansDeleted

-----------------------------------------------------------------------------
(* The abstract store this implements *)

StoreOf(row) ==
  CASE row.state = "absent"  -> [phase |-> "free", target |-> Null, until |-> Never]
    [] row.state = "deleted" -> [phase |-> "retired", target |-> Null, until |-> Never]
    [] OTHER -> [phase |-> "live", target |-> row.target, until |-> row.expires_at]

\* A request has been decided from the statement that fixes its answer on.
StageOf(place) ==
  CASE place \in {"settle", "closing", "sending"} -> "decided"
    [] place \in {"unsent", "answered", "lost"}   -> place
    [] OTHER                                      -> "open"

Store == INSTANCE LinkStore WITH
  store <- [n \in Names |-> StoreOf(links[n])],
  tally <- counts,
  clock <- now,
  ask   <- [r \in Reqs |-> [stage |-> StageOf(pc[r]), op |-> call[r].op,
                            name |-> call[r].name, lasts |-> call[r].expires,
                            since |-> call[r].since, answer |-> answer[r]]]

\* With one process every answer is that of an atomic store: each request
\* takes effect at one instant while it is open (counts.py, links.py).
Atomic == Store!Spec

\* With several the same holds but for a delete's mistaken 410.
AlmostAtomic == Store!WeakSpec
=============================================================================
