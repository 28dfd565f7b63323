----------------------------- MODULE LinkStore -----------------------------
(***************************************************************************)
(* What the shortener promises its callers, with no processes, no          *)
(* database and no lock: a store in which every request takes effect at    *)
(* one instant between being sent and being answered.                      *)
(*                                                                         *)
(* A name is free, live or retired, and never leaves "retired": a deleted  *)
(* name stays reserved (links.py, module docstring).  A live link has the  *)
(* target it was created with, a moment at which it expires, and one count *)
(* per day of its follows.  LinkService is shown to implement Spec when    *)
(* one process serves the database, and WeakSpec when several do.          *)
(***************************************************************************)
EXTENDS Integers

CONSTANTS
  Reqs,        \* requests; each is sent at most once
  Names,       \* names in normal form
  Generable,   \* the names the generator can draw
  Lifetimes,   \* the expiry moments a create may ask for
  Never,       \* "does not expire"
  Null,        \* no value
  Time,        \* the moments of the clock
  Day(_),      \* the day a moment falls on
  Days

VARIABLES
  store,       \* Names -> what the name stands for
  tally,       \* Names -> Days -> follows counted
  clock,
  ask          \* Reqs -> the request and how far it has come

vars == <<store, tally, clock, ask>>

Free    == [phase |-> "free", target |-> Null, until |-> Never]
Retired == [phase |-> "retired", target |-> Null, until |-> Never]
Live(t, u) == [phase |-> "live", target |-> t, until |-> u]

NoFollows == [d \in Days |-> 0]

\* An answer: a status, the name it changed, a link's target, or links and
\* their counts
NoTallies == [n \in Names |-> NoFollows]
Says(status)    == [status |-> status, name |-> Null, url |-> Null, listed |-> {}, days |-> NoTallies]
Did(status, n, url) ==
                   [status |-> status, name |-> n, url |-> url, listed |-> {}, days |-> NoTallies]
Snapshot(S)     == [status |-> 200, name |-> Null, url |-> Null, listed |-> S,
                    days |-> [n \in Names |-> IF n \in S THEN tally[n] ELSE NoFollows]]

Unsent == [stage |-> "unsent", op |-> Null, name |-> Null, lasts |-> Never,
           since |-> 0, answer |-> Says(0)]

Init ==
  /\ store = [n \in Names |-> Free]
  /\ tally = [n \in Names |-> NoFollows]
  /\ clock = 0
  /\ ask = [r \in Reqs |-> Unsent]

Past(u, t) == u # Never /\ u <= t

-----------------------------------------------------------------------------
\* The answer to request r is fixed at this instant.
Decide(r, a) == ask' = [ask EXCEPT ![r] = [@ EXCEPT !.stage = "decided", !.answer = a]]

Undecided(r, ops) == ask[r].stage = "open" /\ ask[r].op \in ops

Call(r) ==
  /\ ask[r].stage = "unsent"
  /\ \E op \in {"create", "generate", "follow", "delete", "stats", "page"},
        n \in Names \cup {Null}, u \in Lifetimes \cup {Never} :
       ask' = [ask EXCEPT ![r] = [@ EXCEPT !.stage = "open", !.op = op, !.name = n,
                                           !.lasts = u, !.since = clock]]
  /\ UNCHANGED <<store, tally, clock>>

\* The name is free and the expiry was still ahead when the request was sent.
Created(r, n) ==
  /\ store[n].phase = "free"
  /\ ~ Past(ask[r].lasts, ask[r].since)
  /\ store' = [store EXCEPT ![n] = Live(r, ask[r].lasts)]
  /\ Decide(r, Did(201, n, r))
  /\ UNCHANGED <<tally, clock>>

Create(r) ==
  \/ Undecided(r, {"create"}) /\ ask[r].name \in Names /\ Created(r, ask[r].name)
  \/ Undecided(r, {"generate"}) /\ \E n \in Generable : Created(r, n)

NotCreated(r) ==
  /\ \/ /\ Undecided(r, {"create"})
        /\ ask[r].name = Null
        /\ Decide(r, Says(422))
     \/ /\ Undecided(r, {"create", "generate"})
        /\ Past(ask[r].lasts, clock)
        /\ Decide(r, Says(422))
     \/ /\ Undecided(r, {"create"})
        /\ ask[r].name \in Names /\ store[ask[r].name].phase # "free"
        /\ Decide(r, Says(409))
     \/ /\ Undecided(r, {"generate"})
        /\ \E n \in Generable : store[n].phase # "free"
        /\ Decide(r, Says(503))
  /\ UNCHANGED <<store, tally, clock>>

\* One follow, one count, on a day the request was open; the link had not
\* expired when the request was sent.
Follow(r) ==
  /\ Undecided(r, {"follow"}) /\ ask[r].name \in Names
  /\ LET n == ask[r].name IN
       /\ store[n].phase = "live"
       /\ ~ Past(store[n].until, ask[r].since)
       /\ \E t \in ask[r].since .. clock : tally' = [tally EXCEPT ![n][Day(t)] = @ + 1]
       /\ Decide(r, Did(302, n, store[n].target))
  /\ UNCHANGED <<store, clock>>

\* A retired name forgets its target and its counts in the same instant.
Delete(r) ==
  /\ Undecided(r, {"delete"}) /\ ask[r].name \in Names
  /\ store[ask[r].name].phase = "live"
  /\ store' = [store EXCEPT ![ask[r].name] = Retired]
  /\ tally' = [tally EXCEPT ![ask[r].name] = NoFollows]
  /\ Decide(r, Did(204, ask[r].name, Null))
  /\ UNCHANGED clock

NotFound(r) ==
  /\ Undecided(r, {"follow", "delete", "stats"})
  /\ ask[r].name \in Names => store[ask[r].name].phase = "free"
  /\ Decide(r, Says(404))
  /\ UNCHANGED <<store, tally, clock>>

Gone(r) ==
  /\ Undecided(r, {"follow", "delete", "stats"}) /\ ask[r].name \in Names
  /\ LET s == store[ask[r].name] IN
       \/ s.phase = "retired"
       \/ ask[r].op = "follow" /\ s.phase = "live" /\ Past(s.until, clock)
  /\ Decide(r, Says(410))
  /\ UNCHANGED <<store, tally, clock>>

\* The one answer several processes can give that the promise excludes: a
\* delete that changed nothing is told "already deleted" of a live link.
FalseGone(r) ==
  /\ Undecided(r, {"delete"}) /\ ask[r].name \in Names
  /\ store[ask[r].name].phase = "live"
  /\ Decide(r, Says(410))
  /\ UNCHANGED <<store, tally, clock>>

\* Statistics are one snapshot: of one live link, or of all of them.
Report(r) ==
  /\ \/ /\ Undecided(r, {"stats"}) /\ ask[r].name \in Names
        /\ store[ask[r].name].phase = "live"
        /\ Decide(r, Snapshot({ask[r].name}))
     \/ /\ Undecided(r, {"page"})
        /\ Decide(r, Snapshot({n \in Names : store[n].phase = "live"}))
  /\ UNCHANGED <<store, tally, clock>>

\* A 500 leaves the caller in doubt: it may replace any answer not yet given.
Fail(r) ==
  /\ ask[r].stage \in {"open", "decided"}
  /\ Decide(r, Says(500))
  /\ UNCHANGED <<store, tally, clock>>

Return(r) ==
  /\ ask[r].stage = "decided"
  /\ ask' = [ask EXCEPT ![r].stage = "answered"]
  /\ UNCHANGED <<store, tally, clock>>

\* The connection dies without an answer; what was decided stays done.
Lose ==
  /\ \E L \in SUBSET {r \in Reqs : ask[r].stage \in {"open", "decided"}} :
       ask' = [r \in Reqs |-> IF r \in L
                              THEN [ask[r] EXCEPT !.stage = "lost", !.answer = Says(0)]
                              ELSE ask[r]]
  /\ UNCHANGED <<store, tally, clock>>

Tick ==
  /\ clock + 1 \in Time /\ clock' = clock + 1
  /\ UNCHANGED <<store, tally, ask>>

Serve(r) ==
  \/ Call(r) \/ Create(r) \/ NotCreated(r) \/ Follow(r) \/ Delete(r)
  \/ NotFound(r) \/ Gone(r) \/ Report(r) \/ Fail(r) \/ Return(r)

Next == (\E r \in Reqs : Serve(r)) \/ Lose \/ Tick
WeakNext == Next \/ \E r \in Reqs : FalseGone(r)

\* Every answer is the answer of an atomic store.
Spec == Init /\ [][Next]_vars

\* The same, but for FalseGone.
WeakSpec == Init /\ [][WeakNext]_vars
=============================================================================
