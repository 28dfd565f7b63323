----------------------------- MODULE Migrations -----------------------------
(***************************************************************************)
(* db.migrate, run by processes that start on one database at the same     *)
(* time, possibly of different builds.  Each reads what the database has   *)
(* recorded, and then runs the numbered scripts it misses, each in a       *)
(* transaction of its own (BEGIN IMMEDIATE ... COMMIT).  A script that has *)
(* run before fails ("table links already exists"): its statements are not *)
(* idempotent.  A process whose migrations fail exits and is started again *)
(* (compose.yaml, restart: unless-stopped).                                *)
(***************************************************************************)
EXTENDS Naturals, FiniteSets

CONSTANTS
  Procs,      \* processes that start on the database
  Versions,   \* the numbers of all migrations there are
  Shipped,    \* Procs -> the migrations its build ships
  Broken,     \* migrations whose script may fail after its first statement
  Faults,     \* "busy": the 5 s wait for the write lock ends; "crash"
  Nobody      \* not a process

ASSUME ConstantsAssumption ==
  /\ Versions \subseteq Nat
  /\ Shipped \in [Procs -> SUBSET Versions]
  /\ Nobody \notin Procs

VARIABLES
  ran,        \* Versions -> how often its script has been committed
  recorded,   \* Versions -> its rows in schema_version
  writer,     \* the process whose transaction is open
  draft,      \* what that transaction has done: its script, its row
  pc,         \* Procs -> the place in lifespan and migrate
  already,    \* Procs -> what applied_versions returned
  left        \* Procs -> the migrations it has still to go through

database == <<ran, recorded, writer, draft>>
vars     == <<ran, recorded, writer, draft, pc, already, left>>

Places == {"down", "read", "next", "script", "record", "commit", "serving"}

TypeOK ==
  /\ ran \in [Versions -> Nat] /\ recorded \in [Versions -> Nat]
  /\ writer \in Procs \cup {Nobody} /\ draft \subseteq {"script", "row"}
  /\ pc \in [Procs -> Places]
  /\ already \in [Procs -> SUBSET Versions] /\ left \in [Procs -> SUBSET Versions]
  /\ \A p \in Procs : writer = p <=> pc[p] \in {"script", "record", "commit"}

Init ==
  /\ ran = [v \in Versions |-> 0] /\ recorded = [v \in Versions |-> 0]
  /\ writer = Nobody /\ draft = {}
  /\ pc = [p \in Procs |-> "down"]
  /\ already = [p \in Procs |-> {}] /\ left = [p \in Procs |-> {}]

Recorded == {v \in Versions : recorded[v] > 0}

\* Broken: the scripts run from the newest down.
Highest(p) == CHOOSE v \in left[p] : \A u \in left[p] : u <= v

\* The migration a process is at: they run in numeric order.
Lowest(p) == CHOOSE v \in left[p] : \A u \in left[p] : v <= u

Goto(p, place) == pc' = [pc EXCEPT ![p] = place]
Exit(p) == Goto(p, "down")

\* discover_migrations: a build that ships none does not start.
Start(p) ==
  /\ pc[p] = "down" /\ Shipped[p] # {}
  /\ Goto(p, "read")
  /\ UNCHANGED <<database, already, left>>

\* Broken: only the highest recorded number is remembered.
ReadHighest(p) ==
  /\ pc[p] = "read"
  /\ already' = [already EXCEPT ![p] = Recorded]
  /\ left' = [left EXCEPT ![p] = {v \in Shipped[p] : \A u \in Recorded : u < v}]
  /\ IF Recorded \subseteq Shipped[p] THEN Goto(p, "next") ELSE Exit(p)
  /\ UNCHANGED database

\* applied_versions, and the refusal of a database from a newer build
Read(p) ==
  /\ pc[p] = "read"
  /\ already' = [already EXCEPT ![p] = Recorded]
  /\ left' = [left EXCEPT ![p] = Shipped[p] \ Recorded]
  /\ IF Recorded \subseteq Shipped[p] THEN Goto(p, "next") ELSE Exit(p)
  /\ UNCHANGED database

\* BEGIN IMMEDIATE waits for the write lock; past the busy timeout it raises.
Begin(p) ==
  /\ pc[p] = "next" /\ left[p] # {}
  /\ \/ writer = Nobody /\ writer' = p /\ Goto(p, "script")
     \/ "busy" \in Faults /\ writer # Nobody /\ Exit(p) /\ UNCHANGED writer
  /\ UNCHANGED <<ran, recorded, draft, already, left>>

\* What the open transaction did becomes what every process sees.
Publish(v) ==
  /\ ran' = [ran EXCEPT ![v] = @ + (IF "script" \in draft THEN 1 ELSE 0)]
  /\ recorded' = [recorded EXCEPT ![v] = @ + (IF "row" \in draft THEN 1 ELSE 0)]
  /\ writer' = Nobody /\ draft' = {}

\* Broken: the failed script's transaction is left open.
RollBackNever(p) == Exit(p) /\ UNCHANGED <<database, already, left>>

\* Broken: what the failed script did is committed.
RollBackCommits(p) == Publish(Lowest(p)) /\ Exit(p) /\ UNCHANGED <<already, left>>

\* ROLLBACK, and the MigrationError that ends the process
RollBack(p) ==
  /\ writer' = Nobody /\ draft' = {}
  /\ Exit(p)
  /\ UNCHANGED <<ran, recorded, already, left>>

Script(p) ==
  /\ pc[p] = "script"
  /\ IF ran[Lowest(p)] > 0
     THEN RollBack(p)
     ELSE /\ draft' = {"script"} /\ Goto(p, "record")
          /\ UNCHANGED <<ran, recorded, writer, already, left>>

\* The rest of a broken script may raise; otherwise the row is inserted.
Record(p) ==
  /\ pc[p] = "record"
  /\ \/ Lowest(p) \in Broken /\ RollBack(p)
     \/ /\ draft' = draft \cup {"row"} /\ Goto(p, "commit")
        /\ UNCHANGED <<ran, recorded, writer, already, left>>

Commit(p) ==
  /\ pc[p] = "commit"
  /\ Publish(Lowest(p))
  /\ left' = [left EXCEPT ![p] = @ \ {Lowest(p)}]
  /\ Goto(p, "next")
  /\ UNCHANGED already

Serve(p) ==
  /\ pc[p] = "next" /\ left[p] = {}
  /\ Goto(p, "serving")
  /\ UNCHANGED <<database, already, left>>

\* The process dies, or is stopped for a deploy; SQLite rolls back what it
\* had open.
Crash(p) ==
  /\ "crash" \in Faults /\ pc[p] # "down"
  /\ Exit(p)
  /\ IF writer = p THEN writer' = Nobody /\ draft' = {} ELSE UNCHANGED <<writer, draft>>
  /\ UNCHANGED <<ran, recorded, already, left>>

Migrate(p) == Start(p) \/ Read(p) \/ Begin(p) \/ Script(p) \/ Record(p) \/ Commit(p) \/ Serve(p)

Next == \E p \in Procs : Migrate(p) \/ Crash(p)

Spec == Init /\ [][Next]_vars

\* The container runtime restarts what exits, and a process runs on.
FairSpec == Spec /\ \A p \in Procs : WF_vars(Migrate(p))

-----------------------------------------------------------------------------
(* Properties *)

\* A migration is recorded exactly when its script has been committed, and
\* neither happens twice, whatever failed half-way and whoever raced
\* (db.migrate; ADR-0005).
RecordedOnce ==
  \A v \in Versions : recorded[v] = ran[v] /\ recorded[v] <= 1

\* A process serves only once every migration of its build is in, one
\* numbered below those already applied included (db.py:310-318).
ServingIsMigrated ==
  \A p \in Procs : pc[p] = "serving" => Shipped[p] \subseteq Recorded

\* No script runs before the lower-numbered ones of its build, by whichever
\* process they were applied (discover_migrations, migrate).
InOrder ==
  \A p \in Procs : pc[p] \in {"script", "record", "commit"} =>
    {u \in Shipped[p] : u < Lowest(p)} \subseteq Recorded

\* Nothing fails from here on but what racing and refusing make fail: a
\* database of a newer build, a write lock taken, a script already run.
Untroubled ==
  \A p \in Procs : pc[p] # "down" /\ pc'[p] = "down" =>
    \/ pc[p] = "read" /\ ~ (Recorded \subseteq Shipped[p])
    \/ pc[p] = "next" /\ writer # Nobody
    \/ pc[p] = "script" /\ ran[Lowest(p)] > 0

\* Once crashes and broken scripts have come to an end, every process whose
\* build has all migrations comes to serve and goes on: what they left
\* behind, and the losing of races for the lock or for a script, holds no
\* restarted process up for ever (lifespan, migrate; compose.yaml).
FullBuildServes ==
  <>[][Untroubled]_vars =>
    \A p \in Procs : (\A q \in Procs : Shipped[q] \subseteq Shipped[p]) => <>[](pc[p] = "serving")

\* db.py:24-29: when processes of one build migrate a fresh database at once,
\* none raises.
NobodyRaises ==
  [][\A p \in Procs : pc[p] # "down" => pc'[p] # "down"]_vars

-----------------------------------------------------------------------------
(* The inductive invariant *)

\* What a process's place says of its transaction, and of what it has still
\* to do: a migration of its build is recorded or left.
PlaceOK(p) ==
  /\ left[p] \subseteq Shipped[p]
  /\ pc[p] \in {"next", "script", "record", "commit", "serving"}
       => Shipped[p] \ left[p] \subseteq Recorded
  /\ pc[p] = "serving" => left[p] = {}
  /\ pc[p] \in {"script", "record", "commit"} => left[p] # {}
  /\ pc[p] = "script" => draft = {}
  /\ pc[p] = "record" => draft = {"script"} /\ ran[Lowest(p)] = 0
  /\ pc[p] = "commit" => draft = {"script", "row"} /\ ran[Lowest(p)] = 0

MInv ==
  /\ TypeOK /\ RecordedOnce
  /\ writer = Nobody => draft = {}
  /\ \A p \in Procs : PlaceOK(p)
=============================================================================
