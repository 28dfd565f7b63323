# Linkling: a verification development

Linkling is a link shortener for one team: a FastAPI service over one SQLite
file.  Its code is small, and most of what it promises is about the order in
which things happen: a deleted name is never pointed anywhere else, no redirect
leaves uncounted, and the file on the disk tells nothing finer than a day about
a click.  The repository also holds a script that watches the running service's
packets and says whether it told anyone else.  These modules model the parts
those promises rest on, check them with TLC on small instances, and prove the
safety ones with TLAPS.

Paths below are relative to `src/src/linkling/server/` unless they say
otherwise.

## The system

| Component | State | Operations | Talks to |
|---|---|---|---|
| routes (`app.py` 428-572) | none of its own | create, generated create, follow, delete, link stats, stats page, privacy manifest | `get_conn`, `links`, `counts`, `stats` |
| `get_conn` (`app.py` 328-355) | `app.state.db_lock` | lock, connect, run the handler, `settle_owed`, close, unlock, and only then the response | `db` |
| links (`links.py`) | table `links`, UNIQUE name | create, create_generated, lookup, delete | `db.settle` after each write |
| counts (`counts.py`) | table `daily_counts` | record_follow, days_for | `db.settle`; a trigger on `links` clears it |
| stats (`stats.py`) | none | collect, render | one SELECT |
| file layout (`db.py` 124-273) | `_deferred`, the file, the `-wal`, the header | settle, settle_owed, canonicalise, checkpoint, header reset | SQLite, and any other process with the file open |
| migrations (`db.py` 276-364) | table `schema_version` | discover, read, run each script | other processes that start |
| start-up (`app.py` 299-309) | none | connect, migrate, settle, close | the container runtime restarts a process that exits |
| names (`names.py`) | none | fold, check, generate | handlers |
| validation (`app.py` 193-289) | none | the checks of a create | handlers |
| body limit (`app.py` 110-151, 357-368) | a count and a flag per request | count a chunked body, cut it off, answer 413 | create |
| key checks (`app.py` 164-174, 370-420), config (`config.py`) | the key | read it at start, compare a header with it | every route but follow and the manifest |
| `NoStoreMiddleware` (`app.py` 87-107) | none | one header on every response that passes | all routes |
| privacy manifest (`app.py` 532-539) | none | a constant answer | - |
| traffic check (`src/scripts/no-third-party-check.sh`, `classify.py`, `refs.py`, `loads.py`) | findings, blind spots, the crawl's queue, one capture per service | exercise, scan, crawl, plant controls, judge | a running service and site, `tcpdump` |
| deployment | outside the service | - | - |

What is hard, and what each part has to get right:

- **Handlers are several statements, each its own transaction**
  (`isolation_level=None`).  Within a process the lock keeps requests apart;
  nothing keeps two processes on one file apart but SQLite, and `links.py` and
  `counts.py` are written for that case.  A follow reads the row, then the
  clock, then counts; a delete updates, then reads to say why it did not.
- **A write and its answer come apart**: `settle` runs after the commit and may
  raise, and the process may die before the answer.
- **The lock and the threads**: every path out of `get_conn` must let the lock
  go, and whoever waits for it, or for a client, must not hold a thread that its
  holder needs.
- **A body arrives in pieces**, and what was cut off must not be handled because
  its beginning happened to parse.
- **Text is compared as text**: a name, a key, a moment has many spellings, and
  which of them are let in decides which link a request is about.
- **The clock** ticks between two readings.
- **The file**: a rewrite is put off while someone reads, is refused while
  someone writes, can be cut short between any two of its statements, and must
  still not be forgotten.
- **What a check did not see**: packets lost, observers that die, fetches cut
  short must not come out as a pass, nor as an accusation.
- **Migrations** race when two processes start, fail half-way, arrive out of
  order from two branches, and meet a database that a newer build has migrated.

The full list of hazards, each at its line with the properties that watch it, is
in `PROJECT.json`.

## The modules

| Module | Models | |
|---|---|---|
| `LinkStore` | what the service promises: an atomic store of names, each request taking effect at one instant | abstract specification |
| `LinkService` | handlers, `get_conn`, `links`, `counts`, `stats` run by several processes | implements `LinkStore` |
| `RequestPath` | the way of a request through body limit, dependencies, lock, worker threads and response | |
| `Admission` | what becomes of the text of keys, headers, paths, names and timestamps | |
| `DbFile` | `settle`, `canonicalise` and the `-wal`, beside an outside process | |
| `Migrations` | `migrate` by processes of different builds | |
| `TrafficCheck` | the third-party traffic check, from its first call to its verdict | |
| `LinkService_proofs`, `RequestPath_proofs`, `Admission_proofs`, `DbFile_proofs`, `Migrations_proofs`, `TrafficCheck_proofs` | theorems about those modules | |
| `LinkStore_proofs` | `LinkService` implements `LinkStore` | |
| `MC...` | instances for TLC | |

`LinkService` takes for granted what two others establish: that a request runs
alone in its process (`RequestPath!OneConnection`) and that a name reaches it in
one spelling (`Admission!OneLinkPerSpelling`).  `DbFile` takes the first for
granted too.

### LinkService

One action per SQL statement of a handler and per step of `get_conn`.  A
request moves through `pc`:

    unsent - waiting -+- validate - insert ------------------- settle -+
                      +- lookup - expiry - day - count ------- settle -+- closing - sending - answered
                      +- tombstone (- why) ------------------- settle -+
                      +- stats, collect -------------------------------+

`links` and `counts` are the tables; a row is absent, live or deleted, and a
count of 0 is "no row".  `lock[p]` is the holder of process `p`'s `db_lock`.
`at`, `seen` and `tries` are the handler's locals: the clock it read, the row
`lookup` returned, the collisions so far.  `call` says what was asked, when, and
(for the properties) which names some client had by then been told were
deleted.  A URL and a maker are named by the request that carried them, so two
links with one target are told apart.

| Action | Code |
|---|---|
| Connect, ConnectFails, Close | `get_conn`; ConnectFails is `db.connect` raising under the lock, Close is `settle_owed` and `conn.close` |
| Validate | the one reading of the clock in `create_link`, and `_validate_expires` |
| CreateNamed, CreateGenerated, Insert | `links.create`, one turn of `links.create_generated` |
| Lookup, Expiry | the SELECT of `links.lookup`; its reading of the clock and the handler's refusals |
| ReadDay, RecordFollow | `counts.record_follow`: the day, then the statement |
| Tombstone, Why | `links.delete`: the UPDATE with the trigger it fires, then the SELECT that says which refusal this is |
| Stats, Collect | `counts.days_for`, `stats.collect`: one SELECT each |
| Busy | any statement raising "database is locked" |
| Settle | `db.settle` returning, or raising after the write |
| Crash, Restart, Tick, Send | the world |

A name that does not normalise (`Null`) is refused by the handler without a
statement, inside the connection as in the code.  What `_validate_target` and
`_validate_created_by` refuse has the same shape as a refused name and is not
told apart from it.  `Close` pays nothing and raises nothing: what `settle_owed`
does to the file is `DbFile`'s subject, and that an OSError of it puts a 500 in
the answer's place is `RequestPath`'s (`SettleOwed`).

The abstract store has no processes, statements or lock.  The refinement mapping
reads a row as free, live or retired and a request as *decided* from the
statement that fixed its answer.  `Atomic` says one process implements
`LinkStore!Spec`; `AlmostAtomic` says several implement `WeakSpec`, which allows
exactly one more step: a delete answered 410 while the name is live (see
Findings).  In both, a 500 may replace an answer already decided: that is what a
`settle` that raises does to a caller.

### RequestPath

One action per job of the thread pool and per move of a client.  The event loop
runs one step at a time; `pool` is anyio's limiter (who has a thread, who waits
for one, in order), `line` is `db_lock` with its waiters in order, `place` says
where a request is:

    idle - (reading) - limit - key - waiting - connect - handle - owed - close - sending
                                               \________ the lock is its ________/

`reading`, `sending` and `idle` are the client's moves, `waiting` the lock's, and
each of the others a job for a thread.  A follow goes straight to the lock; the
manifest has one job of its own.  `body` is what `receive_counting` has let
through: how much, whether it parses, and the flag.  FastAPI parses the body
before it solves the dependencies, so a prefix that does not parse is answered
422 and one that does, or is empty, reaches `body_within_limit`.  Releasing the lock hands it
to the first in the line, whose `db.connect` asks for a thread in the same step.
An answer says its status, and whether the body it answers went over the limit:
declared so, or cut off.

### Admission

A text is a sequence of characters, with one character for each kind that the
code treats in a way of its own: a small and a capital letter, a digit, the
hyphen, a space, a newline, a no-break space, a colon, the Kelvin sign (whose
small letter is an ASCII k), a full-width digit (which `strptime` reads).
`Characters` is that alphabet and `Text` any sequence over it.  The
operators are the functions of `names.py`, `config.py` and `app.py` under their
own names; Python's and Starlette's are marked external.  A request is one step
here, with its path, its header and, for a create, its name and expires; the
properties compare its answer with what the *letters* of the request say,
independently of the order in which the code folds, strips and checks.  A
timestamp has two fields of two digits, put together by `Format`, so that `Texts`
can list every spelling that `strptime` reads as a given moment.
`RequestsAssumption` says what reaches the service through Starlette: a path of at
least one segment, a header that is absent, a scheme with a text, or a Basic one
that does not decode, and a name and an expires that are texts or absent.

### DbFile

The state is what SQLite keeps: the image in the file (`main`), the image a new
reader sees (`top`), the commits in the `-wal`, whether they have all been copied,
and where an outside read stands.  An image is four facts: its cells lie where
the order of writes put them (`moved`), its change counter is off the constant
(`counted`), its schema cookie and its schema.  One action per statement of `settle`
and `canonicalise`, so that an outside process can open the file, read, take the
write lock or change the schema, the disk can fail a write, and the process can
be killed between any two.  A follow sets its day's count to some `c`: whether that
moves a cell is SQLite's record format (`CellMoves`), whether `settle` is told so
is `RELAYOUT_COUNTS`, and the bits of a byte are a constant because the largest
boundary, 2^47, is beyond TLC's integers.  `deferred` is `_deferred`: memory, gone with the
process.  `quiet` and `troubles` are history: whether anybody disturbed the
current request, and how many troubles have happened.

The rules of the write-ahead log are SQLite's, not the repository's; they are
marked external in the map, and were compared with SQLite 3.40.1 on random
sequences of writes, reads, checkpoints and closings.  `LinkService`'s
`OneConnection` is what allows one service connection here.

### Migrations

Each process goes through `migrate`: read `schema_version`, refuse a database
that records numbers the build lacks, then for each missing number in order
`BEGIN IMMEDIATE`, script, row, `COMMIT`.  `draft` is what the open transaction
has done; nobody sees it before `Commit`.  A script that has run before fails,
as `CREATE TABLE` without `IF NOT EXISTS` does.  The instances use three
migrations where the repository ships two, because a gap needs a number between
two others.

### TrafficCheck

One action per phase of the script, per answer it fetches and per call that judges
a capture; between any two, a service may send something of its own accord, the
kernel may drop a packet, an observer may die.  A packet keeps what `classify.py` looks at: interface,
direction, protocol, the two endpoints, SYN without ACK, and whether it carries
the control's name.  `Traffic` lists the packets of each kind of traffic, among
them every kind the rules have a case for; `Excused` is those rules in their
order.  A capture is a set, since no rule depends on the order of packets, and
`caught` is what of `sent` it holds.  The script's `findings` and `blinds` are
kept, and the verdict comes from them at the end.  `Enqueue` goes over the
references of an answer in order and queues each that is new; `Pulled` is defined
without it, as the paths in every set closed under references, and says what the
crawl should have come upon.

`judge` is three steps, since each of its calls runs in the observer and meets
one that has ended in its own way.  `StopCapture` stops `tcpdump`: without an
observer that fails, and the capture is blind.  `CountDrops` reads what the kernel
dropped: without an observer there is nothing to read, and it is blind.  `Classify`
prints the capture and calls `classify.py`: without an observer `dc exec` exits 1
itself, which the script takes for a finding.  `alive` and `stage` keep an observer
and how far its capture has been judged.  An observer that has ended also ends
the exercise or the crawl, whose port it publishes, and the scan of the
statistics page, which runs in it.  One that ends in the middle of the run of
`classify.py` makes that call exit 137, which is blind: this is left out, for the
script then says what it says of a capture that was lost a moment earlier.

`same_port`, a lookup from the very port the control's lookup had, is excused by
what is learned from the control; the properties leave it out by name.  Of a
page or a stylesheet only its references and "names another origin" are left, so
`loads.py` and the script's `grep` are each one bit.

## What TLC checks

| Run | Instance | Properties |
|---|---|---|
| `one` | 1 process, 3 requests, 2 names that both can be generated, expiry, 2 days, settles that fail | TypeOK, OneConnection, BornUnexpired, RedirectsAreCounted, GoneMeansDeleted, NeverRepointed, Atomic |
| `two` | 2 processes, 3 requests, 1 name, connections and statements that fail, crashes | IInv, TombstoneKeepsNothing, RedirectsAreCounted, OneWinner, DeletedIsFinal, AlmostAtomic |
| `path` | 3 clients, 2 threads, 5 routes, bodies of up to one chunk over the limit, fair | TypeOK, OneConnection, WaitingHoldsNothing, OnlyAdmittedTakeTurns, OverLimitIsRefused, FirstComeFirstServed, EveryoneIsAnswered |
| `admission` | names to 3 characters, keys to 3, headers to 3, every spelling of two moments | TypeOK, OneLinkPerSpelling, RootIsForLinks, OnlyTheKeyOpens, ExpiresInTimeOrder |
| `owed` | outside reads, locks and schema changes, I/O errors, crashes, 2 troubles, counts around every boundary | TypeOK, OwedUntilRewritten, NextRequestPays, OneCopyInWal, CookieCountsTroubles |
| `builds` | 3 processes of builds {1,3}, {1,2,3}, {1,2}; script 2 may fail half-way; crashes; fair | TypeOK, RecordedOnce, ServingIsMigrated, InOrder, FullBuildServes |
| `traffic` | 2 services, 4 small sites, 2 sendings at any moment, every fault | TypeOK, PassMeansNothingSent, SeenLeaksFail, InnocentIsNotAccused, PassMeansPagesAreClean |
| `false_gone`, `frames`, `cookie`, `cached`, `race` | smallest instance | the five findings |

What they show, beyond the properties' own words:

- `path`: a request that is complete is answered although clients stall for ever
  on both sides of it and others keep coming; with a `threading.Lock`, or with a
  connection that is closed after the response, TLC finds the service standing
  still within a few steps.
- `admission`: the ASCII check before the fold, `fullmatch` rather than `$`, the
  strip before the check for emptiness, and the round trip through `strftime`
  each turn out to be needed.
- `path`: a request over the limit hears of that before it hears of its key, on
  whichever of its ways; with the two dependencies in the other order, one
  without a key is answered 401.
- `traffic`: a pass is worth what it says except for `same_port`; of a site with
  more stylesheets than the crawl fetches it says nothing about the rest.  A fail
  is about something sent or served but for an observer that ends between its
  drop count and the call of `classify.py`, which InnocentIsNotAccused names as its
  one exception: no other loss, at any moment, accuses anybody.

**Bounds.**  `LinkService`: `NumReqs` is the number of requests that are ever sent.  Three
suffice for every pair of requests to race on what a third one made: two
follows, two deletes, a follow and a delete, or a delete and a second create.  `MaxTime` 1 with a day of one unit puts a midnight
and an expiry between any two steps.  `Attempts` is 1 or 2 rather than 10: the loop
gives up or goes round.  `MaxFrames` bounds the log by holding writes back (never
the statements of `settle`); five commits hold two writes, a rewrite, its cookie
and a schema change.  `MaxTroubles` bounds locks, errors, crashes and schema
changes together; a property that could break only after three would have to
remember two, and `settle` remembers one bit.  `Counts` has both sides of each
boundary of the record format.  `RequestPath`: one thread fewer than clients, so
that the pool can be full while one waits; a limit of one chunk, so that a body
can be under, at and over it.  `Admission`: `MAX_NAME_LENGTH` 2 with names of up to
three characters; `MaxLinks` 1, for the properties are about one link and one
request; `MaxTime` 7 passes both moments that can be asked for.  `TrafficCheck`:
`MaxTraffic` 2 lets one sending hide another; `Limit` 4 with five paths lets the
crawl stop short.  `CHECK_DEADLOCK FALSE` stands where requests run out
(LinkService), where every process serves (Migrations) and where the script has
ended (TrafficCheck); the runs of `DbFile`, `RequestPath` and `Admission` check for
deadlock.

**Fairness.**  `RequestPath!FairSpec`: a job that a thread has is finished in time,
one weak fairness per client's request, for the pool's threads run on their own.
Nothing is assumed of clients: they may never send the rest of a body nor take
an answer, and they may send new requests for ever.  That everyone is answered
then rests on the lock and the pool being first come, first served, as anyio's
are.  `Migrations!FairSpec`: a process runs on, and one that has exited is
started again, which `compose.yaml` asks for (`restart: unless-stopped`).  A script
that can fail half-way, and a process that can crash, may do so for ever;
`FullBuildServes` promises service from when they have stopped (`Untroubled`).

## What is proved

TLAPS checks these for every value of the constants, under the
`ConstantsAssumption` of each module.  Mostly that says that sets are sets of the
right things and that sentinels are not values.  `Admission` assumes more: its
`RequestsAssumption`, a `MAX_NAME_LENGTH` of at least 2 (the generator's names have to
fit, as the real six do in 64), timestamps in base 2 or 3 (the digits the alphabet
has), and a clock that stays within what a timestamp can say.  Settings, requests
and their texts are otherwise any, of any length.

- `LinkService_proofs`: `Spec => []IInv`, and from it TypeOK, OneConnection,
  TombstoneKeepsNothing, BornUnexpired, OneWinner, DeletedIsFinal;
  `Spec => NeverRepointed` as an action property; and RedirectsAreCounted.
- `LinkStore_proofs`: `Spec => AlmostAtomic`, the refinement of
  `LinkStore!WeakSpec` by any number of processes; and where `OneProcess` holds
  (`Procs` has at most one member), `Spec => Atomic` and GoneMeansDeleted.
- `RequestPath_proofs`: TypeOK, OneConnection, WaitingHoldsNothing,
  OnlyAdmittedTakeTurns and OverLimitIsRefused, for any number of clients and
  any size of the pool and of the limit; `Spec => FirstComeFirstServed` as an action
  property; and SomebodyRuns, which is stated beside its proof.
- `Admission_proofs`: `Spec => []AdmissionInv`, and from it TypeOK,
  OneLinkPerSpelling, RootIsForLinks, OnlyTheKeyOpens and ExpiresInTimeOrder.
- `DbFile_proofs`: TypeOK, OwedUntilRewritten, NextRequestPays, OneCopyInWal and
  CookieCountsTroubles, for a log of any length.
- `Migrations_proofs`: `Spec => []MInv`, and from it TypeOK, RecordedOnce,
  ServingIsMigrated and InOrder.
- `TrafficCheck_proofs`: `Spec => []TrafficInv`, and from it TypeOK,
  PassMeansNothingSent, SeenLeaksFail, PassMeansPagesAreClean and
  InnocentIsNotAccused, for any sites, any limit of the crawl, any filter and any
  faults.  The last has one hypothesis: the kernel filter lets the control's own
  query through, so that what is learned from it is not missing; the exception it
  names is in the property itself.

Every property of a passing run but the two of liveness is stated by a theorem.

**Why IInv.**  None of the properties is inductive.  `LocalOK` says what a
request at each place has established: a follow at `count` has seen a live row, a
create at `insert` has an expiry after its reading of the clock, and before its
writing statement a request has decided nothing.  `RowsOK` ties a row's state to
its contents.  `AnswersOK` carries an answer forward: a 201 means the row is
there, a 204 that it is a tombstone, for ever.  With these,
OneWinner holds because a second 201 needs an absent row and a second 204 a live one,
and DeletedIsFinal because what a request was told deleted before it was sent
is still a tombstone when its own statement runs.  Only three statements
write (`OnlyThreeWrite`), which keeps most of the proof to three cases.

**Why CountInv.**  RedirectsAreCounted bounds a count by the sizes of two sets of
requests.  A follow that has been answered 302 stays in the smaller set, or
leaves it for the doubtful ones when `settle` raises or the process dies, and
either way stays in the larger (`AnswersStand`); so while nothing is counted, the
smaller set does not grow and the larger does not shrink.  A counted follow is
new to both.  `FollowsOK` is there to say that a name with a redirect has a row,
so that a new link starts with a count of 0 and no redirect before it.

**The refinement.**  A step of the service depends on what its handler read
earlier, and the store takes the request at one instant; `ReadingOK` says why
one instant is enough.  A row that was read has kept its expiry, and its target
as long as it is live; the clock of the count is a moment since the request was
sent; and what had not expired when it was checked had not when the request was
sent.  Then each action that decides an answer is the action of the store that
gives it (`StepMatches`), with `FalseGone` where a delete asks why and meets a live
row.  With one process it never does: a request between a delete's two statements would
be a second one connected (`WhyOK`, `NeverFalseGone`).

**Why PathInv.**  OneConnection is not inductive because releasing the lock hands
it on: the next in line must be somebody else (`OnceInLine`), somebody who
waits, and without a job in the pool.  The last is in TypeOK, which says of the
pool that its members are those whose place is a thread's job, each queued once.
OnlyAdmittedTakeTurns needs that the flag is set only before the job that reads
it (`HitsAreLooked`).  OverLimitIsRefused rests on the same: whoever gets past that
job was not cut off, and what a handler answered stays the answer to such a body
until `settle_owed` may put a 500 in its place (`OwedAreAnswered`).  What EveryoneIsAnswered rests on is proved as far as it is
safety: while anybody waits for the lock or a thread, some thread has a job
(SomebodyRuns: the head of the line always has one, and a queue for the threads
means that all are taken), and nobody who waits is ever overtaken, because every
step either leaves a queue alone, appends to it or takes its head (`StepMoves`).
That jobs are finished, so that those before one run out, is fairness.

**Why OwedInv.**  `OwedAt` says for each place of `settle` what it already knows of
the file: from `first` on the rewrite is recorded as owed before anything is
tried; at `last` the cells are in order; at `reset` the log is empty, so that the
header written to the file is the header a reader sees.  That last fact is where
`_reset_change_counter`'s position after the second checkpoint matters, and the
proof needs it for any length of the log and any number of crashes.
NextRequestPays adds what a request that nobody disturbed has behind it:
it met no reader and no lock, so none of its checkpoints was put off, and what a
follow's count moved was either known to `settle` or moved nothing (`PaidInv`).
CookieCountsTroubles follows the cookie through a rewrite: it is one ahead only
between `VACUUM` and the statement that sets it back, and each way out of there
but that statement costs a trouble (`CookieInv`).
`OneCopyInWal` needs the smaller invariant that `VACUUM` starts only on a log that holds no
rewrite (`NoCopyYet`): the checkpoint before it has just emptied the log.

**Why MInv.**  A process decides what is left from one read and acts on it much
later, while others migrate.  `PlaceOK` says why that is safe: what its build
ships is recorded or left, for nothing is ever unrecorded
(`RecordedGrows`), and a script that got through has never run before, since one
that has would have raised.  So a commit takes both counts from 0 to 1.  The order is that
of `Lowest`, the smallest number left, which the proof takes from the
well-foundedness of the naturals.

**Why AdmissionInv.**  What varies here is the text, so most of the proof is
lemmas about every text.  `StripUnique`: whatever a text is made of, whitespace, then something
that begins and ends with none, then whitespace, `strip` returns the middle.  With `KeyInv` (the
key has something in it and no whitespace at its ends) this makes a bearer
header's comparison the same as "carries the key"; for a Basic one, `ColonAndKey` says
that the first colon splits it the only way it can be split, so that a key may
hold colons.  `NormaliseOfName` and `NormaliseResult`: a text normalises to a name
exactly if it has the same letters in small or capital; the ASCII check keeps out the
Kelvin sign, and without it the lemma is false.  `NameIsFollowed`: no name in the
grammar meets a route declared before `follow`.  `PrintedInOrder`: between printed
timestamps, the order of texts is that of moments; it needs fields of one width,
and the round trip lets in no others (`AcceptedIsPrinted`), for a text is read as
one moment only (`ReadAsOne`).

**Why TrafficInv.**  A verdict is reached long after what it is about.  `CaptureInv`
carries the packets over: a capture that can be read holds all that passed and was
not filtered, and none holds anything else but lines that do not parse.
`JudgeInv` keeps the judgement of the API's capture true while the site's is still
open: what has been judged was taken down whole or can never be read.
`ObserverInv` says how far a capture can be with its observer gone: counted ones
lack nothing as long as it runs, which leaves `Orphaned` as the one way to a
finding without a packet.  `CrawlInv` says that the queue is
made of what the fetched answers refer to, each once; when the crawl ends with the
queue exhausted, what was fetched is closed under references, which makes it
`Pulled` (`CrawlIsWhole`).  `ControlsInv` tells an end before the controls, which is always
blind, from one after them (`EndInv`).  PassMeansNothingSent then rests on
`LeakIsAViolation`: each kind of leak has a packet that no rule excuses, whatever
port was learned; and InnocentIsNotAccused on its converse, `NoLeakIsExcused`, that
every packet of any other kind is excused.

Only model-checked: EveryoneIsAnswered and FullBuildServes, since liveness is out of
the prover's reach.  GoneMeansDeleted without
`OneProcess`, and CachedSchemaIsRight, are refuted (see below).

## Findings

Each is a run that TLC refutes, with the quoted text in `PROJECT.json`.

1. `false_gone`: with two processes, a delete can answer 410 "already deleted"
   for a link that is live (`links.py:197-200`, ADR-0011).
2. `cookie`: a raise between `VACUUM` and `PRAGMA schema_version=` leaves the
   cookie raised for good (`db.py:216-218`).
3. `frames`: the frame of a follow counted in place while another process reads
   stays in the `-wal` after that read has ended (`db.py:152`, ADR-0021).
4. `race`: of two processes that migrate a fresh database, the loser may raise
   (`db.py:337`, against `db.py:24-29`); being restarted, it then serves
   (`FullBuildServes`).
5. `cached`: a schema change by another process between the comparison and the
   statement after it leaves a wrong cached schema under the file's cookie
   (`db.py:217-218`).

One process in compose is the deployment the repository ships; findings 1 and 4
need two.

Two more places where the code says less than its words are in the models without
a run of their own, as exceptions that a checked property names:

- An observer that ends after its drop count is read and before `classify.py` is
  called makes `dc exec` exit 1, and the check fails with an empty `fail: `; a moment
  earlier the same is blind (`no-third-party-check.sh:416-424`, against the exit
  statuses of lines 76-77).  Without `Orphaned` in InnocentIsNotAccused, TLC finds a
  service accused that sent nothing.
- A chunked body that is cut off after a part that is not yet JSON is answered
  422, where `body_within_limit` says 413 (`app.py:358`): FastAPI parses the body
  first.  It is refused either way, and OverLimitIsRefused allows both.

## What is not modelled

- The checks on the text of `url` and `created_by`, and HTML rendering: nothing
  later depends on what they let through but the answer itself.
- `_enable_wal`'s retries, and the rollback-journal mode it can leave a file in:
  `DbFile` is in WAL mode throughout.
- A checkpoint that raises, rather than reporting busy, and one that copies part
  of the log.
- The file names `discover_migrations` refuses.
- `loads.py`'s reading of HTML and CSS, and that a reference which a redirect
  answers is not followed further (`classify.py` and the crawl's scan still see
  the redirect); the checks before the stack is up.
- `NoStoreMiddleware` and the header that `_too_large` writes by hand: which layer
  sends the header is a constant of the code, not a matter of what happens when.
- Deployment: configuration of other programs.

## Plan

Done: the modules above, their runs, and their theorems.  Next, in order:

1. `DbFile` outside WAL mode, and checkpoints that raise.
2. `discover_migrations`' refusals, and the rules of `loads.py`.
3. What `FullBuildServes` rests on as far as it is safety, proved as was done for
   `EveryoneIsAnswered`.
