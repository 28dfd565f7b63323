------------------------------- MODULE DbFile -------------------------------
(***************************************************************************)
(* What db.settle leaves in the database files.  Every write is followed   *)
(* by a settle: one that may have moved a cell (a relayout) rewrites the   *)
(* file with VACUUM, sets back the schema cookie and the header's change   *)
(* counter that VACUUM raised, and every one empties the -wal.  An outside *)
(* process (an operator's shell) may hold the file open, hold a read, or   *)
(* hold the write lock, and the service may die, between any two           *)
(* statements.                                                             *)
(*                                                                         *)
(* The service holds one connection at a time (LinkService!OneConnection), *)
(* so its requests run one after the other here.  The file is in WAL mode. *)
(* Rows and bytes are left out: an image of the database says whether its  *)
(* cells lie where the order of writes put them (moved), its cookie and    *)
(* schema, and whether its header's counter is off the constant (counted). *)
(***************************************************************************)
EXTENDS Naturals, Sequences

CONSTANTS
  Outside,       \* what outsiders do: "read", "lock", "ddl"
  Faults,        \* what fails here: "crash", "io"
  ByteBits,      \* bits in a byte: 8, but for TLC, whose integers are short
  Counts,        \* the counts that follows reach
  MaxFrames,     \* bound: writes wait while the -wal holds this many commits
  MaxTroubles    \* bound: locks taken, I/O errors, crashes and DDL in a run

Places  == {"down", "idle", "open", "settle", "first", "schema", "cookie", "vacuum",
            "compare", "setback", "last", "reset", "owed", "close"}

ASSUME ConstantsAssumption ==
  /\ Outside \subseteq {"read", "lock", "ddl"}
  /\ Faults \subseteq {"crash", "io"}
  /\ Counts \subseteq Nat \ {0}
  /\ MaxFrames \in Nat /\ MaxTroubles \in Nat

\* What an integer of w bytes stays below
Limit(w) == 2 ^ (w * ByteBits - 1)

ASSUME LimitsAssumption == \A w \in {1, 2, 3, 4, 6} : Limit(w) \in Nat

VARIABLES
  main,          \* the image in the database file
  top,           \* the image a new reader sees: main with the -wal's commits
  wal,           \* the commits in the -wal, oldest first
  copied,        \* a checkpoint has copied every frame of the -wal into main
  shell,         \* an outside connection is open
  reader,        \* where its read transaction stands
  cached,        \* the schema and cookie it last read, if any: a set of one
  lock,          \* it holds the write lock
  pc,            \* where the service is
  caller,        \* who called settle
  relayout,      \* settle's local
  saved,         \* canonicalise's locals: the schema and the cookie it read
  deferred,      \* the file is in db._deferred, which dies with the process
  op,            \* the last request's statement
  quiet,         \* history: no outsider and no fault since the last connect
  troubles       \* history: counts towards MaxTroubles

file    == <<main, top, wal, copied>>
outside == <<shell, reader, cached, lock>>
local   == <<pc, caller, relayout, saved, deferred, op>>
vars    == <<file, outside, local, quiet, troubles>>

Commits == {"relayout", "inplace", "rewrite", "cookie", "ddl"}
Image   == [moved : BOOLEAN, counted : BOOLEAN, cookie : Nat, schema : Nat]

\* A file as this version leaves it, or one written by an earlier version
Clean == [moved |-> FALSE, counted |-> FALSE, cookie |-> 0, schema |-> 0]
Old   == [moved |-> TRUE, counted |-> TRUE, cookie |-> 0, schema |-> 0]

Init ==
  /\ top \in {Clean, Old} /\ main = top /\ wal = <<>> /\ copied = TRUE
  /\ shell = FALSE /\ reader = "none" /\ lock = FALSE
  /\ cached = {}
  /\ pc = "down" /\ caller = "boot" /\ relayout = FALSE /\ deferred = FALSE
  /\ saved = [schema |-> 0, cookie |-> 0]
  /\ op = "none" /\ quiet = FALSE /\ troubles = 0

-----------------------------------------------------------------------------
(* SQLite's records *)

Smallest(S) == CHOOSE w \in S : \A v \in S : w <= v

\* The sizes a record gives an integer, short of 8 bytes, that this one fits;
\* 0 and 1 take no bytes at all.
Fits(c)  == {w \in {1, 2, 3, 4, 6} : c < Limit(w)}
Width(c) == IF c <= 1 THEN 0
            ELSE IF Fits(c) = {} THEN 8
            ELSE Smallest(Fits(c))

\* The cell of a day's count moves when it is new or stored in more bytes.
CellMoves(c) == c = 1 \/ Width(c) # Width(c - 1)

\* Broken: the boundary between three bytes and four is left out.
RELAYOUT_COUNTS_Short == {1, 2} \cup {Limit(1), Limit(2), Limit(4), Limit(6)}

RELAYOUT_COUNTS == {1, 2} \cup {Limit(1), Limit(2), Limit(3), Limit(4), Limit(6)}

-----------------------------------------------------------------------------
(* SQLite's write-ahead log *)

Alone == reader = "none" /\ ~ lock

\* A transaction commits: a frame more, which a read at the log's end does
\* not see.
Commit(what, image) ==
  /\ wal' = Append(wal, what)
  /\ top' = image
  /\ copied' = FALSE
  /\ reader' = IF reader = "end" THEN "behind" ELSE reader
  /\ UNCHANGED <<main, shell, cached, lock>>

\* A checkpoint copies the whole log unless a read stands before its end,
\* and cuts it to 0 bytes unless a read or a writer still needs it.
CopiesAll == copied \/ reader \in {"none", "end"}
Empties   == ~ lock /\ (wal = <<>> \/ (CopiesAll /\ reader \in {"none", "main"}))

Checkpoint ==
  /\ main' = IF CopiesAll THEN top ELSE main
  /\ copied' = CopiesAll
  /\ wal' = IF Empties THEN <<>> ELSE wal
  /\ UNCHANGED <<top, outside>>

\* The last connection to close checkpoints and removes the -wal.
LastClose == main' = top /\ wal' = <<>> /\ copied' = TRUE /\ UNCHANGED top

-----------------------------------------------------------------------------
(* A request, from connect to close *)

Goto(place) == pc' = place

Connect ==
  /\ pc = "idle"
  /\ Goto("open") /\ op' = "none" /\ quiet' = Alone
  /\ UNCHANGED <<file, outside, caller, relayout, saved, deferred, troubles>>

Read ==
  /\ pc = "open"
  /\ Goto("owed") /\ op' = "read"
  /\ UNCHANGED <<file, outside, caller, relayout, saved, deferred, quiet, troubles>>

\* A statement that writes commits; it may have moved cells.
Write(what, image) ==
  /\ pc = "open" /\ ~ lock /\ Len(wal) < MaxFrames
  /\ Commit(what, image)
  /\ Goto("settle") /\ op' = "write" /\ caller' = "write"
  /\ relayout' = (what = "relayout")
  /\ UNCHANGED <<saved, deferred, quiet, troubles>>

\* A create or a delete: a row comes or shrinks.
WriteLink == Write("relayout", [top EXCEPT !.moved = TRUE])

\* A follow's count is now c: record_follow asks RELAYOUT_COUNTS whether
\* that moved its cell.
WriteCount(c) ==
  Write(IF c \in RELAYOUT_COUNTS THEN "relayout" ELSE "inplace",
        IF CellMoves(c) THEN [top EXCEPT !.moved = TRUE] ELSE top)

\* The write statement meets the outsider's lock and raises.
WriteFails ==
  /\ pc = "open" /\ lock
  /\ Goto("owed") /\ op' = "none"
  /\ UNCHANGED <<file, outside, caller, relayout, saved, deferred, quiet, troubles>>

\* Broken: a request pays no debt of an earlier one.
SettleOwedNever ==
  /\ pc = "owed"
  /\ Goto("close")
  /\ UNCHANGED <<file, outside, caller, relayout, saved, deferred, op, quiet, troubles>>

\* get_conn's settle_owed
SettleOwed ==
  /\ pc = "owed"
  /\ IF deferred
     THEN Goto("settle") /\ caller' = "owed" /\ relayout' = FALSE
     ELSE Goto("close") /\ UNCHANGED <<caller, relayout>>
  /\ UNCHANGED <<file, outside, saved, deferred, op, quiet, troubles>>

\* conn.close: a boot that failed ends the process.
Close ==
  /\ pc = "close"
  /\ Goto(IF caller = "failed" THEN "down" ELSE "idle")
  /\ IF shell THEN UNCHANGED file ELSE LastClose
  /\ deferred' = (deferred /\ caller # "failed")
  /\ UNCHANGED <<outside, caller, relayout, saved, op, quiet, troubles>>

\* The lifespan: connect, migrate (which finds nothing to do), settle.
Start ==
  /\ pc = "down"
  /\ Goto("settle") /\ caller' = "boot" /\ relayout' = TRUE /\ deferred' = FALSE
  /\ op' = "write" /\ quiet' = Alone
  /\ UNCHANGED <<file, outside, saved, troubles>>

-----------------------------------------------------------------------------
(* settle and canonicalise *)

\* settle returns, or raises, to its caller; get_conn swallows what
\* settle_owed raises, and a boot's exception ends the process.
Return == Goto(IF caller = "write" THEN "owed" ELSE "close") /\ UNCHANGED caller
Raise  == /\ Goto(IF caller = "write" THEN "owed" ELSE "close")
          /\ caller' = IF caller = "boot" THEN "failed" ELSE caller

Stay == UNCHANGED <<file, outside>>

\* A statement that writes is refused while an outsider holds the lock, or
\* the disk fails it.
CannotWrite ==
  /\ \/ lock /\ UNCHANGED <<quiet, troubles>>
     \/ /\ "io" \in Faults /\ troubles < MaxTroubles
        /\ troubles' = troubles + 1 /\ quiet' = FALSE
  /\ Raise /\ Stay
  /\ UNCHANGED <<relayout, saved, deferred, op>>

Enter ==
  /\ pc = "settle"
  /\ relayout' = (relayout \/ deferred)
  /\ deferred' = (relayout \/ deferred)
  /\ Goto(IF relayout \/ deferred THEN "first" ELSE "last")
  /\ UNCHANGED <<file, outside, caller, saved, op, quiet, troubles>>

\* Broken: the file is rewritten although the -wal could not be emptied.
FirstCheckpointIgnored ==
  /\ pc = "first"
  /\ Checkpoint
  /\ Goto("schema")
  /\ UNCHANGED <<caller, relayout, saved, deferred, op, quiet, troubles>>

\* The rewrite is put off when the -wal cannot be emptied first.
FirstCheckpoint ==
  /\ pc = "first"
  /\ Checkpoint
  /\ IF Empties THEN Goto("schema") /\ UNCHANGED caller ELSE Return
  /\ UNCHANGED <<relayout, saved, deferred, op, quiet, troubles>>

ReadSchema ==
  /\ pc = "schema"
  /\ Goto("cookie") /\ saved' = [saved EXCEPT !.schema = top.schema]
  /\ UNCHANGED <<file, outside, caller, relayout, deferred, op, quiet, troubles>>

ReadCookie ==
  /\ pc = "cookie"
  /\ Goto("vacuum") /\ saved' = [saved EXCEPT !.cookie = top.cookie]
  /\ UNCHANGED <<file, outside, caller, relayout, deferred, op, quiet, troubles>>

Rewritten(image) == [moved |-> FALSE, counted |-> TRUE,
                     cookie |-> image.cookie + 1, schema |-> image.schema]

Vacuum ==
  /\ pc = "vacuum"
  /\ \/ /\ ~ lock /\ Commit("rewrite", Rewritten(top))
        /\ Goto("compare")
        /\ UNCHANGED <<caller, relayout, saved, deferred, op, quiet, troubles>>
     \/ CannotWrite

\* Broken: the cookie is never set back.
CompareNever ==
  /\ pc = "compare"
  /\ Goto("last")
  /\ UNCHANGED <<file, outside, caller, relayout, saved, deferred, op, quiet, troubles>>

Compare ==
  /\ pc = "compare"
  /\ Goto(IF top.schema = saved.schema THEN "setback" ELSE "last")
  /\ UNCHANGED <<file, outside, caller, relayout, saved, deferred, op, quiet, troubles>>

\* PRAGMA schema_version: page 1 is written, and the counter with it.
SetBack ==
  /\ pc = "setback"
  /\ \/ /\ ~ lock /\ Commit("cookie", [top EXCEPT !.cookie = saved.cookie, !.counted = TRUE])
        /\ Goto("last")
        /\ UNCHANGED <<caller, relayout, saved, deferred, op, quiet, troubles>>
     \/ CannotWrite

\* Broken: the header is written although frames are left in the -wal.
LastCheckpointIgnored ==
  /\ pc = "last"
  /\ Checkpoint
  /\ IF relayout THEN Goto("reset") /\ UNCHANGED caller ELSE Return
  /\ UNCHANGED <<relayout, saved, deferred, op, quiet, troubles>>

LastCheckpoint ==
  /\ pc = "last"
  /\ Checkpoint
  /\ IF Empties /\ relayout THEN Goto("reset") /\ UNCHANGED caller ELSE Return
  /\ UNCHANGED <<relayout, saved, deferred, op, quiet, troubles>>

\* _reset_change_counter writes the header of the database file itself, and
\* only then is the rewrite no longer owed.
ResetCounter ==
  /\ pc = "reset"
  /\ \/ /\ ~ lock
        /\ main' = [main EXCEPT !.counted = FALSE]
        /\ top' = IF wal = <<>> THEN main' ELSE top
        /\ deferred' = FALSE
        /\ Return
        /\ UNCHANGED <<wal, copied, outside, relayout, saved, op, quiet, troubles>>
     \/ CannotWrite

-----------------------------------------------------------------------------
(* Outside the service *)

\* An outsider opens the file, or closes it.
ShellOpens ==
  /\ Outside # {} /\ ~ shell /\ shell' = TRUE
  /\ UNCHANGED <<file, reader, cached, lock, local, quiet, troubles>>

ShellCloses ==
  /\ shell /\ Alone /\ shell' = FALSE /\ cached' = {}
  /\ IF pc \in {"idle", "down"} THEN LastClose ELSE UNCHANGED file
  /\ UNCHANGED <<reader, lock, local, quiet, troubles>>

\* BEGIN; SELECT: the read takes the log's end, or the file itself when
\* everything in the log has been copied there.
BeginRead ==
  /\ "read" \in Outside /\ shell /\ reader = "none"
  /\ reader' = IF wal = <<>> \/ copied THEN "main" ELSE "end"
  /\ cached' = {[schema |-> top.schema, cookie |-> top.cookie]}
  /\ quiet' = FALSE
  /\ UNCHANGED <<file, shell, lock, local, troubles>>

EndRead ==
  /\ reader # "none" /\ reader' = "none"
  /\ UNCHANGED <<file, shell, cached, lock, local, quiet, troubles>>

TakeLock ==
  /\ "lock" \in Outside /\ shell /\ ~ lock /\ troubles < MaxTroubles
  /\ lock' = TRUE /\ quiet' = FALSE /\ troubles' = troubles + 1
  /\ UNCHANGED <<file, shell, reader, cached, local>>

FreeLock ==
  /\ lock /\ lock' = FALSE
  /\ UNCHANGED <<file, shell, reader, cached, local, quiet, troubles>>

Migrated(image) == [moved |-> TRUE, counted |-> TRUE,
                    cookie |-> image.cookie + 1, schema |-> image.schema + 1]

\* Another process changes the schema (a newer version of the service
\* migrates) while someone else has the file open: the cookie goes up by one.
Ddl ==
  /\ "ddl" \in Outside /\ ~ lock /\ troubles < MaxTroubles
  /\ (shell \/ pc \notin {"down", "idle"})
  /\ Commit("ddl", Migrated(top))
  /\ quiet' = FALSE /\ troubles' = troubles + 1
  /\ UNCHANGED local

\* The process is killed: its connection is gone without closing, and with
\* it what it remembered of the rewrites it owes.  The next connection to a
\* file nobody has open recovers the -wal from its start.
Crash ==
  /\ "crash" \in Faults /\ pc # "down" /\ troubles < MaxTroubles
  /\ Goto("down") /\ deferred' = FALSE
  /\ copied' = (wal = <<>> \/ (copied /\ shell))
  /\ quiet' = FALSE /\ troubles' = troubles + 1
  /\ UNCHANGED <<main, top, wal, outside, caller, relayout, saved, op>>

Service ==
  \/ Start \/ Connect \/ Read \/ WriteLink \/ (\E c \in Counts : WriteCount(c)) \/ WriteFails
  \/ SettleOwed \/ Close
  \/ Enter \/ FirstCheckpoint \/ ReadSchema \/ ReadCookie \/ Vacuum \/ Compare \/ SetBack
  \/ LastCheckpoint \/ ResetCounter

Outsiders == ShellOpens \/ ShellCloses \/ BeginRead \/ EndRead \/ TakeLock \/ FreeLock \/ Ddl

Next == Service \/ Outsiders \/ Crash

Spec == Init /\ [][Next]_vars

-----------------------------------------------------------------------------
(* Properties *)

FileOK ==
  /\ main \in Image /\ top \in Image /\ wal \in Seq(Commits) /\ copied \in BOOLEAN
  /\ wal = <<>> \/ copied => main = top

\* The header is written to a file no frame of the log still stands for.
HeaderOK == pc = "reset" => wal = <<>> \/ ~ copied

OutsideOK ==
  /\ shell \in BOOLEAN /\ lock \in BOOLEAN
  /\ reader \in {"none", "main", "end", "behind"}
  /\ cached \subseteq [schema : Nat, cookie : Nat]

PlaceOK ==
  /\ pc \in Places /\ caller \in {"boot", "failed", "write", "owed"}
  /\ relayout \in BOOLEAN /\ deferred \in BOOLEAN
  /\ saved \in [schema : Nat, cookie : Nat]

HistoryOK ==
  /\ op \in {"none", "read", "write"} /\ quiet \in BOOLEAN /\ troubles \in 0 .. MaxTroubles

\* Every variable keeps its shape, and what has been copied or emptied is
\* the image a reader sees (SQLite's log, as settle relies on it).
TypeOK == FileOK /\ HeaderOK /\ OutsideOK /\ PlaceOK /\ HistoryOK

\* Between requests, a file whose cells or whose change counter still tell
\* of past writes is one the service knows it owes a rewrite, whichever
\* checkpoint was held up and whichever statement raised, and whatever
\* counts the follows had reached, until another process changes the schema
\* (db.settle; db.RELAYOUT_COUNTS; ADR-0021 decision 6).
OwedUntilRewritten ==
  pc = "idle" /\ top.schema = 0 /\ (top.moved \/ top.counted) => deferred

\* A request during which nobody else read or wrote pays whatever was owed,
\* a read as well as a write, and a write leaves no commit in the -wal
\* (db.settle_owed; ADR-0021 decisions 4-6).
NextRequestPays ==
  pc = "idle" /\ quiet /\ top.schema = 0 =>
    /\ ~ deferred /\ ~ main.moved /\ ~ main.counted
    /\ op = "write" => wal = <<>>

\* The -wal never holds more than one rewrite's copy of the database,
\* however long an outsider's read holds up the checkpoints (db.py:147-150).
OneCopyInWal ==
  \A i, j \in DOMAIN wal : wal[i] = "rewrite" /\ wal[j] = "rewrite" => i = j

\* Between requests the schema cookie counts changes of the schema and not
\* the rewrites (db.canonicalise; ADR-0021 decision 3).
CookieIsTheSchemas ==
  pc = "idle" => top.cookie = top.schema

\* Each lock, I/O error, crash or foreign change that cuts a rewrite short
\* raises the cookie over the schema by at most one, and nothing else does:
\* reads that put the rewrites off, and the rewrites themselves, leave no
\* trace in it (db.canonicalise).
CookieCountsTroubles ==
  pc = "idle" => top.cookie <= top.schema + troubles

\* ADR-0021: the -wal keeps commits only until the outsider's read ends; the
\* first request after that leaves it empty.
FramesEndWithRead ==
  pc = "idle" /\ quiet => wal = <<>>

\* db.py:207-209: a connection that cached the schema at a cookie still
\* holds the right one whenever the file carries that cookie.
CachedSchemaIsRight ==
  reader = "none" => \A c \in cached : c.cookie = top.cookie => c.schema = top.schema

-----------------------------------------------------------------------------
(* The inductive invariant *)

\* The bytes of what a reader sees still tell of past writes.
Telling == top.moved \/ top.counted

\* What settle knows of the file at each of its places
OwedAt ==
  /\ pc \in {"idle", "open", "owed", "close"} /\ Telling => deferred
  /\ pc = "settle" /\ Telling => deferred \/ relayout
  /\ pc \in {"first", "schema", "cookie", "vacuum", "compare", "setback", "reset"}
       => deferred /\ relayout
  /\ pc = "last" => deferred = relayout /\ (Telling => relayout)
  /\ pc \in {"compare", "setback", "last", "reset"} => ~ top.moved
  /\ pc = "reset" => wal = <<>>

\* Until another process changes the schema: settle keeps no track of other
\* processes' writes.
OwedInv == TypeOK /\ (top.schema = 0 => OwedAt)

\* A rewrite begins only on a log that has been emptied.
NoCopyYet == pc \in {"schema", "cookie", "vacuum"} => \A i \in DOMAIN wal : wal[i] # "rewrite"

CopyInv == TypeOK /\ NoCopyYet /\ OneCopyInWal

\* The same of what is in the database file itself, which a checkpoint or a
\* close may leave behind the log
Recorded == main.moved \/ main.counted

RecordedAt ==
  /\ pc \in {"idle", "open", "owed", "close"} /\ Recorded => deferred
  /\ pc = "settle" /\ Recorded => deferred \/ relayout
  /\ pc = "last" /\ Recorded => relayout

\* What a request that nobody disturbed has done when settle has returned
PaidAt ==
  /\ pc = "owed" /\ op = "write" => ~ deferred /\ wal = <<>>
  /\ pc \in {"close", "idle"} => ~ deferred /\ (op = "write" => wal = <<>>)

PaidInv ==
  /\ OwedInv
  /\ quiet => Alone
  /\ top.schema = 0 => RecordedAt /\ (quiet => PaidAt)

\* Between VACUUM and SetBack the cookie is one ahead, and is set back unless
\* something that counts as a trouble comes in between.
Ahead ==
  /\ top.cookie <= top.schema + troubles + (IF pc \in {"compare", "setback"} THEN 1 ELSE 0)
  /\ pc \in {"compare", "setback"} /\ (lock \/ top.schema # saved.schema)
       => top.cookie <= top.schema + troubles
  /\ pc \in {"cookie", "vacuum"} /\ top.schema # saved.schema
       => top.cookie + 1 <= top.schema + troubles
  /\ pc \in {"vacuum", "compare", "setback"} => saved.cookie <= top.schema + troubles

CookieInv == TypeOK /\ Ahead
=============================================================================
