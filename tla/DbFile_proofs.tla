---------------------------- MODULE DbFile_proofs ----------------------------
(* Theorems about DbFile, for every value of its constants.                *)
EXTENDS DbFile, TLAPS

USE ConstantsAssumption

-----------------------------------------------------------------------------
(* Type correctness, one group of variables at a time *)

\* A commit is a frame more, so what is in the file is behind.
LEMMA CommitKeepsFile ==
  ASSUME FileOK, NEW what \in Commits, NEW image \in Image, Commit(what, image)
  PROVE  FileOK' /\ wal' # <<>> /\ ~ copied'
<1>1. wal' = Append(wal, what) /\ wal \in Seq(Commits) BY DEF Commit, FileOK
<1>2. wal' \in Seq(Commits) /\ wal' # <<>> BY <1>1
<1>3. main' \in Image /\ top' \in Image /\ copied' = FALSE BY DEF Commit, FileOK
<1> QED BY <1>2, <1>3 DEF FileOK

\* The images the service's and the outsiders' commits leave
LEMMA Images ==
  ASSUME FileOK
  PROVE  /\ [top EXCEPT !.moved = TRUE] \in Image /\ top \in Image
         /\ Rewritten(top) \in Image /\ Migrated(top) \in Image
         /\ PlaceOK => [top EXCEPT !.cookie = saved.cookie, !.counted = TRUE] \in Image
<1> USE DEF FileOK, Image
<1>1. [top EXCEPT !.moved = TRUE] \in Image OBVIOUS
<1>2. Rewritten(top) \in Image BY DEF Rewritten
<1>3. Migrated(top) \in Image BY DEF Migrated
<1>4. ASSUME PlaceOK PROVE [top EXCEPT !.cookie = saved.cookie, !.counted = TRUE] \in Image
  BY <1>4 DEF PlaceOK
<1> QED BY <1>1, <1>2, <1>3, <1>4

\* Every step that touches the files commits, checkpoints, closes the last
\* connection or writes the header.
LEMMA FileStep == FileOK /\ HeaderOK /\ PlaceOK /\ [Next]_vars => FileOK'
<1> SUFFICES ASSUME FileOK, HeaderOK, PlaceOK, [Next]_vars PROVE FileOK' OBVIOUS
<1>1. ASSUME UNCHANGED file PROVE FileOK' BY <1>1 DEF FileOK, file
<1>2. ASSUME Checkpoint PROVE FileOK'
  BY <1>2 DEF Checkpoint, CopiesAll, Empties, FileOK
<1>3. ASSUME LastClose PROVE FileOK' BY <1>3 DEF LastClose, FileOK
<1>4. CASE Start \/ Connect \/ Read \/ WriteFails \/ SettleOwed \/ Enter
  BY <1>4, <1>1 DEF Start, Connect, Read, WriteFails, SettleOwed, Enter
<1>5. CASE WriteLink \/ (\E c \in Counts : WriteCount(c))
  BY <1>5, CommitKeepsFile, Images DEF WriteLink, WriteCount, Write, Commits
<1>6. CASE Close \/ ShellCloses
  BY <1>1, <1>3, <1>6 DEF Close, ShellCloses
<1>7. CASE FirstCheckpoint \/ LastCheckpoint
  BY <1>2, <1>7 DEF FirstCheckpoint, LastCheckpoint
<1>8. CASE ReadSchema \/ ReadCookie \/ Compare
  BY <1>1, <1>8 DEF ReadSchema, ReadCookie, Compare
<1>9. ASSUME CannotWrite PROVE FileOK' BY <1>1, <1>9 DEF CannotWrite, Stay
<1>10. CASE Vacuum \/ SetBack
  BY <1>9, <1>10, CommitKeepsFile, Images DEF Vacuum, SetBack, Commits
<1>11. CASE ResetCounter
  <2>1. CASE CannotWrite BY <1>9, <2>1
  <2>2. CASE /\ main' = [main EXCEPT !.counted = FALSE]
             /\ top' = IF wal = <<>> THEN main' ELSE top
             /\ UNCHANGED <<wal, copied>>
    <3>1. pc = "reset" BY <1>11 DEF ResetCounter
    <3> QED BY <2>2, <3>1 DEF FileOK, HeaderOK, Image
  <2> QED BY <1>11, <2>1, <2>2 DEF ResetCounter
<1>12. CASE ShellOpens \/ BeginRead \/ EndRead \/ TakeLock \/ FreeLock
  BY <1>1, <1>12 DEF ShellOpens, BeginRead, EndRead, TakeLock, FreeLock
<1>13. CASE Ddl
  BY <1>13, CommitKeepsFile, Images DEF Ddl, Commits
<1>14. CASE Crash
  <2>1. copied' = (wal = <<>> \/ (copied /\ shell)) /\ UNCHANGED <<main, top, wal>>
    BY <1>14 DEF Crash
  <2> QED BY <2>1 DEF FileOK
<1>15. CASE UNCHANGED vars
  BY <1>1, <1>15 DEF vars
<1> QED
  BY <1>4, <1>5, <1>6, <1>7, <1>8, <1>10, <1>11, <1>12, <1>13, <1>14, <1>15
  DEF Next, Service, Outsiders

\* The only way to the header's reset is a checkpoint that emptied the log.
LEMMA HeaderStep == HeaderOK /\ [Next]_vars => HeaderOK'
<1> SUFFICES ASSUME HeaderOK, [Next]_vars, pc' = "reset" PROVE wal' = <<>> \/ ~ copied'
  BY DEF HeaderOK
<1> USE DEF Goto, file, Return, Raise
<1>1. CASE LastCheckpoint
  BY <1>1 DEF LastCheckpoint, Checkpoint, Empties
<1>2. ASSUME UNCHANGED <<pc, wal, copied>> PROVE wal' = <<>> \/ ~ copied'
  BY <1>2 DEF HeaderOK
<1>3. ASSUME CannotWrite PROVE FALSE
  BY <1>3 DEF CannotWrite
<1>4. CASE Start \/ Connect \/ Read \/ WriteLink \/ (\E c \in Counts : WriteCount(c)) \/ WriteFails \/ SettleOwed \/ Close
  BY <1>4 DEF Start, Connect, Read, WriteLink, WriteCount, Write, WriteFails, SettleOwed, Close
<1>5. CASE Enter \/ FirstCheckpoint \/ ReadSchema \/ ReadCookie \/ Compare
  BY <1>5 DEF Enter, FirstCheckpoint, ReadSchema, ReadCookie, Compare
<1>6. CASE Vacuum \/ SetBack \/ ResetCounter
  BY <1>3, <1>6 DEF Vacuum, SetBack, ResetCounter
<1>7. CASE ShellOpens \/ BeginRead \/ EndRead \/ TakeLock \/ FreeLock \/ ShellCloses
  BY <1>2, <1>7 DEF ShellOpens, BeginRead, EndRead, TakeLock, FreeLock, ShellCloses, LastClose, local
<1>8. CASE Ddl
  BY <1>8 DEF Ddl, Commit
<1>9. CASE Crash
  BY <1>9 DEF Crash
<1>10. CASE UNCHANGED vars
  BY <1>2, <1>10 DEF vars, local
<1> QED
  BY <1>1, <1>4, <1>5, <1>6, <1>7, <1>8, <1>9, <1>10 DEF Next, Service, Outsiders

\* Every step keeps the outsider's variables in their sets.
LEMMA OutsideStep == OutsideOK /\ FileOK /\ [Next]_vars => OutsideOK'
<1> SUFFICES ASSUME OutsideOK, FileOK, [Next]_vars PROVE OutsideOK' OBVIOUS
<1>1. ASSUME UNCHANGED outside PROVE OutsideOK' BY <1>1 DEF OutsideOK, outside
<1>2. ASSUME NEW what, NEW image, Commit(what, image) PROVE OutsideOK'
  BY <1>2 DEF Commit, OutsideOK
<1>3. ASSUME CannotWrite PROVE OutsideOK' BY <1>1, <1>3 DEF CannotWrite, Stay
<1>4. CASE Start \/ Connect \/ Read \/ WriteFails \/ SettleOwed \/ Close \/ Enter
  BY <1>1, <1>4 DEF Start, Connect, Read, WriteFails, SettleOwed, Close, Enter
<1>5. CASE WriteLink \/ (\E c \in Counts : WriteCount(c)) \/ Vacuum \/ SetBack \/ Ddl
  BY <1>2, <1>3, <1>5 DEF WriteLink, WriteCount, Write, Vacuum, SetBack, Ddl
<1>6. CASE FirstCheckpoint \/ LastCheckpoint \/ ReadSchema \/ ReadCookie \/ Compare
  BY <1>1, <1>6 DEF FirstCheckpoint, LastCheckpoint, Checkpoint, ReadSchema, ReadCookie, Compare
<1>7. CASE ResetCounter
  BY <1>1, <1>3, <1>7 DEF ResetCounter
<1>8. CASE ShellOpens \/ EndRead \/ TakeLock \/ FreeLock
  BY <1>8 DEF ShellOpens, EndRead, TakeLock, FreeLock, OutsideOK
<1>9. CASE ShellCloses
  BY <1>9 DEF ShellCloses, OutsideOK
<1>10. CASE BeginRead
  BY <1>10 DEF BeginRead, OutsideOK, FileOK, Image
<1>11. CASE Crash
  BY <1>1, <1>11 DEF Crash
<1>12. CASE UNCHANGED vars
  BY <1>1, <1>12 DEF vars
<1> QED
  BY <1>4, <1>5, <1>6, <1>7, <1>8, <1>9, <1>10, <1>11, <1>12 DEF Next, Service, Outsiders

\* Every step keeps the service's variables in their sets.
LEMMA PlaceStep == PlaceOK /\ FileOK /\ [Next]_vars => PlaceOK'
<1> SUFFICES ASSUME PlaceOK, FileOK, [Next]_vars PROVE PlaceOK' OBVIOUS
<1> USE DEF PlaceOK, Places, Goto
<1>1. ASSUME UNCHANGED local PROVE PlaceOK' BY <1>1 DEF local
<1>2. ASSUME CannotWrite PROVE PlaceOK' BY <1>2 DEF CannotWrite, Raise
<1>3. CASE Start \/ Connect \/ Read \/ WriteFails \/ SettleOwed
  BY <1>3 DEF Start, Connect, Read, WriteFails, SettleOwed
<1>4. CASE WriteLink \/ (\E c \in Counts : WriteCount(c))
  BY <1>4 DEF WriteLink, WriteCount, Write
<1>5. CASE Close \/ Enter
  BY <1>5 DEF Close, Enter
<1>6. CASE FirstCheckpoint \/ LastCheckpoint
  BY <1>6 DEF FirstCheckpoint, LastCheckpoint, Return
<1>7. CASE ReadSchema \/ ReadCookie \/ Compare
  BY <1>7 DEF ReadSchema, ReadCookie, Compare, FileOK, Image
<1>8. CASE Vacuum \/ SetBack \/ ResetCounter
  BY <1>2, <1>8 DEF Vacuum, SetBack, ResetCounter, Return
<1>9. CASE Outsiders
  BY <1>1, <1>9 DEF Outsiders, ShellOpens, ShellCloses, BeginRead, EndRead, TakeLock, FreeLock, Ddl
<1>10. CASE Crash
  BY <1>10 DEF Crash
<1>11. CASE UNCHANGED vars
  BY <1>1, <1>11 DEF vars
<1> QED
  BY <1>3, <1>4, <1>5, <1>6, <1>7, <1>8, <1>9, <1>10, <1>11 DEF Next, Service

\* The history only counts: Boolean quiet apart from the sum.
LEMMA HistoryStep == HistoryOK /\ [Next]_vars => HistoryOK'
<1> SUFFICES ASSUME HistoryOK, [Next]_vars PROVE HistoryOK' OBVIOUS
<1> USE DEF local, Alone
<1> DEFINE Kept == op' \in {op, "none", "read", "write"} /\ quiet' \in {quiet, FALSE, Alone}
           Tally == troubles' = troubles \/ (troubles < MaxTroubles /\ troubles' = troubles + 1)
<1>1. CannotWrite => (quiet' \in {quiet, FALSE}) /\ Tally /\ op' = op
  BY DEF CannotWrite
<1>2. ASSUME Start \/ Connect \/ Read \/ WriteFails \/ SettleOwed \/ Close \/ Enter PROVE Kept /\ Tally
  BY <1>2 DEF Start, Connect, Read, WriteFails, SettleOwed, Close, Enter
<1>3. ASSUME WriteLink \/ (\E c \in Counts : WriteCount(c)) PROVE Kept /\ Tally
  BY <1>3 DEF WriteLink, WriteCount, Write
<1>4. ASSUME FirstCheckpoint \/ LastCheckpoint \/ ReadSchema \/ ReadCookie \/ Compare PROVE Kept /\ Tally
  BY <1>4 DEF FirstCheckpoint, LastCheckpoint, ReadSchema, ReadCookie, Compare
<1>5. ASSUME Vacuum \/ SetBack \/ ResetCounter PROVE Kept /\ Tally
  BY <1>1, <1>5 DEF Vacuum, SetBack, ResetCounter
<1>6. ASSUME ShellOpens \/ ShellCloses \/ BeginRead \/ EndRead \/ FreeLock PROVE Kept /\ Tally
  BY <1>6 DEF ShellOpens, ShellCloses, BeginRead, EndRead, FreeLock
<1>7. ASSUME TakeLock \/ Ddl \/ Crash PROVE Kept /\ Tally
  BY <1>7 DEF TakeLock, Ddl, Crash
<1>8. ASSUME UNCHANGED vars PROVE Kept /\ Tally
  BY <1>8 DEF vars
<1>9. Kept /\ Tally
  BY <1>2, <1>3, <1>4, <1>5, <1>6, <1>7, <1>8 DEF Next, Service, Outsiders
<1>10. op' \in {"none", "read", "write"} BY <1>9 DEF HistoryOK
<1>11. quiet' \in BOOLEAN BY <1>9 DEF HistoryOK
<1>12. troubles' \in 0 .. MaxTroubles BY <1>9 DEF HistoryOK, ConstantsAssumption
<1> QED BY <1>10, <1>11, <1>12 DEF HistoryOK

\* The file starts empty of commits, with the service down.
LEMMA TypeInit == Init => TypeOK
<1> SUFFICES ASSUME Init PROVE TypeOK OBVIOUS
<1>a. Clean \in Image BY DEF Clean, Image
<1>b. Old \in Image BY DEF Old, Image
<1>1. top \in Image BY <1>a, <1>b DEF Init
<1>2. FileOK /\ HeaderOK BY <1>1 DEF Init, FileOK, HeaderOK
<1>3. OutsideOK BY DEF Init, OutsideOK
<1>4. PlaceOK BY DEF Init, PlaceOK, Places
<1>c. 0 \in 0 .. MaxTroubles BY DEF ConstantsAssumption
<1>5. HistoryOK BY <1>c DEF Init, HistoryOK
<1> QED BY <1>2, <1>3, <1>4, <1>5 DEF TypeOK

\* Every step keeps the type invariant.
LEMMA TypeStep == TypeOK /\ [Next]_vars => TypeOK'
BY FileStep, HeaderStep, OutsideStep, PlaceStep, HistoryStep DEF TypeOK

\* Every variable keeps its shape, and what has been copied out of the -wal
\* is what a reader sees (db.settle, db.canonicalise, app.get_conn).
THEOREM TypeCorrect == Spec => []TypeOK
BY TypeInit, TypeStep, PTL DEF Spec

-----------------------------------------------------------------------------
(* What a follow does to the layout *)

\* A count that does not fit what the count before it fitted is a boundary.
LEMMA FitsChangesAtLimits ==
  ASSUME NEW c \in Nat, Fits(c) # Fits(c - 1)
  PROVE  c \in {Limit(1), Limit(2), Limit(3), Limit(4), Limit(6)}
<1> DEFINE W == {1, 2, 3, 4, 6}
<1>1. PICK w \in W : ~ (c < Limit(w) <=> c - 1 < Limit(w))
  BY DEF Fits
<1>2. Limit(w) \in Nat BY LimitsAssumption
<1>3. c = Limit(w)
  <2> HIDE DEF Limit
  <2> QED BY <1>1, <1>2
<1> QED BY <1>3

\* RELAYOUT_COUNTS holds every count at which a follow moves its cell.
LEMMA RelayoutCountsComplete ==
  ASSUME NEW c \in Counts, CellMoves(c)
  PROVE  c \in RELAYOUT_COUNTS
<1>1. c \in Nat \ {0} BY DEF ConstantsAssumption
<1>2. CASE c \in {1, 2} BY <1>2 DEF RELAYOUT_COUNTS
<1>3. CASE c \notin {1, 2}
  <2>1. c > 2 /\ ~ (c <= 1) /\ ~ (c - 1 <= 1) BY <1>1, <1>3
  <2>2. Width(c) # Width(c - 1) BY <1>3 DEF CellMoves
  <2>3. Fits(c) # Fits(c - 1) BY <2>1, <2>2 DEF Width
  <2> QED BY <1>1, <2>3, FitsChangesAtLimits DEF RELAYOUT_COUNTS
<1> QED BY <1>2, <1>3

-----------------------------------------------------------------------------
(* What is owed *)

\* At boot nothing is owed yet: the first settle rewrites the file.
LEMMA OwedInit == Init => OwedInv
<1> SUFFICES ASSUME Init PROVE OwedAt
  BY TypeInit DEF OwedInv
<1> QED BY DEF Init, OwedAt, Telling

\* A statement that raises leaves the debt as it was.
LEMMA OwedKept ==
  ASSUME PlaceOK, OwedAt, UNCHANGED <<top, wal, deferred, relayout>>,
         pc' \in {"idle", "down", "owed", "close"}, pc \notin {"settle", "down"},
         pc = "last" => deferred = relayout
  PROVE  OwedAt'
BY DEF OwedAt, Telling, PlaceOK, Places

\* No step but another process's changes the schema.
LEMMA SchemaIsOthers ==
  ASSUME FileOK, HeaderOK, PlaceOK, [Next]_vars, ~ Ddl
  PROVE  top'.schema = top.schema
<1> USE DEF file, Stay
<1>0. top \in Image /\ main \in Image BY DEF FileOK
<1>1. ASSUME UNCHANGED top PROVE top'.schema = top.schema BY <1>1
<1>2. ASSUME CannotWrite PROVE top'.schema = top.schema BY <1>2 DEF CannotWrite
<1>3. CASE Start \/ Connect \/ Read \/ WriteFails \/ SettleOwed \/ Close \/ Enter \/ FirstCheckpoint
           \/ ReadSchema \/ ReadCookie \/ Compare \/ LastCheckpoint \/ Crash
  BY <1>3 DEF Start, Connect, Read, WriteFails, SettleOwed, Close, LastClose, Enter, FirstCheckpoint,
              Checkpoint, ReadSchema, ReadCookie, Compare, LastCheckpoint, Crash
<1>4. CASE WriteLink \/ (\E c \in Counts : WriteCount(c))
  BY <1>0, <1>4 DEF WriteLink, WriteCount, Write, Commit, Image
<1>5. CASE Vacuum
  BY <1>2, <1>5 DEF Vacuum, Commit, Rewritten
<1>6. CASE SetBack
  BY <1>0, <1>2, <1>6 DEF SetBack, Commit, Image
<1>7. CASE ResetCounter
  BY <1>0, <1>2, <1>7 DEF ResetCounter, HeaderOK, FileOK, Image
<1>8. CASE Outsiders
  BY <1>8 DEF Outsiders, ShellOpens, ShellCloses, LastClose, BeginRead, EndRead, TakeLock, FreeLock
<1>9. CASE UNCHANGED vars
  BY <1>9 DEF vars
<1> QED BY <1>3, <1>4, <1>5, <1>6, <1>7, <1>8, <1>9 DEF Next, Service

\* Every step keeps what settle knows of the file at each of its places.
LEMMA OwedStep == OwedInv /\ [Next]_vars => OwedInv'
<1> SUFFICES ASSUME OwedInv, [Next]_vars, top'.schema = 0 PROVE OwedAt'
  BY TypeStep DEF OwedInv
<1> USE DEF Goto, file, Stay
<1>b. PlaceOK /\ FileOK /\ top \in Image BY DEF OwedInv, TypeOK, FileOK
<1>c. OwedAt /\ ~ Ddl
  <2>1. CASE Ddl
    <3>1. top'.schema = top.schema + 1 BY <2>1 DEF Ddl, Commit, Migrated
    <3> QED BY <1>b, <3>1 DEF Image
  <2>2. CASE ~ Ddl
    <3>1. top.schema = 0 BY <1>b, <2>2, SchemaIsOthers DEF OwedInv, TypeOK
    <3> QED BY <2>2, <3>1 DEF OwedInv
  <2> QED BY <2>1, <2>2
<1>a. OwedAt /\ PlaceOK /\ FileOK BY <1>b, <1>c
<1>1. CASE Start
  BY <1>1 DEF Start, OwedAt, Telling
<1>2. CASE Connect \/ Read \/ WriteFails
  BY <1>a, <1>2 DEF Connect, Read, WriteFails, OwedAt, Telling
<1>3. CASE WriteLink
  BY <1>a, <1>3 DEF WriteLink, Write, OwedAt
<1>4. CASE \E c \in Counts : WriteCount(c)
  <2>1. PICK c \in Counts : WriteCount(c) BY <1>4
  <2>2. CASE c \in RELAYOUT_COUNTS
    BY <2>1, <2>2 DEF WriteCount, Write, OwedAt
  <2>3. CASE c \notin RELAYOUT_COUNTS
    <3>1. ~ CellMoves(c) BY <2>3, RelayoutCountsComplete
    <3>2. Write("inplace", top) BY <2>1, <2>3, <3>1 DEF WriteCount
    <3> QED BY <1>a, <3>2 DEF Write, Commit, OwedAt, Telling
  <2> QED BY <2>2, <2>3
<1>5. CASE SettleOwed
  BY <1>a, <1>5 DEF SettleOwed, OwedAt, Telling
<1>6. CASE Close
  <2>1. top' = top BY <1>6 DEF Close, LastClose
  <2>2. Telling => deferred BY <1>a, <1>6 DEF Close, OwedAt
  <2> QED BY <2>1, <2>2, <1>6 DEF Close, OwedAt, Telling
<1>7. CASE Enter
  <2>1. CASE relayout \/ deferred
    BY <1>7, <2>1 DEF Enter, OwedAt
  <2>2. CASE ~ (relayout \/ deferred)
    <3>1. ~ Telling BY <1>a, <1>7, <2>2 DEF Enter, OwedAt
    <3>2. /\ pc' = "last" /\ UNCHANGED top
          /\ relayout' = (relayout \/ deferred) /\ deferred' = (relayout \/ deferred)
      BY <1>7, <2>2 DEF Enter
    <3> QED BY <3>1, <3>2 DEF OwedAt, Telling
  <2> QED BY <2>1, <2>2
<1>8. CASE FirstCheckpoint
  BY <1>a, <1>8 DEF FirstCheckpoint, Checkpoint, Return, OwedAt
<1>9. CASE ReadSchema \/ ReadCookie
  BY <1>a, <1>9 DEF ReadSchema, ReadCookie, OwedAt
<1>10. ASSUME CannotWrite, deferred, pc \in Places \ {"settle", "down", "last"} PROVE OwedAt'
  BY <1>a, <1>10 DEF CannotWrite, Raise, OwedAt
<1>11. CASE Vacuum
  <2>1. deferred /\ pc = "vacuum" BY <1>a, <1>11 DEF Vacuum, OwedAt
  <2>2. CASE Commit("rewrite", Rewritten(top)) /\ Goto("compare") /\ UNCHANGED <<relayout, deferred>>
    BY <1>a, <1>11, <2>2 DEF Vacuum, Commit, Rewritten, OwedAt
  <2> QED BY <1>10, <1>11, <2>1, <2>2 DEF Vacuum, Places
<1>12. CASE Compare
  BY <1>a, <1>12 DEF Compare, OwedAt
<1>13. CASE SetBack
  <2>1. deferred /\ relayout /\ ~ top.moved /\ pc = "setback" BY <1>a, <1>13 DEF SetBack, OwedAt
  <2>2. CASE /\ Commit("cookie", [top EXCEPT !.cookie = saved.cookie, !.counted = TRUE])
             /\ Goto("last") /\ UNCHANGED <<relayout, deferred>>
    <3>1. ~ top'.moved
      BY <1>a, <2>1, <2>2 DEF Commit, FileOK, Image
    <3> QED BY <2>1, <2>2, <3>1 DEF OwedAt
  <2> QED BY <1>10, <1>13, <2>1, <2>2 DEF SetBack, Places
<1>14. CASE LastCheckpoint
  BY <1>a, <1>14 DEF LastCheckpoint, Checkpoint, Return, OwedAt, Telling, Empties
<1>15. CASE ResetCounter
  <2>1. deferred /\ pc = "reset" /\ ~ top.moved /\ wal = <<>> BY <1>a, <1>15 DEF ResetCounter, OwedAt
  <2>2. CASE /\ main' = [main EXCEPT !.counted = FALSE]
             /\ top' = (IF wal = <<>> THEN main' ELSE top) /\ Return
    <3>1. ~ top'.moved /\ ~ top'.counted BY <1>a, <2>1, <2>2 DEF FileOK, Image
    <3>2. pc' \in {"owed", "close"} BY <2>2 DEF Return
    <3> QED BY <3>1, <3>2 DEF OwedAt, Telling
  <2> QED BY <1>10, <1>15, <2>1, <2>2 DEF ResetCounter, Places
<1>16. ASSUME UNCHANGED <<top, wal, local>> PROVE OwedAt'
  BY <1>a, <1>16 DEF OwedAt, Telling, local
<1>17. CASE Outsiders
  <2>1. CASE ShellOpens \/ BeginRead \/ EndRead \/ TakeLock \/ FreeLock
    BY <1>16, <2>1 DEF ShellOpens, BeginRead, EndRead, TakeLock, FreeLock
  <2>2. CASE ShellCloses
    BY <1>a, <2>2 DEF ShellCloses, LastClose, OwedAt, Telling, local
  <2> QED BY <1>c, <1>17, <2>1, <2>2 DEF Outsiders
<1>18. CASE Crash
  BY <1>18 DEF Crash, OwedAt
<1>19. CASE UNCHANGED vars
  BY <1>16, <1>19 DEF vars
<1> QED
  BY <1>1, <1>2, <1>3, <1>4, <1>5, <1>6, <1>7, <1>8, <1>9, <1>11, <1>12, <1>13, <1>14, <1>15,
     <1>17, <1>18, <1>19 DEF Next, Service

\* Until another process changes the schema, a file whose layout or change
\* counter tells of past writes is owed a rewrite whenever no request is
\* served, however checkpoints, locks, I/O errors and crashes fell
\* (db.settle, db.settle_owed, the lifespan's settle).
THEOREM RewritesStayOwed == Spec => []OwedUntilRewritten
<1>1. OwedInv => OwedUntilRewritten BY DEF OwedInv, OwedAt, OwedUntilRewritten, Telling
<1> QED BY <1>1, OwedInit, OwedStep, PTL DEF Spec

-----------------------------------------------------------------------------
(* One copy *)

\* The log starts empty.
LEMMA CopyInit == Init => CopyInv
BY TypeInit DEF Init, CopyInv, NoCopyYet, OneCopyInWal

\* Every step keeps the log at one rewrite's copy: VACUUM runs only on a log
\* that held none.
LEMMA CopyStep == CopyInv /\ [Next]_vars => CopyInv'
<1> SUFFICES ASSUME CopyInv, [Next]_vars PROVE NoCopyYet' /\ OneCopyInWal'
  BY TypeStep DEF CopyInv
<1> USE DEF Goto, file, Stay
<1>a. NoCopyYet /\ OneCopyInWal /\ FileOK /\ PlaceOK BY DEF CopyInv, TypeOK
<1>b. wal \in Seq(Commits) BY <1>a DEF FileOK
<1>1. ASSUME wal' \in {wal, <<>>}, pc' \in {"schema", "cookie", "vacuum"} =>
               wal' = <<>> \/ pc \in {"schema", "cookie", "vacuum"}
      PROVE  NoCopyYet' /\ OneCopyInWal'
  BY <1>a, <1>1 DEF NoCopyYet, OneCopyInWal
<1>2. ASSUME NEW what \in Commits \ {"rewrite"}, NEW image, Commit(what, image),
             pc' \in {"schema", "cookie", "vacuum"} => pc = pc'
      PROVE  NoCopyYet' /\ OneCopyInWal'
  <2>1. wal' = Append(wal, what) BY <1>2 DEF Commit
  <2>2. /\ DOMAIN wal' = 1 .. Len(wal) + 1 /\ DOMAIN wal = 1 .. Len(wal) /\ Len(wal) \in Nat
        /\ wal'[Len(wal) + 1] = what /\ \A i \in DOMAIN wal : wal'[i] = wal[i]
    BY <1>b, <2>1
  <2>3. \A i \in DOMAIN wal' : wal'[i] = "rewrite" => i \in DOMAIN wal /\ wal[i] = "rewrite"
    BY <1>2, <2>2
  <2> QED BY <1>a, <1>2, <2>3 DEF NoCopyYet, OneCopyInWal
<1>3. CASE Start \/ Connect \/ Read \/ WriteFails \/ SettleOwed \/ Enter
  BY <1>1, <1>3 DEF Start, Connect, Read, WriteFails, SettleOwed, Enter
<1>4. CASE WriteLink \/ (\E c \in Counts : WriteCount(c))
  BY <1>2, <1>4 DEF WriteLink, WriteCount, Write, Commits
<1>5. CASE Close \/ ShellCloses
  BY <1>1, <1>5 DEF Close, ShellCloses, LastClose, local
<1>6. CASE FirstCheckpoint \/ LastCheckpoint
  BY <1>1, <1>6 DEF FirstCheckpoint, LastCheckpoint, Checkpoint, Return
<1>7. CASE ReadSchema \/ ReadCookie \/ Compare
  BY <1>1, <1>7 DEF ReadSchema, ReadCookie, Compare
<1>8. ASSUME CannotWrite PROVE NoCopyYet' /\ OneCopyInWal'
  BY <1>1, <1>8 DEF CannotWrite, Raise
<1>9. CASE Vacuum
  <2>1. CASE Commit("rewrite", Rewritten(top)) /\ Goto("compare")
    <3>1. \A i \in DOMAIN wal : wal[i] # "rewrite" BY <1>a, <1>9 DEF Vacuum, NoCopyYet
    <3>2. wal' = Append(wal, "rewrite") BY <2>1 DEF Commit
    <3>3. /\ DOMAIN wal' = 1 .. Len(wal) + 1 /\ DOMAIN wal = 1 .. Len(wal) /\ Len(wal) \in Nat
          /\ \A i \in DOMAIN wal : wal'[i] = wal[i]
      BY <1>b, <3>2
    <3>4. \A i \in DOMAIN wal' : wal'[i] = "rewrite" => i = Len(wal) + 1
      BY <3>1, <3>3
    <3> QED BY <2>1, <3>4 DEF NoCopyYet, OneCopyInWal
  <2> QED BY <1>8, <1>9, <2>1 DEF Vacuum
<1>10. CASE SetBack
  BY <1>2, <1>8, <1>10 DEF SetBack, Commits
<1>11. CASE ResetCounter
  BY <1>1, <1>8, <1>11 DEF ResetCounter, Return
<1>12. CASE ShellOpens \/ BeginRead \/ EndRead \/ TakeLock \/ FreeLock
  BY <1>1, <1>12 DEF ShellOpens, BeginRead, EndRead, TakeLock, FreeLock, local
<1>13. CASE Ddl
  BY <1>2, <1>13 DEF Ddl, Commits, local
<1>14. CASE Crash
  BY <1>1, <1>14 DEF Crash
<1>15. CASE UNCHANGED vars
  BY <1>1, <1>15 DEF vars, local
<1> QED
  BY <1>3, <1>4, <1>5, <1>6, <1>7, <1>9, <1>10, <1>11, <1>12, <1>13, <1>14, <1>15
  DEF Next, Service, Outsiders

\* However long outsiders hold reads and locks, and whatever they do to the
\* schema, at most one rewrite's copy of the database is in the -wal
\* (db.settle puts a rewrite off while the -wal cannot be emptied).
THEOREM WalHoldsOneCopy == Spec => []OneCopyInWal
<1>1. CopyInv => OneCopyInWal BY DEF CopyInv
<1> QED BY <1>1, CopyInit, CopyStep, PTL DEF Spec

-----------------------------------------------------------------------------
(* What an undisturbed request pays *)

\* The first request begins with the boot's settle.
LEMMA PaidInit == Init => PaidInv
<1> SUFFICES ASSUME Init PROVE PaidInv OBVIOUS
<1>1. RecordedAt /\ ~ quiet BY DEF Init, RecordedAt, Recorded
<1> QED BY <1>1, OwedInit DEF PaidInv

\* Who reads or locks has disturbed the request.
LEMMA QuietIsAlone ==
  ASSUME quiet => Alone, quiet \in BOOLEAN, [Next]_vars PROVE quiet' => Alone'
<1> USE DEF Alone, outside
<1>1. ASSUME UNCHANGED <<reader, lock>>, quiet' \in {quiet, FALSE, Alone} PROVE quiet' => Alone'
  BY <1>1
<1>2. ASSUME CannotWrite PROVE quiet' => Alone' BY <1>1, <1>2 DEF CannotWrite, Stay
<1>3. ASSUME NEW what, NEW image, Commit(what, image), quiet' \in {quiet, FALSE} PROVE quiet' => Alone'
  BY <1>3 DEF Commit
<1>4. CASE Start \/ Connect \/ Read \/ WriteFails \/ SettleOwed \/ Close \/ Enter
  BY <1>1, <1>4 DEF Start, Connect, Read, WriteFails, SettleOwed, Close, Enter
<1>5. CASE WriteLink \/ (\E c \in Counts : WriteCount(c)) \/ Vacuum \/ SetBack \/ Ddl
  BY <1>2, <1>3, <1>5 DEF WriteLink, WriteCount, Write, Vacuum, SetBack, Ddl
<1>6. CASE FirstCheckpoint \/ LastCheckpoint \/ ReadSchema \/ ReadCookie \/ Compare
  BY <1>1, <1>6 DEF FirstCheckpoint, LastCheckpoint, Checkpoint, ReadSchema, ReadCookie, Compare
<1>7. CASE ResetCounter
  BY <1>1, <1>2, <1>7 DEF ResetCounter
<1>8. CASE ShellOpens \/ ShellCloses \/ BeginRead \/ EndRead \/ TakeLock \/ FreeLock
  BY <1>8 DEF ShellOpens, ShellCloses, BeginRead, EndRead, TakeLock, FreeLock
<1>9. CASE Crash BY <1>1, <1>9 DEF Crash
<1>10. CASE UNCHANGED vars BY <1>1, <1>10 DEF vars
<1> QED BY <1>4, <1>5, <1>6, <1>7, <1>8, <1>9, <1>10 DEF Next, Service, Outsiders

\* What the database file itself tells of past writes is owed as well: only a
\* checkpoint or a close brings something into it, from a log that is owed.
LEMMA RecordedStep ==
  ASSUME OwedInv, OwedAt, RecordedAt, [Next]_vars, ~ Ddl PROVE RecordedAt'
<1> USE DEF Goto, file
<1>a. PlaceOK /\ FileOK BY DEF OwedInv, TypeOK
<1>1. ASSUME UNCHANGED <<main, local>> PROVE RecordedAt'
  BY <1>1 DEF RecordedAt, Recorded, local
<1>2. ASSUME CannotWrite, deferred, pc \notin {"settle", "last"} PROVE RecordedAt'
  BY <1>2 DEF CannotWrite, Raise, Stay, RecordedAt
<1>3. CASE Start \/ Connect \/ Read \/ WriteFails \/ SettleOwed
  BY <1>3 DEF Start, Connect, Read, WriteFails, SettleOwed, RecordedAt, Recorded
<1>4. CASE WriteLink \/ (\E c \in Counts : WriteCount(c))
  BY <1>4 DEF WriteLink, WriteCount, Write, Commit, RecordedAt, Recorded
<1>5. ASSUME main' = main \/ main' = top PROVE Recorded' => Recorded \/ Telling
  BY <1>5 DEF Recorded, Telling
<1>6. CASE Close
  <2>1. Recorded' => deferred BY <1>5, <1>6 DEF Close, LastClose, OwedAt, RecordedAt
  <2> QED BY <1>6, <2>1 DEF Close, RecordedAt
<1>7. CASE Enter
  <2>1. UNCHANGED main /\ relayout' = (relayout \/ deferred) /\ deferred' = (relayout \/ deferred)
        /\ pc = "settle" /\ pc' \in {"first", "last"}
    BY <1>7 DEF Enter
  <2> QED BY <2>1 DEF RecordedAt, Recorded
<1>8. CASE FirstCheckpoint
  BY <1>8 DEF FirstCheckpoint, Return, RecordedAt, OwedAt
<1>9. CASE ReadSchema \/ ReadCookie \/ Compare
  BY <1>9 DEF ReadSchema, ReadCookie, Compare, RecordedAt, OwedAt
<1>10. CASE Vacuum \/ SetBack
  <2>1. deferred /\ relayout BY <1>10 DEF Vacuum, SetBack, OwedAt
  <2> QED BY <1>2, <1>10, <2>1 DEF Vacuum, SetBack, Commit, RecordedAt
<1>11. CASE LastCheckpoint
  <2>1. deferred = relayout /\ (Telling => relayout) /\ (Recorded => relayout)
    BY <1>11 DEF LastCheckpoint, OwedAt, RecordedAt
  <2>2. Recorded' => relayout BY <1>5, <1>11, <2>1 DEF LastCheckpoint, Checkpoint
  <2> QED BY <1>11, <2>1, <2>2 DEF LastCheckpoint, Return, RecordedAt
<1>12. CASE ResetCounter
  <2>1. deferred /\ pc = "reset" /\ ~ top.moved /\ wal = <<>> BY <1>12 DEF ResetCounter, OwedAt
  <2>2. CASE main' = [main EXCEPT !.counted = FALSE] /\ Return
    <3>1. ~ main'.moved /\ ~ main'.counted BY <1>a, <2>1, <2>2 DEF FileOK, Image
    <3> QED BY <2>2, <3>1 DEF Return, RecordedAt, Recorded
  <2> QED BY <1>2, <1>12, <2>1, <2>2 DEF ResetCounter
<1>13. CASE ShellOpens \/ BeginRead \/ EndRead \/ TakeLock \/ FreeLock
  BY <1>1, <1>13 DEF ShellOpens, BeginRead, EndRead, TakeLock, FreeLock
<1>14. CASE ShellCloses
  <2>1. UNCHANGED local /\ (main' = main \/ (main' = top /\ pc \in {"idle", "down"}))
    BY <1>14 DEF ShellCloses, LastClose
  <2> QED BY <1>1, <1>5, <2>1 DEF OwedAt, RecordedAt, local
<1>15. CASE Crash BY <1>15 DEF Crash, RecordedAt
<1>16. CASE UNCHANGED vars BY <1>1, <1>16 DEF vars
<1> QED
  BY <1>3, <1>4, <1>6, <1>7, <1>8, <1>9, <1>10, <1>11, <1>12, <1>13, <1>14, <1>15, <1>16
  DEF Next, Service, Outsiders

\* A request nobody disturbs meets no lock and no reader, so its settle is
\* neither put off nor cut short.
LEMMA PaidStep ==
  ASSUME OwedInv, OwedAt, quiet => Alone /\ PaidAt, [Next]_vars, ~ Ddl, quiet'
  PROVE  PaidAt'
<1> USE DEF Goto, file
<1>a. PlaceOK /\ quiet \in BOOLEAN BY DEF OwedInv, TypeOK, HistoryOK
<1>1. ASSUME quiet, UNCHANGED <<pc, deferred, op>>, wal' \in {wal, <<>>} PROVE PaidAt'
  BY <1>1 DEF PaidAt
<1>2. ASSUME quiet, CannotWrite PROVE FALSE BY <1>2 DEF CannotWrite, Alone
<1>3. ASSUME pc' \notin {"owed", "close", "idle"} PROVE PaidAt' BY <1>3 DEF PaidAt
<1>4. CASE Start \/ Connect \/ WriteLink \/ (\E c \in Counts : WriteCount(c)) \/ Enter
           \/ ReadSchema \/ ReadCookie \/ Compare
  BY <1>3, <1>4 DEF Start, Connect, WriteLink, WriteCount, Write, Enter, ReadSchema, ReadCookie, Compare
<1>5. CASE Read \/ WriteFails
  BY <1>5 DEF Read, WriteFails, PaidAt
<1>6. CASE SettleOwed
  BY <1>6 DEF SettleOwed, PaidAt
<1>7. CASE Close
  BY <1>7 DEF Close, LastClose, PaidAt
<1>8. CASE FirstCheckpoint
  <2>1. Empties BY <1>8 DEF FirstCheckpoint, Empties, CopiesAll, Alone
  <2> QED BY <1>3, <1>8, <2>1 DEF FirstCheckpoint
<1>9. CASE Vacuum \/ SetBack
  <2>1. quiet BY <1>9 DEF Vacuum, SetBack, CannotWrite
  <2> QED BY <1>2, <1>3, <1>9, <2>1 DEF Vacuum, SetBack
<1>10. CASE LastCheckpoint
  <2>1. Empties BY <1>10 DEF LastCheckpoint, Empties, CopiesAll, Alone
  <2>2. CASE relayout BY <1>3, <1>10, <2>1, <2>2 DEF LastCheckpoint
  <2>3. CASE ~ relayout
    <3>1. ~ deferred BY <1>10, <2>3 DEF LastCheckpoint, OwedAt
    <3>2. ~ deferred' /\ wal' = <<>> BY <1>10, <2>1, <3>1 DEF LastCheckpoint, Checkpoint
    <3> QED BY <3>2 DEF PaidAt
  <2> QED BY <2>2, <2>3
<1>11. CASE ResetCounter
  <2>1. quiet /\ ~ CannotWrite BY <1>2, <1>11 DEF ResetCounter, CannotWrite
  <2>2. wal = <<>> BY <1>11 DEF ResetCounter, OwedAt
  <2>3. ~ deferred' /\ wal' = <<>> BY <1>11, <2>1, <2>2 DEF ResetCounter
  <2> QED BY <2>3 DEF PaidAt
<1>12. CASE ShellOpens \/ ShellCloses \/ BeginRead \/ EndRead \/ TakeLock \/ FreeLock
  BY <1>1, <1>12 DEF ShellOpens, ShellCloses, LastClose, BeginRead, EndRead, TakeLock, FreeLock, local
<1>13. CASE Crash BY <1>13 DEF Crash
<1>14. CASE UNCHANGED vars BY <1>1, <1>14 DEF vars, local
<1> QED
  BY <1>4, <1>5, <1>6, <1>7, <1>8, <1>9, <1>10, <1>11, <1>12, <1>13, <1>14
  DEF Next, Service, Outsiders

\* Every step keeps the account of what is owed and what is paid.
LEMMA PaidInvStep == PaidInv /\ [Next]_vars => PaidInv'
<1> SUFFICES ASSUME PaidInv, [Next]_vars PROVE PaidInv' OBVIOUS
<1>1. OwedInv' BY OwedStep DEF PaidInv
<1>2. quiet' => Alone' BY QuietIsAlone DEF PaidInv, OwedInv, TypeOK, HistoryOK
<1>3. ASSUME top'.schema = 0 PROVE RecordedAt' /\ (quiet' => PaidAt')
  <2>1. FileOK /\ HeaderOK /\ PlaceOK /\ top \in Image BY DEF PaidInv, OwedInv, TypeOK, FileOK
  <2>2. ~ Ddl
    <3>1. ASSUME Ddl PROVE top'.schema = top.schema + 1 BY <3>1 DEF Ddl, Commit, Migrated
    <3> QED BY <1>3, <2>1, <3>1 DEF Image
  <2>3. top.schema = 0 BY <1>3, <2>1, <2>2, SchemaIsOthers
  <2>4. OwedInv /\ OwedAt /\ RecordedAt /\ (quiet => Alone /\ PaidAt) BY <2>3 DEF PaidInv, OwedInv
  <2> QED BY <2>2, <2>4, RecordedStep, PaidStep
<1> QED BY <1>1, <1>2, <1>3 DEF PaidInv

\* Whatever earlier requests were put off, failed or killed for, the next one
\* that nobody disturbs leaves the database file in the layout and with the
\* counter that tell nothing of past writes, and if it wrote, an empty -wal
\* (db.settle_owed in app.get_conn; the lifespan's settle).
THEOREM UndisturbedRequestPays == Spec => []NextRequestPays
<1>1. PaidInv => NextRequestPays
  BY DEF PaidInv, RecordedAt, PaidAt, Recorded, NextRequestPays
<1> QED BY <1>1, PaidInit, PaidInvStep, PTL DEF Spec

-----------------------------------------------------------------------------
(* The schema cookie *)

\* A file starts with its cookie at its schema.
LEMMA CookieInit == Init => CookieInv
<1> SUFFICES ASSUME Init PROVE Ahead BY TypeInit DEF CookieInv
<1>1. top.cookie = 0 /\ top.schema = 0 BY DEF Init, Clean, Old
<1> QED BY <1>1 DEF Init, Ahead

\* Steps that leave the file's schema and cookie alone
LEMMA AheadKept ==
  ASSUME TypeOK, Ahead,
         top'.cookie = top.cookie, top'.schema = top.schema,
         \/ troubles' = troubles + 1
         \/ troubles' = troubles /\ (lock' => lock),
         pc' = pc \/ pc' \notin {"cookie", "vacuum", "compare", "setback"},
         pc \in {"compare", "setback"} =>
            pc' = pc \/ troubles' = troubles + 1 \/ lock \/ top.schema # saved.schema,
         saved' = saved
  PROVE  Ahead'
<1>1. /\ top.cookie \in Nat /\ top.schema \in Nat /\ troubles \in Nat
      /\ saved.cookie \in Nat /\ saved.schema \in Nat
  BY DEF TypeOK, FileOK, Image, PlaceOK, HistoryOK
<1> QED BY <1>1 DEF Ahead

\* Every step keeps the cookie in its bounds.
LEMMA CookieStep == CookieInv /\ [Next]_vars => CookieInv'
<1> SUFFICES ASSUME CookieInv, [Next]_vars PROVE Ahead' BY TypeStep DEF CookieInv
<1> USE DEF Goto, file, outside
<1>a. TypeOK /\ Ahead BY DEF CookieInv
<1>b. /\ top.cookie \in Nat /\ top.schema \in Nat /\ troubles \in Nat
      /\ saved.cookie \in Nat /\ saved.schema \in Nat /\ top \in Image /\ main \in Image
      /\ saved \in [schema : Nat, cookie : Nat]
  BY <1>a DEF TypeOK, FileOK, Image, PlaceOK, HistoryOK
<1>1. ASSUME CannotWrite PROVE Ahead'
  BY <1>1, <1>a, AheadKept DEF CannotWrite, Raise, Stay
<1>2. CASE Start \/ Connect \/ Read \/ WriteFails \/ SettleOwed \/ Enter
  BY <1>2, <1>a, AheadKept DEF Start, Connect, Read, WriteFails, SettleOwed, Enter
<1>3. CASE WriteLink \/ (\E c \in Counts : WriteCount(c))
  <2>1. top'.cookie = top.cookie /\ top'.schema = top.schema
    BY <1>3, <1>b DEF WriteLink, WriteCount, Write, Commit, Image
  <2> QED BY <1>3, <1>a, <2>1, AheadKept DEF WriteLink, WriteCount, Write, Commit
<1>4. CASE Close
  BY <1>4, <1>a, AheadKept DEF Close, LastClose
<1>5. CASE FirstCheckpoint \/ LastCheckpoint
  BY <1>5, <1>a, AheadKept DEF FirstCheckpoint, LastCheckpoint, Checkpoint, Return
<1>6. CASE ReadSchema
  <2>1. saved'.schema = top.schema /\ pc' = "cookie" /\ UNCHANGED <<top, troubles>>
    BY <1>6, <1>b DEF ReadSchema
  <2> QED BY <1>6, <1>a, <2>1 DEF ReadSchema, Ahead
<1>7. CASE ReadCookie
  <2>1. /\ saved'.cookie = top.cookie /\ saved'.schema = saved.schema
        /\ pc = "cookie" /\ pc' = "vacuum" /\ UNCHANGED <<top, troubles>>
    BY <1>7, <1>b DEF ReadCookie
  <2> QED BY <1>a, <1>b, <2>1 DEF Ahead
<1>8. CASE Vacuum
  <2>1. CASE /\ ~ lock /\ Commit("rewrite", Rewritten(top)) /\ Goto("compare")
             /\ UNCHANGED <<saved, troubles>>
    <3>1. /\ top'.cookie = top.cookie + 1 /\ top'.schema = top.schema /\ ~ lock'
          /\ pc = "vacuum" /\ pc' = "compare" /\ UNCHANGED <<saved, troubles>>
      BY <1>8, <2>1 DEF Vacuum, Commit, Rewritten
    <3> QED BY <1>a, <1>b, <3>1 DEF Ahead
  <2> QED BY <1>1, <1>8, <2>1 DEF Vacuum
<1>9. CASE Compare
  <2>1. CASE top.schema = saved.schema
    <3>1. pc = "compare" /\ pc' = "setback" /\ UNCHANGED <<top, lock, saved, troubles>>
      BY <1>9, <2>1 DEF Compare
    <3> QED BY <1>a, <3>1 DEF Ahead
  <2>2. CASE top.schema # saved.schema
    BY <1>9, <1>a, <2>2, AheadKept DEF Compare
  <2> QED BY <2>1, <2>2
<1>10. CASE SetBack
  <2>1. CASE /\ Commit("cookie", [top EXCEPT !.cookie = saved.cookie, !.counted = TRUE])
             /\ Goto("last") /\ UNCHANGED <<saved, troubles>>
    <3>1. top'.cookie = saved.cookie /\ top'.schema = top.schema BY <1>b, <2>1 DEF Commit, Image
    <3> QED BY <1>10, <1>a, <1>b, <2>1, <3>1 DEF SetBack, Ahead
  <2> QED BY <1>1, <1>10, <2>1 DEF SetBack
<1>11. CASE ResetCounter
  <2>1. CASE /\ main' = [main EXCEPT !.counted = FALSE]
             /\ top' = (IF wal = <<>> THEN main' ELSE top)
             /\ Return /\ UNCHANGED <<outside, saved, troubles>>
    <3>1. top'.cookie = top.cookie /\ top'.schema = top.schema
      BY <1>a, <1>b, <2>1 DEF TypeOK, FileOK, Image
    <3> QED BY <1>11, <1>a, <2>1, <3>1, AheadKept DEF ResetCounter, Return
  <2> QED BY <1>1, <1>11, <2>1 DEF ResetCounter
<1>12. CASE ShellOpens \/ ShellCloses \/ BeginRead \/ EndRead \/ TakeLock \/ FreeLock
  BY <1>12, <1>a, AheadKept
  DEF ShellOpens, ShellCloses, LastClose, BeginRead, EndRead, TakeLock, FreeLock, local
<1>13. CASE Ddl
  <2>1. /\ top'.cookie = top.cookie + 1 /\ top'.schema = top.schema + 1
        /\ troubles' = troubles + 1 /\ UNCHANGED <<pc, lock, saved>>
    BY <1>13 DEF Ddl, Commit, Migrated, local
  <2> QED BY <1>a, <1>b, <2>1 DEF Ahead
<1>14. CASE Crash
  BY <1>14, <1>a, AheadKept DEF Crash
<1>15. CASE UNCHANGED vars
  BY <1>15, <1>a, AheadKept DEF vars, local
<1> QED
  BY <1>2, <1>3, <1>4, <1>5, <1>6, <1>7, <1>8, <1>9, <1>10, <1>11, <1>12, <1>13, <1>14, <1>15
  DEF Next, Service, Outsiders

\* However many rewrites there were, the cookie has run ahead of the schema
\* by no more than what cut them short (db.canonicalise sets it back).
THEOREM RewritesLeaveTheCookie == Spec => []CookieCountsTroubles
<1>1. CookieInv => CookieCountsTroubles BY DEF CookieInv, Ahead, CookieCountsTroubles, TypeOK, FileOK, Image, HistoryOK
<1> QED BY <1>1, CookieInit, CookieStep, PTL DEF Spec
=============================================================================
