-------------------------- MODULE Migrations_proofs --------------------------
(* Theorems about Migrations, for any number of processes, builds and       *)
(* migrations.                                                              *)
EXTENDS Migrations, WellFoundedInduction, TLAPS

USE ConstantsAssumption

\* A process that has migrations left is at the smallest of them.
LEMMA LowestIsLeft ==
  ASSUME TypeOK, NEW p \in Procs, left[p] # {}
  PROVE  /\ Lowest(p) \in left[p] /\ Lowest(p) \in Versions
         /\ \A u \in left[p] : Lowest(p) <= u
<1>1. left[p] \subseteq Nat /\ left[p] \subseteq Versions BY DEF TypeOK
<1>2. \E v \in left[p] : \A u \in left[p] : v <= u
  <2> DEFINE Below == OpToRel(<, Nat)
  <2>1. \A y, z \in Nat : y < z => <<y, z>> \in Below BY DEF OpToRel
  <2>2. IsWellFoundedOn(Below, Nat) BY NatLessThanWellFounded
  <2> HIDE DEF Below
  <2>3. PICK v \in left[p] : \A u \in left[p] : <<u, v>> \notin Below
    BY <1>1, <2>2, WFMin
  <2>4. ASSUME NEW u \in left[p] PROVE v <= u
    <3>1. ~ (u < v) BY <1>1, <2>1, <2>3
    <3> QED BY <1>1, <3>1
  <2> QED BY <2>4
<1> QED BY <1>1, <1>2 DEF Lowest

-----------------------------------------------------------------------------
(* Type correctness *)

\* Nothing is recorded, and every process is down.
LEMMA TypeInit == Init => TypeOK
BY DEF Init, TypeOK, Places

\* Every step keeps the types; only the writer is inside a transaction.
LEMMA TypeStep == TypeOK /\ (\A p \in Procs : PlaceOK(p)) /\ [Next]_vars => TypeOK'
<1> SUFFICES ASSUME TypeOK, \A p \in Procs : PlaceOK(p), [Next]_vars PROVE TypeOK'
  OBVIOUS
<1> USE DEF Goto, Exit, Places, database
<1>1. ASSUME NEW p \in Procs, Start(p) PROVE TypeOK'
  BY <1>1 DEF Start, TypeOK
<1>2. ASSUME NEW p \in Procs, Read(p) PROVE TypeOK'
  BY <1>2 DEF Read, TypeOK, Recorded
<1>3. ASSUME NEW p \in Procs, Begin(p) PROVE TypeOK'
  BY <1>3 DEF Begin, TypeOK
<1>4. ASSUME NEW p \in Procs, pc[p] \in {"script", "record", "commit"}, RollBack(p) PROVE TypeOK'
  BY <1>4 DEF RollBack, TypeOK
<1>5. ASSUME NEW p \in Procs, Script(p) PROVE TypeOK'
  BY <1>4, <1>5 DEF Script, TypeOK
<1>6. ASSUME NEW p \in Procs, Record(p) PROVE TypeOK'
  BY <1>4, <1>6 DEF Record, TypeOK
<1>7. ASSUME NEW p \in Procs, Commit(p) PROVE TypeOK'
  <2>0. left[p] # {} BY <1>7 DEF Commit, PlaceOK
  <2>1. Lowest(p) \in Versions BY <2>0, LowestIsLeft
  <2>2. ran' \in [Versions -> Nat] /\ recorded' \in [Versions -> Nat]
    <3>1. /\ ran' = [ran EXCEPT ![Lowest(p)] = @ + (IF "script" \in draft THEN 1 ELSE 0)]
          /\ recorded' = [recorded EXCEPT ![Lowest(p)] = @ + (IF "row" \in draft THEN 1 ELSE 0)]
      BY <1>7 DEF Commit, Publish
    <3>2. ran[Lowest(p)] \in Nat /\ recorded[Lowest(p)] \in Nat BY <2>1 DEF TypeOK
    <3> DEFINE r == ran[Lowest(p)] + (IF "script" \in draft THEN 1 ELSE 0)
               c == recorded[Lowest(p)] + (IF "row" \in draft THEN 1 ELSE 0)
    <3>3. r \in Nat /\ c \in Nat BY <3>2
    <3>4. ran' = [ran EXCEPT ![Lowest(p)] = r] /\ recorded' = [recorded EXCEPT ![Lowest(p)] = c]
      BY <3>1
    <3> HIDE DEF r, c
    <3> QED BY <3>3, <3>4 DEF TypeOK
  <2> QED BY <1>7, <2>2 DEF Commit, Publish, TypeOK
<1>8. ASSUME NEW p \in Procs, Serve(p) PROVE TypeOK'
  BY <1>8 DEF Serve, TypeOK
<1>9. ASSUME NEW p \in Procs, Crash(p) PROVE TypeOK'
  BY <1>9 DEF Crash, TypeOK
<1>10. CASE UNCHANGED vars
  BY <1>10 DEF vars, TypeOK
<1> QED
  BY <1>1, <1>2, <1>3, <1>5, <1>6, <1>7, <1>8, <1>9, <1>10 DEF Next, Migrate

-----------------------------------------------------------------------------
(* What is recorded *)

\* Only a commit changes what the database holds: it runs and records one
\* migration that had done neither.
LEMMA OnlyCommitWrites ==
  ASSUME MInv, [Next]_vars
  PROVE  \/ UNCHANGED <<ran, recorded>>
         \/ \E p \in Procs :
              /\ Commit(p) /\ Lowest(p) \in Versions
              /\ ran[Lowest(p)] = 0 /\ recorded[Lowest(p)] = 0
              /\ ran' = [ran EXCEPT ![Lowest(p)] = 1]
              /\ recorded' = [recorded EXCEPT ![Lowest(p)] = 1]
<1>1. ASSUME NEW p \in Procs, Commit(p)
      PROVE  /\ Lowest(p) \in Versions
             /\ ran[Lowest(p)] = 0 /\ recorded[Lowest(p)] = 0
             /\ ran' = [ran EXCEPT ![Lowest(p)] = 1]
             /\ recorded' = [recorded EXCEPT ![Lowest(p)] = 1]
  <2>1. pc[p] = "commit" /\ left[p] # {} /\ draft = {"script", "row"} /\ ran[Lowest(p)] = 0
    BY <1>1 DEF Commit, MInv, PlaceOK
  <2>2. Lowest(p) \in Versions BY <2>1, LowestIsLeft DEF MInv
  <2>3. recorded[Lowest(p)] = 0 BY <2>1, <2>2 DEF MInv, RecordedOnce
  <2> QED BY <1>1, <2>1, <2>2, <2>3 DEF Commit, Publish
<1>2. ASSUME NEW p \in Procs, Migrate(p) \/ Crash(p), ~ Commit(p)
      PROVE  UNCHANGED <<ran, recorded>>
  BY <1>2 DEF Migrate, Start, Read, Begin, Script, Record, RollBack, Serve, Crash, database
<1>3. CASE UNCHANGED vars BY <1>3 DEF vars
<1> QED BY <1>1, <1>2, <1>3 DEF Next

\* What is recorded stays recorded.
LEMMA RecordedGrows == ASSUME MInv, [Next]_vars PROVE Recorded \subseteq Recorded'
<1>1. CASE UNCHANGED <<ran, recorded>> BY <1>1 DEF Recorded
<1>2. ASSUME NEW p \in Procs, Lowest(p) \in Versions, recorded' = [recorded EXCEPT ![Lowest(p)] = 1]
      PROVE  Recorded \subseteq Recorded'
  BY <1>2 DEF Recorded, MInv, TypeOK
<1> QED BY <1>1, <1>2, OnlyCommitWrites

\* A script commits together with its row, and once.
LEMMA RecordedOnceStep == MInv /\ [Next]_vars => RecordedOnce'
<1> SUFFICES ASSUME MInv, [Next]_vars PROVE RecordedOnce' OBVIOUS
<1>1. CASE UNCHANGED <<ran, recorded>> BY <1>1 DEF RecordedOnce, MInv
<1>2. ASSUME NEW v \in Versions,
             ran' = [ran EXCEPT ![v] = 1], recorded' = [recorded EXCEPT ![v] = 1]
      PROVE  RecordedOnce'
  BY <1>2 DEF RecordedOnce, MInv, TypeOK
<1> QED BY <1>1, <1>2, OnlyCommitWrites

-----------------------------------------------------------------------------
(* Where the processes are *)

\* A step leaves the others' places, and what they have left, alone; and while
\* one of them is inside its transaction, the draft and the scripts that ran.
LEMMA OthersKeepTheirPlace ==
  ASSUME MInv, [Next]_vars, NEW p \in Procs, Migrate(p) \/ Crash(p), NEW q \in Procs, q # p
  PROVE  PlaceOK(q)'
<1>1. pc'[q] = pc[q] /\ left'[q] = left[q]
  BY DEF MInv, TypeOK, Migrate, Start, Read, Begin, Script, Record, RollBack, Commit, Serve,
         Crash, Goto, Exit, database
<1>2. Recorded \subseteq Recorded' BY RecordedGrows
<1>3. Lowest(q)' = Lowest(q) BY <1>1 DEF Lowest
<1>4. CASE pc[q] \in {"script", "record", "commit"}
  <2>1. writer = q /\ pc[p] \notin {"script", "record", "commit"} /\ writer # p
    BY <1>4 DEF MInv, TypeOK
  <2>2. UNCHANGED <<draft, ran>>
    BY <2>1 DEF Migrate, Start, Read, Begin, Script, Record, Commit, Serve, Crash, database
  <2> QED BY <1>1, <1>2, <1>3, <2>2 DEF MInv, PlaceOK
<1>5. CASE pc[q] \notin {"script", "record", "commit"}
  BY <1>1, <1>2, <1>5 DEF MInv, PlaceOK
<1> QED BY <1>4, <1>5

\* A step leaves its own process at a place that says what it has done.
LEMMA OwnPlace ==
  ASSUME MInv, [Next]_vars, NEW p \in Procs, Migrate(p) \/ Crash(p)
  PROVE  PlaceOK(p)'
<1> USE DEF Goto, Exit, database
<1>0. PlaceOK(p) /\ TypeOK BY DEF MInv
<1>1. ASSUME pc'[p] \in {"down", "read"}, left'[p] = left[p] PROVE PlaceOK(p)'
  BY <1>0, <1>1 DEF PlaceOK
<1>2. CASE Start(p) BY <1>1, <1>2 DEF Start, MInv, TypeOK
<1>3. CASE Read(p)
  <2>1. left'[p] = Shipped[p] \ Recorded /\ pc'[p] \in {"next", "down"} /\ recorded' = recorded
    BY <1>3 DEF Read, MInv, TypeOK
  <2>2. Recorded' = Recorded BY <2>1 DEF Recorded
  <2> QED BY <2>1, <2>2 DEF PlaceOK
<1>4. CASE Begin(p)
  <2>1. left' = left /\ left[p] # {} /\ pc[p] = "next" /\ UNCHANGED <<draft, recorded>>
    BY <1>4 DEF Begin
  <2>2. CASE pc'[p] = "down" BY <1>1, <2>1, <2>2
  <2>3. CASE pc'[p] = "script" /\ writer = Nobody
    <3>1. draft' = {} BY <2>1, <2>3 DEF MInv
    <3>2. Recorded' = Recorded BY <2>1 DEF Recorded
    <3> QED BY <1>0, <2>1, <2>3, <3>1, <3>2 DEF PlaceOK
  <2> QED BY <1>4, <2>2, <2>3 DEF Begin, MInv, TypeOK
<1>5. CASE RollBack(p) BY <1>1, <1>5 DEF RollBack, MInv, TypeOK
<1>6. CASE Script(p) /\ ~ RollBack(p)
  <2>1. /\ pc[p] = "script" /\ pc'[p] = "record" /\ draft' = {"script"}
        /\ left' = left /\ UNCHANGED <<ran, recorded>> /\ ~ (ran[Lowest(p)] > 0)
    BY <1>6 DEF Script, MInv, TypeOK
  <2>2. Lowest(p)' = Lowest(p) /\ Recorded' = Recorded BY <2>1 DEF Lowest, Recorded
  <2>3. ran[Lowest(p)] = 0
    <3>1. left[p] # {} BY <1>0, <2>1 DEF PlaceOK
    <3>2. Lowest(p) \in Versions BY <1>0, <3>1, LowestIsLeft
    <3>3. ran[Lowest(p)] \in Nat BY <1>0, <3>2 DEF TypeOK
    <3> QED BY <2>1, <3>3
  <2> QED BY <1>0, <2>1, <2>2, <2>3 DEF PlaceOK
<1>7. CASE Record(p) /\ ~ RollBack(p)
  <2>1. /\ pc[p] = "record" /\ pc'[p] = "commit" /\ draft' = draft \cup {"row"}
        /\ left' = left /\ UNCHANGED <<ran, recorded>>
    BY <1>7 DEF Record, MInv, TypeOK
  <2>2. Lowest(p)' = Lowest(p) /\ Recorded' = Recorded BY <2>1 DEF Lowest, Recorded
  <2> QED BY <1>0, <2>1, <2>2 DEF PlaceOK
<1>8. CASE Commit(p)
  <2>1. /\ pc[p] = "commit" /\ pc'[p] = "next" /\ left'[p] = left[p] \ {Lowest(p)}
        /\ draft = {"script", "row"} /\ left[p] # {}
    BY <1>0, <1>8 DEF Commit, PlaceOK, TypeOK
  <2>2. Recorded \subseteq Recorded' BY RecordedGrows
  <2>3. Lowest(p) \in Versions BY <2>1, <1>0, LowestIsLeft
  <2>4. Lowest(p) \in Recorded'
    <3>1. recorded'[Lowest(p)] = recorded[Lowest(p)] + 1
      BY <1>0, <1>8, <2>1, <2>3 DEF Commit, Publish, TypeOK
    <3>2. recorded[Lowest(p)] \in Nat BY <1>0, <2>3 DEF TypeOK
    <3>3. recorded'[Lowest(p)] > 0 BY <3>1, <3>2
    <3> QED BY <2>3, <3>3 DEF Recorded
  <2> QED BY <1>0, <2>1, <2>2, <2>4 DEF PlaceOK
<1>9. CASE Serve(p)
  <2>1. pc[p] = "next" /\ pc'[p] = "serving" /\ left[p] = {} /\ left' = left /\ recorded' = recorded
    BY <1>9 DEF Serve, MInv, TypeOK
  <2>2. Recorded' = Recorded BY <2>1 DEF Recorded
  <2> QED BY <1>0, <2>1, <2>2 DEF PlaceOK
<1>10. CASE Crash(p) BY <1>1, <1>10 DEF Crash, MInv, TypeOK
<1> QED BY <1>2, <1>3, <1>4, <1>5, <1>6, <1>7, <1>8, <1>9, <1>10 DEF Migrate

\* A transaction that nobody has open has done nothing.
LEMMA DraftStep == MInv /\ [Next]_vars => (writer' = Nobody => draft' = {})
<1> SUFFICES ASSUME MInv, [Next]_vars PROVE writer' = Nobody => draft' = {} OBVIOUS
<1>1. ASSUME NEW p \in Procs, Script(p) \/ Record(p), ~ RollBack(p) PROVE writer' # Nobody
  <2>1. writer' = writer /\ writer = p BY <1>1 DEF Script, Record, MInv, TypeOK
  <2> QED BY <2>1
<1>2. ASSUME NEW p \in Procs, Migrate(p) \/ Crash(p), writer' = Nobody PROVE draft' = {}
  BY <1>1, <1>2 DEF Migrate, Start, Read, Begin, Script, Record, RollBack, Commit, Publish,
                    Serve, Crash, database, MInv
<1>3. CASE UNCHANGED vars BY <1>3 DEF vars, MInv
<1> QED BY <1>2, <1>3 DEF Next

\* The inductive invariant holds in every behaviour of every number of
\* processes, builds and failures (db.migrate).
THEOREM Invariant == Spec => []MInv
<1>1. Init => MInv
  <2>1. Init => TypeOK /\ RecordedOnce /\ draft = {} BY TypeInit DEF Init, RecordedOnce
  <2>2. Init => \A p \in Procs : PlaceOK(p) BY DEF Init, PlaceOK
  <2> QED BY <2>1, <2>2 DEF MInv
<1>2. MInv /\ [Next]_vars => MInv'
  <2> SUFFICES ASSUME MInv, [Next]_vars PROVE MInv' OBVIOUS
  <2>1. TypeOK' BY TypeStep DEF MInv
  <2>2. RecordedOnce' BY RecordedOnceStep
  <2>3. (writer = Nobody => draft = {})' BY DraftStep
  <2>4. ASSUME NEW q \in Procs PROVE PlaceOK(q)'
    <3>1. CASE UNCHANGED vars
      BY <3>1 DEF vars, MInv, PlaceOK, Recorded, Lowest
    <3>2. CASE Next
      BY <3>2, OwnPlace, OthersKeepTheirPlace DEF Next
    <3> QED BY <3>1, <3>2
  <2> QED BY <2>1, <2>2, <2>3, <2>4 DEF MInv
<1> QED BY <1>1, <1>2, PTL DEF Spec

\* A migration is recorded exactly when its script has been committed, and
\* neither happens twice (db.migrate).
THEOREM MigrationsRunOnce == Spec => []RecordedOnce
<1>1. MInv => RecordedOnce BY DEF MInv
<1> QED BY <1>1, Invariant, PTL

\* Every variable keeps its type, and the write lock is held by the process
\* whose transaction is open (db.migrate: BEGIN IMMEDIATE to COMMIT).
THEOREM TypeCorrect == Spec => []TypeOK
<1>1. MInv => TypeOK BY DEF MInv
<1> QED BY <1>1, Invariant, PTL

\* A process serves only on a database that has every migration of its build
\* (db.applied_versions).
THEOREM ServersAreMigrated == Spec => []ServingIsMigrated
<1>1. MInv => ServingIsMigrated BY DEF MInv, PlaceOK, ServingIsMigrated
<1> QED BY <1>1, Invariant, PTL

\* No script runs before the lower-numbered ones of its build
\* (db.discover_migrations).
THEOREM MigrationsRunInOrder == Spec => []InOrder
<1>1. ASSUME MInv PROVE InOrder
  <2>1. ASSUME NEW p \in Procs, pc[p] \in {"script", "record", "commit"},
               NEW u \in Shipped[p], u < Lowest(p)
        PROVE  u \in Recorded
    <3>1. left[p] # {} /\ Shipped[p] \ left[p] \subseteq Recorded
      BY <1>1, <2>1 DEF MInv, PlaceOK
    <3>2. Lowest(p) \in Nat /\ u \in Nat /\ \A v \in left[p] : Lowest(p) <= v
      BY <1>1, <3>1, LowestIsLeft DEF MInv
    <3>3. u \notin left[p] BY <2>1, <3>2
    <3> QED BY <3>1, <3>3
  <2> QED BY <2>1 DEF InOrder
<1> QED BY <1>1, Invariant, PTL
=============================================================================
