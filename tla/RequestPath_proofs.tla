------------------------- MODULE RequestPath_proofs -------------------------
(* Theorems about RequestPath, for every value of its constants.           *)
EXTENDS RequestPath, FiniteSetTheorems, TLAPS

USE ConstantsAssumption

-----------------------------------------------------------------------------
(* Queues *)

\* Who joins a queue at its end
LEMMA JoinQueue ==
  ASSUME NEW S, NEW q \in Seq(S), NEW c \in S
  PROVE  /\ Append(q, c) \in Seq(S) /\ Append(q, c) # <<>>
         /\ Members(Append(q, c)) = Members(q) \cup {c}
         /\ Len(Append(q, c)) = Len(q) + 1
         /\ \A i \in 1 .. Len(q) : Append(q, c)[i] = q[i]
         /\ Append(q, c)[Len(q) + 1] = c
<1> DEFINE r == Append(q, c)
<1>1. r \in Seq(S) /\ r # <<>> /\ Len(r) = Len(q) + 1 OBVIOUS
<1>2. \A i \in 1 .. Len(q) : r[i] = q[i] OBVIOUS
<1>3. r[Len(q) + 1] = c OBVIOUS
<1>4. DOMAIN r = DOMAIN q \cup {Len(q) + 1} /\ DOMAIN q = 1 .. Len(q) OBVIOUS
<1>5. Members(r) = Members(q) \cup {c} BY <1>2, <1>3, <1>4 DEF Members
<1> QED BY <1>1, <1>2, <1>3, <1>5

\* Who leaves a queue at its front
LEMMA LeaveQueue ==
  ASSUME NEW S, NEW q \in Seq(S), q # <<>>
  PROVE  /\ Head(q) \in S /\ Tail(q) \in Seq(S) /\ Head(q) = q[1] /\ 1 \in DOMAIN q
         /\ Members(q) = Members(Tail(q)) \cup {Head(q)}
         /\ Len(Tail(q)) = Len(q) - 1
         /\ \A i \in DOMAIN Tail(q) : i + 1 \in DOMAIN q /\ Tail(q)[i] = q[i + 1]
<1>1. Len(q) \in Nat \ {0} /\ DOMAIN q = 1 .. Len(q) OBVIOUS
<1>2. Tail(q) \in Seq(S) /\ Len(Tail(q)) = Len(q) - 1 /\ Head(q) = q[1] /\ Head(q) \in S BY <1>1
<1>3. \A i \in DOMAIN Tail(q) : i + 1 \in DOMAIN q /\ Tail(q)[i] = q[i + 1] BY <1>1, <1>2
<1>4. Members(q) \subseteq Members(Tail(q)) \cup {Head(q)}
  <2> SUFFICES ASSUME NEW i \in DOMAIN q, i # 1 PROVE q[i] \in Members(Tail(q))
    BY <1>2 DEF Members
  <2>1. i - 1 \in DOMAIN Tail(q) /\ Tail(q)[i - 1] = q[i] BY <1>1, <1>2
  <2> QED BY <2>1 DEF Members
<1>5. Members(Tail(q)) \cup {Head(q)} \subseteq Members(q) BY <1>1, <1>2, <1>3 DEF Members
<1> QED BY <1>1, <1>2, <1>3, <1>4, <1>5

-----------------------------------------------------------------------------
(* The pool *)

PoolType == [busy : SUBSET Clients, queue : Seq(Clients)]

\* Asking for a thread adds a job to the pool.
LEMMA EnterPool ==
  ASSUME NEW p \in PoolType, NEW S, PoolFor(p, S), NEW c \in Clients, c \notin S
  PROVE  Enter(p, c) \in PoolType /\ PoolFor(Enter(p, c), S \cup {c})
<1> DEFINE e == Enter(p, c)
<1>1. p.busy \subseteq Clients /\ p.queue \in Seq(Clients) BY DEF PoolType
<1>2. c \notin p.busy /\ c \notin Members(p.queue) BY DEF PoolFor
<1>3. CASE p.queue = <<>> /\ Cardinality(p.busy) < Workers
  <2>1. e.busy = p.busy \cup {c} /\ e.queue = p.queue /\ e \in PoolType
    BY <1>1, <1>3 DEF Enter, PoolType
  <2>2. IsFiniteSet(e.busy) /\ Cardinality(e.busy) = Cardinality(p.busy) + 1
    BY <1>2, <2>1, FS_AddElement DEF PoolFor
  <2>3. Cardinality(p.busy) \in Nat BY FS_CardinalityType DEF PoolFor
  <2>4. Cardinality(e.busy) <= Workers BY <1>3, <2>2, <2>3
  <2>5. Members(e.queue) = {} BY <1>3, <2>1 DEF Members
  <2>6. PoolFor(e, S \cup {c})
    <3> HIDE DEF e
    <3> QED BY <1>3, <2>1, <2>2, <2>4, <2>5 DEF PoolFor
  <2> QED BY <2>1, <2>6
<1>4. CASE ~ (p.queue = <<>> /\ Cardinality(p.busy) < Workers)
  <2>1. e.busy = p.busy /\ e.queue = Append(p.queue, c) /\ e \in PoolType
    BY <1>1, <1>4 DEF Enter, PoolType
  <2>2. Members(e.queue) = Members(p.queue) \cup {c} BY <1>1, <2>1, JoinQueue
  <2>3. Cardinality(p.busy) \in Nat BY FS_CardinalityType DEF PoolFor
  <2>4. Cardinality(p.busy) = Workers BY <1>4, <2>3 DEF PoolFor
  <2>5. \A i, j \in DOMAIN e.queue : e.queue[i] = e.queue[j] => i = j
    <3>1. DOMAIN e.queue = 1 .. Len(p.queue) + 1 /\ DOMAIN p.queue = 1 .. Len(p.queue)
      BY <1>1, <2>1, JoinQueue
    <3>2. \A i \in DOMAIN p.queue : e.queue[i] = p.queue[i] /\ p.queue[i] # c
      BY <1>1, <1>2, <2>1, JoinQueue DEF Members
    <3>3. e.queue[Len(p.queue) + 1] = c BY <1>1, <2>1, JoinQueue
    <3>4. \A i \in DOMAIN e.queue : i \in DOMAIN p.queue \/ i = Len(p.queue) + 1
      BY <1>1, <3>1
    <3> HIDE DEF e
    <3> QED BY <3>2, <3>3, <3>4 DEF PoolFor
  <2>6. PoolFor(e, S \cup {c})
    <3> HIDE DEF e
    <3> QED BY <1>2, <2>1, <2>2, <2>4, <2>5 DEF PoolFor
  <2> QED BY <2>1, <2>6
<1> QED BY <1>3, <1>4

\* Giving a thread back takes a job out of the pool.
LEMMA LeavePool ==
  ASSUME NEW p \in PoolType, NEW S, PoolFor(p, S), NEW c \in p.busy
  PROVE  Leave(p, c) \in PoolType /\ PoolFor(Leave(p, c), S \ {c})
<1> DEFINE e == Leave(p, c)
<1>1. p.busy \subseteq Clients /\ p.queue \in Seq(Clients) BY DEF PoolType
<1>2. /\ IsFiniteSet(p.busy \ {c}) /\ Cardinality(p.busy \ {c}) = Cardinality(p.busy) - 1
      /\ Cardinality(p.busy) \in Nat
  BY FS_RemoveElement, FS_CardinalityType DEF PoolFor
<1>3. c \notin Members(p.queue) BY DEF PoolFor
<1>4. CASE p.queue = <<>>
  <2>1. e.busy = p.busy \ {c} /\ e.queue = p.queue /\ e \in PoolType
    BY <1>1, <1>4 DEF Leave, PoolType
  <2>2. PoolFor(e, S \ {c})
    <3> HIDE DEF e
    <3> QED BY <1>2, <1>3, <1>4, <2>1 DEF PoolFor
  <2> QED BY <2>1, <2>2
<1>5. CASE p.queue # <<>>
  <2> DEFINE h == Head(p.queue)
  <2>1. h \in Clients /\ Tail(p.queue) \in Seq(Clients) BY <1>1, <1>5, LeaveQueue
  <2>2. e.busy = (p.busy \ {c}) \cup {h} /\ e.queue = Tail(p.queue) /\ e \in PoolType
    BY <1>1, <1>5, <2>1 DEF Leave, PoolType
  <2>3. Members(p.queue) = Members(e.queue) \cup {h} BY <1>1, <1>5, <2>2, LeaveQueue
  <2>4. h \notin p.busy BY <2>3 DEF PoolFor
  <2>5. IsFiniteSet(e.busy) /\ Cardinality(e.busy) = Cardinality(p.busy)
    BY <1>2, <2>2, <2>4, FS_AddElement
  <2>6. \A i \in DOMAIN e.queue : i \in Nat /\ i + 1 \in DOMAIN p.queue /\ e.queue[i] = p.queue[i + 1]
    BY <1>1, <1>5, <2>2, LeaveQueue
  <2>7. \A i, j \in DOMAIN e.queue : e.queue[i] = e.queue[j] => i = j
    <3> SUFFICES ASSUME NEW i \in DOMAIN e.queue, NEW j \in DOMAIN e.queue,
                        e.queue[i] = e.queue[j]
                 PROVE  i = j
      OBVIOUS
    <3>1. i + 1 = j + 1 BY <2>6 DEF PoolFor
    <3> QED BY <2>6, <3>1
  <2>8. h \notin Members(e.queue)
    <3> SUFFICES ASSUME NEW i \in DOMAIN e.queue, e.queue[i] = h PROVE FALSE BY DEF Members
    <3>1. p.queue[1] = h /\ 1 \in DOMAIN p.queue BY <1>1, <1>5, LeaveQueue
    <3>2. i + 1 = 1 BY <2>6, <3>1 DEF PoolFor
    <3>3. i \in 1 .. Len(e.queue) BY <2>1, <2>2
    <3> QED BY <3>2, <3>3
  <2>9. Cardinality(e.busy) = Workers BY <1>5, <2>5 DEF PoolFor
  <2>10. PoolFor(e, S \ {c})
    <3> HIDE DEF e, h
    <3> QED BY <1>3, <2>2, <2>3, <2>4, <2>5, <2>7, <2>8, <2>9 DEF PoolFor
  <2> QED BY <2>2, <2>10
<1> QED BY <1>4, <1>5

Jobs == {c \in Clients : place[c] \in OnThread}

\* A request moves on with its job: it asks for a thread, gives its thread
\* back and asks again, gives it back for good, or has none.
LEMMA JobMoves ==
  ASSUME ShapesOK, PoolOK, NEW c \in Clients, NEW there, Go(c, there),
         \/ place[c] \notin OnThread /\ there \in OnThread /\ pool' = Enter(pool, c)
         \/ c \in pool.busy /\ there \in OnThread /\ pool' = Enter(Leave(pool, c), c)
         \/ c \in pool.busy /\ there \notin OnThread /\ pool' = Leave(pool, c)
         \/ place[c] \notin OnThread /\ there \notin OnThread /\ pool' = pool
  PROVE  pool' \in PoolType /\ PoolOK'
<1>1. pool \in PoolType /\ PoolFor(pool, Jobs) BY DEF ShapesOK, PoolType, PoolOK, Jobs
<1>2. PoolOK' <=> PoolFor(pool', Jobs') BY DEF PoolOK, Jobs, PoolFor
<1>3. Jobs' = IF there \in OnThread THEN Jobs \cup {c} ELSE Jobs \ {c}
  BY DEF Jobs, Go, ShapesOK
<1>4. c \in pool.busy => c \in Jobs BY <1>1 DEF PoolFor
<1>5. place[c] \notin OnThread => c \notin Jobs BY DEF Jobs
<1>6. CASE place[c] \notin OnThread /\ there \in OnThread /\ pool' = Enter(pool, c)
  BY <1>1, <1>2, <1>3, <1>5, <1>6, EnterPool
<1>7. ASSUME c \in pool.busy
      PROVE  Leave(pool, c) \in PoolType /\ PoolFor(Leave(pool, c), Jobs \ {c})
  BY <1>1, <1>7, LeavePool
<1>8. CASE c \in pool.busy /\ there \in OnThread /\ pool' = Enter(Leave(pool, c), c)
  <2>1. pool' \in PoolType /\ PoolFor(pool', (Jobs \ {c}) \cup {c}) BY <1>7, <1>8, EnterPool
  <2>2. (Jobs \ {c}) \cup {c} = Jobs' BY <1>3, <1>4, <1>8
  <2> QED BY <1>2, <2>1, <2>2
<1>9. CASE c \in pool.busy /\ there \notin OnThread /\ pool' = Leave(pool, c)
  BY <1>2, <1>3, <1>7, <1>9
<1>10. CASE place[c] \notin OnThread /\ there \notin OnThread /\ pool' = pool
  <2>1. Jobs' = Jobs BY <1>3, <1>5, <1>10
  <2> QED BY <1>1, <1>2, <1>10, <2>1
<1> QED BY <1>6, <1>8, <1>9, <1>10

-----------------------------------------------------------------------------
(* The line *)

\* Who is not in the line
LEMMA NotInLine ==
  ASSUME OneConnection, NEW c \in Clients, place[c] \notin InTurn \cup {"waiting"}
  PROVE  c \notin Members(line)
BY DEF OneConnection, Members

\* Who has the turn is the head of the line.
LEMMA HeadHasTurn ==
  ASSUME OneConnection, NEW c \in Clients, place[c] \in InTurn
  PROVE  1 \in DOMAIN line /\ line[1] = c
<1>1. PICK i \in DOMAIN line : line[i] = c BY DEF OneConnection, Members
<1>2. i = 1 BY <1>1 DEF OneConnection, InTurn
<1> QED BY <1>1, <1>2

\* A request that keeps its turn, or that never had one, moves on.
LEMMA LineStays ==
  ASSUME ShapesOK, OneConnection, OnceInLine, NEW c \in Clients, NEW there, Go(c, there),
         line' = line,
         \/ place[c] \in InTurn /\ there \in InTurn
         \/ {place[c], there} \cap (InTurn \cup {"waiting"}) = {}
  PROVE  OneConnection' /\ OnceInLine'
<1>1. OnceInLine' BY DEF OnceInLine
<1>2. /\ place'[c] = there /\ line' = line
      /\ \A d \in Clients \ {c} : place'[d] = place[d]
  BY DEF Go, ShapesOK
<1>3. \A i \in DOMAIN line : line[i] \in Clients BY DEF ShapesOK
<1>4. CASE place[c] \in InTurn /\ there \in InTurn
  <2>1. 1 \in DOMAIN line /\ line[1] = c BY <1>4, HeadHasTurn
  <2>2. \A i \in DOMAIN line : line[i] = c => i = 1 BY <2>1 DEF OnceInLine
  <2>3. Members(line)' = Members(line) BY DEF Members
  <2>4. \A i \in DOMAIN line : place'[line[i]] \in IF i = 1 THEN InTurn ELSE {"waiting"}
    BY <1>2, <1>3, <1>4, <2>1, <2>2 DEF OneConnection
  <2>5. \A d \in Clients : place'[d] \in InTurn \cup {"waiting"} => d \in Members(line)
    BY <1>2, <1>4 DEF OneConnection
  <2> QED BY <1>1, <1>2, <2>3, <2>4, <2>5 DEF OneConnection
<1>5. CASE {place[c], there} \cap (InTurn \cup {"waiting"}) = {}
  <2>1. c \notin Members(line) BY <1>5, NotInLine
  <2>2. \A i \in DOMAIN line : line[i] # c BY <2>1 DEF Members
  <2>3. Members(line)' = Members(line) BY DEF Members
  <2>4. \A i \in DOMAIN line : place'[line[i]] \in IF i = 1 THEN InTurn ELSE {"waiting"}
    BY <1>2, <1>3, <2>2 DEF OneConnection
  <2>5. \A d \in Clients : place'[d] \in InTurn \cup {"waiting"} => d \in Members(line)
    BY <1>2, <1>5 DEF OneConnection
  <2> QED BY <1>1, <1>2, <2>3, <2>4, <2>5 DEF OneConnection
<1> QED BY <1>4, <1>5

\* A request joins the line.
LEMMA LineGrows ==
  ASSUME ShapesOK, OneConnection, OnceInLine, NEW c \in Clients,
         place[c] \notin InTurn \cup {"waiting"},
         line' = Append(line, c), Go(c, IF line = <<>> THEN "connect" ELSE "waiting")
  PROVE  line' \in Seq(Clients) /\ OneConnection' /\ OnceInLine'
<1> DEFINE n == Len(line) + 1
<1>1. line \in Seq(Clients) BY DEF ShapesOK
<1>2. /\ line' \in Seq(Clients) /\ Members(line') = Members(line) \cup {c} /\ Len(line') = n
      /\ \A i \in 1 .. Len(line) : line'[i] = line[i]
      /\ line'[n] = c
  BY <1>1, JoinQueue
<1>3. c \notin Members(line) BY NotInLine
<1>4. DOMAIN line = 1 .. Len(line) /\ DOMAIN line' = 1 .. n /\ Len(line) \in Nat BY <1>1, <1>2
<1>5. \A i \in DOMAIN line : line'[i] = line[i] /\ line[i] # c /\ line[i] \in Clients
  BY <1>1, <1>2, <1>3, <1>4 DEF Members
<1>6. \A i \in DOMAIN line' : i \in DOMAIN line \/ i = n BY <1>4
<1>7. place'[c] = (IF line = <<>> THEN "connect" ELSE "waiting")
      /\ \A d \in Clients \ {c} : place'[d] = place[d]
  BY DEF Go, ShapesOK
<1>8. (line = <<>>) <=> (n = 1) BY <1>1, <1>4
<1>9. OnceInLine' BY <1>2, <1>5, <1>6 DEF OnceInLine
<1>10. \A i \in DOMAIN line' : place'[line'[i]] \in IF i = 1 THEN InTurn ELSE {"waiting"}
  <2> SUFFICES ASSUME NEW i \in DOMAIN line'
               PROVE  place'[line'[i]] \in IF i = 1 THEN InTurn ELSE {"waiting"}
    OBVIOUS
  <2>1. CASE i \in DOMAIN line BY <1>5, <1>7, <2>1 DEF OneConnection
  <2>2. CASE i = n BY <1>2, <1>7, <1>8, <2>2 DEF InTurn
  <2> QED BY <1>6, <2>1, <2>2
<1>11. \A d \in Clients : place'[d] \in InTurn \cup {"waiting"} => d \in Members(line')
  BY <1>2, <1>7 DEF OneConnection
<1>12. OneConnection' BY <1>10, <1>11 DEF OneConnection, Members
<1> QED BY <1>2, <1>9, <1>12

\* What the others see of the end of a turn: at most one of them moves, from
\* waiting to connect.
LEMMA TurnEnds ==
  ASSUME ShapesOK, PoolOK, OneConnection, OnceInLine, NEW c \in Clients,
         place[c] \in InTurn, c \in pool.busy, EndTurn(c)
  PROVE  /\ line' \in Seq(Clients) /\ OneConnection' /\ OnceInLine'
         /\ pool' \in PoolType /\ PoolOK'
         /\ place' \in [Clients -> Places] /\ place'[c] = "sending"
         /\ \A d \in Clients \ {c} :
              place'[d] = place[d] \/ (place[d] = "waiting" /\ place'[d] = "connect")
<1>1. line \in Seq(Clients) /\ 1 \in DOMAIN line /\ line[1] = c BY HeadHasTurn DEF ShapesOK
<1>2. line # <<>> /\ Len(line) \in Nat /\ DOMAIN line = 1 .. Len(line) /\ Len(line) >= 1 BY <1>1
<1>3. /\ line' = Tail(line) /\ line' \in Seq(Clients) /\ Len(line') = Len(line) - 1
      /\ \A i \in DOMAIN line' : i + 1 \in DOMAIN line /\ line'[i] = line[i + 1] /\ i \in Nat /\ i >= 1
      /\ Members(line) = Members(line') \cup {c}
      /\ DOMAIN line' = 1 .. Len(line')
  BY <1>1, <1>2, LeaveQueue DEF EndTurn
<1>4. OnceInLine'
  <2> SUFFICES ASSUME NEW i \in DOMAIN line', NEW j \in DOMAIN line', line'[i] = line'[j]
               PROVE  i = j
    BY DEF OnceInLine
  <2>1. i + 1 = j + 1 BY <1>3 DEF OnceInLine
  <2> QED BY <1>3, <2>1
<1>5. \A i \in DOMAIN line : line[i] \in Clients /\ (line[i] = c => i = 1)
  BY <1>1 DEF OnceInLine
<1>6. CASE Len(line) = 1
  <2>1. Go(c, "sending") /\ pool' = Leave(pool, c) BY <1>6 DEF EndTurn
  <2>2. pool' \in PoolType /\ PoolOK' BY <2>1, JobMoves DEF OnThread
  <2>3. /\ place' \in [Clients -> Places] /\ place'[c] = "sending"
        /\ \A d \in Clients \ {c} : place'[d] = place[d]
    BY <2>1 DEF Go, ShapesOK, Places, OnClient
  <2>4. \A d \in Clients : place[d] \in InTurn \cup {"waiting"} => d = c
    BY <1>1, <1>2, <1>6 DEF OneConnection, Members
  <2>5. DOMAIN line' = {} BY <1>3, <1>6
  <2>6. OneConnection' BY <2>3, <2>4, <2>5 DEF OneConnection, InTurn
  <2> QED BY <1>3, <1>4, <2>2, <2>3, <2>6
<1>7. CASE Len(line) # 1
  <2> DEFINE e == line[2]
  <2>1. 2 \in DOMAIN line /\ e \in Clients /\ e # c /\ place[e] = "waiting"
    BY <1>2, <1>5, <1>7 DEF OneConnection
  <2>2. /\ place' = [place EXCEPT ![c] = "sending", ![e] = "connect"]
        /\ pool' = Enter(Leave(pool, c), e)
    BY <1>7 DEF EndTurn
  <2>3. /\ place' \in [Clients -> Places] /\ place'[c] = "sending" /\ place'[e] = "connect"
        /\ \A d \in Clients \ {c, e} : place'[d] = place[d]
    BY <2>1, <2>2 DEF ShapesOK, Places, OnClient, OnThread
  <2>4. pool' \in PoolType /\ PoolOK'
    <3>1. pool \in PoolType /\ PoolFor(pool, Jobs) BY DEF ShapesOK, PoolType, PoolOK, Jobs
    <3>2. Leave(pool, c) \in PoolType /\ PoolFor(Leave(pool, c), Jobs \ {c})
      BY <3>1, LeavePool
    <3>3. e \notin Jobs BY <2>1 DEF Jobs, OnThread
    <3>4. pool' \in PoolType /\ PoolFor(pool', (Jobs \ {c}) \cup {e})
      BY <2>1, <2>2, <3>2, <3>3, EnterPool
    <3>5. Jobs' = (Jobs \ {c}) \cup {e} BY <2>1, <2>3 DEF Jobs, OnThread
    <3> QED BY <3>4, <3>5 DEF PoolOK, Jobs, PoolFor
  <2>5. \A i \in DOMAIN line' : place'[line'[i]] \in IF i = 1 THEN InTurn ELSE {"waiting"}
    <3> SUFFICES ASSUME NEW i \in DOMAIN line'
                 PROVE  place'[line'[i]] \in IF i = 1 THEN InTurn ELSE {"waiting"}
      OBVIOUS
    <3>1. CASE i = 1 BY <1>3, <2>3, <3>1 DEF InTurn
    <3>2. CASE i # 1
      <4>1. i + 1 \in DOMAIN line /\ i + 1 # 1 /\ i + 1 # 2 /\ line'[i] = line[i + 1]
        BY <1>3, <3>2
      <4>2. line[i + 1] # c /\ line[i + 1] # e /\ line[i + 1] \in Clients
        BY <1>5, <2>1, <4>1 DEF OnceInLine
      <4>3. place[line[i + 1]] = "waiting" BY <4>1 DEF OneConnection
      <4> QED BY <2>3, <3>2, <4>1, <4>2, <4>3
    <3> QED BY <3>1, <3>2
  <2>6. \A d \in Clients : place'[d] \in InTurn \cup {"waiting"} => d \in Members(line')
    <3> SUFFICES ASSUME NEW d \in Clients, place'[d] \in InTurn \cup {"waiting"}
                 PROVE  d \in Members(line')
      OBVIOUS
    <3>1. d # c BY <2>3 DEF InTurn
    <3>2. d \in Members(line) BY <2>1, <2>3, <3>1 DEF OneConnection
    <3> QED BY <1>3, <3>1, <3>2
  <2>7. OneConnection' BY <2>5, <2>6 DEF OneConnection, Members
  <2> HIDE DEF e
  <2> QED BY <1>3, <1>4, <2>1, <2>3, <2>4, <2>7
<1> QED BY <1>6, <1>7

-----------------------------------------------------------------------------
(* What is known of a request *)

Admitted(c) ==
  /\ body[c].hit => place[c] = "limit"
  /\ place[c] \in InTurn \cup {"waiting"} =>
       /\ ~ body[c].hit
       /\ req[c].route \in Keyed => req[c].key
       /\ place[c] = "handle" /\ req[c].route = "create" => body[c].text = "whole"
  /\ place[c] \in {"owed", "close"} => answer[c] \in Answer /\ ~ answer[c].over

\* All requests are admitted as far as they have come.
AllAdmitted == HitsAreLooked /\ OnlyAdmittedTakeTurns /\ OwedAreAnswered

LEMMA AdmittedMeans == (\A c \in Clients : Admitted(c)) <=> AllAdmitted
BY DEF Admitted, AllAdmitted, HitsAreLooked, OnlyAdmittedTakeTurns, OwedAreAnswered

\* A step that looks at one request, and may let the next one connect, keeps
\* what is known of the others.
LEMMA OthersStay ==
  ASSUME AllAdmitted, NEW c \in Clients,
         \A d \in Clients \ {c} :
           /\ req'[d] = req[d] /\ body'[d] = body[d] /\ answer'[d] = answer[d]
           /\ place'[d] = place[d] \/ (place[d] = "waiting" /\ place'[d] = "connect"),
         Admitted(c)'
  PROVE  AllAdmitted'
<1>1. \A d \in Clients : Admitted(d) BY AdmittedMeans
<1>2. ASSUME NEW d \in Clients \ {c} PROVE Admitted(d)'
  BY <1>1, <1>2 DEF Admitted, InTurn
<1>3. \A d \in Clients : Admitted(d)' BY <1>2
<1> QED BY <1>3 DEF Admitted, AllAdmitted, HitsAreLooked, OnlyAdmittedTakeTurns, OwedAreAnswered

\* Deciding an answer leaves nothing of the request to be admitted.
LEMMA DecideAdmits ==
  ASSUME ShapesOK, NEW c \in Clients, NEW a \in Answer, Decide(c, a),
         place'[c] \in {"owed", "close"} => ~ a.over
  PROVE  /\ req' \in [Clients -> Request] /\ body' \in [Clients -> Body]
         /\ answer' \in [Clients -> Answer \cup {None}]
         /\ \A d \in Clients \ {c} :
              req'[d] = req[d] /\ body'[d] = body[d] /\ answer'[d] = answer[d]
         /\ Admitted(c)'
<1>1. Blank \in Request /\ NoBody \in Body BY DEF Blank, NoBody, Request, Body
<1>2. req'[c] = Blank /\ body'[c] = NoBody /\ answer'[c] = a BY DEF Decide, ShapesOK
<1>3. Admitted(c)' BY <1>2 DEF Admitted, Blank, NoBody, Keyed
<1>4. \A d \in Clients \ {c} :
        req'[d] = req[d] /\ body'[d] = body[d] /\ answer'[d] = answer[d]
  BY DEF Decide, ShapesOK
<1>5. req' \in [Clients -> Request] /\ body' \in [Clients -> Body]
  BY <1>1 DEF Decide, ShapesOK
<1>6. answer' \in [Clients -> Answer \cup {None}] BY DEF Decide, ShapesOK
<1> QED BY <1>3, <1>4, <1>5, <1>6

\* An answer tells whether the body it answers went over the limit.
LEMMA Answers ==
  ASSUME NEW status \in {200, 400, 401, 404, 413, 422, 500}, NEW b \in Body
  PROVE  /\ Said(status, b) \in Answer /\ Said(status, b).status = status
         /\ Said(status, b).over <=> b.hit
BY DEF Said, Answer, Body

LEMMA Bodies ==
  /\ NoBody \in Body /\ ~ NoBody.hit
  /\ \A b \in Body : Cut(b) \in Body /\ Cut(b).hit
<1>1. NoBody \in Body /\ ~ NoBody.hit BY DEF NoBody, Body
<1>2. \A b \in Body : Cut(b) \in Body /\ Cut(b).hit BY DEF Cut, Body
<1> QED BY <1>1, <1>2

\* Putting the parts together
LEMMA Together ==
  ASSUME /\ place' \in [Clients -> Places] /\ req' \in [Clients -> Request]
         /\ body' \in [Clients -> Body] /\ line' \in Seq(Clients)
         /\ pool' \in PoolType /\ answer' \in [Clients -> Answer \cup {None}],
         PoolOK', OneConnection', OnceInLine', AllAdmitted'
  PROVE  PathInv'
BY DEF PathInv, AllAdmitted, TypeOK, ShapesOK, PoolType

-----------------------------------------------------------------------------
(* The ways a request can move *)

\* Its head, its body and its answer keep their types, and the others theirs.
OwnOnly(c) ==
  /\ req' \in [Clients -> Request] /\ body' \in [Clients -> Body]
  /\ answer' \in [Clients -> Answer \cup {None}]
  /\ \A d \in Clients \ {c} :
       req'[d] = req[d] /\ body'[d] = body[d] /\ answer'[d] = answer[d]

\* It is answered without having asked for the turn.
LEMMA IsRefused ==
  ASSUME PathInv, NEW c \in Clients, NEW a \in Answer, Go(c, "sending"), Decide(c, a), line' = line,
         place[c] \notin InTurn \cup {"waiting"},
         \/ place[c] \notin OnThread /\ pool' = pool
         \/ c \in pool.busy /\ pool' = Leave(pool, c)
  PROVE  PathInv'
<1> USE DEF PathInv, TypeOK
<1>1. pool' \in PoolType /\ PoolOK' BY JobMoves DEF OnThread
<1>2. OneConnection' /\ OnceInLine' BY LineStays DEF InTurn
<1>3. /\ place' \in [Clients -> Places]
      /\ \A d \in Clients \ {c} : place'[d] = place[d]
  BY DEF Go, ShapesOK, Places, OnClient
<1>4. OwnOnly(c) /\ Admitted(c)'
  <2>1. place'[c] = "sending" BY DEF Go, ShapesOK
  <2> QED BY <2>1, DecideAdmits DEF OwnOnly
<1>5. AllAdmitted' BY <1>3, <1>4, OthersStay DEF OwnOnly, AllAdmitted
<1> QED BY <1>1, <1>2, <1>3, <1>4, <1>5, Together DEF OwnOnly, ShapesOK

\* It goes on to a job before the turn.
LEMMA GoesOn ==
  ASSUME PathInv, NEW c \in Clients, NEW there \in OnThread \ InTurn, Go(c, there), line' = line,
         place[c] \notin InTurn \cup {"waiting"},
         \/ place[c] \notin OnThread /\ pool' = Enter(pool, c)
         \/ c \in pool.busy /\ pool' = Enter(Leave(pool, c), c),
         OwnOnly(c), body'[c].hit => there = "limit"
  PROVE  PathInv'
<1> USE DEF PathInv, TypeOK
<1>1. pool' \in PoolType /\ PoolOK' BY JobMoves
<1>2. there \notin InTurn \cup {"waiting", "owed", "close"} BY DEF OnThread, InTurn
<1>3. OneConnection' /\ OnceInLine' BY <1>2, LineStays
<1>4. /\ place' \in [Clients -> Places] /\ place'[c] = there
      /\ \A d \in Clients \ {c} : place'[d] = place[d]
  BY DEF Go, ShapesOK, Places
<1>5. Admitted(c)' BY <1>2, <1>4 DEF Admitted
<1>6. AllAdmitted' BY <1>4, <1>5, OthersStay DEF OwnOnly, AllAdmitted
<1> QED BY <1>1, <1>3, <1>4, <1>6, Together DEF OwnOnly, ShapesOK

\* It asks for the turn.
LEMMA Joins ==
  ASSUME PathInv, NEW c \in Clients, NEW p, TakeTurn(c, p),
         place[c] \notin InTurn \cup {"waiting"},
         \/ place[c] \notin OnThread /\ p = pool
         \/ c \in pool.busy /\ p = Leave(pool, c),
         OwnOnly(c), body' = body, place[c] # "limit",
         req'[c].route \in Keyed => req'[c].key
  PROVE  PathInv'
<1> USE DEF PathInv, TypeOK
<1> DEFINE there == IF line = <<>> THEN "connect" ELSE "waiting"
<1>1. Go(c, there) /\ line' = Append(line, c) BY DEF TakeTurn
<1>2. pool' = (IF line = <<>> THEN Enter(p, c) ELSE p) BY DEF TakeTurn
<1>3. (line = <<>> => there \in OnThread) /\ (line # <<>> => there \notin OnThread) BY DEF OnThread
<1>4. pool' \in PoolType /\ PoolOK' BY <1>1, <1>2, <1>3, JobMoves
<1>5. line' \in Seq(Clients) /\ OneConnection' /\ OnceInLine' BY <1>1, LineGrows
<1>6. /\ place' \in [Clients -> Places] /\ place'[c] \notin {"handle", "owed", "close"}
      /\ \A d \in Clients \ {c} : place'[d] = place[d]
  BY <1>1 DEF Go, ShapesOK, Places, OnThread
<1>7. ~ body'[c].hit BY DEF HitsAreLooked
<1>8. Admitted(c)' BY <1>6, <1>7 DEF Admitted
<1>9. AllAdmitted' BY <1>6, <1>8, OthersStay DEF OwnOnly, AllAdmitted
<1> QED BY <1>4, <1>5, <1>6, <1>9, Together DEF OwnOnly

\* It has the turn and goes on to another job of it.
LEMMA KeepsTurn ==
  ASSUME PathInv, NEW c \in Clients, NEW there \in InTurn, Resubmit(c, there), line' = line,
         place[c] \in InTurn, c \in pool.busy,
         OwnOnly(c), Admitted(c)'
  PROVE  PathInv'
<1> USE DEF PathInv, TypeOK
<1>1. there \in OnThread BY DEF InTurn, OnThread
<1>2. Go(c, there) /\ pool' = Enter(Leave(pool, c), c) BY DEF Resubmit
<1>3. pool' \in PoolType /\ PoolOK' BY <1>1, <1>2, JobMoves
<1>4. OneConnection' /\ OnceInLine' BY <1>2, LineStays
<1>5. /\ place' \in [Clients -> Places]
      /\ \A d \in Clients \ {c} : place'[d] = place[d]
  BY <1>1, <1>2 DEF Go, ShapesOK, Places
<1>6. AllAdmitted' BY <1>5, OthersStay DEF OwnOnly, AllAdmitted
<1> QED BY <1>3, <1>4, <1>5, <1>6, Together DEF OwnOnly, ShapesOK

\* It gives the turn up.
LEMMA GivesTurn ==
  ASSUME PathInv, NEW c \in Clients, EndTurn(c), place[c] \in InTurn, c \in pool.busy,
         OwnOnly(c), ~ body'[c].hit
  PROVE  PathInv'
<1> USE DEF PathInv, TypeOK
<1>1. /\ line' \in Seq(Clients) /\ OneConnection' /\ OnceInLine' /\ pool' \in PoolType /\ PoolOK'
      /\ place' \in [Clients -> Places] /\ place'[c] = "sending"
      /\ \A d \in Clients \ {c} :
           place'[d] = place[d] \/ (place[d] = "waiting" /\ place'[d] = "connect")
  BY TurnEnds
<1>2. Admitted(c)' BY <1>1 DEF Admitted, InTurn
<1>3. AllAdmitted' BY <1>1, <1>2, OthersStay DEF OwnOnly, AllAdmitted
<1> QED BY <1>1, <1>3, Together DEF OwnOnly

-----------------------------------------------------------------------------
(* The actions *)

LEMMA ArriveKeeps == ASSUME PathInv, NEW c \in Clients, Arrive(c) PROVE PathInv'
<1>1. place[c] = "idle" /\ place[c] \notin InTurn \cup {"waiting"} \cup OnThread
  BY DEF Arrive, InTurn, OnThread
<1>2. ~ body[c].hit BY <1>1 DEF PathInv, HitsAreLooked
<1>3. PICK r \in Requests :
       \/ Go(c, "sending") /\ Decide(c, Said(413, Cut(NoBody))) /\ UNCHANGED <<line, pool>>
       \/ /\ Go(c, "reading") /\ req' = [req EXCEPT ![c] = r]
          /\ UNCHANGED <<body, line, pool, answer>>
       \/ /\ \E there \in {"key", "manifest"} : Submit(c, there)
          /\ req' = [req EXCEPT ![c] = r] /\ UNCHANGED <<body, line, answer>>
       \/ /\ TakeTurn(c, pool) /\ r.route = "follow"
          /\ req' = [req EXCEPT ![c] = r] /\ UNCHANGED <<body, answer>>
       \/ Go(c, "sending") /\ Decide(c, Said(404, NoBody)) /\ UNCHANGED <<line, pool>>
  BY DEF Arrive
<1>4. ASSUME req' = [req EXCEPT ![c] = r], body' = body, answer' = answer PROVE OwnOnly(c)
  BY <1>4 DEF OwnOnly, PathInv, TypeOK, ShapesOK, Requests
<1>5. ASSUME NEW a \in Answer, Go(c, "sending"), Decide(c, a), UNCHANGED <<line, pool>> PROVE PathInv'
  BY <1>1, <1>5, IsRefused
<1>6. CASE Go(c, "sending") /\ Decide(c, Said(413, Cut(NoBody))) /\ UNCHANGED <<line, pool>>
  BY <1>5, <1>6, Answers, Bodies
<1>7. CASE /\ Go(c, "reading") /\ req' = [req EXCEPT ![c] = r]
           /\ UNCHANGED <<body, line, pool, answer>>
  <2>1. OwnOnly(c) BY <1>4, <1>7
  <2>2. pool' \in PoolType /\ PoolOK' BY <1>1, <1>7, JobMoves DEF PathInv, TypeOK, OnThread
  <2>3. OneConnection' /\ OnceInLine' BY <1>1, <1>7, LineStays DEF PathInv, TypeOK, InTurn
  <2>4. /\ place' \in [Clients -> Places] /\ place'[c] = "reading"
        /\ \A d \in Clients \ {c} : place'[d] = place[d]
    BY <1>7 DEF Go, PathInv, TypeOK, ShapesOK, Places, OnClient
  <2>5. Admitted(c)' BY <1>2, <1>7, <2>4 DEF Admitted, InTurn
  <2>6. AllAdmitted' BY <2>1, <2>4, <2>5, OthersStay DEF OwnOnly, PathInv, AllAdmitted
  <2> QED BY <1>7, <2>1, <2>2, <2>3, <2>4, <2>6, Together DEF OwnOnly, PathInv, TypeOK, ShapesOK
<1>8. CASE /\ \E there \in {"key", "manifest"} : Submit(c, there)
           /\ req' = [req EXCEPT ![c] = r] /\ UNCHANGED <<body, line, answer>>
  <2>1. PICK there \in {"key", "manifest"} : Go(c, there) /\ pool' = Enter(pool, c)
    BY <1>8 DEF Submit
  <2>2. there \in OnThread \ InTurn BY DEF OnThread, InTurn
  <2> QED BY <1>1, <1>2, <1>4, <1>8, <2>1, <2>2, GoesOn
<1>9. CASE /\ TakeTurn(c, pool) /\ r.route = "follow"
           /\ req' = [req EXCEPT ![c] = r] /\ UNCHANGED <<body, answer>>
  <2>1. req'[c].route \notin Keyed BY <1>9 DEF Keyed, PathInv, TypeOK, ShapesOK
  <2> QED BY <1>1, <1>4, <1>9, <2>1, Joins
<1>10. CASE Go(c, "sending") /\ Decide(c, Said(404, NoBody)) /\ UNCHANGED <<line, pool>>
  BY <1>5, <1>10, Answers, Bodies
<1> QED BY <1>3, <1>6, <1>7, <1>8, <1>9, <1>10

\* The body has ended, with what was received of it.
LEMMA ParseKeeps ==
  ASSUME PathInv, NEW c \in Clients, place[c] = "reading", NEW b \in Body, Parse(c, b)
  PROVE  PathInv'
<1>1. place[c] \notin InTurn \cup {"waiting"} \cup OnThread BY DEF InTurn, OnThread
<1>2. CASE Go(c, "sending") /\ Decide(c, Said(422, b)) /\ UNCHANGED <<line, pool>>
  <2>1. Said(422, b) \in Answer BY Answers
  <2> QED BY <1>1, <1>2, <2>1, IsRefused
<1>3. CASE /\ Submit(c, "limit")
           /\ body' = [body EXCEPT ![c] = [b EXCEPT !.got = 0]]
           /\ req' = [req EXCEPT ![c].declared = 0]
           /\ UNCHANGED <<line, answer>>
  <2>1. [b EXCEPT !.got = 0] \in Body BY DEF Body
  <2>2. [req[c] EXCEPT !.declared = 0] \in Request BY DEF Request, PathInv, TypeOK, ShapesOK
  <2>3. OwnOnly(c) BY <1>3, <2>1, <2>2 DEF OwnOnly, PathInv, TypeOK, ShapesOK
  <2>4. "limit" \in OnThread \ InTurn BY DEF OnThread, InTurn
  <2> QED BY <1>1, <1>3, <2>3, <2>4, GoesOn DEF Submit
<1> QED BY <1>2, <1>3 DEF Parse

\* A body within the limit stays a body as it grows.
LEMMA LongerIsBody ==
  ASSUME NEW b \in Body, NEW n \in Nat, b.got + n <= Limit, NEW longer \in Longer(b, n)
  PROVE  longer \in Body /\ longer.hit = b.hit
<1>1. /\ b.got \in 0 .. Limit /\ b.text \in {"none", "part", "whole"} /\ b.hit \in BOOLEAN
      /\ b = [got |-> b.got, text |-> b.text, hit |-> b.hit]
  BY DEF Body
<1>2. PICK t \in {"none", "part", "whole"} : longer = [b EXCEPT !.got = @ + n, !.text = t]
  BY <1>1 DEF Longer
<1>3. b.got + n \in 0 .. Limit BY <1>1
<1>4. longer = [got |-> b.got + n, text |-> t, hit |-> b.hit] BY <1>1, <1>2
<1> QED BY <1>1, <1>3, <1>4 DEF Body

LEMMA ReceiveKeeps == ASSUME PathInv, NEW c \in Clients, Receive(c) PROVE PathInv'
<1>1. place[c] = "reading" /\ body[c] \in Body BY DEF Receive, PathInv, TypeOK, ShapesOK
<1>2. PICK n \in 0 .. Limit + 1, more \in BOOLEAN :
       \/ Parse(c, Cut(body[c]))
       \/ /\ body[c].got + n <= Limit /\ more
          /\ \E longer \in Longer(body[c], n) : body' = [body EXCEPT ![c] = longer]
          /\ UNCHANGED <<place, req, line, pool, answer>>
       \/ /\ body[c].got + n <= Limit
          /\ \E longer \in Longer(body[c], n) : Parse(c, longer)
  BY DEF Receive
<1>3. Cut(body[c]) \in Body BY <1>1, Bodies
<1>4. ASSUME body[c].got + n <= Limit, NEW longer \in Longer(body[c], n)
      PROVE  longer \in Body /\ longer.hit = body[c].hit
  BY <1>1, <1>4, LongerIsBody
<1>5. CASE /\ body[c].got + n <= Limit /\ more
           /\ \E longer \in Longer(body[c], n) : body' = [body EXCEPT ![c] = longer]
           /\ UNCHANGED <<place, req, line, pool, answer>>
  <2>1. PICK longer \in Longer(body[c], n) : body' = [body EXCEPT ![c] = longer] BY <1>5
  <2>2. OwnOnly(c) /\ ~ body'[c].hit
    BY <1>1, <1>4, <1>5, <2>1 DEF OwnOnly, PathInv, HitsAreLooked, TypeOK, ShapesOK
  <2>3. Admitted(c)' BY <1>1, <1>5, <2>2 DEF Admitted, InTurn
  <2>4. AllAdmitted' BY <1>5, <2>2, <2>3, OthersStay DEF OwnOnly, PathInv, AllAdmitted
  <2>5. PoolOK' /\ OneConnection' /\ OnceInLine'
    BY <1>5 DEF PathInv, TypeOK, PoolOK, PoolFor, OneConnection, OnceInLine, Members
  <2> QED BY <1>5, <2>2, <2>4, <2>5, Together DEF OwnOnly, PathInv, TypeOK, ShapesOK, PoolType
<1> QED BY <1>1, <1>2, <1>3, <1>4, <1>5, ParseKeeps

\* The jobs of a request before it has the turn
LEMMA EarlyJobsKeep ==
  ASSUME PathInv, NEW c \in Clients, BodyWithinLimit(c) \/ RequireKey(c) \/ Manifest(c)
  PROVE  PathInv'
<1> USE DEF Runs
<1>1. /\ place[c] \in {"limit", "key", "manifest"} /\ c \in pool.busy
      /\ place[c] \notin InTurn \cup {"waiting"}
  BY DEF BodyWithinLimit, RequireKey, Manifest, InTurn
<1>2. ASSUME NEW status \in {200, 401, 413}, Reply(c, Said(status, body[c])) PROVE PathInv'
  <2>1. body[c] \in Body BY DEF PathInv, TypeOK, ShapesOK
  <2>2. Said(status, body[c]) \in Answer BY <2>1, Answers
  <2> QED BY <1>1, <1>2, <2>2, IsRefused DEF Reply
<1>3. ASSUME UNCHANGED <<req, body, answer>> PROVE OwnOnly(c)
  BY <1>3 DEF OwnOnly, PathInv, TypeOK, ShapesOK
<1>4. CASE BodyWithinLimit(c)
  <2>1. CASE Reply(c, Said(413, body[c])) BY <1>2, <2>1
  <2>2. CASE ~ body[c].hit /\ Resubmit(c, "key") /\ UNCHANGED <<req, body, line, answer>>
    <3>1. "key" \in OnThread \ InTurn BY DEF OnThread, InTurn
    <3> QED BY <1>1, <1>3, <2>2, <3>1, GoesOn DEF Resubmit
  <2> QED BY <1>4, <2>1, <2>2 DEF BodyWithinLimit
<1>5. CASE RequireKey(c)
  <2>1. CASE Reply(c, Said(401, body[c])) BY <1>2, <2>1
  <2>2. CASE req[c].key /\ TakeTurn(c, Leave(pool, c)) /\ UNCHANGED <<req, body, answer>>
    <3>1. place[c] # "limit" BY <1>5 DEF RequireKey
    <3> QED BY <1>1, <1>3, <2>2, <3>1, Joins
  <2> QED BY <1>5, <2>1, <2>2 DEF RequireKey
<1>6. CASE Manifest(c) BY <1>2, <1>6 DEF Manifest
<1> QED BY <1>4, <1>5, <1>6

\* The jobs of a request that has the turn
LEMMA TurnJobsKeep ==
  ASSUME PathInv, NEW c \in Clients, Connect(c) \/ Handle(c) \/ SettleOwed(c) \/ Close(c)
  PROVE  PathInv'
<1> USE DEF Runs
<1>1. place[c] \in InTurn /\ c \in pool.busy BY DEF Connect, Handle, SettleOwed, Close, InTurn
<1>2. /\ ~ body[c].hit
      /\ req[c].route \in Keyed => req[c].key
  BY <1>1 DEF PathInv, OnlyAdmittedTakeTurns
<1>3. ASSUME NEW a \in Answer, ~ a.over, NEW there \in InTurn, Decide(c, a), Resubmit(c, there), line' = line
      PROVE  PathInv'
  <2>1. OwnOnly(c) /\ Admitted(c)' BY <1>3, DecideAdmits DEF OwnOnly, PathInv, TypeOK
  <2> QED BY <1>1, <1>3, <2>1, KeepsTurn
<1>4. ASSUME NEW there \in InTurn, Resubmit(c, there), UNCHANGED <<req, body, line>>,
             answer' \in [Clients -> Answer \cup {None}],
             \A d \in Clients \ {c} : answer'[d] = answer[d],
             there \in {"owed", "close"} => answer'[c] \in Answer /\ ~ answer'[c].over,
             there = "handle" /\ req[c].route = "create" => body[c].text = "whole"
      PROVE  PathInv'
  <2>1. OwnOnly(c) BY <1>4 DEF OwnOnly, PathInv, TypeOK, ShapesOK
  <2>2. place'[c] = there BY <1>4 DEF Resubmit, Go, PathInv, TypeOK, ShapesOK
  <2>3. Admitted(c)' BY <1>2, <1>4, <2>2 DEF Admitted
  <2> QED BY <1>1, <1>4, <2>1, <2>3, KeepsTurn
<1>5. {"handle", "owed", "close"} \subseteq InTurn BY DEF InTurn
<1>6. answer \in [Clients -> Answer \cup {None}] BY DEF PathInv, TypeOK, ShapesOK
<1>7. \A status \in {200, 422, 500} :
        Said(status, body[c]) \in Answer /\ ~ Said(status, body[c]).over
  BY <1>2, Answers DEF PathInv, TypeOK, ShapesOK
<1>8. CASE Connect(c)
  <2>1. CASE /\ req[c].route = "create" => body[c].text = "whole"
             /\ Resubmit(c, "handle") /\ UNCHANGED <<req, body, line, answer>>
    BY <1>4, <1>5, <1>6, <2>1
  <2>2. CASE Resubmit(c, "owed") /\ Decide(c, Said(422, body[c])) /\ line' = line
    BY <1>3, <1>5, <1>7, <2>2
  <2>3. CASE EndTurn(c) /\ Decide(c, Said(500, body[c]))
    <3>1. OwnOnly(c) BY <1>1, <1>7, <2>3, DecideAdmits DEF OwnOnly, PathInv, TypeOK
    <3>2. ~ body'[c].hit BY <2>3 DEF Decide, NoBody, PathInv, TypeOK, ShapesOK
    <3> QED BY <1>1, <2>3, <3>1, <3>2, GivesTurn
  <2> QED BY <1>8, <2>1, <2>2, <2>3 DEF Connect
<1>9. CASE Handle(c)
  <2>1. PICK status \in {200, 500} : Decide(c, Said(status, body[c])) BY <1>9 DEF Handle
  <2> QED BY <1>3, <1>5, <1>7, <1>9, <2>1 DEF Handle
<1>10. CASE SettleOwed(c)
  <2>1. answer[c] \in Answer /\ ~ answer[c].over BY <1>10 DEF SettleOwed, PathInv, OwedAreAnswered
  <2>2. [answer[c] EXCEPT !.status = 500] \in Answer /\ ~ [answer[c] EXCEPT !.status = 500].over
    BY <2>1 DEF Answer
  <2>3. answer' = answer \/ answer' = [answer EXCEPT ![c] = [answer[c] EXCEPT !.status = 500]]
    BY <1>10 DEF SettleOwed
  <2>4. PICK a \in Answer : ~ a.over /\ answer' = [answer EXCEPT ![c] = a]
    BY <1>6, <2>1, <2>2, <2>3
  <2>5. /\ answer' \in [Clients -> Answer \cup {None}]
        /\ \A d \in Clients \ {c} : answer'[d] = answer[d]
        /\ answer'[c] = a
    BY <1>6, <2>4
  <2> QED BY <1>4, <1>5, <1>10, <2>4, <2>5 DEF SettleOwed
<1>11. CASE Close(c)
  <2>1. OwnOnly(c) BY <1>11 DEF Close, OwnOnly, PathInv, TypeOK, ShapesOK
  <2> QED BY <1>1, <1>2, <1>11, <2>1, GivesTurn DEF Close
<1> QED BY <1>8, <1>9, <1>10, <1>11

\* The client's moves
LEMMA ClientKeeps ==
  ASSUME PathInv, NEW c \in Clients, Disconnect(c) \/ Sent(c)
  PROVE  PathInv'
<1>1. place[c] \in OnClient /\ place[c] \notin InTurn \cup {"waiting"} \cup OnThread
  BY DEF Disconnect, Sent, OnClient, InTurn, OnThread
<1>2. CASE Disconnect(c)
  <2>1. Said(400, body[c]) \in Answer BY Answers DEF PathInv, TypeOK, ShapesOK
  <2> QED BY <1>1, <1>2, <2>1, IsRefused DEF Disconnect
<1>3. CASE Sent(c)
  <2>1. Go(c, "idle") /\ UNCHANGED <<req, body, line, pool>> BY <1>3 DEF Sent
  <2>2. pool' \in PoolType /\ PoolOK' BY <1>1, <2>1, JobMoves DEF PathInv, TypeOK, OnThread
  <2>3. OneConnection' /\ OnceInLine' BY <1>1, <2>1, LineStays DEF PathInv, TypeOK, InTurn
  <2>4. /\ place' \in [Clients -> Places] /\ place'[c] = "idle"
        /\ \A d \in Clients \ {c} : place'[d] = place[d]
    BY <2>1 DEF Go, PathInv, TypeOK, ShapesOK, Places, OnClient
  <2>5. OwnOnly(c) BY <1>3 DEF Sent, OwnOnly, PathInv, TypeOK, ShapesOK
  <2>6. ~ body[c].hit BY <1>3 DEF Sent, PathInv, HitsAreLooked
  <2>7. Admitted(c)' BY <2>1, <2>4, <2>6 DEF Admitted, InTurn
  <2>8. AllAdmitted' BY <2>4, <2>5, <2>7, OthersStay DEF OwnOnly, PathInv, AllAdmitted
  <2> QED BY <2>1, <2>2, <2>3, <2>4, <2>5, <2>8, Together DEF OwnOnly, PathInv, TypeOK, ShapesOK
<1> QED BY <1>2, <1>3

-----------------------------------------------------------------------------
(* The invariant *)

LEMMA PathInit == ASSUME Init PROVE PathInv
<1>1. /\ Blank \in Request /\ NoBody \in Body /\ NoBody.hit = FALSE
  BY DEF Blank, NoBody, Request, Body
<1>2. /\ place \in [Clients -> Places] /\ \A c \in Clients : place[c] = "idle"
  BY DEF Init, Places, OnClient
<1>3. line = <<>> /\ pool.busy = {} /\ pool.queue = <<>> BY DEF Init
<1>4. ShapesOK BY <1>1, <1>2 DEF Init, ShapesOK
<1>5. PoolOK
  <2>1. IsFiniteSet({}) /\ Cardinality({}) = 0 BY FS_EmptySet
  <2>2. {c \in Clients : place[c] \in OnThread} = {} BY <1>2 DEF OnThread
  <2>3. Members(<<>>) = {} BY DEF Members
  <2> QED BY <1>3, <2>1, <2>2, <2>3 DEF PoolOK, PoolFor
<1>6. OneConnection /\ OnceInLine BY <1>2, <1>3 DEF OneConnection, OnceInLine, InTurn
<1>7. HitsAreLooked /\ OnlyAdmittedTakeTurns /\ OwedAreAnswered
  BY <1>1, <1>2 DEF Init, HitsAreLooked, OnlyAdmittedTakeTurns, OwedAreAnswered, InTurn
<1> QED BY <1>4, <1>5, <1>6, <1>7 DEF PathInv, TypeOK

LEMMA PathStep == ASSUME PathInv, [Next]_vars PROVE PathInv'
<1>1. CASE UNCHANGED vars
  BY <1>1 DEF vars, PathInv, TypeOK, ShapesOK, PoolOK, PoolFor, OneConnection, OnceInLine,
    HitsAreLooked, OnlyAdmittedTakeTurns, OwedAreAnswered, Members
<1>2. ASSUME NEW c \in Clients, Arrive(c) \/ Receive(c) \/ Disconnect(c) \/ Serve(c) \/ Sent(c)
      PROVE  PathInv'
  <2>1. CASE Arrive(c) BY <2>1, ArriveKeeps
  <2>2. CASE Receive(c) BY <2>2, ReceiveKeeps
  <2>3. CASE Disconnect(c) \/ Sent(c) BY <2>3, ClientKeeps
  <2>4. CASE Serve(c) BY <2>4, EarlyJobsKeep, TurnJobsKeep DEF Serve
  <2> QED BY <1>2, <2>1, <2>2, <2>3, <2>4
<1> QED BY <1>1, <1>2 DEF Next

LEMMA Invariant == Spec => []PathInv
<1>1. Init => PathInv BY PathInit
<1>2. PathInv /\ [Next]_vars => PathInv' BY PathStep
<1> QED BY <1>1, <1>2, PTL DEF Spec

-----------------------------------------------------------------------------
(* Nobody is overtaken *)

\* Joining at the end and leaving at the front keep everybody's place.
LEMMA QueueKeepsPlaces ==
  ASSUME NEW S, NEW q \in Seq(S), NEW c
  PROVE  /\ KeepsItsPlace(c, q, q)
         /\ \A d \in S : KeepsItsPlace(c, q, Append(q, d))
         /\ q # <<>> /\ c # Head(q) => KeepsItsPlace(c, q, Tail(q))
<1>1. DOMAIN q = 1 .. Len(q) /\ Len(q) \in Nat OBVIOUS
<1>2. KeepsItsPlace(c, q, q) BY <1>1 DEF KeepsItsPlace
<1>3. ASSUME NEW d \in S PROVE KeepsItsPlace(c, q, Append(q, d))
  <2>1. \A i \in DOMAIN q : i \in DOMAIN Append(q, d) /\ Append(q, d)[i] = q[i] BY <1>1
  <2> QED BY <1>1, <2>1 DEF KeepsItsPlace
<1>4. ASSUME q # <<>>, c # Head(q) PROVE KeepsItsPlace(c, q, Tail(q))
  <2> SUFFICES ASSUME NEW i \in DOMAIN q, q[i] = c
               PROVE  \E j \in DOMAIN Tail(q) : j <= i /\ Tail(q)[j] = c
    BY DEF KeepsItsPlace
  <2>1. i # 1 BY <1>4
  <2>2. i - 1 \in DOMAIN Tail(q) /\ Tail(q)[i - 1] = q[i] BY <1>1, <2>1
  <2> QED BY <1>1, <2>2
<1> QED BY <1>2, <1>3, <1>4

\* c has a thread of the pool new, or as many before him as in the pool old.
NotOvertaken(c, old, new) == c \in new.busy \/ KeepsItsPlace(c, old.queue, new.queue)

\* Whoever asks for a thread or gives his back, nobody else who waits for one
\* is overtaken.
LEMMA PoolKeepsPlaces ==
  ASSUME NEW p \in PoolType, NEW c, NEW d \in Clients, NEW e \in Clients
  PROVE  /\ NotOvertaken(c, p, p)
         /\ NotOvertaken(c, p, Enter(p, d))
         /\ NotOvertaken(c, p, Leave(p, d))
         /\ NotOvertaken(c, p, Enter(Leave(p, d), e))
<1>1. ASSUME NEW o \in PoolType, NEW f \in Clients
      PROVE  /\ Enter(o, f) \in PoolType /\ o.busy \subseteq Enter(o, f).busy
             /\ KeepsItsPlace(c, o.queue, Enter(o, f).queue)
  <2>1. o.busy \subseteq Clients /\ o.queue \in Seq(Clients) BY DEF PoolType
  <2>2. KeepsItsPlace(c, o.queue, o.queue) /\ KeepsItsPlace(c, o.queue, Append(o.queue, f))
    BY <2>1, QueueKeepsPlaces
  <2>3. CASE o.queue = <<>> /\ Cardinality(o.busy) < Workers
    <3>1. Enter(o, f).busy = o.busy \cup {f} /\ Enter(o, f).queue = o.queue /\ Enter(o, f) \in PoolType
      BY <2>1, <2>3 DEF Enter, PoolType
    <3> QED BY <2>2, <3>1
  <2>4. CASE ~ (o.queue = <<>> /\ Cardinality(o.busy) < Workers)
    <3>1. /\ Enter(o, f).busy = o.busy /\ Enter(o, f).queue = Append(o.queue, f)
          /\ Enter(o, f) \in PoolType
      <4>1. Append(o.queue, f) \in Seq(Clients) BY <2>1
      <4>2. Enter(o, f) = [o EXCEPT !.queue = Append(o.queue, f)] BY <2>4 DEF Enter
      <4> QED BY <2>1, <4>1, <4>2 DEF PoolType
    <3> QED BY <2>2, <3>1
  <2> QED BY <2>3, <2>4
<1>2. p.queue \in Seq(Clients) /\ p.busy \subseteq Clients BY DEF PoolType
<1>3. Leave(p, d) \in PoolType /\ NotOvertaken(c, p, Leave(p, d))
  <2>1. CASE p.queue = <<>>
    <3>1. Leave(p, d).queue = p.queue /\ Leave(p, d) \in PoolType BY <1>2, <2>1 DEF Leave, PoolType
    <3> QED BY <1>2, <3>1, QueueKeepsPlaces DEF NotOvertaken
  <2>2. CASE p.queue # <<>>
    <3>1. Head(p.queue) \in Clients /\ Tail(p.queue) \in Seq(Clients) BY <1>2, <2>2, LeaveQueue
    <3>2. /\ Leave(p, d).queue = Tail(p.queue) /\ Head(p.queue) \in Leave(p, d).busy
          /\ Leave(p, d) \in PoolType
      BY <1>2, <2>2, <3>1 DEF Leave, PoolType
    <3>3. c # Head(p.queue) => KeepsItsPlace(c, p.queue, Tail(p.queue))
      BY <1>2, <2>2, QueueKeepsPlaces
    <3> QED BY <3>2, <3>3 DEF NotOvertaken
  <2> QED BY <2>1, <2>2
<1>4. NotOvertaken(c, p, Enter(Leave(p, d), e))
  <2> DEFINE l == Leave(p, d)
             n == Enter(l, e)
  <2>1. l \in PoolType /\ NotOvertaken(c, p, l) BY <1>3
  <2>2. n \in PoolType /\ l.busy \subseteq n.busy /\ KeepsItsPlace(c, l.queue, n.queue) BY <1>1, <2>1
  <2>3. p.queue \in Seq(Clients) /\ l.queue \in Seq(Clients) /\ n.queue \in Seq(Clients)
    BY <1>2, <2>1, <2>2 DEF PoolType
  <2>4. NotOvertaken(c, p, n)
    <3> HIDE DEF l, n
    <3>1. CASE c \in l.busy BY <2>2, <3>1 DEF NotOvertaken
    <3>2. CASE KeepsItsPlace(c, p.queue, l.queue)
      <4> SUFFICES ASSUME NEW i \in DOMAIN p.queue, p.queue[i] = c
                   PROVE  \E j \in DOMAIN n.queue : j <= i /\ n.queue[j] = c
        BY DEF KeepsItsPlace, NotOvertaken
      <4>1. PICK j \in DOMAIN l.queue : j <= i /\ l.queue[j] = c BY <3>2 DEF KeepsItsPlace
      <4>2. PICK k \in DOMAIN n.queue : k <= j /\ n.queue[k] = c BY <2>2, <4>1 DEF KeepsItsPlace
      <4>3. i \in Nat /\ j \in Nat /\ k \in Nat BY <2>3
      <4> QED BY <4>1, <4>2, <4>3
    <3> QED BY <2>1, <3>1, <3>2 DEF NotOvertaken
  <2> QED BY <2>4
<1> QED BY <1>1, <1>2, <1>3, <1>4, QueueKeepsPlaces DEF NotOvertaken

\* What a step does to the pool
PoolMoves ==
  \/ pool' = pool
  \/ \E d \in Clients : pool' = Enter(pool, d) \/ pool' = Leave(pool, d)
  \/ \E d \in Clients, e \in Clients : pool' = Enter(Leave(pool, d), e)

\* What a step does to the line: only who has the turn leaves it.
LineMoves ==
  \/ line' = line
  \/ \E d \in Clients : line' = Append(line, d)
  \/ line # <<>> /\ place[Head(line)] \in InTurn /\ line' = Tail(line)

LEMMA TakeTurnMoves ==
  ASSUME NEW c \in Clients, NEW p, p = pool \/ p = Leave(pool, c), TakeTurn(c, p)
  PROVE  PoolMoves /\ LineMoves
BY DEF TakeTurn, PoolMoves, LineMoves

LEMMA EndTurnMoves ==
  ASSUME PathInv, NEW c \in Clients, place[c] \in InTurn, EndTurn(c)
  PROVE  PoolMoves /\ LineMoves
<1>1. line \in Seq(Clients) /\ 1 \in DOMAIN line /\ line[1] = c
  BY HeadHasTurn DEF PathInv, TypeOK, ShapesOK
<1>2. line # <<>> /\ Head(line) = c /\ DOMAIN line = 1 .. Len(line) /\ Len(line) \in Nat BY <1>1
<1>3. Len(line) # 1 => line[2] \in Clients
  <2>1. Len(line) # 1 => 2 \in DOMAIN line BY <1>1, <1>2
  <2> QED BY <1>1, <2>1
<1> QED BY <1>2, <1>3 DEF EndTurn, PoolMoves, LineMoves

LEMMA StepMoves ==
  ASSUME PathInv, NEW c \in Clients, Arrive(c) \/ Receive(c) \/ Disconnect(c) \/ Serve(c) \/ Sent(c)
  PROVE  PoolMoves /\ LineMoves
<1>1. ASSUME line' = line,
             \/ pool' \in {pool, Enter(pool, c), Leave(pool, c)}
             \/ pool' = Enter(Leave(pool, c), c)
      PROVE  PoolMoves /\ LineMoves
  BY <1>1 DEF PoolMoves, LineMoves
<1>2. CASE Arrive(c)
  <2>1. ASSUME TakeTurn(c, pool) PROVE PoolMoves /\ LineMoves BY <2>1, TakeTurnMoves
  <2> QED BY <1>1, <1>2, <2>1 DEF Arrive, Submit
<1>3. CASE Receive(c)
  <2>1. ASSUME NEW b, Parse(c, b) PROVE PoolMoves /\ LineMoves BY <1>1, <2>1 DEF Parse, Submit
  <2> QED BY <1>1, <1>3, <2>1 DEF Receive
<1>4. CASE Disconnect(c) \/ Sent(c) BY <1>1, <1>4 DEF Disconnect, Sent
<1>5. CASE BodyWithinLimit(c) \/ Manifest(c) \/ Handle(c) \/ SettleOwed(c)
  BY <1>1, <1>5 DEF BodyWithinLimit, Manifest, Handle, SettleOwed, Reply, Resubmit
<1>6. CASE RequireKey(c)
  <2>1. ASSUME TakeTurn(c, Leave(pool, c)) PROVE PoolMoves /\ LineMoves BY <2>1, TakeTurnMoves
  <2> QED BY <1>1, <1>6, <2>1 DEF RequireKey, Reply
<1>7. CASE Connect(c) \/ Close(c)
  <2>1. place[c] \in InTurn BY <1>7 DEF Connect, Close, Runs, InTurn
  <2>2. ASSUME EndTurn(c) PROVE PoolMoves /\ LineMoves BY <2>1, <2>2, EndTurnMoves
  <2> QED BY <1>1, <1>7, <2>2 DEF Connect, Close, Resubmit
<1> QED BY <1>2, <1>3, <1>4, <1>5, <1>6, <1>7 DEF Serve

-----------------------------------------------------------------------------
(* Theorems *)

\* The pool always has every job once, its threads are never idle while a job
\* waits, and every variable keeps its shape (run_in_threadpool under
\* app.py's dependencies and handlers).
THEOREM TypeCorrect == Spec => []TypeOK
<1>1. PathInv => TypeOK BY DEF PathInv
<1> QED BY <1>1, Invariant, PTL

\* Whatever requests arrive and fail, from db.connect to conn.close a request
\* is alone, and who is through has left the line (app.py, get_conn).
THEOREM OneRequestAtATime == Spec => []OneConnection
<1>1. PathInv => OneConnection BY DEF PathInv
<1> QED BY <1>1, Invariant, PTL

\* With any number of clients and threads, who waits for the turn has no
\* thread, and who waits for its client has neither (app.py, get_conn).
THEOREM WaitersHoldNothing == Spec => []WaitingHoldsNothing
<1>1. ASSUME PathInv PROVE WaitingHoldsNothing
  <2> SUFFICES ASSUME NEW c \in Clients
               PROVE  /\ place[c] \in OnClient \cup {"waiting"}
                           => c \notin pool.busy \cup Members(pool.queue)
                      /\ place[c] \in OnClient => c \notin Members(line)
    BY DEF WaitingHoldsNothing
  <2>1. ASSUME place[c] \in OnClient \cup {"waiting"}
        PROVE  c \notin pool.busy \cup Members(pool.queue)
    <3>1. place[c] \notin OnThread BY <2>1 DEF OnClient, OnThread
    <3> QED BY <1>1, <3>1 DEF PathInv, TypeOK, PoolOK, PoolFor
  <2>2. ASSUME place[c] \in OnClient, c \in Members(line) PROVE FALSE
    <3>1. PICK i \in DOMAIN line : line[i] = c BY <2>2 DEF Members
    <3>2. place[c] \in InTurn \cup {"waiting"} BY <1>1, <3>1 DEF PathInv, OneConnection
    <3> QED BY <2>2, <3>2 DEF OnClient, InTurn
  <2> QED BY <2>1, <2>2
<1> QED BY <1>1, Invariant, PTL

\* Whatever the size of the body and the parts it arrives in, a request that
\* was cut off, or has no key where it needs one, is not given the
\* connection (app.py, body_within_limit and require_key before get_conn).
THEOREM OnlyAdmittedAreServed == Spec => []OnlyAdmittedTakeTurns
<1>1. PathInv => OnlyAdmittedTakeTurns BY DEF PathInv
<1> QED BY <1>1, Invariant, PTL

\* However large a body is, in whatever parts it arrives and whatever fails,
\* a request that went over the limit is told so, with or without a key, and
\* no other is (app.py, BodyLimitMiddleware and body_within_limit).
THEOREM OverLimitIsAlwaysRefused == Spec => []OverLimitIsRefused
<1> DEFINE Right(a) == a # None => /\ a.over => a.status \in {413, 422}
                                   /\ a.status = 413 => a.over
<1>1. Init => OverLimitIsRefused BY DEF Init, OverLimitIsRefused
<1>2. ASSUME PathInv, OverLimitIsRefused, [Next]_vars PROVE OverLimitIsRefused'
  <2>1. ASSUME NEW c \in Clients, NEW a, Right(a), answer' = [answer EXCEPT ![c] = a]
        PROVE  OverLimitIsRefused'
    BY <1>2, <2>1 DEF OverLimitIsRefused, PathInv, TypeOK, ShapesOK
  <2>2. ASSUME answer' = answer PROVE OverLimitIsRefused' BY <1>2, <2>2 DEF OverLimitIsRefused
  <2>3. Right(None) OBVIOUS
  <2>4. \A b \in Body :
          /\ b.hit => Right(Said(413, b))
          /\ Right(Said(422, b))
          /\ ~ b.hit => \A status \in {200, 400, 401, 404, 500} : Right(Said(status, b))
    BY Answers
  <2>5. ASSUME NEW c \in Clients
        PROVE  body[c] \in Body /\ (place[c] # "limit" => ~ body[c].hit)
    BY <1>2 DEF PathInv, TypeOK, ShapesOK, HitsAreLooked
  <2> HIDE DEF Right
  <2>6. ASSUME NEW c \in Clients, NEW a, Right(a), Decide(c, a) \/ Reply(c, a)
        PROVE  OverLimitIsRefused'
    BY <2>1, <2>6 DEF Decide, Reply
  <2>7. ASSUME NEW c \in Clients, Arrive(c) PROVE OverLimitIsRefused'
    <3>1. Right(Said(413, Cut(NoBody))) /\ Right(Said(404, NoBody)) BY <2>4, Bodies
    <3> QED BY <2>2, <2>6, <2>7, <3>1 DEF Arrive
  <2>8. ASSUME NEW c \in Clients, Receive(c) PROVE OverLimitIsRefused'
    <3>1. ASSUME NEW b \in Body, Parse(c, b) PROVE OverLimitIsRefused'
      BY <2>2, <2>4, <2>6, <3>1 DEF Parse
    <3>2. PICK n \in 0 .. Limit + 1 :
           \/ Parse(c, Cut(body[c]))
           \/ answer' = answer
           \/ body[c].got + n <= Limit /\ \E longer \in Longer(body[c], n) : Parse(c, longer)
      BY <2>8 DEF Receive
    <3>3. body[c].got + n <= Limit => Longer(body[c], n) \subseteq Body BY <2>5, LongerIsBody
    <3> QED BY <2>2, <2>5, <3>1, <3>2, <3>3, Bodies
  <2>9. ASSUME NEW c \in Clients, Disconnect(c) \/ Sent(c) PROVE OverLimitIsRefused'
    <3>1. CASE Disconnect(c)
      <4>1. Right(Said(400, body[c])) BY <2>4, <2>5, <3>1 DEF Disconnect
      <4> QED BY <2>6, <3>1, <4>1 DEF Disconnect
    <3>2. CASE Sent(c) BY <2>1, <2>3, <3>2 DEF Sent
    <3> QED BY <2>9, <3>1, <3>2
  <2>10. ASSUME NEW c \in Clients, Serve(c) PROVE OverLimitIsRefused'
    <3>1. CASE BodyWithinLimit(c)
      <4>1. body[c].hit => Right(Said(413, body[c])) BY <2>4, <2>5
      <4> QED BY <2>2, <2>6, <3>1, <4>1 DEF BodyWithinLimit
    <3>2. CASE RequireKey(c) \/ Connect(c) \/ Handle(c) \/ Manifest(c)
      <4>1. ~ body[c].hit BY <2>5, <3>2 DEF RequireKey, Connect, Handle, Manifest, Runs
      <4>2. \A status \in {200, 401, 422, 500} : Right(Said(status, body[c])) BY <2>4, <2>5, <4>1
      <4> QED BY <2>2, <2>6, <3>2, <4>2 DEF RequireKey, Connect, Handle, Manifest
    <3>3. CASE SettleOwed(c)
      <4>1. answer[c] \in Answer /\ ~ answer[c].over
        BY <1>2, <3>3 DEF SettleOwed, Runs, PathInv, OwedAreAnswered
      <4> DEFINE a == [answer[c] EXCEPT !.status = 500]
      <4>2. a.status = 500 /\ ~ a.over BY <4>1 DEF Answer
      <4>3. Right(a) BY <4>2 DEF Right
      <4>4. answer' = answer \/ answer' = [answer EXCEPT ![c] = a] BY <3>3 DEF SettleOwed
      <4> QED BY <2>1, <2>2, <4>3, <4>4
    <3>4. CASE Close(c) BY <2>2, <3>4 DEF Close
    <3> QED BY <2>10, <3>1, <3>2, <3>3, <3>4 DEF Serve
  <2>11. CASE UNCHANGED vars BY <2>2, <2>11 DEF vars
  <2> QED BY <1>2, <2>7, <2>8, <2>9, <2>10, <2>11 DEF Next
<1> QED BY <1>1, <1>2, Invariant, PTL DEF Spec

\* With any number of clients and threads, whatever arrives and fails, no
\* request that waits for the lock or for a thread is ever overtaken (app.py,
\* get_conn).
THEOREM NobodyIsOvertaken == Spec => FirstComeFirstServed
<1> DEFINE Kept == \A c \in Clients :
              /\ place[c] = "waiting" => KeepsItsPlace(c, line, line')
              /\ c \in pool'.busy \/ KeepsItsPlace(c, pool.queue, pool'.queue)
<1>1. ASSUME PathInv, [Next]_vars PROVE Kept
  <2>1. PoolMoves /\ LineMoves BY <1>1, StepMoves DEF Next, vars, PoolMoves, LineMoves
  <2>2. line \in Seq(Clients) /\ pool \in PoolType BY <1>1 DEF PathInv, TypeOK, ShapesOK, PoolType
  <2> SUFFICES ASSUME NEW c \in Clients
               PROVE  /\ place[c] = "waiting" => KeepsItsPlace(c, line, line')
                      /\ NotOvertaken(c, pool, pool')
    BY DEF NotOvertaken
  <2>3. NotOvertaken(c, pool, pool') BY <2>1, <2>2, PoolKeepsPlaces DEF PoolMoves
  <2>4. ASSUME place[c] = "waiting" PROVE KeepsItsPlace(c, line, line')
    <3>1. place[Head(line)] \in InTurn => c # Head(line) BY <2>4 DEF InTurn
    <3>2. /\ KeepsItsPlace(c, line, line)
          /\ \A d \in Clients : KeepsItsPlace(c, line, Append(line, d))
          /\ line # <<>> /\ c # Head(line) => KeepsItsPlace(c, line, Tail(line))
      BY <2>2, QueueKeepsPlaces
    <3>3. CASE line' = line BY <3>2, <3>3
    <3>4. CASE \E d \in Clients : line' = Append(line, d) BY <3>2, <3>4
    <3>5. CASE line # <<>> /\ place[Head(line)] \in InTurn /\ line' = Tail(line) BY <3>1, <3>2, <3>5
    <3> QED BY <2>1, <3>3, <3>4, <3>5 DEF LineMoves
  <2> QED BY <2>3, <2>4
<1>2. Kept => [Kept]_vars OBVIOUS
<1> HIDE DEF Kept
<1>3. PathInv /\ [Next]_vars => [Kept]_vars BY <1>1
<1>4. Spec => [][Kept]_vars BY <1>3, Invariant, PTL DEF Spec
<1> QED BY <1>4 DEF Kept, FirstComeFirstServed

\* As long as a request waits for a thread or for the lock, or has the lock,
\* some thread is at work on a job: however few threads there are and however
\* many requests, they never all wait for each other (app.py, get_conn).
SomebodyRuns ==
  (\E c \in Clients : place[c] \in OnThread \cup {"waiting"})
    => \E c \in Clients : place[c] \in OnThread /\ c \in pool.busy

\* SomebodyRuns, for any number of clients and threads (app.py, get_conn)
THEOREM ThereIsNoStandstill == Spec => []SomebodyRuns
<1>1. ASSUME PathInv PROVE SomebodyRuns
  <2> SUFFICES ASSUME NEW c \in Clients, place[c] \in OnThread \cup {"waiting"}
               PROVE  \E d \in Clients : place[d] \in OnThread /\ d \in pool.busy
    BY DEF SomebodyRuns
  <2>1. PoolFor(pool, Jobs) /\ pool \in PoolType /\ line \in Seq(Clients)
    BY <1>1 DEF PathInv, TypeOK, ShapesOK, PoolOK, PoolType, Jobs
  <2>2. Jobs # {}
    <3>1. CASE place[c] \in OnThread BY <3>1 DEF Jobs
    <3>2. CASE place[c] = "waiting"
      <4>1. PICK i \in DOMAIN line : line[i] = c BY <1>1, <3>2 DEF PathInv, OneConnection, Members
      <4>2. 1 \in DOMAIN line /\ line[1] \in Clients BY <2>1, <4>1
      <4>3. place[line[1]] \in InTurn BY <1>1, <4>2 DEF PathInv, OneConnection
      <4> QED BY <4>2, <4>3 DEF InTurn, OnThread, Jobs
    <3> QED BY <3>1, <3>2
  <2>3. pool.busy # {}
    <3>1. CASE pool.queue = <<>>
      <4>1. Members(pool.queue) = {} BY <3>1 DEF Members
      <4> QED BY <2>1, <2>2, <4>1 DEF PoolFor
    <3>2. CASE pool.queue # <<>>
      <4>1. Cardinality(pool.busy) = Workers BY <2>1, <3>2 DEF PoolFor
      <4> QED BY <4>1, FS_EmptySet
    <3> QED BY <3>1, <3>2
  <2>4. pool.busy \subseteq Jobs BY <2>1 DEF PoolFor
  <2> QED BY <2>3, <2>4 DEF Jobs
<1> QED BY <1>1, Invariant, PTL
=============================================================================
